------------------------------ MODULE Algorithms ------------------------------
(***************************************************************************)
(* The functions on slices and strings, each checked against what it is to *)
(* return, for every list of pairs of digits up to a bound.  What a digit  *)
(* stands for is said at each function.  A loop is a function of the       *)
(* elements it has been through.                                           *)
(***************************************************************************)
EXTENDS Integers, Sequences, SequencesExt, FiniteSets, FiniteSetsExt

CONSTANTS
  Digits,
  MaxLen   \* bound: the number of pairs

ASSUME DigitsAssumption == Digits \subseteq Int

VARIABLE list  \* of pairs of digits: they are intervals, or records

NoList == list = <<>>

(* What a slice is given: one more pair.                                    *)
Grow ==
  /\ Len(list) < MaxLen
  /\ \E x, y \in Digits : list' = Append(list, <<x, y>>)

(* The digits of the list, one after the other.                             *)
Flat == [k \in 1..(2 * Len(list)) |-> list[(k + 1) \div 2][2 - (k % 2)]]

-----------------------------------------------------------------------------
(* sort.Slice (external) inserts one by one, up to twelve elements: each    *)
(* goes down past those it is less than.  less is a set of pairs.           *)
Insert(s, x, less) ==
  LET stop == Max({0} \cup {k \in DOMAIN s : <<x, s[k]>> \notin less})
  IN InsertAt(s, stop + 1, x)

SortBy(s, less) ==
  LET done[k \in 0..Len(s)] == IF k = 0 THEN <<>> ELSE Insert(done[k - 1], s[k], less)
  IN done[Len(s)]

(* interview-problems/medium/01-merge-intervals, lines 20-29                *)
Absorb(result, curr) ==
  IF curr[1] <= Last(result)[2]
    THEN [result EXCEPT ![Len(result)][2] = Max({@, curr[2]})]
    ELSE Append(result, curr)

MergeIntervals(s) ==
  IF Len(s) <= 1 THEN s
  ELSE LET sorted == SortBy(s, {r \in ToSet(s) \X ToSet(s) : r[1][1] < r[2][1]})
           merged[k \in 1..Len(s)] ==
             IF k = 1 THEN <<sorted[1]>> ELSE Absorb(merged[k - 1], sorted[k])
       IN merged[Len(s)]

(* The points of a list of intervals; doubled, to tell [1,2] [3,4] from     *)
(* [1,4].                                                                   *)
Points(s) == UNION {(2 * s[k][1])..(2 * s[k][2]) : k \in DOMAIN s}

(* The merged intervals cover what the given ones do, and each ends before  *)
(* the next begins, in order.                                               *)
MergesRight ==
  (\A k \in DOMAIN list : list[k][1] <= list[k][2]) =>
    LET m == MergeIntervals(list)
    IN /\ Points(m) = Points(list)
       /\ \A k \in 2..Len(m) : m[k - 1][2] < m[k][1]

-----------------------------------------------------------------------------
(* 01-fundamentals/exercises/medium/01-custom-sort, lines 54-72: descending *)
(* is the negation of less, which holds of equals too                       *)
FieldLess_Swapped(p, q, ascending) == IF ascending THEN p[1] < q[1] ELSE p[1] > q[1]

FieldLess(p, q, ascending) == IF ascending THEN p[1] < q[1] ELSE ~(p[1] < q[1])

(* lines 26-52: the field is its kind; an empty list is never an error      *)
SortByField(s, field, ascending) ==
  IF s = <<>> THEN <<>>
  ELSE IF field \notin {"int", "float", "string"} THEN "error"
  ELSE SortBy(s, {r \in ToSet(s) \X ToSet(s) : FieldLess(r[1], r[2], ascending)})

(* SortByField keeps the records, in order of the field; equals keep their  *)
(* order when it ascends and lose it when it descends: the two results      *)
(* mirror each other, though sort.Slice is given no proper order.  Of more  *)
(* than twelve it promises no order of equals.                              *)
SortsRight ==
  Len(list) <= 12 =>
    LET records == [k \in DOMAIN list |-> <<list[k][1], k>>]
        up == SortByField(records, "int", TRUE)
    IN /\ ToSet(up) = ToSet(records) /\ Len(up) = Len(records)
       /\ \A k \in 2..Len(up) :
            \/ up[k - 1][1] < up[k][1]
            \/ up[k - 1][1] = up[k][1] /\ up[k - 1][2] < up[k][2]
       /\ SortByField(records, "int", FALSE) = Reverse(up)

(* Both functions that sort.                                                *)
SortedRight == MergesRight /\ SortsRight

-----------------------------------------------------------------------------
(* interview-problems/easy/01-two-sum, lines 3-16: the first place whose    *)
(* complement the map has; places begin at 0                                *)
TwoSum_SeenFirst(nums, target) ==
  LET seen[k \in 0..Len(nums)] ==
        IF k = 0 THEN <<>>
        ELSE LET before == seen[k - 1]
             IN [v \in DOMAIN before \cup {nums[k]} |-> IF v = nums[k] THEN k - 1 ELSE before[v]]
      hits == {i \in DOMAIN nums : target - nums[i] \in DOMAIN seen[i]}
  IN IF hits = {} THEN <<-1, -1>>
     ELSE LET i == Min(hits) IN <<seen[i][target - nums[i]], i - 1>>

TwoSum(nums, target) ==
  LET seen[k \in 0..Len(nums)] ==
        IF k = 0 THEN <<>>
        ELSE LET before == seen[k - 1]
             IN [v \in DOMAIN before \cup {nums[k]} |-> IF v = nums[k] THEN k - 1 ELSE before[v]]
      hits == {i \in DOMAIN nums : target - nums[i] \in DOMAIN seen[i - 1]}
  IN IF hits = {} THEN <<-1, -1>>
     ELSE LET i == Min(hits) IN <<seen[i - 1][target - nums[i]], i - 1>>

(* 01-fundamentals/exercises/easy/02-unique-elements, lines 10-20           *)
Unique(s) ==
  LET result[k \in 0..Len(s)] ==
        IF k = 0 THEN <<>>
        ELSE LET before == result[k - 1]
             IN IF Contains(before, s[k]) THEN before ELSE Append(before, s[k])
  IN result[Len(s)]

(* 08-generics/exercises/easy/01-min-max, lines 24-37                       *)
MinSlice(s) ==
  LET min[k \in 1..Len(s)] ==
        IF k = 1 THEN s[1] ELSE LET m == min[k - 1] IN IF s[k] < m THEN s[k] ELSE m
  IN IF s = <<>> THEN "error" ELSE min[Len(s)]

(* interview-problems/easy/02-palindrome, lines 8-22: 0 is a letter, 1 the  *)
(* same in upper case, 3 a space                                            *)
Lower(r) == IF r = 1 THEN 0 ELSE r

IsPalindrome(s) ==
  LET cleaned[k \in 0..Len(s)] ==
        IF k = 0 THEN <<>>
        ELSE IF s[k] = 3 THEN cleaned[k - 1] ELSE Append(cleaned[k - 1], Lower(s[k]))
      runes == cleaned[Len(s)]
  IN \A i \in 1..(Len(runes) \div 2) : runes[i] = runes[Len(runes) + 1 - i]

(* 01-fundamentals/exercises/easy/01-reverse-slice, lines 10-14             *)
ReverseSlice(s) == [k \in DOMAIN s |-> s[Len(s) + 1 - k]]

(* The first place of a value, 0 when it has none.                          *)
Index(s, v) == SelectInSeq(s, LAMBDA x : x = v)

(* TwoSum finds the pair of two places whose second is the smallest, when   *)
(* there is one.                                                            *)
TwoSumRight(target) ==
  LET r == TwoSum(Flat, target)
      pairs == {p \in (DOMAIN Flat) \X (DOMAIN Flat) :
                  p[1] < p[2] /\ Flat[p[1]] + Flat[p[2]] = target}
  IN IF pairs = {} THEN r = <<-1, -1>>
     ELSE <<r[1] + 1, r[2] + 1>> \in pairs /\ \A p \in pairs : r[2] < p[2]

(* Unique has each value once, in the order in which they first appear.     *)
UniqueRight ==
  LET u == Unique(Flat)
  IN /\ ToSet(u) = ToSet(Flat) /\ IsInjective(u)
     /\ \A k \in 2..Len(u) : Index(Flat, u[k - 1]) < Index(Flat, u[k])

(* A text is a palindrome if, and only if, each two of its letters, one as  *)
(* far from the first as the other is from the last, are the same in lower  *)
(* case.                                                                    *)
PalindromeRight ==
  LET letters == {k \in DOMAIN Flat : Flat[k] # 3}
      Before(p) == Cardinality({k \in letters : k < p})
      After(q) == Cardinality({k \in letters : k > q})
  IN IsPalindrome(Flat)
       <=> \A p, q \in letters : Before(p) = After(q) => Lower(Flat[p]) = Lower(Flat[q])

(* The scans of a slice find what there is to find; what is reversed twice  *)
(* is what it was.                                                          *)
ScansRight ==
  /\ \A target \in 0..6 : TwoSumRight(target)
  /\ UniqueRight
  /\ MinSlice(Flat) = IF Flat = <<>> THEN "error" ELSE Min(ToSet(Flat))
  /\ PalindromeRight
  /\ ReverseSlice(ReverseSlice(Flat)) = Flat
=============================================================================
