---------------------------- MODULE HistoryProofs ----------------------------
(***************************************************************************)
(* Proofs about the request history, for every policy, every pair of       *)
(* limits, every message size and any number of turns and compactions.     *)
(***************************************************************************)
EXTENDS History, FiniteSetTheorems, TLAPS

-----------------------------------------------------------------------------
(* Smallest and largest, and the items of a list at some of its positions. *)

(* Naturals are well ordered: induction is by the smallest counterexample. *)
LEMMA Least ==
  ASSUME NEW S, S \subseteq Nat, S # {}
  PROVE  \E n \in S : \A m \in S : n <= m
<1> DEFINE R == OpToRel(<, Nat)
<1>1. \A x, y \in Nat : <<x, y>> \in R <=> x < y
  BY DEF OpToRel
<1>2. IsWellFoundedOn(R, Nat)
  BY NatLessThanWellFounded
<1> HIDE DEF R
<1>3. \E n \in S : \A m \in S : ~(<<m, n>> \in R)
  BY <1>2, WFMin
<1>4. PICK n \in S : \A m \in S : ~(<<m, n>> \in R)
  BY <1>3
<1>5. \A m \in S : m \in Nat /\ ~(m < n)
  BY <1>1, <1>4
<1> QED
  BY <1>5

(* Min is the least element of a set of naturals.                          *)
LEMMA MinIs ==
  ASSUME NEW S, S \subseteq Nat, S # {}
  PROVE  Min(S) \in S /\ \A y \in S : Min(S) <= y
<1>1. \E x \in S : \A y \in S : x <= y
  BY Least
<1> QED
  BY <1>1 DEF Min

(* Max is the greatest element of a bounded set of naturals.               *)
LEMMA MaxIs ==
  ASSUME NEW S, S \subseteq Nat, S # {}, NEW b \in Nat, \A x \in S : x <= b
  PROVE  Max(S) \in S /\ \A y \in S : Max(S) >= y
<1> DEFINE M == {n \in Nat : \E x \in S : x = b - n}
<1>1. PICK x \in S : TRUE
  OBVIOUS
<1>2. b - x \in M
  OBVIOUS
<1>3. PICK n \in M : \A m \in M : n <= m
  BY <1>2, Least
<1>4. b - n \in S /\ \A y \in S : b - n >= y
  <2>1. b - n \in S
    OBVIOUS
  <2>2. ASSUME NEW y \in S PROVE b - n >= y
    <3>1. b - y \in M
      OBVIOUS
    <3>2. n <= b - y /\ n \in Nat /\ y \in Nat
      BY <3>1, <1>3
    <3> QED BY <3>2
  <2> QED BY <2>1, <2>2
<1>5. \E z \in S : \A y \in S : z >= y
  BY <1>4
<1> QED
  BY <1>5 DEF Max

(* Nth counts through a finite set of positions, upwards.                  *)
LEMMA NthIs ==
  ASSUME NEW S, S \subseteq Nat, IsFiniteSet(S)
  PROVE  /\ Cardinality(S) \in Nat
         /\ \A k \in 1..Cardinality(S) : Nth(S, k) \in S
         /\ \A i \in S : \E k \in 1..Cardinality(S) : Nth(S, k) = i
         /\ \A k, l \in 1..Cardinality(S) : k < l <=> Nth(S, k) < Nth(S, l)
         /\ \A k, l \in 1..Cardinality(S) : k = l <=> Nth(S, k) = Nth(S, l)
<1> DEFINE Low(i) == {j \in S : j <= i}
           n      == Cardinality(S)
           rank   == [i \in S |-> Cardinality(Low(i))]
<1>1. n \in Nat
  BY FS_CardinalityType
<1>2. \A i \in S : rank[i] \in 1..n
  <2> TAKE i \in S
  <2>1. Low(i) \in SUBSET S /\ i \in Low(i)
    OBVIOUS
  <2>2. IsFiniteSet(Low(i)) /\ Cardinality(Low(i)) <= n
    BY <2>1, FS_Subset
  <2>3. Cardinality(Low(i)) \in Nat /\ Cardinality(Low(i)) # 0
    BY <2>1, <2>2, FS_CardinalityType, FS_EmptySet
  <2> QED BY <1>1, <2>2, <2>3
<1>3. \A i, j \in S : i < j => rank[i] < rank[j]
  <2> TAKE i, j \in S
  <2> HAVE i < j
  <2>1. IsFiniteSet(Low(j))
    <3>1. Low(j) \in SUBSET S OBVIOUS
    <3> QED BY <3>1, FS_Subset
  <2>2. Low(i) \in SUBSET Low(j) /\ Low(j) # Low(i)
    <3>1. j \in Low(j) /\ j \notin Low(i)
      OBVIOUS
    <3>2. \A x \in Low(i) : x \in Low(j)
      OBVIOUS
    <3> HIDE DEF Low
    <3> QED BY <3>1, <3>2
  <2>3. Cardinality(Low(i)) <= Cardinality(Low(j)) /\ Cardinality(Low(j)) # Cardinality(Low(i))
    BY <2>1, <2>2, FS_Subset
  <2>4. rank[i] \in 1..n /\ rank[j] \in 1..n
    BY <1>2
  <2> HIDE DEF Low, n
  <2> QED BY <2>3, <2>4, <1>1
<1>4. rank \in Injection(S, 1..n)
  <2>1. rank \in [S -> 1..n]
    BY <1>2
  <2>2. \A i, j \in S : rank[i] = rank[j] => i = j
    <3> TAKE i, j \in S
    <3>1. i \in Nat /\ j \in Nat OBVIOUS
    <3>2. rank[i] \in Int /\ rank[j] \in Int
      BY <1>1, <1>2
    <3> HIDE DEF rank
    <3> QED BY <3>1, <3>2, <1>3
  <2> HIDE DEF rank
  <2> QED BY <2>1, <2>2 DEF Injection, IsInjective
<1>5. rank \in Surjection(S, 1..n)
  <2>1. IsFiniteSet(1..n) /\ Cardinality(1..n) = n
    <3>1. 1 \in Int /\ n \in Int
      BY <1>1
    <3>2. /\ IsFiniteSet(1..n)
          /\ Cardinality(1..n) = IF 1 > n THEN 0 ELSE n - 1 + 1
      BY <3>1, FS_Interval
    <3> HIDE DEF n
    <3> QED BY <3>2, <1>1
  <2> HIDE DEF rank
  <2> QED BY <2>1, <1>4, FS_Injection
<1>6. \A k \in 1..n : Nth(S, k) \in S /\ rank[Nth(S, k)] = k
  <2> TAKE k \in 1..n
  <2>1. \E i \in S : rank[i] = k
    BY <1>5 DEF Surjection
  <2>2. \E i \in S : Cardinality({j \in S : j <= i}) = k
    BY <2>1
  <2>3. Nth(S, k) \in S /\ Cardinality({j \in S : j <= Nth(S, k)}) = k
    BY <2>2 DEF Nth
  <2> QED BY <2>3
<1>7. \A i \in S : Nth(S, rank[i]) = i
  <2> TAKE i \in S
  <2>1. rank[i] \in 1..n
    BY <1>2
  <2>2. Nth(S, rank[i]) \in S /\ rank[Nth(S, rank[i])] = rank[i]
    BY <2>1, <1>6
  <2> HIDE DEF rank
  <2> QED BY <2>2, <1>4 DEF Injection, IsInjective
<1> HIDE DEF rank, n
<1>8. \A k, l \in 1..n : k = l <=> Nth(S, k) = Nth(S, l)
  BY <1>6
<1>9. \A k, l \in 1..n : k < l <=> Nth(S, k) < Nth(S, l)
  <2> TAKE k, l \in 1..n
  <2>1. Nth(S, k) \in S /\ Nth(S, l) \in S /\ rank[Nth(S, k)] = k /\ rank[Nth(S, l)] = l
    BY <1>6
  <2>2. Nth(S, k) \in Nat /\ Nth(S, l) \in Nat
    BY <2>1
  <2>3. /\ Nth(S, k) < Nth(S, l) => k < l
        /\ Nth(S, l) < Nth(S, k) => l < k
    BY <2>1, <1>3
  <2> QED BY <2>2, <2>3, <1>8
<1> QED
  BY <1>1, <1>2, <1>6, <1>7, <1>8, <1>9 DEF n

(* A function on an initial segment of the naturals is a sequence.         *)
LEMMA FcnSeq ==
  ASSUME NEW S, NEW n \in Nat, NEW f \in [1..n -> S]
  PROVE  f \in Seq(S) /\ Len(f) = n /\ DOMAIN f = 1..n
OBVIOUS

(* The k-th smallest of a+1..b is a+k.                                     *)
LEMMA NthFrom ==
  ASSUME NEW a \in Nat, NEW b \in Nat, a <= b
  PROVE  /\ IsFiniteSet((a + 1)..b)
         /\ Cardinality((a + 1)..b) = b - a
         /\ \A k \in 1..(b - a) : Nth((a + 1)..b, k) = a + k
<1> DEFINE S == (a + 1)..b
<1>1. \A i \in a..b : IsFiniteSet((a + 1)..i) /\ Cardinality((a + 1)..i) = i - a
  <2> TAKE i \in a..b
  <2>1. IsFiniteSet((a + 1)..i)
        /\ Cardinality((a + 1)..i) = IF a + 1 > i THEN 0 ELSE i - (a + 1) + 1
    BY FS_Interval
  <2> QED BY <2>1
<1>2. ASSUME NEW k \in 1..(b - a) PROVE Nth(S, k) = a + k
  <2>1. \A i \in S : {j \in S : j <= i} = (a + 1)..i
    OBVIOUS
  <2>2. \A i \in S : Cardinality({j \in S : j <= i}) = i - a
    <3> TAKE i \in S
    <3>1. Cardinality((a + 1)..i) = i - a
      BY <1>1
    <3>2. {j \in S : j <= i} = (a + 1)..i
      BY <2>1
    <3> QED BY <3>1, <3>2
  <2>3. a + k \in S /\ \A i \in S : i - a = k => i = a + k
    OBVIOUS
  <2> HIDE DEF S
  <2>4. Nth(S, k) \in S /\ Cardinality({j \in S : j <= Nth(S, k)}) = k
    <3>1. \E i \in S : Cardinality({j \in S : j <= i}) = k
      <4>1. Cardinality({j \in S : j <= a + k}) = (a + k) - a
        BY <2>2, <2>3
      <4>2. (a + k) - a = k
        OBVIOUS
      <4> QED BY <2>3, <4>1, <4>2
    <3> QED BY <3>1 DEF Nth
  <2>5. Cardinality({j \in S : j <= Nth(S, k)}) = Nth(S, k) - a
    BY <2>2, <2>4
  <2> QED BY <2>3, <2>4, <2>5
<1>3. IsFiniteSet(S) /\ Cardinality(S) = b - a
  BY <1>1
<1> QED
  BY <1>2, <1>3

(* The k-th smallest of 1..q is k.                                         *)
LEMMA NthInterval ==
  ASSUME NEW q \in Nat
  PROVE  /\ IsFiniteSet(1..q)
         /\ Cardinality(1..q) = q
         /\ \A k \in 1..q : Nth(1..q, k) = k
<1>1. /\ IsFiniteSet((0 + 1)..q)
      /\ Cardinality((0 + 1)..q) = q - 0
      /\ \A k \in 1..(q - 0) : Nth((0 + 1)..q, k) = 0 + k
  <2>1. 0 \in Nat /\ 0 <= q
    OBVIOUS
  <2> QED BY <2>1, NthFrom
<1>2. (0 + 1)..q = 1..q /\ q - 0 = q /\ \A k \in 1..q : 0 + k = k
  OBVIOUS
<1> QED
  BY <1>1, <1>2

(* At lists the items at the given positions, in order.                    *)
LEMMA AtIs ==
  ASSUME NEW S, NEW list \in Seq(S), NEW P, P \subseteq 1..Len(list)
  PROVE  /\ IsFiniteSet(P)
         /\ Cardinality(P) \in Nat
         /\ At(list, P) \in Seq(S)
         /\ Len(At(list, P)) = Cardinality(P)
         /\ DOMAIN At(list, P) = 1..Cardinality(P)
         /\ \A k \in 1..Cardinality(P) :
               Nth(P, k) \in P /\ At(list, P)[k] = list[Nth(P, k)]
<1>1. IsFiniteSet(1..Len(list)) /\ P \in SUBSET (1..Len(list)) /\ P \subseteq Nat
  BY NthInterval
<1>2. IsFiniteSet(P)
  BY <1>1, FS_Subset
<1>3. Cardinality(P) \in Nat /\ \A k \in 1..Cardinality(P) : Nth(P, k) \in P
  BY <1>1, <1>2, NthIs
<1>4. \A k \in 1..Cardinality(P) : list[Nth(P, k)] \in S
  <2>1. \A i \in 1..Len(list) : list[i] \in S
    OBVIOUS
  <2> QED BY <2>1, <1>3
<1>5. At(list, P) = [k \in 1..Cardinality(P) |-> list[Nth(P, k)]]
  BY DEF At
<1>6. At(list, P) \in [1..Cardinality(P) -> S]
  BY <1>4, <1>5
<1>7. At(list, P) \in Seq(S) /\ Len(At(list, P)) = Cardinality(P)
      /\ DOMAIN At(list, P) = 1..Cardinality(P)
  BY <1>3, <1>6, FcnSeq
<1> QED
  BY <1>2, <1>3, <1>5, <1>7

(* Where item k of a list with the positions P replaced came from; the     *)
(* replacing item itself, at Min(P), counts as coming from there.          *)
After(n, P) == {i \in 1..n : i > Min(P)} \ P
From(n, P, k) == IF k <= Min(P) THEN k ELSE Nth(After(n, P), k - Min(P))

\* R is list with what was at the positions P replaced by item.
IsReplaced(R, list, P, item) ==
    LET n == Len(list)
    IN  /\ Min(P) \in P
        /\ \A p \in P : Min(P) <= p
        /\ Cardinality(After(n, P)) \in Nat
        /\ Len(R) = Min(P) + Cardinality(After(n, P))
        /\ R[Min(P)] = item
        /\ \A k \in 1..Len(R) : k # Min(P) =>
              R[k] = list[From(n, P, k)] /\ From(n, P, k) \in (1..n) \ P
        /\ From(n, P, Min(P)) = Min(P)
        /\ \A k \in 1..Len(R) : From(n, P, k) \in 1..n
        /\ \A k, l \in 1..Len(R) : k < l => From(n, P, k) < From(n, P, l)
        /\ \A i \in (1..n) \ P : \E k \in 1..Len(R) : k # Min(P) /\ From(n, P, k) = i

(* Replaced puts one item where the first position was and drops the rest. *)
LEMMA ReplacedIs ==
  ASSUME NEW S, NEW list \in Seq(S), NEW P, P \subseteq 1..Len(list), P # {},
         NEW item \in S
  PROVE  /\ Replaced(list, P, item) \in Seq(S)
         /\ IsReplaced(Replaced(list, P, item), list, P, item)
<1> DEFINE R == Replaced(list, P, item)
           n == Len(list)
           m == Min(P)
           A == After(n, P)
           c == Cardinality(A)
           front == At(list, 1..(m - 1))
           rest  == At(list, A)
<1>1. n \in Nat /\ m \in P /\ m \in 1..n /\ \A p \in P : m <= p
  <2>1. n \in Nat /\ P \subseteq Nat
    OBVIOUS
  <2>2. m \in P /\ \A p \in P : m <= p
    BY <2>1, MinIs
  <2> QED BY <2>1, <2>2
<1> HIDE DEF m
<1>2. A \subseteq 1..n /\ A \cap P = {} /\ \A i \in A : i > m
  BY DEF After, m
<1>3. /\ c \in Nat /\ rest \in Seq(S) /\ Len(rest) = c
      /\ \A k \in 1..c : Nth(A, k) \in A /\ rest[k] = list[Nth(A, k)]
  BY <1>2, AtIs
<1>4. IsFiniteSet(A) /\ A \subseteq Nat
  BY <1>2, AtIs
<1>5. /\ \A i \in A : \E k \in 1..c : Nth(A, k) = i
      /\ \A k, l \in 1..c : k < l => Nth(A, k) < Nth(A, l)
  BY <1>4, NthIs
<1>6. /\ m - 1 \in Nat /\ front \in Seq(S) /\ Len(front) = m - 1
      /\ \A k \in 1..(m - 1) : front[k] = list[k]
  <2>1. m - 1 \in Nat /\ 1..(m - 1) \subseteq 1..n
    BY <1>1
  <2>2. Cardinality(1..(m - 1)) = m - 1 /\ \A k \in 1..(m - 1) : Nth(1..(m - 1), k) = k
    BY <2>1, NthInterval
  <2> QED BY <2>1, <2>2, AtIs
<1>7. R = front \o <<item>> \o rest
  <2>1. {i \in DOMAIN list : i > m} \ P = A
    BY DEF After, m
  <2> QED BY <2>1 DEF Replaced, m
<1> HIDE DEF front, rest, A, n, c, R
<1>8. /\ R \in Seq(S) /\ Len(R) = m + c
      /\ R[m] = item
      /\ \A k \in 1..(m - 1) : R[k] = list[k]
      /\ \A k \in 1..c : R[m + k] = list[Nth(A, k)]
  <2>1. <<item>> \in Seq(S) /\ Len(<<item>>) = 1
    OBVIOUS
  <2>2. front \o <<item>> \in Seq(S) /\ Len(front \o <<item>>) = m
        /\ (front \o <<item>>)[m] = item
        /\ \A k \in 1..(m - 1) : (front \o <<item>>)[k] = list[k]
    BY <1>1, <1>6, <2>1
  <2>3. R \in Seq(S) /\ Len(R) = m + c
    BY <1>1, <2>2, <1>3, <1>7
  <2>4. /\ \A k \in 1..m : R[k] = (front \o <<item>>)[k]
        /\ \A k \in 1..c : R[m + k] = rest[k]
    BY <1>1, <2>2, <1>3, <1>7
  <2> QED BY <2>2, <2>3, <2>4, <1>1, <1>3
<1>9. \A k \in 1..(m + c) : From(n, P, k) = IF k <= m THEN k ELSE Nth(A, k - m)
  BY DEF From, A, m
<1>10. \A k \in 1..(m + c) : k > m => k - m \in 1..c /\ k = m + (k - m)
  BY <1>1, <1>3
<1>11. \A k \in 1..(m + c) : k # m =>
          R[k] = list[From(n, P, k)] /\ From(n, P, k) \in (1..n) \ P
  <2> TAKE k \in 1..(m + c)
  <2> HAVE k # m
  <2>1. CASE k < m
    <3>1. From(n, P, k) = k /\ k \in 1..(m - 1) /\ k \in 1..n /\ k \notin P
      BY <1>1, <1>9, <2>1
    <3> QED BY <3>1, <1>8
  <2>2. CASE k > m
    <3>1. From(n, P, k) = Nth(A, k - m) /\ k - m \in 1..c /\ k = m + (k - m)
      BY <1>1, <1>9, <1>10, <2>2
    <3>2. Nth(A, k - m) \in A /\ R[m + (k - m)] = list[Nth(A, k - m)]
      BY <3>1, <1>3, <1>8
    <3> QED BY <3>1, <3>2, <1>2
  <2> QED BY <2>1, <2>2, <1>1
<1>12. From(n, P, m) = m
  BY <1>1, <1>9, <1>3
<1>13. \A k \in 1..(m + c) : From(n, P, k) \in 1..n
  BY <1>1, <1>11, <1>12
<1>14. \A k, l \in 1..(m + c) : k < l => From(n, P, k) < From(n, P, l)
  <2> TAKE k, l \in 1..(m + c)
  <2> HAVE k < l
  <2>1. CASE l <= m
    BY <2>1, <1>1, <1>9
  <2>2. CASE l > m /\ k <= m
    <3>1. From(n, P, l) = Nth(A, l - m) /\ l - m \in 1..c /\ From(n, P, k) = k
      BY <2>2, <1>1, <1>9, <1>10
    <3>2. Nth(A, l - m) > m /\ Nth(A, l - m) \in 1..n
      BY <3>1, <1>3, <1>2
    <3> QED BY <3>1, <3>2, <2>2, <1>1
  <2>3. CASE l > m /\ k > m
    <3>1. From(n, P, l) = Nth(A, l - m) /\ l - m \in 1..c
      BY <2>3, <1>1, <1>9, <1>10
    <3>2. From(n, P, k) = Nth(A, k - m) /\ k - m \in 1..c /\ k - m < l - m
      BY <2>3, <1>1, <1>9, <1>10
    <3> QED BY <3>1, <3>2, <1>5
  <2> QED BY <2>1, <2>2, <2>3, <1>1, <1>3
<1>15. \A i \in (1..n) \ P : \E k \in 1..(m + c) : k # m /\ From(n, P, k) = i
  <2> TAKE i \in (1..n) \ P
  <2>1. CASE i < m
    <3>1. i \in 1..(m + c) /\ From(n, P, i) = i
      BY <2>1, <1>1, <1>3, <1>9
    <3> QED BY <3>1, <2>1, <1>1
  <2>2. CASE i > m
    <3>1. i \in A
      BY <2>2 DEF A, After, m, n
    <3>2. PICK k \in 1..c : Nth(A, k) = i
      BY <3>1, <1>5
    <3>3. m + k \in 1..(m + c) /\ m + k # m /\ m + k > m /\ (m + k) - m = k
      BY <1>1, <1>3
    <3>4. From(n, P, m + k) = i
      BY <3>2, <3>3, <1>9, <1>1
    <3> QED BY <3>3, <3>4
  <2> QED BY <2>1, <2>2, <1>1
<1>16. Cardinality(After(n, P)) = c
  BY DEF c, A
<1> QED
  BY <1>1, <1>3, <1>8, <1>11, <1>12, <1>13, <1>14, <1>15, <1>16 DEF m, R, n, IsReplaced

-----------------------------------------------------------------------------
(* What a plan is.                                                         *)

Message == [role : {"system", "user", "assistant", "tool"}, size : Nat, ref : Int]

\* Messages i and j of a list, i not after j, belong to one turn of it.
Together(messages, i, j) ==
    /\ i <= j
    /\ \A a \in DOMAIN messages : i < a /\ a <= j => messages[a].role # "assistant"

\* Of the positions loose, set holds those that, from the newest back, were
\* allowed (in Good) with the newer ones taken.
Taken(set, loose, Good) ==
    \A i \in loose : i \in set <=> ({j \in set : j > i} \cup {i}) \in Good

(* Taking from the newest back whatever is still allowed is always defined.*)
LEMMA Greedy ==
  ASSUME NEW n \in Nat, NEW loose, loose \subseteq 1..n, NEW Good
  PROVE  \E set \in SUBSET loose : Taken(set, loose, Good)
<1> USE DEF Taken
<1> DEFINE Done(q, set) ==
              \A i \in loose : i > q =>
                 (i \in set <=> ({j \in set : j > i} \cup {i}) \in Good)
           B == {q \in 0..n : \E set \in SUBSET {i \in loose : i > q} : Done(q, set)}
<1>1. n \in B
  <2>1. {} \in SUBSET {i \in loose : i > n} /\ Done(n, {})
    OBVIOUS
  <2>2. n \in 0..n
    OBVIOUS
  <2> HIDE DEF Done
  <2> QED BY <2>1, <2>2
<1>2. PICK q \in B : \A m \in B : q <= m
  <2>0. B \subseteq 0..n
    <3> HIDE DEF Done
    <3> QED OBVIOUS
  <2>1. B \subseteq Nat /\ B # {}
    <3> HIDE DEF B
    <3> QED BY <1>1, <2>0
  <2> HIDE DEF B
  <2> QED BY <2>1, Least
<1>3. PICK set \in SUBSET {i \in loose : i > q} : Done(q, set)
  OBVIOUS
<1>6. q \in Nat /\ \A j \in set : j \in Nat /\ j > q
  OBVIOUS
<1>4. CASE q = 0
  BY <1>3, <1>4
<1>5. CASE q # 0
  <2>1. q \in 1..n /\ q - 1 \in 0..n /\ q - 1 \notin B
    <3>1. q \in 1..n /\ q - 1 \in 0..n /\ ~(q <= q - 1)
      BY <1>5
    <3> HIDE DEF B
    <3> QED BY <3>1, <1>2
  <2>2. \A i \in loose : i \in Nat /\ (i > q - 1 <=> i > q \/ i = q)
    BY <2>1
  <2>3. CASE q \in loose /\ (set \cup {q}) \in Good
    <3> DEFINE new == set \cup {q}
    <3>1. new \in SUBSET {i \in loose : i > q - 1}
      BY <2>2, <2>3
    <3>2. \A i \in loose : i > q => {j \in new : j > i} = {j \in set : j > i}
      BY <2>1
    <3>3. {j \in new : j > q} = set
      <4>1. ~(q > q)
        BY <1>6
      <4> QED BY <4>1, <1>6
    <3>4. \A i \in loose : i > q => (i \in new <=> i \in set)
      BY <2>1
    <3>5. Done(q - 1, new)
      <4> SUFFICES ASSUME NEW i \in loose, i > q - 1
                   PROVE  i \in new <=> ({j \in new : j > i} \cup {i}) \in Good
        OBVIOUS
      <4>1. CASE i = q
        <5>1. i \in new
          BY <4>1
        <5>2. {j \in new : j > i} \cup {i} = set \cup {q}
          BY <3>3, <4>1
        <5> HIDE DEF new
        <5> QED BY <5>1, <5>2, <2>3
      <4>2. CASE i > q
        <5>1. i \in set <=> ({j \in set : j > i} \cup {i}) \in Good
          BY <1>3, <4>2
        <5>2. {j \in new : j > i} = {j \in set : j > i} /\ (i \in new <=> i \in set)
          BY <4>2, <3>2, <3>4
        <5> HIDE DEF new
        <5> QED BY <5>1, <5>2
      <4> QED BY <4>1, <4>2, <2>2
    <3> HIDE DEF new, Done
    <3> QED BY <3>1, <3>5, <2>1
  <2>4. CASE ~(q \in loose /\ (set \cup {q}) \in Good)
    <3>1. set \in SUBSET {i \in loose : i > q - 1}
      BY <2>2
    <3>2. q \notin set /\ {j \in set : j > q} = set
      <4>1. ~(q > q)
        BY <1>6
      <4> QED BY <4>1, <1>6
    <3>3. Done(q - 1, set)
      <4> SUFFICES ASSUME NEW i \in loose, i > q - 1
                   PROVE  i \in set <=> ({j \in set : j > i} \cup {i}) \in Good
        OBVIOUS
      <4>1. CASE i = q
        BY <4>1, <3>2, <2>4
      <4>2. CASE i > q
        BY <1>3, <4>2
      <4> QED BY <4>1, <4>2, <2>2
    <3> HIDE DEF Done
    <3> QED BY <3>1, <3>3, <2>1
  <2> QED BY <2>3, <2>4
<1> QED
  BY <1>4, <1>5

(* The tail window shows some of the messages it is given.                 *)
LEMMA TailIs ==
  ASSUME NEW messages \in Seq(Message), NEW limits
  PROVE  \E inc \in SUBSET DOMAIN messages, b \in BOOLEAN :
            select_tail_window(messages, limits) = Selection(messages, limits, inc, b)
<1> DEFINE pinned   == pinned_indices(messages)
           loose    == DOMAIN messages \ pinned
           room     == Max({limits.messages - Cardinality(pinned), 0})
           Allowed(candidate) ==
              /\ limits.messages # NoLimit => Cardinality(candidate) <= room
              /\ token_budget_allows(At(messages, pinned \cup candidate), limits)
           taken    == CHOOSE set \in SUBSET loose :
                          \A i \in loose :
                              i \in set <=> Allowed({j \in set : j > i} \cup {i})
           Good     == {c \in SUBSET loose : Allowed(c)}
<1>1. \E set \in SUBSET loose :
         \A i \in loose : i \in set <=> Allowed({j \in set : j > i} \cup {i})
  <2>1. Len(messages) \in Nat /\ loose \subseteq 1..Len(messages)
    OBVIOUS
  <2> HIDE DEF loose, Allowed
  <2>2. PICK set \in SUBSET loose :
           \A i \in loose : i \in set <=> ({j \in set : j > i} \cup {i}) \in Good
    <3> HIDE DEF Good
    <3>1. \E set \in SUBSET loose : Taken(set, loose, Good)
      BY <2>1, Greedy
    <3> QED BY <3>1, Zenon DEF Taken
  <2>3. \A i \in loose : {j \in set : j > i} \cup {i} \in SUBSET loose
    OBVIOUS
  <2>4. \A i \in loose : ({j \in set : j > i} \cup {i}) \in Good
                         <=> Allowed({j \in set : j > i} \cup {i})
    BY <2>3
  <2> HIDE DEF Good
  <2> QED BY <2>2, <2>4
<1>2. taken \in SUBSET loose
  <2> HIDE DEF loose, Allowed
  <2> QED BY <1>1
<1>3. pinned \cup taken \in SUBSET DOMAIN messages
  <2>1. pinned \subseteq DOMAIN messages
    BY DEF pinned_indices
  <2>2. loose \subseteq DOMAIN messages
    OBVIOUS
  <2> HIDE DEF taken, loose, pinned
  <2> QED BY <1>2, <2>1, <2>2
<1>4. select_tail_window(messages, limits) =
         IF limits.messages = NoLimit /\ limits.tokens = NoLimit
         THEN Selection(messages, limits, DOMAIN messages, FALSE)
         ELSE Selection(messages, limits, pinned \cup taken, TRUE)
  BY Zenon DEF select_tail_window
<1> HIDE DEF taken, pinned
<1> QED
  BY <1>3, <1>4

\* The messages a compaction may replace.
Loose(messages) == {i \in DOMAIN messages : messages[i].role \notin {"system", "user"}}

\* How many turns of the list have begun by message i.
Ordinal(messages, i) == Cardinality({j \in 1..i : messages[j].role = "assistant"})

(* Messages of one turn have the same ordinal.                             *)
LEMMA TogetherOrdinal ==
  ASSUME NEW messages \in Seq(Message), NEW i \in DOMAIN messages,
         NEW j \in DOMAIN messages, Together(messages, i, j)
  PROVE  Ordinal(messages, i) = Ordinal(messages, j)
<1>1. {a \in 1..i : messages[a].role = "assistant"}
      = {a \in 1..j : messages[a].role = "assistant"}
  <2>1. i \in Nat /\ j \in Nat /\ i <= j /\ \A a \in 1..j : a \in DOMAIN messages
    BY DEF Together
  <2>2. \A a \in 1..j : i < a => messages[a].role # "assistant"
    BY <2>1 DEF Together
  <2>3. \A a \in 1..j : a \in 1..i \/ i < a
    BY <2>1
  <2>4. \A a \in 1..i : a \in 1..j
    BY <2>1
  <2> QED BY <2>2, <2>3, <2>4
<1> QED
  BY <1>1 DEF Ordinal

(* The turns of a list are numbered from 1, are made of loose messages, do *)
(* not split what is together, and the first is not empty.                 *)
LEMMA RangesAre ==
  ASSUME NEW messages \in Seq(Message)
  PROVE  LET ranges == build_turn_ranges(messages)
         IN  \E n \in Nat :
               /\ DOMAIN ranges = 1..n
               /\ \A t \in 1..n : ranges[t] = {i \in Loose(messages) : Ordinal(messages, i) = t}
               /\ n # 0 => ranges[1] # {}
<1> DEFINE ranges == build_turn_ranges(messages)
           n == Ordinal(messages, Len(messages))
           firsts == {j \in 1..Len(messages) : messages[j].role = "assistant"}
<1>1. n \in Nat /\ IsFiniteSet(firsts) /\ (n # 0 => firsts # {})
  <2>1. IsFiniteSet(1..Len(messages)) /\ firsts \in SUBSET (1..Len(messages))
    BY NthInterval
  <2>2. IsFiniteSet(firsts)
    BY <2>1, FS_Subset
  <2> QED BY <2>2, FS_CardinalityType, FS_EmptySet DEF Ordinal
<1>2. \A i \in DOMAIN messages : i \in Loose(messages) <=> i \notin pinned_indices(messages)
  BY DEF Loose, pinned_indices
<1>3. ranges = [t \in 1..n |-> {i \in DOMAIN messages \ pinned_indices(messages) :
                                   Ordinal(messages, i) = t}]
  BY Zenon DEF build_turn_ranges, Ordinal
<1>4. DOMAIN ranges = 1..n
      /\ \A t \in 1..n : ranges[t] = {i \in Loose(messages) : Ordinal(messages, i) = t}
  <2>1. Loose(messages) = DOMAIN messages \ pinned_indices(messages)
    BY <1>2 DEF Loose
  <2> HIDE DEF n, ranges
  <2> QED BY <1>3, <2>1
<1>5. n # 0 => ranges[1] # {}
  <2> HAVE n # 0
  <2>1. firsts \subseteq Nat /\ firsts # {}
    BY <1>1
  <2>2. PICK i \in firsts : \A j \in firsts : i <= j
    BY <2>1, Least
  <2>3. {j \in 1..i : messages[j].role = "assistant"} = {i}
    <3>1. i \in 1..Len(messages) /\ i \in 1..i /\ messages[i].role = "assistant"
      OBVIOUS
    <3>2. \A j \in 1..i : messages[j].role = "assistant" => j = i
      <4> TAKE j \in 1..i
      <4> HAVE messages[j].role = "assistant"
      <4>1. j \in firsts
        BY <3>1
      <4>2. i <= j
        BY <4>1, <2>2
      <4> QED BY <3>1, <4>2
    <3> QED BY <3>1, <3>2
  <2>4. Ordinal(messages, i) = 1
    BY <2>3, FS_Singleton DEF Ordinal
  <2>5. i \in Loose(messages)
    BY DEF Loose
  <2>6. 1 \in 1..n
    <3> HIDE DEF n
    <3> QED BY <1>1
  <2> HIDE DEF n, ranges, firsts
  <2> QED BY <2>4, <2>5, <2>6, <1>4
<1> QED
  <2> HIDE DEF n
  <2> QED BY <1>1, <1>4, <1>5

Plan == [included : SUBSET Nat, considered : BOOLEAN, applied : BOOLEAN,
         compacted : SUBSET Nat, turns : SUBSET Nat, preserved : Nat,
         summary : Message, satisfied : BOOLEAN]

\* The messages the model is shown under a plan.
Asked(messages, p) ==
    IF Compacts(p) THEN Replaced(messages, p.compacted, p.summary)
    ELSE At(messages, p.included)

\* What may be relied on of a plan for a list of messages.
IsPlan(policy, messages, limits, p) ==
    /\ p \in Plan
    /\ ~Compacts(p) => /\ p.included \subseteq DOMAIN messages
                       /\ policy # "tail_window" => p.included = DOMAIN messages
    /\ Compacts(p) => /\ policy \in {"deterministic_compaction", "model_backed_compaction"}
                      /\ p.compacted \subseteq Loose(messages)
                      /\ p.compacted # {}
                      /\ p.summary.role = "system"
                      /\ p.summary.ref # 0
                      /\ \A i, j \in Loose(messages) : Together(messages, i, j) =>
                            (i \in p.compacted <=> j \in p.compacted)
    /\ policy # "model_backed_compaction" =>
          (p.satisfied <=> token_budget_allows(Asked(messages, p), limits))

(* A plan that selects without a summary is one to rely on.                *)
LEMMA SelectionIs ==
  ASSUME NEW policy, NEW messages \in Seq(Message), NEW limits,
         NEW inc \in SUBSET DOMAIN messages, NEW b \in BOOLEAN,
         policy # "tail_window" => inc = DOMAIN messages
  PROVE  IsPlan(policy, messages, limits, Selection(messages, limits, inc, b))
<1> DEFINE p == Selection(messages, limits, inc, b)
           allows == token_budget_allows(At(messages, inc), limits)
<1>1. p = [included |-> inc, considered |-> b, applied |-> inc # DOMAIN messages,
           compacted |-> {}, turns |-> {}, preserved |-> 0, summary |-> NoSummary,
           satisfied |-> allows]
  BY DEF Selection
<1>2. allows \in BOOLEAN
  BY DEF token_budget_allows
<1>3. DOMAIN messages \subseteq Nat /\ NoSummary \in Message
  BY DEF NoSummary, Message
<1> HIDE DEF p, allows
<1>4. (inc # DOMAIN messages) \in BOOLEAN /\ {} \in SUBSET Nat /\ inc \in SUBSET Nat
  BY <1>3
<1>5. p \in Plan
  BY <1>1, <1>2, <1>3, <1>4 DEF Plan
<1>6. ~Compacts(p)
  BY <1>1 DEF Compacts
<1>7. p.satisfied <=> token_budget_allows(Asked(messages, p), limits)
  BY <1>1, <1>6 DEF Asked, allows
<1> QED
  BY <1>1, <1>5, <1>6, <1>7 DEF IsPlan, p

(* So is one that compacts the oldest turns.                               *)
LEMMA CompactTurnsIs ==
  ASSUME NEW policy \in {"deterministic_compaction", "model_backed_compaction"},
         NEW messages \in Seq(Message), NEW limits,
         NEW candidates, candidates \subseteq DOMAIN build_turn_ranges(messages),
         candidates # {}, NEW preserve \in Nat, NEW t \in Nat \ {0}
  PROVE  IsPlan(policy, messages, limits,
                CompactTurns(messages, limits, build_turn_ranges(messages),
                             candidates, preserve, t))
<1> DEFINE ranges       == build_turn_ranges(messages)
           Compact(k)   == UNION {ranges[j] : j \in 1..k}
           Left(k)      == Replaced(messages, Compact(k), render_deterministic_summary(k, t))
           enough       == {k \in candidates : Fits(Left(k), limits)}
           last         == IF enough # {} THEN Min(enough) ELSE Max(candidates)
           p            == CompactTurns(messages, limits, ranges, candidates, preserve, t)
           allows       == token_budget_allows(Left(last), limits)
           summary      == render_deterministic_summary(last, t)
<1>1. PICK n \in Nat :
         /\ DOMAIN ranges = 1..n
         /\ \A k \in 1..n : ranges[k] = {i \in Loose(messages) : Ordinal(messages, i) = k}
         /\ n # 0 => ranges[1] # {}
  BY RangesAre
<1>2. candidates \subseteq 1..n /\ candidates \subseteq Nat /\ n # 0
  BY <1>1
<1>3. p = [ included   |-> DOMAIN messages \ Compact(last),
            considered |-> TRUE,
            applied    |-> TRUE,
            compacted  |-> Compact(last),
            turns      |-> 1..last,
            preserved  |-> preserve,
            summary    |-> summary,
            satisfied  |-> allows ]
  BY Zenon DEF CompactTurns
<1> HIDE DEF ranges, p, Left
<1>4. last \in candidates
  <2>1. enough \subseteq candidates
    OBVIOUS
  <2> HIDE DEF enough
  <2>2. CASE enough # {}
    BY <2>1, <2>2, <1>2, MinIs
  <2>3. CASE enough = {}
    <3>1. \A x \in candidates : x <= n
      BY <1>2
    <3>2. Max(candidates) \in candidates
      BY <3>1, <1>2, MaxIs
    <3> QED BY <2>3, <3>2
  <2> QED BY <2>2, <2>3
<1> HIDE DEF last
<1>5. last \in 1..n
  BY <1>2, <1>4
<1>6. \A i : i \in Compact(last) <=> i \in Loose(messages) /\ Ordinal(messages, i) \in 1..last
  <2> TAKE i
  <2>1. i \in Compact(last) <=> \E j \in 1..last : i \in ranges[j]
    OBVIOUS
  <2>2. \A j \in 1..last : j \in 1..n
    BY <1>5
  <2>3. \A j \in 1..last : i \in ranges[j] <=> i \in Loose(messages) /\ Ordinal(messages, i) = j
    BY <2>2, <1>1
  <2> HIDE DEF Compact
  <2> QED BY <2>1, <2>3
<1>7. Compact(last) # {}
  <2>1. 1 \in 1..last /\ ranges[1] # {}
    BY <1>1, <1>5
  <2> QED BY <2>1
<1> HIDE DEF Compact
<1>8. Compact(last) \subseteq Loose(messages)
  BY <1>6
<1>9. Loose(messages) \subseteq DOMAIN messages /\ DOMAIN messages \subseteq Nat
  BY DEF Loose
<1>10. /\ summary \in Message /\ summary.role = "system" /\ summary.ref # 0
  <2>1. SummaryHeader \in Nat /\ SummaryLine \in Nat /\ last \in Nat
    BY <1>5, CompactionAssumption
  <2>2. SummaryHeader + last * SummaryLine \in Nat
    BY <2>1
  <2>3. -t \in Int /\ -t # 0
    OBVIOUS
  <2>4. summary = [role |-> "system", size |-> SummaryHeader + last * SummaryLine, ref |-> -t]
    BY DEF render_deterministic_summary
  <2> HIDE DEF summary
  <2> QED BY <2>2, <2>3, <2>4 DEF Message
<1>11. allows \in BOOLEAN
  BY DEF token_budget_allows
<1> HIDE DEF summary, allows
<1>12. p \in Plan
  <2>1. 1..last \in SUBSET Nat /\ Compact(last) \in SUBSET Nat
        /\ DOMAIN messages \ Compact(last) \in SUBSET Nat
    BY <1>5, <1>8, <1>9
  <2> QED BY <2>1, <1>3, <1>10, <1>11 DEF Plan
<1>13. Compacts(p)
  BY <1>3, <1>10 DEF Compacts, NoSummary
<1>14. p.satisfied <=> token_budget_allows(Asked(messages, p), limits)
  <2>1. Asked(messages, p) = Left(last)
    BY <1>3, <1>13 DEF Asked, Left, summary
  <2> QED BY <2>1, <1>3 DEF allows
<1>15. \A i, j \in Loose(messages) : Together(messages, i, j) =>
          (i \in Compact(last) <=> j \in Compact(last))
  <2> TAKE i, j \in Loose(messages)
  <2> HAVE Together(messages, i, j)
  <2>1. Ordinal(messages, i) = Ordinal(messages, j)
    BY <1>9, TogetherOrdinal
  <2> QED BY <2>1, <1>6
<1>16. p.compacted = Compact(last) /\ p.summary = summary
  BY <1>3
<1>17. IsPlan(policy, messages, limits, p)
  BY <1>7, <1>8, <1>10, <1>12, <1>13, <1>14, <1>15, <1>16 DEF IsPlan
<1> QED
  BY <1>17 DEF p, ranges

(* Every context policy makes plans that may be relied on.                 *)
LEMMA PlanIs ==
  ASSUME NEW policy \in ContextPolicyMode, NEW messages \in Seq(Message), NEW limits,
         NEW sess \in [issue : Nat, validated : Nat], NEW t \in Nat \ {0}
  PROVE  IsPlan(policy, messages, limits,
                plan_request_context(policy, messages, limits, sess, t))
<1>1. preserve_from_turn(sess) \in Nat
  <2> DEFINE turns == {sess.issue, sess.validated} \ {0}
  <2>1. turns \subseteq Nat
    OBVIOUS
  <2> HIDE DEF turns
  <2>2. turns # {} => Min(turns) \in Nat
    BY <2>1, MinIs
  <2>3. preserve_from_turn(sess) = IF turns = {} THEN 0 ELSE Min(turns)
    BY DEF preserve_from_turn, turns
  <2> QED BY <2>2, <2>3
<1>2. DOMAIN messages \in SUBSET DOMAIN messages
  OBVIOUS
<1>3. CASE policy = "full_history"
  <2>1. plan_request_context(policy, messages, limits, sess, t)
        = Selection(messages, limits, DOMAIN messages, FALSE)
    BY <1>3 DEF plan_request_context, select_full_history
  <2> QED BY <2>1, <1>2, SelectionIs
<1>4. CASE policy = "tail_window"
  <2>1. plan_request_context(policy, messages, limits, sess, t)
        = select_tail_window(messages, limits)
    BY <1>4 DEF plan_request_context
  <2>2. PICK inc \in SUBSET DOMAIN messages, b \in BOOLEAN :
           select_tail_window(messages, limits) = Selection(messages, limits, inc, b)
    BY TailIs
  <2>3. policy # "tail_window" => inc = DOMAIN messages
    BY <1>4
  <2>4. IsPlan(policy, messages, limits, Selection(messages, limits, inc, b))
    BY <2>3, SelectionIs
  <2> QED BY <2>1, <2>2, <2>4
<1>5. CASE policy \in {"deterministic_compaction", "model_backed_compaction"}
  <2> DEFINE ranges     == build_turn_ranges(messages)
             preserve   == preserve_from_turn(sess)
             candidates == {k \in DOMAIN ranges : preserve = 0 \/ k < preserve}
             q          == ~Fits(messages, limits)
  <2>1. plan_request_context(policy, messages, limits, sess, t)
        = IF Fits(messages, limits) \/ candidates = {}
          THEN Selection(messages, limits, DOMAIN messages, q)
          ELSE CompactTurns(messages, limits, ranges, candidates, preserve, t)
    BY <1>5 DEF plan_request_context, select_deterministic_compaction
  <2>2. q \in BOOLEAN
    OBVIOUS
  <2>3. candidates \subseteq DOMAIN ranges
    OBVIOUS
  <2> HIDE DEF candidates, preserve, q
  <2>4. preserve \in Nat
    BY <1>1 DEF preserve
  <2>5. IsPlan(policy, messages, limits, Selection(messages, limits, DOMAIN messages, q))
    BY <1>2, <2>2, SelectionIs
  <2>6. candidates # {} =>
           IsPlan(policy, messages, limits,
                  CompactTurns(messages, limits, ranges, candidates, preserve, t))
    BY <1>5, <2>3, <2>4, CompactTurnsIs
  <2> QED BY <2>1, <2>5, <2>6
<1> QED
  BY <1>3, <1>4, <1>5 DEF ContextPolicyMode

-----------------------------------------------------------------------------
(* The types of the state.                                                 *)

Phases == {"loop", "compaction_call", "snapshot", "request", "ending", "done"}

Entry == [turn : Nat,
          kind : {"source_message", "replacement_summary", "carry_forward_state",
                  "history_control"},
          source : Nat, message : Message, record : Nat,
          entries : Seq(Nat), sources : Seq(Nat),
          control : {"none", "compaction_artifact", "context_selection_plan"}]

Item == [message : Message, source : Nat, record : Nat, entry : Nat]

Record == [turn : Nat, preserve : Nat, entries : Seq(Nat), sources : Seq(Nat),
           summary : Nat, carried : Nat, artifact : Nat]

Context == [turn : Nat, selected : Seq(Nat), omitted : Seq(Nat), active : BOOLEAN,
            summary : Nat, carried : Nat, record : Nat, request_message_count : Nat,
            items_before : Nat, retained_before : Nat, retained_after : Nat,
            considered : BOOLEAN, applied : BOOLEAN, satisfied : BOOLEAN]

HistoryTypeOK ==
    /\ run \in [policy : ContextPolicyMode,
                limits : [messages : Nat \cup {NoLimit}, tokens : Nat \cup {NoLimit}]]
    /\ trajectory \in Seq(Message)
    /\ source_items \in Seq(Nat)
    /\ request_items \in Seq(Item)
    /\ replacements \in Seq(Record)
    /\ retained \in Seq(Entry)
    /\ contexts \in Seq(Context)
    /\ session \in [issue : Nat, validated : Nat]
    /\ turn \in Nat
    /\ plan \in Plan
    /\ phase \in Phases

\* How far the loop is with the turn: which of the logs are up to date, and
\* whether the plan is one for the request history as it is.
LoopOK ==
    /\ Len(source_items) <= Len(trajectory)
    /\ phase \in {"compaction_call", "snapshot"} =>
          /\ turn = Len(contexts) + 1
          /\ Len(source_items) = Len(trajectory)
          /\ IsPlan(run.policy, RequestMessages, run.limits, plan)
    /\ phase = "compaction_call" =>
          run.policy = "model_backed_compaction" /\ Compacts(plan)
    /\ phase \in {"loop", "request", "ending", "done"} => turn = Len(contexts)
    /\ phase = "request" => Len(source_items) = Len(trajectory)

(* The entries of the retained history are well formed.                    *)
LEMMA EntryTypes ==
  ASSUME NEW t \in Nat, NEW i \in Nat, NEW m \in Message, NEW r \in Nat,
         NEW e \in Seq(Nat), NEW src \in Seq(Nat)
  PROVE  /\ append_source_message(t, i, m) \in Entry
         /\ append_replacement_summary(t, r, m, e, src) \in Entry
         /\ append_carried_forward_state(t, r) \in Entry
         /\ append_history_control(t, "compaction_artifact") \in Entry
         /\ append_history_control(t, "context_selection_plan") \in Entry
<1>1. NoSummary \in Message
  BY DEF NoSummary, Message
<1>2. PICK nil : nil = <<>> /\ nil \in Seq(Nat)
  <2>1. <<>> \in Seq(Nat)
    OBVIOUS
  <2> QED BY <2>1, Zenon
<1>3. NoEntry = [turn |-> 0, kind |-> "none", source |-> 0, message |-> NoSummary,
                 record |-> 0, entries |-> nil, sources |-> nil, control |-> "none"]
  BY <1>2 DEF NoEntry
<1> QED
  BY <1>1, <1>2, <1>3 DEF Entry, append_source_message, append_replacement_summary,
     append_carried_forward_state, append_history_control

\* What has been appended to a list leaves what was there where it was.
Grows(s, t) ==
    /\ Len(s) <= Len(t)
    /\ \A k \in 1..Len(s) : t[k] = s[k]

(* Appending makes a list grow.                                            *)
LEMMA CatGrows ==
  ASSUME NEW S, NEW s \in Seq(S), NEW t \in Seq(S)
  PROVE  /\ s \o t \in Seq(S)
         /\ Len(s \o t) = Len(s) + Len(t)
         /\ Grows(s, s \o t)
         /\ \A k \in 1..Len(t) : (s \o t)[Len(s) + k] = t[k]
BY DEF Grows

(* So does appending one item.                                             *)
LEMMA AppendGrows ==
  ASSUME NEW S, NEW s \in Seq(S), NEW x \in S
  PROVE  /\ Append(s, x) \in Seq(S)
         /\ Len(Append(s, x)) = Len(s) + 1
         /\ Grows(s, Append(s, x))
         /\ Append(s, x)[Len(s) + 1] = x
BY DEF Grows

(* What sync_source_messages does, item by item.                           *)
LEMMA SyncIs ==
  ASSUME HistoryTypeOK, LoopOK, NEW t \in Nat, sync_source_messages(t)
  PROVE  LET n == Len(source_items)
             d == Len(trajectory) - Len(source_items)
         IN  /\ n \in Nat /\ d \in Nat
             /\ retained' \in Seq(Entry) /\ Grows(retained, retained')
             /\ Len(retained') = Len(retained) + d
             /\ \A k \in 1..d : retained'[Len(retained) + k]
                                  = append_source_message(t, n + k, trajectory[n + k])
             /\ source_items' \in Seq(Nat) /\ Grows(source_items, source_items')
             /\ Len(source_items') = Len(trajectory)
             /\ \A k \in 1..d : source_items'[n + k] = Len(retained) + k
             /\ request_items' \in Seq(Item) /\ Grows(request_items, request_items')
             /\ Len(request_items') = Len(request_items) + d
             /\ \A k \in 1..d : request_items'[Len(request_items) + k]
                   = [message |-> trajectory[n + k], source |-> n + k, record |-> 0,
                      entry |-> Len(retained) + k]
             /\ RequestMessages \o [k \in DOMAIN NewItems |-> NewItems[k].message]
                = RequestMessages'
<1> DEFINE n == Len(source_items)
           N == Len(trajectory)
           d == N - n
           P == {i \in DOMAIN trajectory : i > n}
           NI == [k \in DOMAIN Unsynced |->
                    [message |-> Unsynced[k], source |-> n + k, record |-> 0,
                     entry |-> Len(retained) + k]]
           NE == [k \in DOMAIN Unsynced |-> append_source_message(t, n + k, Unsynced[k])]
           NS == [k \in 1..d |-> Len(retained) + k]
           NM == [k \in 1..d |-> trajectory[n + k]]
<1>1. /\ n \in Nat /\ N \in Nat /\ d \in Nat /\ n <= N /\ n + d = N
      /\ Len(retained) \in Nat /\ Len(request_items) \in Nat
  BY DEF HistoryTypeOK, LoopOK
<1>2. P = (n + 1)..N /\ P \subseteq 1..N /\ trajectory \in Seq(Message)
  BY <1>1 DEF HistoryTypeOK
<1>3. Cardinality(P) = d /\ \A k \in 1..d : Nth(P, k) = n + k
  <2>1. /\ Cardinality((n + 1)..N) = N - n
        /\ \A k \in 1..(N - n) : Nth((n + 1)..N, k) = n + k
    BY <1>1, NthFrom
  <2> HIDE DEF P, n, N
  <2> QED BY <2>1, <1>2
<1>4. /\ DOMAIN Unsynced = 1..d
      /\ \A k \in 1..d : Unsynced[k] = trajectory[n + k] /\ Unsynced[k] \in Message
  <2>1. Unsynced = At(trajectory, P)
    BY DEF Unsynced
  <2>2. /\ DOMAIN At(trajectory, P) = 1..Cardinality(P)
        /\ \A k \in 1..Cardinality(P) : At(trajectory, P)[k] = trajectory[Nth(P, k)]
    BY <1>2, AtIs
  <2>3. \A k \in 1..d : n + k \in 1..N
    BY <1>1
  <2>4. \A i \in 1..N : trajectory[i] \in Message
    BY <1>2
  <2> HIDE DEF P, d, n, N
  <2> QED BY <2>1, <2>2, <2>3, <2>4, <1>3
<1> HIDE DEF P, n, N, d
<1>5. NI \in Seq(Item) /\ Len(NI) = d /\ DOMAIN NI = 1..d
  <2>1. NI \in [1..d -> Item]
    BY <1>1, <1>4 DEF Item
  <2> HIDE DEF NI
  <2> QED BY <2>1, <1>1, FcnSeq
<1>6. NE \in Seq(Entry) /\ Len(NE) = d /\ DOMAIN NE = 1..d
  <2>1. \A k \in 1..d : append_source_message(t, n + k, Unsynced[k]) \in Entry
    <3> TAKE k \in 1..d
    <3>1. n + k \in Nat /\ Unsynced[k] \in Message
      BY <1>1, <1>4
    <3>2. 0 \in Nat /\ <<>> \in Seq(Nat)
      OBVIOUS
    <3> QED BY <3>1, <3>2, EntryTypes
  <2>2. NE \in [1..d -> Entry]
    BY <1>4, <2>1
  <2> HIDE DEF NE
  <2> QED BY <2>2, <1>1, FcnSeq
<1>7. NS \in Seq(Nat) /\ Len(NS) = d /\ DOMAIN NS = 1..d
  <2>1. NS \in [1..d -> Nat]
    BY <1>1
  <2> HIDE DEF NS
  <2> QED BY <2>1, <1>1, FcnSeq
<1>8. NM \in Seq(Message) /\ Len(NM) = d /\ DOMAIN NM = 1..d
  <2>1. NM \in [1..d -> Message]
    <3>1. \A k \in 1..d : trajectory[n + k] \in Message
      BY <1>4
    <3> QED BY <3>1
  <2> HIDE DEF NM
  <2> QED BY <2>1, <1>1, FcnSeq
<1>9. NewItems = NI /\ NewEntries(t) = NE
  BY DEF NewItems, NewEntries, n
<1>10. [k \in DOMAIN NewItems |-> NewItems[k].entry] = NS
       /\ [k \in DOMAIN NewItems |-> NewItems[k].message] = NM
  <2>1. \A k \in 1..d : NI[k].entry = Len(retained) + k /\ NI[k].message = trajectory[n + k]
    BY <1>4
  <2> HIDE DEF NI
  <2> QED BY <2>1, <1>5, <1>9
<1>11. /\ \A k \in 1..d : NE[k] = append_source_message(t, n + k, trajectory[n + k])
       /\ \A k \in 1..d : NI[k] = [message |-> trajectory[n + k], source |-> n + k,
                                   record |-> 0, entry |-> Len(retained) + k]
       /\ \A k \in 1..d : NS[k] = Len(retained) + k
  BY <1>4
<1>12. /\ retained' = retained \o NE
       /\ source_items' = source_items \o NS
       /\ request_items' = request_items \o NI
  BY <1>9, <1>10 DEF sync_source_messages
<1> HIDE DEF NI, NE, NS, NM
<1>13. /\ retained' \in Seq(Entry) /\ Grows(retained, retained')
       /\ Len(retained') = Len(retained) + d
       /\ \A k \in 1..d : retained'[Len(retained) + k] = NE[k]
  <2>1. retained \in Seq(Entry)
    BY DEF HistoryTypeOK
  <2>2. /\ retained \o NE \in Seq(Entry) /\ Grows(retained, retained \o NE)
        /\ Len(retained \o NE) = Len(retained) + Len(NE)
        /\ \A k \in 1..Len(NE) : (retained \o NE)[Len(retained) + k] = NE[k]
    BY <2>1, <1>6, CatGrows
  <2> QED BY <2>2, <1>6, <1>12
<1>14. /\ source_items' \in Seq(Nat) /\ Grows(source_items, source_items')
       /\ Len(source_items') = n + d
       /\ \A k \in 1..d : source_items'[n + k] = NS[k]
  <2>1. source_items \in Seq(Nat)
    BY DEF HistoryTypeOK
  <2>2. /\ source_items \o NS \in Seq(Nat) /\ Grows(source_items, source_items \o NS)
        /\ Len(source_items \o NS) = n + Len(NS)
        /\ \A k \in 1..Len(NS) : (source_items \o NS)[n + k] = NS[k]
    BY <2>1, <1>7, CatGrows DEF n
  <2> QED BY <2>2, <1>7, <1>12
<1>15. /\ request_items' \in Seq(Item) /\ Grows(request_items, request_items')
       /\ Len(request_items') = Len(request_items) + d
       /\ \A k \in 1..d : request_items'[Len(request_items) + k] = NI[k]
  <2>1. request_items \in Seq(Item)
    BY DEF HistoryTypeOK
  <2>2. /\ request_items \o NI \in Seq(Item) /\ Grows(request_items, request_items \o NI)
        /\ Len(request_items \o NI) = Len(request_items) + Len(NI)
        /\ \A k \in 1..Len(NI) : (request_items \o NI)[Len(request_items) + k] = NI[k]
    BY <2>1, <1>5, CatGrows
  <2> QED BY <2>2, <1>5, <1>12
<1>16. RequestMessages \o NM = RequestMessages'
  <2> DEFINE old == [k \in DOMAIN request_items |-> request_items[k].message]
             new == [k \in DOMAIN request_items' |-> request_items'[k].message]
  <2>1. request_items \in Seq(Item)
    BY DEF HistoryTypeOK
  <2>2. old \in Seq(Message) /\ Len(old) = Len(request_items)
    <3>1. old \in [1..Len(request_items) -> Message]
      <4>1. \A k \in 1..Len(request_items) : request_items[k].message \in Message
        <5>1. \A k \in 1..Len(request_items) : request_items[k] \in Item
          BY <2>1
        <5> QED BY <5>1 DEF Item
      <4> QED BY <4>1, <2>1
    <3> HIDE DEF old
    <3> QED BY <3>1, <1>1, FcnSeq
  <2>3. new \in Seq(Message) /\ Len(new) = Len(request_items) + d
    <3>1. new \in [1..(Len(request_items) + d) -> Message]
      <4>1. \A k \in 1..(Len(request_items) + d) : request_items'[k].message \in Message
        <5>1. \A k \in 1..(Len(request_items) + d) : request_items'[k] \in Item
          BY <1>15
        <5> QED BY <5>1 DEF Item
      <4> QED BY <4>1, <1>15
    <3>2. Len(request_items) + d \in Nat
      BY <1>1
    <3> HIDE DEF new
    <3> QED BY <3>1, <3>2, FcnSeq
  <2>4. /\ old \o NM \in Seq(Message) /\ Len(old \o NM) = Len(request_items) + d
        /\ \A k \in 1..Len(request_items) : (old \o NM)[k] = old[k]
        /\ \A k \in 1..d : (old \o NM)[Len(request_items) + k] = NM[k]
    <3> HIDE DEF old
    <3>1. /\ old \o NM \in Seq(Message) /\ Len(old \o NM) = Len(old) + Len(NM)
          /\ Grows(old, old \o NM)
          /\ \A k \in 1..Len(NM) : (old \o NM)[Len(old) + k] = NM[k]
      BY <2>2, <1>8, CatGrows
    <3> QED BY <3>1, <2>2, <1>8 DEF Grows
  <2>5. \A k \in 1..Len(request_items) : old[k] = new[k]
    <3>1. \A k \in 1..Len(request_items) :
             /\ k \in DOMAIN request_items /\ k \in DOMAIN request_items'
             /\ request_items'[k] = request_items[k]
      BY <2>1, <1>15, <1>1 DEF Grows
    <3> QED BY <3>1
  <2>6. \A k \in 1..d : NM[k] = new[Len(request_items) + k]
    <3>1. \A k \in 1..d : Len(request_items) + k \in DOMAIN request_items'
      BY <1>15, <1>1
    <3>2. \A k \in 1..d : request_items'[Len(request_items) + k].message = trajectory[n + k]
      <4>1. \A k \in 1..d : NI[k].message = trajectory[n + k]
        BY <1>4 DEF NI
      <4> QED BY <4>1, <1>15
    <3> QED BY <3>1, <3>2 DEF NM
  <2> HIDE DEF old, new
  <2>7. \A k \in 1..(Len(request_items) + d) : (old \o NM)[k] = new[k]
    <3> TAKE k \in 1..(Len(request_items) + d)
    <3>1. CASE k <= Len(request_items)
      BY <3>1, <2>4, <2>5, <1>1
    <3>2. CASE k > Len(request_items)
      <4>1. PICK j \in 1..d : k = Len(request_items) + j
        BY <3>2, <1>1
      <4>2. /\ (old \o NM)[Len(request_items) + j] = NM[j]
            /\ NM[j] = new[Len(request_items) + j]
        BY <4>1, <2>4, <2>6
      <4> QED BY <4>1, <4>2
    <3>3. k <= Len(request_items) \/ k > Len(request_items)
      BY <1>1
    <3> QED BY <3>1, <3>2, <3>3, Zenon
  <2>8. old \o NM = new
    BY <2>3, <2>4, <2>7
  <2> QED BY <2>8 DEF RequestMessages, old, new
<1> QED
  BY <1>1, <1>10, <1>11, <1>13, <1>14, <1>15, <1>16 DEF n, N, d

-----------------------------------------------------------------------------
(* What a snapshot shows and logs.                                         *)

\* The messages of some request items.
MessagesOf(items) == [k \in DOMAIN items |-> items[k].message]

(* The messages of some items are as many.                                 *)
LEMMA MessagesOfIs ==
  ASSUME NEW items \in Seq(Item)
  PROVE  /\ MessagesOf(items) \in Seq(Message)
         /\ Len(MessagesOf(items)) = Len(items)
         /\ DOMAIN MessagesOf(items) = 1..Len(items)
         /\ \A k \in 1..Len(items) : MessagesOf(items)[k] = items[k].message
<1>1. \A k \in 1..Len(items) : items[k] \in Item
  OBVIOUS
<1>2. \A k \in 1..Len(items) : items[k].message \in Message
  BY <1>1 DEF Item
<1>3. MessagesOf(items) = [k \in 1..Len(items) |-> items[k].message]
  BY DEF MessagesOf
<1>4. MessagesOf(items) \in [1..Len(items) -> Message] /\ Len(items) \in Nat
  BY <1>2, <1>3
<1>5. /\ MessagesOf(items) \in Seq(Message) /\ Len(MessagesOf(items)) = Len(items)
      /\ DOMAIN MessagesOf(items) = 1..Len(items)
  BY <1>4, FcnSeq
<1> QED
  BY <1>3, <1>5

(* Selecting items and selecting their messages come to the same.          *)
LEMMA AtMessages ==
  ASSUME NEW items \in Seq(Item), NEW P, P \subseteq 1..Len(items)
  PROVE  At(MessagesOf(items), P) = MessagesOf(At(items, P))
<1> DEFINE c == Cardinality(P)
           ms == MessagesOf(items)
<1>1. ms \in Seq(Message) /\ Len(ms) = Len(items)
      /\ \A k \in 1..Len(items) : ms[k] = items[k].message
  BY MessagesOfIs
<1> HIDE DEF ms
<1>2. /\ c \in Nat /\ At(items, P) \in Seq(Item) /\ Len(At(items, P)) = c
      /\ \A k \in 1..c : Nth(P, k) \in P /\ At(items, P)[k] = items[Nth(P, k)]
  BY ZenonT(30), AtIs
<1>3. /\ At(ms, P) \in Seq(Message) /\ Len(At(ms, P)) = c
      /\ \A k \in 1..c : At(ms, P)[k] = ms[Nth(P, k)]
  <2>1. P \subseteq 1..Len(ms)
    BY <1>1
  <2>2. ms \in Seq(Message)
    BY <1>1
  <2> QED BY <2>1, <2>2, AtIs
<1>4. /\ MessagesOf(At(items, P)) \in Seq(Message)
      /\ Len(MessagesOf(At(items, P))) = c
      /\ \A k \in 1..c : MessagesOf(At(items, P))[k] = At(items, P)[k].message
  BY <1>2, MessagesOfIs
<1> HIDE DEF c
<1>5. \A k \in 1..c : At(ms, P)[k] = MessagesOf(At(items, P))[k]
  <2> TAKE k \in 1..c
  <2>1. Nth(P, k) \in 1..Len(items)
    BY <1>2
  <2>2. ms[Nth(P, k)] = items[Nth(P, k)].message
    BY <2>1, <1>1
  <2> QED BY <2>2, <1>2, <1>3, <1>4
<1> QED
  BY <1>3, <1>4, <1>5 DEF ms

(* So do replacing items and replacing their messages.                     *)
LEMMA ReplacedMessages ==
  ASSUME NEW items \in Seq(Item), NEW P, P \subseteq 1..Len(items), P # {},
         NEW item \in Item
  PROVE  Replaced(MessagesOf(items), P, item.message) = MessagesOf(Replaced(items, P, item))
<1> DEFINE ms == MessagesOf(items)
           R  == Replaced(items, P, item)
           M  == Replaced(ms, P, item.message)
           n  == Len(items)
           c  == Min(P) + Cardinality(After(n, P))
<1>1. ms \in Seq(Message) /\ Len(ms) = n
      /\ \A k \in 1..n : ms[k] = items[k].message
  BY MessagesOfIs
<1>2. item.message \in Message
  BY DEF Item
<1> HIDE DEF ms
<1>3. /\ R \in Seq(Item) /\ Len(R) = c /\ R[Min(P)] = item
      /\ \A k \in 1..c : k # Min(P) => R[k] = items[From(n, P, k)]
      /\ \A k \in 1..c : From(n, P, k) \in 1..n
  <2>1. R \in Seq(Item) /\ IsReplaced(R, items, P, item)
    BY ReplacedIs
  <2> HIDE DEF R
  <2> QED BY <2>1 DEF IsReplaced
<1>4. /\ M \in Seq(Message) /\ Len(M) = c /\ M[Min(P)] = item.message
      /\ \A k \in 1..c : k # Min(P) => M[k] = ms[From(n, P, k)]
  <2>1. P \subseteq 1..Len(ms)
    BY <1>1
  <2>2. M \in Seq(Message) /\ IsReplaced(M, ms, P, item.message)
    BY <2>1, <1>1, <1>2, ReplacedIs
  <2> HIDE DEF M
  <2> QED BY <2>2, <1>1 DEF IsReplaced
<1> HIDE DEF R, M, n, c
<1>5. /\ MessagesOf(R) \in Seq(Message) /\ Len(MessagesOf(R)) = c
      /\ \A k \in 1..c : MessagesOf(R)[k] = R[k].message
  BY <1>3, MessagesOfIs
<1>6. \A k \in 1..c : M[k] = MessagesOf(R)[k]
  <2> TAKE k \in 1..c
  <2>1. CASE k = Min(P)
    BY <2>1, <1>3, <1>4, <1>5
  <2>2. CASE k # Min(P)
    <3>1. ms[From(n, P, k)] = items[From(n, P, k)].message
      BY <1>1, <1>3
    <3> QED BY <2>2, <3>1, <1>3, <1>4, <1>5
  <2> QED BY <2>1, <2>2
<1>7. M = MessagesOf(R)
  BY <1>4, <1>5, <1>6
<1> QED
  BY <1>7 DEF M, R, ms

\* The item a compaction puts in, and the items a request shows.
SummaryItem == [message |-> plan.summary, source |-> 0, record |-> RecordId,
                entry |-> Len(retained) + 1]

ShownItems ==
    IF Compacts(plan) THEN Replaced(request_items, plan.compacted, SummaryItem)
    ELSE At(request_items, plan.included)

(* The shown items are items, and their messages are what the plan asks.   *)
LEMMA ShownIs ==
  ASSUME HistoryTypeOK, IsPlan(run.policy, RequestMessages, run.limits, plan)
  PROVE  /\ SummaryItem \in Item
         /\ RecordId \in Nat \ {0}
         /\ plan.compacted \subseteq 1..Len(request_items) \/ ~Compacts(plan)
         /\ plan.included \subseteq 1..Len(request_items) \/ Compacts(plan)
         /\ ShownItems \in Seq(Item)
         /\ MessagesOf(ShownItems) = Asked(RequestMessages, plan)
<1>1. request_items \in Seq(Item) /\ plan \in Plan /\ RequestMessages = MessagesOf(request_items)
  BY DEF HistoryTypeOK, RequestMessages, MessagesOf
<1>2. RecordId \in Nat \ {0} /\ Len(retained) + 1 \in Nat
  BY DEF HistoryTypeOK, RecordId
<1>3. plan.summary \in Message
  BY <1>1 DEF Plan
<1>4. SummaryItem \in Item /\ SummaryItem.message = plan.summary
  BY <1>2, <1>3 DEF SummaryItem, Item
<1>5. DOMAIN RequestMessages = 1..Len(request_items)
  BY <1>1, MessagesOfIs
<1>6. CASE Compacts(plan)
  <2>1. plan.compacted \subseteq 1..Len(request_items) /\ plan.compacted # {}
    BY <1>5, <1>6 DEF IsPlan, Loose
  <2>2. Replaced(request_items, plan.compacted, SummaryItem) \in Seq(Item)
    BY <2>1, <1>1, <1>4, ReplacedIs
  <2>3. Replaced(MessagesOf(request_items), plan.compacted, SummaryItem.message)
        = MessagesOf(Replaced(request_items, plan.compacted, SummaryItem))
    BY <2>1, <1>1, <1>4, ReplacedMessages
  <2> QED BY <2>1, <2>2, <2>3, <1>1, <1>2, <1>4, <1>6 DEF ShownItems, Asked
<1>7. CASE ~Compacts(plan)
  <2>1. plan.included \subseteq 1..Len(request_items)
    BY <1>5, <1>7 DEF IsPlan
  <2>2. At(request_items, plan.included) \in Seq(Item)
    BY <2>1, <1>1, AtIs
  <2>3. At(MessagesOf(request_items), plan.included)
        = MessagesOf(At(request_items, plan.included))
    BY <2>1, <1>1, AtMessages
  <2> QED BY <2>1, <2>2, <2>3, <1>1, <1>2, <1>4, <1>7 DEF ShownItems, Asked
<1> QED
  BY <1>6, <1>7

\* What a compaction files: the entries and the trajectory positions it
\* replaces, and the record of it.
CompactedEntries == [k \in DOMAIN Compacted |-> Compacted[k].entry]

CompactedSources ==
    At([k \in DOMAIN Compacted |-> Compacted[k].source],
       {k \in DOMAIN Compacted : Compacted[k].source # 0})

NewRecord == [turn |-> turn, preserve |-> plan.preserved,
              entries |-> CompactedEntries, sources |-> CompactedSources,
              summary |-> Len(retained) + 1, carried |-> Len(retained) + 2,
              artifact |-> Len(retained) + 3]

FiledRecord == IF Compacts(plan) THEN RecordId ELSE 0

(* What is filed of the compacted items has the right types.               *)
LEMMA CompactedIs ==
  ASSUME HistoryTypeOK, plan.compacted \subseteq 1..Len(request_items)
  PROVE  /\ Compacted \in Seq(Item)
         /\ Len(Compacted) = Cardinality(plan.compacted)
         /\ \A k \in 1..Len(Compacted) :
               /\ Nth(plan.compacted, k) \in plan.compacted
               /\ Compacted[k] = request_items[Nth(plan.compacted, k)]
         /\ CompactedEntries \in Seq(Nat)
         /\ Len(CompactedEntries) = Len(Compacted)
         /\ \A k \in 1..Len(Compacted) : CompactedEntries[k] = Compacted[k].entry
         /\ CompactedSources \in Seq(Nat)
         /\ NewRecord \in Record
<1>1. request_items \in Seq(Item)
  BY DEF HistoryTypeOK
<1>2. /\ Compacted \in Seq(Item)
      /\ Len(Compacted) = Cardinality(plan.compacted)
      /\ Len(Compacted) \in Nat
      /\ \A k \in 1..Len(Compacted) :
            /\ Nth(plan.compacted, k) \in plan.compacted
            /\ Compacted[k] = request_items[Nth(plan.compacted, k)]
  <2> DEFINE A == At(request_items, plan.compacted)
  <2>1. /\ A \in Seq(Item)
        /\ Len(A) = Cardinality(plan.compacted)
        /\ Cardinality(plan.compacted) \in Nat
        /\ \A k \in 1..Cardinality(plan.compacted) :
              /\ Nth(plan.compacted, k) \in plan.compacted
              /\ A[k] = request_items[Nth(plan.compacted, k)]
    BY <1>1, AtIs
  <2>2. Compacted = A
    BY DEF Compacted
  <2> HIDE DEF A
  <2> QED BY <2>1, <2>2
<1>3. \A k \in 1..Len(Compacted) : Compacted[k].entry \in Nat /\ Compacted[k].source \in Nat
  <2>1. \A k \in 1..Len(Compacted) : Compacted[k] \in Item
    BY <1>2
  <2> QED BY <2>1 DEF Item
<1>4. DOMAIN Compacted = 1..Len(Compacted)
  BY <1>2
<1>5. /\ CompactedEntries \in Seq(Nat)
      /\ Len(CompactedEntries) = Len(Compacted)
      /\ \A k \in 1..Len(Compacted) : CompactedEntries[k] = Compacted[k].entry
  <2>1. CompactedEntries = [k \in 1..Len(Compacted) |-> Compacted[k].entry]
    BY <1>4 DEF CompactedEntries
  <2>2. CompactedEntries \in [1..Len(Compacted) -> Nat]
    BY <2>1, <1>3
  <2>3. CompactedEntries \in Seq(Nat) /\ Len(CompactedEntries) = Len(Compacted)
    BY <2>2, <1>2, FcnSeq
  <2> QED BY <2>1, <2>3
<1>6. CompactedSources \in Seq(Nat)
  <2> DEFINE srcs == [k \in 1..Len(Compacted) |-> Compacted[k].source]
             told == {k \in DOMAIN Compacted : Compacted[k].source # 0}
  <2>1. srcs \in [1..Len(Compacted) -> Nat]
    BY <1>3
  <2>2. CompactedSources = At(srcs, told)
    BY <1>4 DEF CompactedSources
  <2>3. told \subseteq 1..Len(Compacted)
    BY <1>4
  <2> HIDE DEF srcs, told
  <2>4. srcs \in Seq(Nat) /\ Len(srcs) = Len(Compacted)
    BY <2>1, <1>2, FcnSeq
  <2>5. told \subseteq 1..Len(srcs)
    BY <2>3, <2>4
  <2>6. srcs \in Seq(Nat)
    BY <2>4
  <2>7. At(srcs, told) \in Seq(Nat)
    BY <2>5, <2>6, AtIs
  <2> QED BY <2>2, <2>7
<1>7. NewRecord \in Record
  <2>1. /\ turn \in Nat /\ plan.preserved \in Nat /\ Len(retained) + 1 \in Nat
        /\ Len(retained) + 2 \in Nat /\ Len(retained) + 3 \in Nat
    BY DEF HistoryTypeOK, Plan
  <2> QED BY <2>1, <1>5, <1>6 DEF NewRecord, Record
<1> QED
  BY <1>2, <1>5, <1>6, <1>7

(* The entry of a request is well formed.                                  *)
LEMMA SnapshotType ==
  ASSUME HistoryTypeOK, NEW items \in Seq(Item), NEW log \in Seq(Entry), NEW record \in Nat
  PROVE  append_snapshot(items, log, record) \in Context
<1> DEFINE shown == {items[k].source : k \in DOMAIN items}
           sel == [k \in DOMAIN items |-> items[k].entry]
           om == At(source_items, DOMAIN source_items \ shown)
           act == \E k \in DOMAIN items : items[k].record # 0
           sm == IF record = 0 THEN 0 ELSE Len(retained) + 1
           ca == IF record = 0 THEN 0 ELSE Len(retained) + 2
<1>1. sel \in Seq(Nat)
  <2>1. \A k \in 1..Len(items) : items[k].entry \in Nat
    <3>1. \A k \in 1..Len(items) : items[k] \in Item
      OBVIOUS
    <3> QED BY <3>1 DEF Item
  <2>2. sel \in [1..Len(items) -> Nat] /\ Len(items) \in Nat
    BY <2>1
  <2> HIDE DEF sel
  <2> QED BY <2>2, FcnSeq
<1>2. om \in Seq(Nat)
  <2>1. source_items \in Seq(Nat)
    BY DEF HistoryTypeOK
  <2>2. DOMAIN source_items \ shown \subseteq 1..Len(source_items)
    BY <2>1
  <2> HIDE DEF shown
  <2> QED BY <2>1, <2>2, AtIs
<1>3. act \in BOOLEAN
  OBVIOUS
<1>4. /\ sm \in Nat /\ ca \in Nat /\ turn \in Nat /\ Len(items) \in Nat
      /\ Len(request_items) \in Nat /\ Len(retained) \in Nat /\ Len(log) \in Nat
  BY DEF HistoryTypeOK
<1>5. plan.considered \in BOOLEAN /\ plan.applied \in BOOLEAN /\ plan.satisfied \in BOOLEAN
  BY DEF HistoryTypeOK, Plan
<1>6. append_snapshot(items, log, record) =
        [ turn |-> turn, selected |-> sel, omitted |-> om, active |-> act,
          summary |-> sm, carried |-> ca, record |-> record,
          request_message_count |-> Len(items), items_before |-> Len(request_items),
          retained_before |-> Len(retained), retained_after |-> Len(log),
          considered |-> plan.considered, applied |-> plan.applied,
          satisfied |-> plan.satisfied ]
  BY Zenon DEF append_snapshot
<1> HIDE DEF sel, om, act, sm, ca
<1> QED
  BY <1>1, <1>2, <1>3, <1>4, <1>5, <1>6 DEF Context

(* What a snapshot does, log by log.                                       *)
LEMMA SnapshotIs ==
  ASSUME HistoryTypeOK, LoopOK, Snapshot
  PROVE  LET first == Len(retained)
             ctl == append_history_control(turn, "context_selection_plan")
             ctx == append_snapshot(ShownItems, retained', FiledRecord)
         IN  /\ retained' \in Seq(Entry) /\ Grows(retained, retained')
             /\ Compacts(plan) =>
                   /\ Len(retained') = first + 4
                   /\ retained'[first + 1]
                      = append_replacement_summary(turn, RecordId, plan.summary,
                                                   CompactedEntries, CompactedSources)
                   /\ retained'[first + 2] = append_carried_forward_state(turn, RecordId)
                   /\ retained'[first + 3] = append_history_control(turn, "compaction_artifact")
                   /\ retained'[first + 4] = ctl
                   /\ request_items' = ShownItems
                   /\ replacements' = Append(replacements, NewRecord)
             /\ ~Compacts(plan) =>
                   /\ Len(retained') = first + 1
                   /\ retained'[first + 1] = ctl
                   /\ request_items' = request_items
                   /\ replacements' = replacements
             /\ contexts' = Append(contexts, ctx) /\ ctx \in Context
<1> DEFINE first == Len(retained)
           ctl == append_history_control(turn, "context_selection_plan")
           L1 == append_replacement_summary(turn, RecordId, plan.summary,
                                            CompactedEntries, CompactedSources)
           L2 == append_carried_forward_state(turn, RecordId)
           L3 == append_history_control(turn, "compaction_artifact")
           ap == apply_compaction_replacement
<1>1. IsPlan(run.policy, RequestMessages, run.limits, plan)
  BY DEF Snapshot, LoopOK
<1>2. /\ RecordId \in Nat /\ ShownItems \in Seq(Item)
      /\ Compacts(plan) => plan.compacted \subseteq 1..Len(request_items)
  BY <1>1, ShownIs
<1>3. ap = [record |-> NewRecord, logged |-> <<L1, L2, L3>>,
            items |-> Replaced(request_items, plan.compacted, SummaryItem)]
  BY Zenon DEF apply_compaction_replacement, NewRecord, SummaryItem, CompactedEntries,
               CompactedSources
<1>4. retained \in Seq(Entry) /\ turn \in Nat /\ first \in Nat /\ plan.summary \in Message
  BY DEF HistoryTypeOK, Plan
<1>5. ctl \in Entry
  <2>1. 0 \in Nat /\ <<>> \in Seq(Nat)
    OBVIOUS
  <2> QED BY <2>1, <1>4, EntryTypes
<1>6. ap.record = NewRecord /\ ap.logged = <<L1, L2, L3>>
      /\ ap.items = Replaced(request_items, plan.compacted, SummaryItem)
  <2> HIDE DEF ap, L1, L2, L3
  <2> QED BY <1>3
<1> HIDE DEF ap, ctl
<1>7. /\ request_items' = IF Compacts(plan) THEN ShownItems ELSE request_items
      /\ replacements' = IF Compacts(plan) THEN Append(replacements, NewRecord) ELSE replacements
      /\ retained' = retained \o (IF Compacts(plan) THEN <<L1, L2, L3>> ELSE <<>>) \o <<ctl>>
      /\ contexts' = Append(contexts, append_snapshot(ShownItems, retained', FiledRecord))
  <2>1. LET items == IF Compacts(plan) THEN ap.items ELSE At(request_items, plan.included)
            log   == retained \o (IF Compacts(plan) THEN ap.logged ELSE <<>>) \o <<ctl>>
        IN  /\ request_items' = IF Compacts(plan) THEN items ELSE request_items
            /\ replacements' = IF Compacts(plan) THEN Append(replacements, ap.record)
                               ELSE replacements
            /\ retained' = log
            /\ contexts' = Append(contexts, append_snapshot(items, log,
                                              IF Compacts(plan) THEN RecordId ELSE 0))
    BY Zenon DEF Snapshot, ap, ctl
  <2>2. (IF Compacts(plan) THEN ap.items ELSE At(request_items, plan.included)) = ShownItems
    BY <1>6 DEF ShownItems
  <2> HIDE DEF L1, L2, L3
  <2> QED BY <2>1, <2>2, <1>6, Zenon DEF FiledRecord
<1>8. CASE Compacts(plan)
  <2>1. /\ CompactedEntries \in Seq(Nat) /\ CompactedSources \in Seq(Nat)
    BY <1>2, <1>8, CompactedIs
  <2>2. 0 \in Nat
    OBVIOUS
  <2>3. L1 \in Entry /\ L2 \in Entry /\ L3 \in Entry
    BY <2>1, <2>2, <1>2, <1>4, EntryTypes
  <2> HIDE DEF L1, L2, L3, first
  <2>4. PICK u \in Seq(Entry) : u = <<L1, L2, L3>>
    <3>1. <<L1, L2, L3>> \in Seq(Entry)
      BY <2>3
    <3> QED BY <3>1, Zenon
  <2>5. PICK w \in Seq(Entry) : w = <<ctl>>
    <3>1. <<ctl>> \in Seq(Entry)
      BY <1>5
    <3> QED BY <3>1, Zenon
  <2>6. PICK v \in Seq(Entry) :
           /\ v = retained \o u /\ Len(v) = Len(retained) + Len(u) /\ Grows(retained, v)
           /\ \A k \in 1..Len(u) : v[Len(retained) + k] = u[k]
    <3>1. /\ retained \o u \in Seq(Entry) /\ Len(retained \o u) = Len(retained) + Len(u)
          /\ Grows(retained, retained \o u)
          /\ \A k \in 1..Len(u) : (retained \o u)[Len(retained) + k] = u[k]
      BY <1>4, CatGrows
    <3> QED BY <3>1, Zenon
  <2>7. /\ v \o w \in Seq(Entry) /\ Len(v \o w) = Len(v) + Len(w) /\ Grows(v, v \o w)
        /\ \A k \in 1..Len(w) : (v \o w)[Len(v) + k] = w[k]
    BY CatGrows
  <2>8. /\ Len(u) = 3 /\ u[1] = L1 /\ u[2] = L2 /\ u[3] = L3 /\ Len(w) = 1 /\ w[1] = ctl
        /\ Len(retained) \in Nat
    BY <2>4, <2>5, <1>4
  <2>9. PICK r : r = retained' /\ r = v \o w
    <3>1. retained' = retained \o <<L1, L2, L3>> \o <<ctl>>
      BY <1>7, <1>8
    <3> QED BY <3>1, <2>4, <2>5, <2>6, Zenon
  <2>10. /\ retained' \in Seq(Entry) /\ Grows(retained, retained') /\ Len(retained') = first + 4
         /\ retained'[first + 1] = L1 /\ retained'[first + 2] = L2
         /\ retained'[first + 3] = L3 /\ retained'[first + 4] = ctl
    <3>1. /\ r \in Seq(Entry) /\ Len(r) = Len(v) + Len(w) /\ Grows(v, r)
          /\ \A k \in 1..Len(w) : r[Len(v) + k] = w[k]
      BY <2>7, <2>9, Zenon
    <3>2. Len(v) = first + 3 /\ Len(r) = first + 4 /\ first \in Nat
      BY <3>1, <2>6, <2>8 DEF first
    <3>3. \A k \in 1..(first + 3) : r[k] = v[k]
      BY <3>1, <3>2 DEF Grows
    <3>4. v[first + 1] = L1 /\ v[first + 2] = L2 /\ v[first + 3] = L3
      BY <2>6, <2>8 DEF first
    <3>5. r[first + 4] = ctl
      BY <3>1, <3>2, <2>8
    <3>6. Grows(retained, r)
      BY <2>6, <3>2, <3>3 DEF Grows, first
    <3>7. r[first + 1] = L1 /\ r[first + 2] = L2 /\ r[first + 3] = L3
      BY <3>2, <3>3, <3>4
    <3> QED BY <3>1, <3>2, <3>5, <3>6, <3>7, <2>9
  <2>11. append_snapshot(ShownItems, retained', FiledRecord) \in Context
    <3>1. FiledRecord \in Nat
      BY <1>2 DEF FiledRecord
    <3> QED BY <3>1, <2>10, <1>2, SnapshotType
  <2> QED BY <2>10, <2>11, <1>7, <1>8 DEF L1, L2, L3, ctl, first
<1>9. CASE ~Compacts(plan)
  <2> HIDE DEF L1, L2, L3, first
  <2>1. retained' = retained \o <<ctl>>
    <3>1. retained' = retained \o <<>> \o <<ctl>>
      BY <1>7, <1>9
    <3>2. retained \o <<>> = retained
      BY <1>4
    <3> QED BY <3>1, <3>2
  <2>2. PICK t \in Seq(Entry) : t = <<ctl>>
    <3>1. <<ctl>> \in Seq(Entry)
      BY <1>5
    <3> QED BY <3>1, Zenon
  <2>3. /\ retained \o t \in Seq(Entry) /\ Len(retained \o t) = Len(retained) + Len(t)
        /\ Grows(retained, retained \o t)
        /\ \A k \in 1..Len(t) : (retained \o t)[Len(retained) + k] = t[k]
    BY <1>4, CatGrows
  <2>4. Len(t) = 1 /\ t[1] = ctl
    BY <2>2
  <2>5. retained' = retained \o t
    BY <2>1, <2>2
  <2>6. /\ retained' \in Seq(Entry) /\ Grows(retained, retained') /\ Len(retained') = first + 1
        /\ retained'[first + 1] = ctl
    <3>1. 1 \in 1..Len(t)
      BY <2>4
    <3>2. (retained \o t)[Len(retained) + 1] = t[1]
      BY <3>1, <2>3, Zenon
    <3> QED BY <3>2, <2>3, <2>4, <2>5, Zenon DEF first
  <2>7. append_snapshot(ShownItems, retained', FiledRecord) \in Context
    <3>1. FiledRecord \in Nat
      BY <1>2 DEF FiledRecord
    <3> QED BY <3>1, <2>6, <1>2, SnapshotType
  <2> QED BY <2>6, <2>7, <1>7, <1>9 DEF ctl, first
<1> QED
  BY <1>8, <1>9, Zenon

-----------------------------------------------------------------------------
(* The invariant.                                                          *)

\* An item of the request history says what its log entry says: a trajectory
\* message that has been synced, or the summary of a replacement record.
ItemOK(item, log, messages, records, n) ==
    /\ item.entry \in 1..Len(log)
    /\ log[item.entry].message = item.message
    /\ log[item.entry].source = item.source
    /\ item.record = 0 =>
          /\ item.source \in 1..n
          /\ item.message = messages[item.source]
          /\ log[item.entry].kind = "source_message"
    /\ item.record # 0 =>
          /\ item.source = 0
          /\ item.record \in 1..Len(records)
          /\ item.message.role = "system"
          /\ log[item.entry].kind = "replacement_summary"

ItemsOK ==
    \A k \in 1..Len(request_items) :
        ItemOK(request_items[k], retained, trajectory, replacements, Len(source_items))

\* The trajectory positions an item stands for.
Span(item, records) ==
    IF item.record = 0 THEN {item.source} ELSE Range(records[item.record].sources)

\* The items divide the first n trajectory positions among them, in order.
Divides(items, records, n) ==
    /\ \A k \in 1..Len(items) : /\ Span(items[k], records) \subseteq 1..n
                                /\ Span(items[k], records) # {}
    /\ \A i \in 1..n : \E k \in 1..Len(items) : i \in Span(items[k], records)
    /\ \A k, l \in 1..Len(items) :
          k # l => Span(items[k], records) \cap Span(items[l], records) = {}
    /\ \A k, l \in 1..Len(items) :
          k < l => Min(Span(items[k], records)) < Min(Span(items[l], records))

\* A loose trajectory message is shown by a set of positions exactly when the
\* rest of its turn is.
WholeIn(messages, shown) ==
    \A i, j \in Loose(messages) :
        Together(messages, i, j) => (i \in shown <=> j \in shown)

\* The compaction artifacts logged so far are of turns that have their request.
ArtifactsOK ==
    \A id \in 1..Len(retained) :
        retained[id].control = "compaction_artifact" => retained[id].turn <= Len(contexts)

\* The trajectory positions a request shows, by the log.
ShownBy(ctx, log) == {log[ctx.selected[k]].source : k \in DOMAIN ctx.selected} \ {0}

\* The n-th request-context entry, against the log and the trajectory.
ContextOK(ctx, n, log, messages, r) ==
    /\ ctx.turn = n
    /\ SelectedReplays(ctx, log)
    /\ ctx.active /\ ctx.record # 0 => LineageRecordOk(ctx, log)
    /\ r.policy # "model_backed_compaction" =>
          (ctx.satisfied <=> token_budget_allows(reconstruct_selected_messages(ctx, log),
                                                 r.limits))
    /\ ShownBy(ctx, log) \subseteq 1..Len(messages)
    /\ r.policy # "tail_window" => WholeIn(messages, ShownBy(ctx, log))

ContextsOK ==
    \A n \in 1..Len(contexts) : ContextOK(contexts[n], n, retained, trajectory, run)

\* What is synced of a turn is shown whole or not at all.
TurnsOK ==
    \A i, j \in Loose(trajectory) :
        Together(trajectory, i, j) /\ j <= Len(source_items) =>
            (i \in Shows(request_items) <=> j \in Shows(request_items))

\* Messages that are not synced yet begin a turn.
FreshOK ==
    Len(source_items) < Len(trajectory) =>
        trajectory[Len(source_items) + 1].role = "assistant"

\* A synced prompt or runtime message is shown in every request from then on.
PinnedOK ==
    \A i \in 1..Len(source_items) :
        trajectory[i].role \in {"system", "user"} => i \in Shows(request_items)

HistoryInvariant ==
    /\ HistoryTypeOK
    /\ LoopOK
    /\ ItemsOK
    /\ Divides(request_items, replacements, Len(source_items))
    /\ ArtifactsOK
    /\ ContextsOK
    /\ TurnsOK
    /\ FreshOK
    /\ PinnedOK

(* Growing logs leave an item in order.                                    *)
LEMMA ItemGrows ==
  ASSUME NEW log \in Seq(Entry), NEW log2 \in Seq(Entry), Grows(log, log2),
         NEW ms \in Seq(Message), NEW ms2 \in Seq(Message), Grows(ms, ms2),
         NEW rs \in Seq(Record), NEW rs2 \in Seq(Record), Grows(rs, rs2),
         NEW n \in Nat, NEW n2 \in Nat, n <= n2, n <= Len(ms),
         NEW item \in Item, ItemOK(item, log, ms, rs, n)
  PROVE  ItemOK(item, log2, ms2, rs2, n2)
<1>1. item.entry \in 1..Len(log2) /\ log2[item.entry] = log[item.entry]
  BY DEF ItemOK, Grows
<1>2. item.record = 0 => item.source \in 1..n2 /\ ms2[item.source] = ms[item.source]
  BY DEF ItemOK, Grows
<1>3. item.record # 0 => item.record \in 1..Len(rs2)
  BY DEF ItemOK, Grows
<1> QED
  BY <1>1, <1>2, <1>3 DEF ItemOK

(* Whole turns stay whole when the next turn begins.                       *)
LEMMA WholeGrows ==
  ASSUME NEW ms \in Seq(Message), NEW ms2 \in Seq(Message), Grows(ms, ms2),
         Len(ms) < Len(ms2) => ms2[Len(ms) + 1].role = "assistant",
         NEW shown, shown \subseteq 1..Len(ms), WholeIn(ms, shown)
  PROVE  WholeIn(ms2, shown)
<1> SUFFICES ASSUME NEW i \in Loose(ms2), NEW j \in Loose(ms2), Together(ms2, i, j)
             PROVE  i \in shown <=> j \in shown
  BY DEF WholeIn
<1>1. i \in 1..Len(ms2) /\ j \in 1..Len(ms2) /\ i <= j /\ Len(ms) \in Nat /\ Len(ms2) \in Nat
  BY DEF Loose, Together
<1>2. CASE j <= Len(ms)
  <2>1. /\ i \in 1..Len(ms) /\ j \in 1..Len(ms)
        /\ \A a \in 1..Len(ms) : ms2[a] = ms[a] /\ a \in DOMAIN ms2
    BY <1>1, <1>2 DEF Grows
  <2>2. i \in Loose(ms) /\ j \in Loose(ms)
    BY <2>1 DEF Loose
  <2>3. Together(ms, i, j)
    BY <2>1, <1>1 DEF Together
  <2> QED BY <2>2, <2>3 DEF WholeIn
<1>3. CASE j > Len(ms) /\ i <= Len(ms)
  <2>1. Len(ms) + 1 \in DOMAIN ms2 /\ i < Len(ms) + 1 /\ Len(ms) + 1 <= j
    BY <1>1, <1>3
  <2>2. ms2[Len(ms) + 1].role = "assistant"
    BY <1>1, <1>3
  <2> QED BY <2>1, <2>2 DEF Together
<1>4. CASE i > Len(ms)
  BY <1>1, <1>4
<1> QED
  BY <1>1, <1>2, <1>3, <1>4

(* Growing logs leave a lineage in order, unless they file another         *)
(* artifact for its turn.                                                  *)
LEMMA LineageGrows ==
  ASSUME NEW log \in Seq(Entry), NEW log2 \in Seq(Entry), Grows(log, log2),
         NEW ctx \in Context, LineageRecordOk(ctx, log),
         \A id \in 1..Len(log2) : id > Len(log) /\ log2[id].control = "compaction_artifact" =>
                                     log2[id].turn # ctx.turn
  PROVE  LineageRecordOk(ctx, log2)
<1> DEFINE Art(l) == {id \in DOMAIN l : /\ l[id].turn = ctx.turn
                                       /\ l[id].kind = "history_control"
                                       /\ l[id].control = "compaction_artifact"}
<1>1. \A id \in DOMAIN log : id \in DOMAIN log2 /\ log2[id] = log[id]
  BY DEF Grows
<1>2. Art(log2) = Art(log)
  <2>1. \A id \in DOMAIN log2 : id \in DOMAIN log \/ id > Len(log)
    OBVIOUS
  <2> QED BY <2>1, <1>1
<1>3. Cardinality(Art(log)) = 1
  BY DEF LineageRecordOk
<1>4. Cardinality(Art(log2)) = 1
  <2> HIDE DEF Art
  <2> QED BY <1>2, <1>3
<1>5. /\ {ctx.summary, ctx.carried} \subseteq DOMAIN log2
      /\ log2[ctx.summary] = log[ctx.summary] /\ log2[ctx.carried] = log[ctx.carried]
  BY <1>1 DEF LineageRecordOk
<1>6. \A id \in Range(log[ctx.summary].entries) : id \in DOMAIN log2 /\ log2[id].kind = "source_message"
  BY <1>1 DEF LineageRecordOk
<1> QED
  BY <1>4, <1>5, <1>6 DEF LineageRecordOk

(* Growing logs leave a request's entry in order.                          *)
LEMMA ContextGrows ==
  ASSUME NEW log \in Seq(Entry), NEW log2 \in Seq(Entry), Grows(log, log2),
         NEW ms \in Seq(Message), NEW ms2 \in Seq(Message), Grows(ms, ms2),
         Len(ms) < Len(ms2) => ms2[Len(ms) + 1].role = "assistant",
         NEW ctx \in Context, NEW n, NEW r, ContextOK(ctx, n, log, ms, r),
         \A id \in 1..Len(log2) : id > Len(log) /\ log2[id].control = "compaction_artifact" =>
                                     log2[id].turn # n
  PROVE  ContextOK(ctx, n, log2, ms2, r)
<1>1. \A k \in DOMAIN ctx.selected :
         /\ ctx.selected[k] \in DOMAIN log
         /\ ctx.selected[k] \in DOMAIN log2
         /\ log2[ctx.selected[k]] = log[ctx.selected[k]]
  BY DEF ContextOK, SelectedReplays, Replayable, Grows
<1>2. SelectedReplays(ctx, log2)
  BY <1>1 DEF ContextOK, SelectedReplays, Replayable
<1>3. ctx.active /\ ctx.record # 0 => LineageRecordOk(ctx, log2)
  BY LineageGrows DEF ContextOK
<1>4. reconstruct_selected_messages(ctx, log2) = reconstruct_selected_messages(ctx, log)
  BY <1>1 DEF reconstruct_selected_messages, Messages
<1>5. ShownBy(ctx, log2) = ShownBy(ctx, log)
  BY <1>1 DEF ShownBy
<1>6. ShownBy(ctx, log) \subseteq 1..Len(ms2)
  BY DEF ContextOK, Grows
<1>7. r.policy # "tail_window" => WholeIn(ms2, ShownBy(ctx, log))
  BY WholeGrows DEF ContextOK
<1> QED
  BY <1>2, <1>3, <1>4, <1>5, <1>6, <1>7 DEF ContextOK

(* The least of a single position.                                         *)
LEMMA MinOne ==
  ASSUME NEW x \in Nat
  PROVE  Min({x}) = x
<1>1. {x} \subseteq Nat /\ {x} # {}
  OBVIOUS
<1>2. Min({x}) \in {x}
  BY <1>1, MinIs
<1> QED
  BY <1>2

(* Syncing d messages more, an item each, divides n + d positions.         *)
LEMMA DividesSync ==
  ASSUME NEW items \in Seq(Item), NEW items2 \in Seq(Item), Grows(items, items2),
         NEW rs, NEW n \in Nat, NEW d \in Nat, Len(items2) = Len(items) + d,
         \A k \in 1..d : /\ items2[Len(items) + k].record = 0
                         /\ items2[Len(items) + k].source = n + k,
         Divides(items, rs, n)
  PROVE  Divides(items2, rs, n + d)
<1> DEFINE L == Len(items)
           S(k) == Span(items2[k], rs)
<1>1. L \in Nat /\ Len(items2) = L + d
  OBVIOUS
<1>2. \A k \in 1..L : k \in 1..Len(items2) /\ S(k) = Span(items[k], rs)
  BY DEF Grows
<1>3. \A k \in 1..d : S(L + k) = {n + k}
  BY DEF Span
<1>4. \A k \in 1..(L + d) : k \in 1..L \/ \E j \in 1..d : k = L + j
  <2> TAKE k \in 1..(L + d)
  <2>1. k \in 1..L \/ (k - L \in 1..d /\ k = L + (k - L))
    BY <1>1
  <2> HIDE DEF L
  <2> QED BY <2>1
<1>5. /\ \A k \in 1..L : S(k) \subseteq 1..n /\ S(k) # {}
      /\ \A i \in 1..n : \E k \in 1..L : i \in S(k)
      /\ \A k, l \in 1..L : k # l => S(k) \cap S(l) = {}
      /\ \A k, l \in 1..L : k < l => Min(S(k)) < Min(S(l))
  BY <1>2 DEF Divides
<1> HIDE DEF S, L
<1>6. \A k \in 1..L : Min(S(k)) \in 1..n
  <2> TAKE k \in 1..L
  <2>1. S(k) \subseteq Nat /\ S(k) # {} /\ S(k) \subseteq 1..n
    BY SMTT(30), <1>5
  <2> QED BY <2>1, MinIs
<1>7. \A k \in 1..d : Min(S(L + k)) = n + k
  <2> TAKE k \in 1..d
  <2>1. n + k \in Nat
    OBVIOUS
  <2> QED BY <2>1, <1>3, MinOne
<1>8. \A k \in 1..(L + d) : S(k) \subseteq 1..(n + d) /\ S(k) # {}
  <2> TAKE k \in 1..(L + d)
  <2>1. CASE k \in 1..L
    <3>1. S(k) \subseteq 1..n /\ S(k) # {}
      BY <2>1, <1>5
    <3>2. 1..n \subseteq 1..(n + d)
      OBVIOUS
    <3> QED BY <3>1, <3>2
  <2>2. CASE \E j \in 1..d : k = L + j
    <3>1. PICK j \in 1..d : k = L + j
      BY <2>2
    <3>2. S(L + j) = {n + j}
      BY <1>3
    <3>3. n + j \in 1..(n + d)
      OBVIOUS
    <3> QED BY <3>1, <3>2, <3>3
  <2> QED BY <2>1, <2>2, <1>4
<1>9. \A i \in 1..(n + d) : \E k \in 1..(L + d) : i \in S(k)
  <2> TAKE i \in 1..(n + d)
  <2>1. CASE i <= n
    <3>1. PICK k \in 1..L : i \in S(k)
      BY <2>1, <1>5
    <3> QED BY <3>1, <1>1
  <2>2. CASE i > n
    <3>1. PICK j \in 1..d : i = n + j
      <4>1. i - n \in 1..d /\ i = n + (i - n)
        BY <2>2
      <4> QED BY <4>1
    <3>2. L + j \in 1..(L + d) /\ i \in S(L + j)
      BY <3>1, <1>1, <1>3
    <3> QED BY <3>2
  <2> QED BY <2>1, <2>2
<1>10. \A k, l \in 1..(L + d) : k # l => S(k) \cap S(l) = {}
  <2> TAKE k, l \in 1..(L + d)
  <2> HAVE k # l
  <2>1. CASE k \in 1..L /\ l \in 1..L
    BY <2>1, <1>5
  <2>2. CASE k \in 1..L /\ \E j \in 1..d : l = L + j
    <3>1. PICK j \in 1..d : l = L + j
      BY <2>2
    <3>2. S(l) = {n + j} /\ S(k) \subseteq 1..n /\ n + j \notin 1..n
      <4>1. S(L + j) = {n + j}
        BY <1>3
      <4>2. S(k) \subseteq 1..n
        BY <2>2, <1>5
      <4>3. n + j \notin 1..n
        OBVIOUS
      <4> QED BY <4>1, <4>2, <4>3, <3>1
    <3> QED BY <3>2
  <2>3. CASE l \in 1..L /\ \E j \in 1..d : k = L + j
    <3>1. PICK j \in 1..d : k = L + j
      BY <2>3
    <3>2. S(k) = {n + j} /\ S(l) \subseteq 1..n /\ n + j \notin 1..n
      <4>1. S(L + j) = {n + j}
        BY <1>3
      <4>2. S(l) \subseteq 1..n
        BY <2>3, <1>5
      <4>3. n + j \notin 1..n
        OBVIOUS
      <4> QED BY <4>1, <4>2, <4>3, <3>1
    <3> QED BY <3>2
  <2>4. CASE (\E j \in 1..d : k = L + j) /\ (\E j \in 1..d : l = L + j)
    <3>1. PICK i \in 1..d : k = L + i
      BY <2>4
    <3>2. PICK j \in 1..d : l = L + j
      BY <2>4
    <3>3. S(k) = {n + i} /\ S(l) = {n + j} /\ i # j
      BY <3>1, <3>2, <1>3
    <3> QED BY <3>3
  <2> QED BY <2>1, <2>2, <2>3, <2>4, <1>4
<1>11. \A k, l \in 1..(L + d) : k < l => Min(S(k)) < Min(S(l))
  <2> TAKE k, l \in 1..(L + d)
  <2> HAVE k < l
  <2>1. CASE k \in 1..L /\ l \in 1..L
    BY <2>1, <1>5
  <2>2. CASE k \in 1..L /\ \E j \in 1..d : l = L + j
    <3>1. PICK j \in 1..d : l = L + j
      BY <2>2
    <3>2. Min(S(l)) = n + j /\ Min(S(k)) \in 1..n
      BY <3>1, <2>2, <1>6, <1>7
    <3> QED BY <3>2
  <2>3. CASE \E j \in 1..d : k = L + j
    <3>1. PICK i \in 1..d : k = L + i
      BY <2>3
    <3>2. PICK j \in 1..d : l = L + j
      <4>1. l - L \in 1..d /\ l = L + (l - L)
        BY <3>1, <1>1
      <4> QED BY <4>1
    <3>3. Min(S(k)) = n + i /\ Min(S(l)) = n + j /\ i < j
      <4>1. Min(S(L + i)) = n + i /\ Min(S(L + j)) = n + j
        BY <1>7
      <4>2. i < j
        BY <3>1, <3>2, <1>1
      <4> QED BY <4>1, <4>2, <3>1, <3>2
    <3> QED BY <3>3
  <2> QED BY <2>1, <2>2, <2>3, <1>4
<1> QED
  BY <1>1, <1>8, <1>9, <1>10, <1>11 DEF Divides, S

(* A compaction of message items, filed with their positions, divides the  *)
(* same positions.                                                         *)
LEMMA DividesCompact ==
  ASSUME NEW items \in Seq(Item), NEW P, P \subseteq 1..Len(items), P # {},
         NEW new \in Item, NEW R \in Seq(Item), IsReplaced(R, items, P, new),
         NEW rs \in Seq(Record), NEW rec \in Record, NEW rs2 \in Seq(Record),
         Grows(rs, rs2), Len(rs2) = Len(rs) + 1, rs2[Len(rs) + 1] = rec,
         new.record = Len(rs) + 1,
         \A k \in 1..Len(items) : items[k].record \in 0..Len(rs),
         \A p \in P : items[p].record = 0,
         Range(rec.sources) = {items[p].source : p \in P},
         NEW n \in Nat, Divides(items, rs, n)
  PROVE  Divides(R, rs2, n)
<1> DEFINE S(k) == Span(items[k], rs)
           T(k) == Span(R[k], rs2)
           N == Len(items)
           G(k) == From(N, P, k)
           m == Min(P)
<1>1. /\ N \in Nat /\ m \in P /\ m \in 1..N /\ \A p \in P : m <= p /\ p \in 1..N
      /\ Len(R) \in Nat /\ m \in 1..Len(R)
  BY DEF IsReplaced
<1>2. /\ \A k \in 1..Len(R) : k # m => R[k] = items[G(k)] /\ G(k) \in (1..N) \ P
      /\ G(m) = m /\ R[m] = new
      /\ \A k \in 1..Len(R) : G(k) \in 1..N
      /\ \A k, l \in 1..Len(R) : k < l => G(k) < G(l)
      /\ \A i \in (1..N) \ P : \E k \in 1..Len(R) : k # m /\ G(k) = i
  BY DEF IsReplaced
<1>3. /\ \A k \in 1..N : S(k) \subseteq 1..n /\ S(k) # {}
      /\ \A i \in 1..n : \E k \in 1..N : i \in S(k)
      /\ \A k, l \in 1..N : k # l => S(k) \cap S(l) = {}
      /\ \A k, l \in 1..N : k < l => Min(S(k)) < Min(S(l))
  BY DEF Divides
<1>4. \A k \in 1..N : Span(items[k], rs2) = S(k)
  BY DEF Span, Grows
<1>5. \A p \in P : S(p) = {items[p].source}
  BY DEF Span
<1>6. T(m) = {items[p].source : p \in P}
  <2>1. R[m] = new /\ new.record # 0 /\ rs2[new.record] = rec
    BY <1>2
  <2> QED BY <2>1 DEF Span
<1>7. \A k \in 1..Len(R) : k # m => T(k) = S(G(k))
  <2> TAKE k \in 1..Len(R)
  <2> HAVE k # m
  <2>1. R[k] = items[G(k)] /\ G(k) \in 1..N
    BY <1>2
  <2> HIDE DEF G, S
  <2> QED BY <2>1, <1>4
<1>8. \A i : i \in T(m) <=> \E p \in P : i \in S(p)
  BY <1>5, <1>6
<1> HIDE DEF S, T, G, m, N
<1>9. \A k \in 1..N : Min(S(k)) \in S(k) /\ \A i \in S(k) : Min(S(k)) <= i
  <2> TAKE k \in 1..N
  <2>1. S(k) \subseteq Nat /\ S(k) # {}
    BY SMTT(30), <1>3
  <2> QED BY <2>1, MinIs
<1>10. \A p \in P : Min(S(p)) = items[p].source /\ items[p].source \in Nat
  <2> TAKE p \in P
  <2>1. p \in 1..N /\ S(p) = {items[p].source}
    BY <1>1, <1>5
  <2>2. Min(S(p)) \in S(p) /\ S(p) \subseteq 1..n
    BY <2>1, <1>3, <1>9
  <2> QED BY <2>1, <2>2
<1>11. Min(T(m)) = Min(S(m))
  <2>1. Min(S(m)) \in T(m) /\ T(m) \subseteq Nat /\ T(m) # {}
    BY <1>1, <1>6, <1>10
  <2>2. \A i \in T(m) : Min(S(m)) <= i
    <3> TAKE i \in T(m)
    <3>1. PICK p \in P : i = items[p].source
      BY <1>6
    <3>2. CASE p = m
      BY <3>1, <3>2, <1>10
    <3>3. CASE p # m
      <4>1. m < p /\ m \in 1..N /\ p \in 1..N
        BY <3>3, <1>1
      <4>2. Min(S(m)) < Min(S(p))
        BY <4>1, <1>3
      <4> QED BY <4>2, <3>1, <1>10, <1>1
    <3> QED BY <3>2, <3>3
  <2>3. Min(T(m)) \in T(m) /\ \A i \in T(m) : Min(T(m)) <= i
    BY <2>1, MinIs
  <2>4. Min(T(m)) <= Min(S(m)) /\ Min(S(m)) <= Min(T(m))
    BY <2>1, <2>2, <2>3
  <2>5. Min(T(m)) \in Nat /\ Min(S(m)) \in Nat
    BY <2>1, <2>3
  <2> QED BY <2>4, <2>5
<1>12. \A k \in 1..Len(R) : Min(T(k)) = Min(S(G(k)))
  <2> TAKE k \in 1..Len(R)
  <2>1. CASE k = m
    BY <2>1, <1>2, <1>11
  <2>2. CASE k # m
    BY <2>2, <1>7
  <2> QED BY <2>1, <2>2
<1>13. \A k \in 1..Len(R) : T(k) \subseteq 1..n /\ T(k) # {}
  <2> TAKE k \in 1..Len(R)
  <2>1. CASE k = m
    <3>1. \A i \in T(m) : i \in 1..n
      BY <1>1, <1>3, <1>8
    <3>2. T(m) # {}
      BY <1>1, <1>6
    <3> QED BY <3>1, <3>2, <2>1
  <2>2. CASE k # m
    BY SMTT(30), <2>2, <1>2, <1>3, <1>7
  <2> QED BY <2>1, <2>2
<1>14. \A i \in 1..n : \E k \in 1..Len(R) : i \in T(k)
  <2> TAKE i \in 1..n
  <2>1. PICK q \in 1..N : i \in S(q)
    BY <1>3
  <2>2. CASE q \in P
    BY <2>1, <2>2, <1>1, <1>8
  <2>3. CASE q \notin P
    <3>1. PICK k \in 1..Len(R) : k # m /\ G(k) = q
      BY <2>3, <1>2
    <3> QED BY <3>1, <2>1, <1>7
  <2> QED BY <2>2, <2>3
<1>15. \A k, l \in 1..Len(R) : k < l => Min(T(k)) < Min(T(l))
  BY <1>2, <1>3, <1>12
<1>16. \A k, l \in 1..Len(R) : k # l => T(k) \cap T(l) = {}
  <2>1. \A k \in 1..Len(R) : k # m => T(k) \cap T(m) = {}
    <3> SUFFICES ASSUME NEW k \in 1..Len(R), k # m, NEW i \in T(k), i \in T(m)
                 PROVE  FALSE
      OBVIOUS
    <3>1. PICK p \in P : i \in S(p)
      BY <1>8
    <3>2. i \in S(G(k)) /\ G(k) \in 1..N /\ G(k) \notin P /\ p \in 1..N
      BY <1>1, <1>2, <1>7
    <3>3. S(G(k)) \cap S(p) = {}
      BY <3>2, <1>3
    <3> QED BY <3>1, <3>2, <3>3
  <2>2. \A k, l \in 1..Len(R) : k # m /\ l # m /\ k # l => T(k) \cap T(l) = {}
    <3> TAKE k, l \in 1..Len(R)
    <3> HAVE k # m /\ l # m /\ k # l
    <3>1. G(k) \in 1..N /\ G(l) \in 1..N
      BY <1>2
    <3>2. G(k) # G(l)
      <4>1. k < l \/ l < k
        BY <1>1
      <4>2. G(k) < G(l) \/ G(l) < G(k)
        BY <4>1, <1>2
      <4> QED BY <4>2, <3>1, <1>1
    <3> QED BY <3>1, <3>2, <1>3, <1>7
  <2> QED BY <2>1, <2>2
<1> QED
  BY <1>13, <1>14, <1>15, <1>16 DEF Divides, T

-----------------------------------------------------------------------------
(* The steps.                                                              *)

(* What a list of items shows.                                             *)
LEMMA ShowsIs ==
  ASSUME NEW items \in Seq(Item), NEW i
  PROVE  i \in Shows(items) <=> i # 0 /\ \E k \in 1..Len(items) : items[k].source = i
<1>1. DOMAIN items = 1..Len(items)
  OBVIOUS
<1> QED
  BY <1>1 DEF Shows

(* The two prompts, synced, make a history in order.                       *)
LEMMA InitOK ==
  Init => HistoryInvariant
<1> SUFFICES ASSUME Init PROVE HistoryInvariant
  OBVIOUS
<1> DEFINE A == [role |-> "system", size |-> 1, ref |-> 1]
           B == [role |-> "user",   size |-> 1, ref |-> 2]
<1>1. A \in Message /\ B \in Message
  BY DEF Message
<1> HIDE DEF A, B
<1>2. /\ trajectory = <<A, B>> /\ trajectory \in Seq(Message) /\ Len(trajectory) = 2
      /\ trajectory[1] = A /\ trajectory[2] = B
  BY <1>1 DEF Init, FirstMessages, A, B
<1>3. \A k \in 1..2 : FirstMessages[k] = trajectory[k] /\ trajectory[k] \in Message
  BY <1>1, <1>2 DEF Init
<1>4. /\ source_items = <<1, 2>> /\ source_items \in Seq(Nat) /\ Len(source_items) = 2
      /\ source_items[1] = 1 /\ source_items[2] = 2
  BY DEF Init
<1>5. /\ request_items \in Seq(Item) /\ Len(request_items) = 2
      /\ \A k \in 1..2 : request_items[k] = [message |-> trajectory[k], source |-> k,
                                             record |-> 0, entry |-> k]
  <2>1. request_items = [k \in 1..2 |-> [message |-> trajectory[k], source |-> k,
                                          record |-> 0, entry |-> k]]
    BY <1>3 DEF Init
  <2>2. request_items \in [1..2 -> Item]
    BY <2>1, <1>3 DEF Item
  <2>3. request_items \in Seq(Item) /\ Len(request_items) = 2
    BY <2>2, FcnSeq
  <2> QED BY <2>1, <2>3
<1>6. /\ retained \in Seq(Entry) /\ Len(retained) = 2
      /\ \A k \in 1..2 : retained[k] = append_source_message(0, k, trajectory[k])
  <2>1. retained = [k \in 1..2 |-> append_source_message(0, k, trajectory[k])]
    BY <1>3 DEF Init
  <2>2. \A k \in 1..2 : append_source_message(0, k, trajectory[k]) \in Entry
    <3> TAKE k \in 1..2
    <3>1. 0 \in Nat /\ k \in Nat /\ trajectory[k] \in Message /\ <<>> \in Seq(Nat)
      BY <1>3
    <3> QED BY <3>1, EntryTypes
  <2>3. retained \in [1..2 -> Entry]
    BY <2>1, <2>2
  <2>4. retained \in Seq(Entry) /\ Len(retained) = 2
    BY <2>3, FcnSeq
  <2> QED BY <2>1, <2>4
<1>7. /\ replacements = <<>> /\ replacements \in Seq(Record)
      /\ contexts = <<>> /\ contexts \in Seq(Context) /\ Len(contexts) = 0
      /\ session \in [issue : Nat, validated : Nat] /\ turn = 0
      /\ phase \in {"loop", "ending"}
  BY DEF Init
<1>8. plan \in Plan
  <2>1. <<>> \in Seq(Message) /\ {} \in SUBSET DOMAIN <<>> /\ FALSE \in BOOLEAN
    OBVIOUS
  <2>2. {} = DOMAIN <<>>
    OBVIOUS
  <2> DEFINE lim == [messages |-> NoLimit, tokens |-> NoLimit]
  <2> HIDE DEF lim
  <2>3. IsPlan("full_history", <<>>, lim, Selection(<<>>, lim, {}, FALSE))
    BY <2>1, <2>2, SelectionIs
  <2> QED BY <2>3 DEF Init, NoPlan, IsPlan, lim
<1>9. run \in [policy : ContextPolicyMode,
               limits : [messages : Nat \cup {NoLimit}, tokens : Nat \cup {NoLimit}]]
  <2>1. run \in [policy : Policies, limits : [messages : MessageLimits, tokens : TokenLimits]]
    BY DEF Init
  <2>2. /\ Policies \subseteq ContextPolicyMode
        /\ MessageLimits \subseteq Nat \cup {NoLimit} /\ TokenLimits \subseteq Nat \cup {NoLimit}
    BY HistoryAssumption
  <2> QED BY <2>1, <2>2
<1>10. HistoryTypeOK
  BY <1>2, <1>4, <1>5, <1>6, <1>7, <1>8, <1>9 DEF HistoryTypeOK, Phases
<1>11. LoopOK
  BY <1>2, <1>4, <1>7 DEF LoopOK
<1>12. \A k \in 1..2 : /\ retained[k].message = trajectory[k] /\ retained[k].source = k
                        /\ retained[k].kind = "source_message" /\ retained[k].control = "none"
  <2> TAKE k \in 1..2
  <2>1. retained[k] = append_source_message(0, k, trajectory[k])
    BY <1>6
  <2>2. \A m : LET e == append_source_message(0, k, m)
              IN  e.message = m /\ e.source = k /\ e.kind = "source_message" /\ e.control = "none"
    BY DEF append_source_message, NoEntry
  <2> QED BY <2>1, <2>2
<1>13. ItemsOK
  <2> SUFFICES ASSUME NEW k \in 1..2
               PROVE  ItemOK(request_items[k], retained, trajectory, replacements, 2)
    BY <1>4, <1>5 DEF ItemsOK
  <2>1. /\ request_items[k].message = trajectory[k] /\ request_items[k].source = k
        /\ request_items[k].record = 0 /\ request_items[k].entry = k
    BY <1>5
  <2> QED BY <2>1, <1>6, <1>12 DEF ItemOK
<1>14. Divides(request_items, replacements, Len(source_items))
  <2>1. \A k \in 1..2 : Span(request_items[k], replacements) = {k}
    BY <1>5 DEF Span
  <2>2. \A k \in 1..2 : Min(Span(request_items[k], replacements)) = k
    BY <2>1, MinOne
  <2>3. \A k \in 1..2 : {k} \subseteq 1..2 /\ {k} # {} /\ k \in {k}
    OBVIOUS
  <2>4. \A k, l \in 1..2 : k # l => {k} \cap {l} = {}
    OBVIOUS
  <2> DEFINE S(k) == Span(request_items[k], replacements)
  <2> HIDE DEF S
  <2>5. \A k \in 1..2 : S(k) \subseteq 1..2 /\ S(k) # {} /\ k \in S(k)
    BY <2>1, <2>3 DEF S
  <2>6. \A k, l \in 1..2 : k # l => S(k) \cap S(l) = {}
    BY <2>1, <2>4 DEF S
  <2>7. \A k, l \in 1..2 : k < l => Min(S(k)) < Min(S(l))
    BY <2>2 DEF S
  <2>8. \A i \in 1..2 : \E k \in 1..2 : i \in S(k)
    BY <2>5
  <2> QED BY <2>5, <2>6, <2>7, <2>8, <1>4, <1>5 DEF Divides, S
<1>15. ArtifactsOK
  BY <1>6, <1>12 DEF ArtifactsOK
<1>16. ContextsOK
  BY <1>7 DEF ContextsOK
<1>17. TurnsOK
  <2>1. Loose(trajectory) = {}
    BY <1>2 DEF Loose, A, B
  <2> QED BY <2>1 DEF TurnsOK
<1>18. FreshOK
  BY <1>2, <1>4 DEF FreshOK
<1>19. PinnedOK
  <2>1. \A i \in 1..2 : request_items[i].source = i /\ i # 0
    BY <1>5
  <2>2. \A i \in 1..2 : i \in Shows(request_items)
    BY <2>1, <1>5, ShowsIs
  <2> QED BY <2>2, <1>4 DEF PinnedOK
<1> QED
  BY <1>10, <1>11, <1>13, <1>14, <1>15, <1>16, <1>17, <1>18, <1>19 DEF HistoryInvariant

(* A list that stays the same grows.                                       *)
LEMMA GrowsSame ==
  ASSUME NEW S, NEW s \in Seq(S)
  PROVE  Grows(s, s)
BY DEF Grows

(* Syncing keeps every part of the invariant about the histories.          *)
LEMMA SyncStep ==
  ASSUME HistoryInvariant, NEW t \in Nat, sync_source_messages(t),
         UNCHANGED <<run, trajectory, replacements, contexts>>
  PROVE  /\ retained' \in Seq(Entry) /\ source_items' \in Seq(Nat)
         /\ request_items' \in Seq(Item) /\ Len(source_items') = Len(trajectory)
         /\ ItemsOK' /\ Divides(request_items, replacements, Len(source_items))'
         /\ ArtifactsOK' /\ ContextsOK' /\ TurnsOK' /\ FreshOK' /\ PinnedOK'
<1> DEFINE n == Len(source_items)
           N == Len(trajectory)
           d == N - n
           L == Len(request_items)
           E == Len(retained)
<1>1. /\ n \in Nat /\ d \in Nat
      /\ retained' \in Seq(Entry) /\ Grows(retained, retained')
      /\ Len(retained') = E + d
      /\ \A k \in 1..d : retained'[E + k] = append_source_message(t, n + k, trajectory[n + k])
      /\ source_items' \in Seq(Nat) /\ Len(source_items') = N
      /\ request_items' \in Seq(Item) /\ Grows(request_items, request_items')
      /\ Len(request_items') = L + d
      /\ \A k \in 1..d : request_items'[L + k]
            = [message |-> trajectory[n + k], source |-> n + k, record |-> 0, entry |-> E + k]
  BY SyncIs DEF HistoryInvariant
<1>2. /\ trajectory \in Seq(Message) /\ N \in Nat /\ n + d = N /\ n <= N
      /\ request_items \in Seq(Item) /\ L \in Nat
      /\ retained \in Seq(Entry) /\ E \in Nat /\ replacements \in Seq(Record)
      /\ contexts \in Seq(Context)
  BY SMTT(30), <1>1 DEF HistoryInvariant, HistoryTypeOK, LoopOK
<1>3. \A k \in 1..d : /\ retained'[E + k].message = trajectory[n + k]
                       /\ retained'[E + k].source = n + k
                       /\ retained'[E + k].kind = "source_message"
                       /\ retained'[E + k].control = "none"
  BY <1>1 DEF append_source_message, NoEntry
<1>4. \A k \in 1..d : /\ request_items'[L + k].message = trajectory[n + k]
                       /\ request_items'[L + k].source = n + k
                       /\ request_items'[L + k].record = 0
                       /\ request_items'[L + k].entry = E + k
  <2> TAKE k \in 1..d
  <2>1. request_items'[L + k]
        = [message |-> trajectory[n + k], source |-> n + k, record |-> 0, entry |-> E + k]
    BY <1>1
  <2> QED BY <2>1
<1>5. \A k \in 1..L : k \in 1..(L + d) /\ request_items'[k] = request_items[k]
  BY <1>1, <1>2 DEF Grows
<1>6. \A k \in 1..(L + d) : k \in 1..L \/ \E j \in 1..d : k = L + j
  <2> TAKE k \in 1..(L + d)
  <2>1. k \in 1..L \/ (k - L \in 1..d /\ k = L + (k - L))
    BY <1>1, <1>2
  <2> HIDE DEF L, d
  <2> QED BY <2>1
<1> HIDE DEF n, N, d, L, E
<1>7. ItemsOK'
  <2> SUFFICES ASSUME NEW k \in 1..(L + d)
               PROVE  ItemOK(request_items'[k], retained', trajectory, replacements, N)
    BY <1>1 DEF ItemsOK
  <2>1. CASE k \in 1..L
    <3>1. request_items[k] \in Item /\ ItemOK(request_items[k], retained, trajectory, replacements, n)
      BY <2>1, <1>2 DEF HistoryInvariant, ItemsOK, L, n
    <3>2. Grows(trajectory, trajectory) /\ Grows(replacements, replacements)
      BY <1>2, GrowsSame
    <3>3. ItemOK(request_items[k], retained', trajectory, replacements, N)
      BY <3>1, <3>2, <1>1, <1>2, ItemGrows DEF N
    <3> QED BY <3>3, <2>1, <1>5
  <2>2. CASE \E j \in 1..d : k = L + j
    <3>1. PICK j \in 1..d : k = L + j
      BY <2>2
    <3>2. /\ request_items'[k].message = trajectory[n + j] /\ request_items'[k].source = n + j
          /\ request_items'[k].record = 0 /\ request_items'[k].entry = E + j
      BY <3>1, <1>4
    <3>3. n + j \in 1..N /\ E + j \in 1..Len(retained')
      BY <1>1, <1>2
    <3>4. /\ retained'[E + j].message = trajectory[n + j] /\ retained'[E + j].source = n + j
          /\ retained'[E + j].kind = "source_message"
      BY <1>3
    <3> QED BY <3>2, <3>3, <3>4 DEF ItemOK
  <2> QED BY <2>1, <2>2, <1>6
<1>8. Divides(request_items, replacements, Len(source_items))'
  <2>1. Divides(request_items, replacements, n)
    BY DEF HistoryInvariant, n
  <2>2. Divides(request_items', replacements, n + d)
    <3>1. \A k \in 1..d : /\ request_items'[Len(request_items) + k].record = 0
                           /\ request_items'[Len(request_items) + k].source = n + k
      BY <1>4 DEF L
    <3>2. Len(request_items') = Len(request_items) + d
      BY <1>1 DEF L
    <3> QED BY <3>1, <3>2, <2>1, <1>1, <1>2, DividesSync
  <2> QED BY <2>2, <1>1, <1>2
<1>9. \A id \in 1..Len(retained') :
         id \in 1..E \/ (id > E /\ retained'[id].control = "none")
  <2> TAKE id \in 1..Len(retained')
  <2>1. id \in 1..E \/ (id - E \in 1..d /\ id = E + (id - E) /\ id > E)
    BY SMTT(30), <1>1, <1>2
  <2>2. \A j \in 1..d : retained'[E + j].control = "none"
    BY <1>3
  <2> QED BY <2>1, <2>2
<1>10. ArtifactsOK'
  <2>1. \A id \in 1..E : retained'[id] = retained[id]
    BY <1>1 DEF Grows, E
  <2>2. \A id \in 1..E : retained[id].control = "compaction_artifact" =>
                            retained[id].turn <= Len(contexts)
    BY DEF HistoryInvariant, ArtifactsOK, E
  <2> QED BY <2>1, <2>2, <1>9 DEF ArtifactsOK
<1>11. ContextsOK'
  <2> SUFFICES ASSUME NEW c \in 1..Len(contexts)
               PROVE  ContextOK(contexts[c], c, retained', trajectory, run)
    BY DEF ContextsOK
  <2>1. contexts[c] \in Context /\ ContextOK(contexts[c], c, retained, trajectory, run)
    BY <1>2 DEF HistoryInvariant, ContextsOK
  <2>2. Grows(trajectory, trajectory) /\ ~(Len(trajectory) < Len(trajectory))
    BY <1>2, GrowsSame
  <2>3. \A id \in 1..Len(retained') :
           ~(id > Len(retained) /\ retained'[id].control = "compaction_artifact")
    <3>1. \A id \in 1..E : ~(id > E)
      BY <1>2
    <3> QED BY <3>1, <1>9 DEF E
  <2> QED BY <2>1, <2>2, <2>3, <1>1, <1>2, ContextGrows
<1>12. \A i : i \in Shows(request_items') <=> i \in Shows(request_items) \/ i \in (n + 1)..N
  <2> TAKE i
  <2>1. i \in Shows(request_items') <=> i # 0 /\ \E k \in 1..(L + d) : i = request_items'[k].source
    <3>1. DOMAIN request_items' = 1..(L + d)
      BY <1>1
    <3> QED BY <3>1 DEF Shows
  <2>2. i \in Shows(request_items) <=> i # 0 /\ \E k \in 1..L : i = request_items[k].source
    BY <1>2 DEF Shows, L
  <2>3. (\E k \in 1..(L + d) : i = request_items'[k].source)
        <=> (\E k \in 1..L : i = request_items[k].source) \/ (\E j \in 1..d : i = n + j)
    <3>1. ASSUME NEW k \in 1..(L + d), i = request_items'[k].source
          PROVE  (\E q \in 1..L : i = request_items[q].source) \/ (\E j \in 1..d : i = n + j)
      BY <3>1, <1>4, <1>5, <1>6
    <3>2. ASSUME NEW k \in 1..L, i = request_items[k].source
          PROVE  \E q \in 1..(L + d) : i = request_items'[q].source
      BY <3>2, <1>5
    <3>3. ASSUME NEW j \in 1..d, i = n + j
          PROVE  \E q \in 1..(L + d) : i = request_items'[q].source
      <4>1. L + j \in 1..(L + d)
        BY <1>1, <1>2
      <4> QED BY <4>1, <3>3, <1>4
    <3> QED BY <3>1, <3>2, <3>3
  <2>4. (\E j \in 1..d : i = n + j) <=> i \in (n + 1)..N
    <3>1. ASSUME i \in (n + 1)..N PROVE i - n \in 1..d /\ i = n + (i - n)
      BY <3>1, <1>1, <1>2
    <3>2. \A j \in 1..d : n + j \in (n + 1)..N
      BY <1>1, <1>2
    <3> QED BY <3>1, <3>2
  <2>5. i \in (n + 1)..N => i # 0
    BY <1>1, <1>2
  <2> QED BY <2>1, <2>2, <2>3, <2>4, <2>5
<1>13. TurnsOK'
  <2> SUFFICES ASSUME NEW i \in Loose(trajectory), NEW j \in Loose(trajectory),
                      Together(trajectory, i, j)
               PROVE  i \in Shows(request_items') <=> j \in Shows(request_items')
    BY DEF TurnsOK
  <2>1. i \in 1..N /\ j \in 1..N /\ i <= j
    BY <1>2 DEF Loose, Together, N
  <2>2. CASE j <= n
    <3>1. i \in Shows(request_items) <=> j \in Shows(request_items)
      BY <2>2 DEF HistoryInvariant, TurnsOK, n
    <3>2. i \notin (n + 1)..N /\ j \notin (n + 1)..N
      BY <2>1, <2>2, <1>1, <1>2
    <3> QED BY <3>1, <3>2, <1>12
  <2>3. CASE j > n /\ i <= n
    <3>1. n + 1 \in DOMAIN trajectory /\ i < n + 1 /\ n + 1 <= j /\ n < N
      BY SMTT(30), <2>1, <2>3, <1>1, <1>2 DEF N
    <3>2. trajectory[n + 1].role = "assistant"
      BY <3>1 DEF HistoryInvariant, FreshOK, n, N
    <3> QED BY <3>1, <3>2 DEF Together
  <2>4. CASE i > n
    <3>1. i \in (n + 1)..N /\ j \in (n + 1)..N
      <4>1. n \in Nat /\ N \in Nat
        BY <1>1, <1>2
      <4> QED BY <4>1, <2>1, <2>4
    <3> QED BY <3>1, <1>12
  <2> QED BY <2>1, <2>2, <2>3, <2>4, <1>1
<1>14. FreshOK'
  BY <1>1, <1>2 DEF FreshOK, N
<1>15. PinnedOK'
  <2> SUFFICES ASSUME NEW i \in 1..N, trajectory[i].role \in {"system", "user"}
               PROVE  i \in Shows(request_items')
    BY <1>1 DEF PinnedOK
  <2>1. i \in 1..n => i \in Shows(request_items)
    BY DEF HistoryInvariant, PinnedOK, n
  <2>2. i \in 1..n \/ i \in (n + 1)..N
    BY <1>1, <1>2
  <2> QED BY <2>1, <2>2, <1>12
<1> QED
  BY <1>1, <1>7, <1>8, <1>10, <1>11, <1>13, <1>14, <1>15 DEF N

(* An answer, which begins with an assistant message, keeps every part of  *)
(* the invariant about the histories.                                      *)
LEMMA AnswerStep ==
  ASSUME HistoryInvariant, phase = "request",
         NEW ms \in Seq(Message), Len(ms) # 0, ms[1].role = "assistant",
         trajectory' = trajectory \o ms,
         UNCHANGED <<run, source_items, request_items, replacements, retained, contexts>>
  PROVE  /\ trajectory' \in Seq(Message) /\ (Len(source_items) <= Len(trajectory))'
         /\ ItemsOK' /\ Divides(request_items, replacements, Len(source_items))'
         /\ ArtifactsOK' /\ ContextsOK' /\ TurnsOK' /\ FreshOK' /\ PinnedOK'
<1> DEFINE N == Len(trajectory)
<1>1. /\ trajectory \in Seq(Message) /\ N \in Nat /\ Len(source_items) = N
      /\ request_items \in Seq(Item) /\ retained \in Seq(Entry)
      /\ replacements \in Seq(Record) /\ contexts \in Seq(Context)
  BY DEF HistoryInvariant, HistoryTypeOK, LoopOK
<1>2. PICK tr \in Seq(Message) :
         /\ tr = trajectory' /\ Grows(trajectory, tr) /\ Len(tr) = N + Len(ms)
         /\ \A k \in 1..Len(ms) : tr[N + k] = ms[k]
  <2>1. /\ trajectory \o ms \in Seq(Message) /\ Grows(trajectory, trajectory \o ms)
        /\ Len(trajectory \o ms) = N + Len(ms)
        /\ \A k \in 1..Len(ms) : (trajectory \o ms)[N + k] = ms[k]
    BY <1>1, CatGrows
  <2> QED BY <2>1, Zenon
<1>3. tr[N + 1].role = "assistant" /\ N < Len(tr) /\ Len(tr) \in Nat
  <2>1. 1 \in 1..Len(ms)
    OBVIOUS
  <2>2. tr[N + 1] = ms[1]
    BY <1>2, <2>1
  <2> QED BY <2>2, <1>1, <1>2
<1>4. Grows(retained, retained) /\ Grows(replacements, replacements)
  BY <1>1, GrowsSame
<1>5. ItemsOK'
  <2> SUFFICES ASSUME NEW k \in 1..Len(request_items)
               PROVE  ItemOK(request_items[k], retained, tr, replacements, N)
    BY <1>1, <1>2 DEF ItemsOK
  <2>1. request_items[k] \in Item /\ ItemOK(request_items[k], retained, trajectory, replacements, N)
    BY <1>1 DEF HistoryInvariant, ItemsOK
  <2>2. N <= N /\ N <= Len(trajectory)
    BY <1>1
  <2> HIDE DEF N
  <2> QED BY <2>1, <2>2, <1>1, <1>2, <1>4, ItemGrows
<1>6. Divides(request_items, replacements, Len(source_items))'
  BY DEF HistoryInvariant
<1>7. ArtifactsOK'
  BY DEF HistoryInvariant, ArtifactsOK
<1>8. ContextsOK'
  <2> SUFFICES ASSUME NEW c \in 1..Len(contexts)
               PROVE  ContextOK(contexts[c], c, retained, tr, run)
    BY <1>2 DEF ContextsOK
  <2>1. contexts[c] \in Context /\ ContextOK(contexts[c], c, retained, trajectory, run)
    BY <1>1 DEF HistoryInvariant, ContextsOK
  <2>2. \A id \in 1..Len(retained) : ~(id > Len(retained))
    BY <1>1
  <2> QED BY <2>1, <2>2, <1>1, <1>2, <1>3, <1>4, ContextGrows
<1>9. TurnsOK'
  <2> SUFFICES ASSUME NEW i \in Loose(tr), NEW j \in Loose(tr), Together(tr, i, j), j <= N
               PROVE  i \in Shows(request_items) <=> j \in Shows(request_items)
    BY <1>1, <1>2 DEF TurnsOK
  <2>1. i \in 1..N /\ j \in 1..N /\ i <= j
    BY <1>1, <1>2 DEF Loose, Together
  <2>2. \A a \in 1..N : a \in DOMAIN trajectory /\ a \in DOMAIN tr /\ tr[a] = trajectory[a]
    BY <1>1, <1>2, <1>3 DEF Grows
  <2>3. i \in Loose(trajectory) /\ j \in Loose(trajectory)
    BY <2>1, <2>2 DEF Loose
  <2>4. Together(trajectory, i, j)
    BY <2>1, <2>2, <1>1 DEF Together
  <2> QED BY <2>3, <2>4, <1>1 DEF HistoryInvariant, TurnsOK
<1>10. FreshOK'
  BY <1>1, <1>2, <1>3 DEF FreshOK
<1>11. PinnedOK'
  <2>1. \A i \in 1..N : tr[i] = trajectory[i]
    BY <1>1, <1>2 DEF Grows
  <2> QED BY <2>1, <1>1, <1>2 DEF HistoryInvariant, PinnedOK
<1> QED
  BY <1>1, <1>2, <1>3, <1>5, <1>6, <1>7, <1>8, <1>9, <1>10, <1>11

(* A compaction files the trajectory positions it replaces, in order.      *)
LEMMA CompactedSourcesAre ==
  ASSUME HistoryTypeOK, plan.compacted \subseteq 1..Len(request_items),
         \A p \in plan.compacted : request_items[p].source # 0
  PROVE  LET c == Cardinality(plan.compacted)
         IN  /\ DOMAIN CompactedSources = 1..c
             /\ \A k \in 1..c : CompactedSources[k] = request_items[Nth(plan.compacted, k)].source
<1> DEFINE P == plan.compacted
           c == Cardinality(P)
           srcs == [k \in DOMAIN Compacted |-> Compacted[k].source]
           told == {k \in DOMAIN Compacted : Compacted[k].source # 0}
<1>1. /\ Compacted \in Seq(Item) /\ Len(Compacted) = c
      /\ \A k \in 1..c : Nth(P, k) \in P /\ Compacted[k] = request_items[Nth(P, k)]
  BY CompactedIs
<1>2. c \in Nat
  <2>1. request_items \in Seq(Item)
    BY DEF HistoryTypeOK
  <2> QED BY <2>1, AtIs
<1> HIDE DEF P, c
<1>3. DOMAIN Compacted = 1..c /\ told = 1..c
  <2>1. DOMAIN Compacted = 1..c
    BY <1>1
  <2>2. \A k \in 1..c : Compacted[k].source # 0
    BY <1>1 DEF P
  <2> QED BY <2>1, <2>2
<1>4. srcs \in Seq(Nat) /\ Len(srcs) = c /\ \A k \in 1..c : srcs[k] = Compacted[k].source
  <2>1. \A k \in 1..c : Compacted[k] \in Item
    BY <1>1
  <2>2. \A k \in 1..c : Compacted[k].source \in Nat
    BY <2>1 DEF Item
  <2>3. srcs = [k \in 1..c |-> Compacted[k].source]
    BY <1>3
  <2> HIDE DEF srcs
  <2>4. srcs \in [1..c -> Nat]
    BY <2>2, <2>3
  <2>5. srcs \in Seq(Nat) /\ Len(srcs) = c
    BY <2>4, <1>2, FcnSeq
  <2> QED BY <2>3, <2>5
<1>5. CompactedSources = At(srcs, told)
  BY DEF CompactedSources
<1> HIDE DEF srcs, told
<1>6. /\ DOMAIN At(srcs, 1..c) = 1..c
      /\ \A k \in 1..c : At(srcs, 1..c)[k] = Compacted[k].source
  <2>1. 1..c \subseteq 1..Len(srcs) /\ srcs \in Seq(Nat)
    BY <1>4
  <2>2. Cardinality(1..c) = c /\ \A k \in 1..c : Nth(1..c, k) = k
    BY <1>2, NthInterval
  <2>3. /\ DOMAIN At(srcs, 1..c) = 1..Cardinality(1..c)
        /\ \A k \in 1..Cardinality(1..c) : At(srcs, 1..c)[k] = srcs[Nth(1..c, k)]
    BY ZenonT(30), <2>1, AtIs
  <2> QED BY <2>2, <2>3, <1>4
<1> QED
  BY <1>1, <1>3, <1>5, <1>6 DEF P, c

(* The items a compaction replaces are trajectory messages, and the record *)
(* files exactly their positions.                                          *)
LEMMA CompactedAreMessages ==
  ASSUME HistoryInvariant, phase = "snapshot", Compacts(plan)
  PROVE  /\ plan.compacted \subseteq 1..Len(request_items) /\ plan.compacted # {}
         /\ \A p \in plan.compacted : request_items[p].record = 0
         /\ Range(CompactedSources) = {request_items[p].source : p \in plan.compacted}
         /\ \A id \in Range(CompactedEntries) :
               id \in 1..Len(retained) /\ retained[id].kind = "source_message"
<1> DEFINE P == plan.compacted
           c == Cardinality(P)
<1>1. /\ HistoryTypeOK /\ ItemsOK
      /\ IsPlan(run.policy, RequestMessages, run.limits, plan)
      /\ request_items \in Seq(Item)
  BY DEF HistoryInvariant, LoopOK, HistoryTypeOK
<1>2. P \subseteq 1..Len(request_items) /\ P # {}
  <2>1. P \subseteq 1..Len(request_items)
    BY <1>1, ShownIs
  <2> QED BY <2>1, <1>1 DEF IsPlan
<1>3. \A p \in P : request_items[p].record = 0
  <2> TAKE p \in P
  <2>1. p \in Loose(RequestMessages)
    BY <1>1 DEF IsPlan
  <2>2. p \in 1..Len(request_items) /\ RequestMessages[p] = request_items[p].message
    BY <1>1, <1>2 DEF RequestMessages
  <2>3. request_items[p].message.role # "system"
    BY <2>1, <2>2 DEF Loose
  <2>4. ItemOK(request_items[p], retained, trajectory, replacements, Len(source_items))
    BY <1>1, <2>2 DEF ItemsOK
  <2> QED BY <2>3, <2>4 DEF ItemOK
<1>4. \A p \in P : /\ request_items[p].source # 0
                    /\ request_items[p].entry \in 1..Len(retained)
                    /\ retained[request_items[p].entry].kind = "source_message"
  <2> TAKE p \in P
  <2>1. ItemOK(request_items[p], retained, trajectory, replacements, Len(source_items))
    BY <1>1, <1>2 DEF ItemsOK
  <2>2. Len(source_items) \in Nat
    BY DEF HistoryInvariant, HistoryTypeOK
  <2> QED BY <2>1, <2>2, <1>3 DEF ItemOK
<1>5. /\ Compacted \in Seq(Item) /\ Len(Compacted) = c
      /\ \A k \in 1..c : Nth(P, k) \in P /\ Compacted[k] = request_items[Nth(P, k)]
      /\ CompactedEntries \in Seq(Nat) /\ Len(CompactedEntries) = c
      /\ \A k \in 1..c : CompactedEntries[k] = Compacted[k].entry
  BY <1>1, <1>2, CompactedIs
<1>6. c \in Nat /\ \A i \in P : \E k \in 1..c : Nth(P, k) = i
  <2>1. IsFiniteSet(P) /\ P \subseteq Nat
    BY <1>1, <1>2, AtIs
  <2> HIDE DEF P
  <2> QED BY <2>1, NthIs
<1>7. \A id \in Range(CompactedEntries) :
         id \in 1..Len(retained) /\ retained[id].kind = "source_message"
  <2> TAKE id \in Range(CompactedEntries)
  <2>1. PICK k \in 1..c : id = CompactedEntries[k]
    BY <1>5 DEF Range
  <2>2. id = request_items[Nth(P, k)].entry /\ Nth(P, k) \in P
    BY <2>1, <1>5
  <2> HIDE DEF P, c
  <2> QED BY <2>2, <1>4
<1> HIDE DEF P, c
<1>8. /\ DOMAIN CompactedSources = 1..c
      /\ \A k \in 1..c : CompactedSources[k] = request_items[Nth(P, k)].source
  BY <1>1, <1>2, <1>4, CompactedSourcesAre DEF P, c
<1>9. Range(CompactedSources) = {request_items[p].source : p \in P}
  <2>1. \A x : x \in Range(CompactedSources)
               <=> \E k \in 1..c : x = request_items[Nth(P, k)].source
    BY <1>8 DEF Range
  <2>2. \A k \in 1..c : Nth(P, k) \in P
    BY <1>5
  <2>3. \A p \in P : \E k \in 1..c : Nth(P, k) = p
    BY <1>6
  <2> QED BY <2>1, <2>2, <2>3
<1> QED
  BY <1>2, <1>3, <1>7, <1>9 DEF P

(* Where the shown items come from, and that a summary shows no message.   *)
LEMMA ShownSources ==
  ASSUME HistoryInvariant, phase = "snapshot", NEW i
  PROVE  i \in Shows(ShownItems) <=>
            /\ i # 0
            /\ \E q \in 1..Len(request_items) :
                  /\ request_items[q].source = i
                  /\ IF Compacts(plan) THEN q \notin plan.compacted ELSE q \in plan.included
<1> DEFINE L == Len(request_items)
           P == plan.compacted
           R == ShownItems
<1>1. /\ HistoryTypeOK /\ IsPlan(run.policy, RequestMessages, run.limits, plan)
      /\ request_items \in Seq(Item) /\ L \in Nat
  BY DEF HistoryInvariant, LoopOK, HistoryTypeOK
<1>2. /\ SummaryItem \in Item /\ R \in Seq(Item)
      /\ P \subseteq 1..L \/ ~Compacts(plan)
      /\ plan.included \subseteq 1..L \/ Compacts(plan)
  BY <1>1, ShownIs
<1>3. i \in Shows(R) <=> i # 0 /\ \E k \in 1..Len(R) : R[k].source = i
  BY <1>2, ShowsIs
<1>4. CASE Compacts(plan)
  <2>1. P \subseteq 1..L /\ P # {}
    BY <1>4, CompactedAreMessages
  <2>2. R = Replaced(request_items, P, SummaryItem)
    BY <1>4 DEF ShownItems
  <2>3. IsReplaced(R, request_items, P, SummaryItem)
    BY <2>1, <2>2, <1>1, <1>2, ReplacedIs
  <2>4. SummaryItem.source = 0
    BY DEF SummaryItem
  <2> HIDE DEF R, P
  <2>5. /\ R[Min(P)] = SummaryItem
        /\ \A k \in 1..Len(R) : k # Min(P) =>
              R[k] = request_items[From(L, P, k)] /\ From(L, P, k) \in (1..L) \ P
        /\ \A q \in (1..L) \ P : \E k \in 1..Len(R) : k # Min(P) /\ From(L, P, k) = q
    BY <2>3 DEF IsReplaced
  <2>6. ASSUME i # 0, NEW k \in 1..Len(R), R[k].source = i
        PROVE  \E q \in 1..L : request_items[q].source = i /\ q \notin P
    <3>1. k # Min(P)
      BY <2>4, <2>5, <2>6
    <3> QED BY <3>1, <2>5, <2>6
  <2>7. ASSUME NEW q \in 1..L, request_items[q].source = i, q \notin P
        PROVE  \E k \in 1..Len(R) : R[k].source = i
    <3>1. PICK k \in 1..Len(R) : k # Min(P) /\ From(L, P, k) = q
      BY <2>5, <2>7
    <3> QED BY <3>1, <2>5, <2>7
  <2> QED BY <2>6, <2>7, <1>3, <1>4 DEF R, P
<1>5. CASE ~Compacts(plan)
  <2> DEFINE I == plan.included
             c == Cardinality(I)
  <2>1. I \subseteq 1..L /\ R = At(request_items, I)
    BY <1>2, <1>5 DEF ShownItems
  <2>2. /\ IsFiniteSet(I) /\ Len(At(request_items, I)) = c
        /\ \A k \in 1..c : Nth(I, k) \in I /\ At(request_items, I)[k] = request_items[Nth(I, k)]
    BY <2>1, <1>1, AtIs
  <2>3. I \subseteq Nat
    BY <2>1
  <2> HIDE DEF I, R
  <2>4. \A q \in I : \E k \in 1..c : Nth(I, k) = q
    BY <2>2, <2>3, NthIs
  <2>5. Len(R) = c /\ \A k \in 1..c : Nth(I, k) \in I /\ R[k] = request_items[Nth(I, k)]
    BY <2>1, <2>2
  <2>6. ASSUME NEW k \in 1..c, R[k].source = i
        PROVE  \E q \in 1..L : request_items[q].source = i /\ q \in I
    <3>1. Nth(I, k) \in I /\ Nth(I, k) \in 1..L
      BY <2>1, <2>5
    <3>2. request_items[Nth(I, k)].source = i
      BY <2>5, <2>6
    <3> QED BY <3>1, <3>2
  <2>7. ASSUME NEW q \in 1..L, request_items[q].source = i, q \in I
        PROVE  \E k \in 1..c : R[k].source = i
    <3>1. PICK k \in 1..c : Nth(I, k) = q
      BY <2>4, <2>7
    <3>2. R[k].source = i
      BY <2>5, <2>7, <3>1
    <3> QED BY <3>2
  <2>8. (\E k \in 1..c : R[k].source = i) <=> (\E q \in 1..L : request_items[q].source = i /\ q \in I)
    BY <2>6, <2>7
  <2> QED BY <2>5, <2>8, <1>3, <1>5 DEF R, I
<1> QED
  BY <1>4, <1>5

(* Under every policy but the tail window a request shows whole turns.     *)
LEMMA ShownWhole ==
  ASSUME HistoryInvariant, phase = "snapshot",
         run.policy # "tail_window" \/ Compacts(plan)
  PROVE  WholeIn(trajectory, Shows(ShownItems))
<1> DEFINE L == Len(request_items)
           N == Len(trajectory)
           P == plan.compacted
           RM == RequestMessages
<1>1. /\ IsPlan(run.policy, RM, run.limits, plan) /\ ItemsOK /\ TurnsOK
      /\ request_items \in Seq(Item) /\ L \in Nat
      /\ trajectory \in Seq(Message) /\ N \in Nat /\ Len(source_items) = N
      /\ Divides(request_items, replacements, N)
  BY DEF HistoryInvariant, LoopOK, HistoryTypeOK
<1>2. DOMAIN RM = 1..L /\ \A q \in 1..L : RM[q] = request_items[q].message
  BY <1>1 DEF RequestMessages
<1> SUFFICES ASSUME NEW i \in Loose(trajectory), NEW j \in Loose(trajectory),
                    Together(trajectory, i, j)
             PROVE  i \in Shows(ShownItems) <=> j \in Shows(ShownItems)
  BY DEF WholeIn
<1>3. i \in 1..N /\ j \in 1..N /\ i <= j /\ i # 0 /\ j # 0
  BY <1>1 DEF Loose, Together
<1>4. i \in Shows(request_items) <=> j \in Shows(request_items)
  BY <1>1, <1>3 DEF TurnsOK
<1>5. \A x \in 1..N : x \in Shows(request_items) <=> \E q \in 1..L : request_items[q].source = x
  <2> TAKE x \in 1..N
  <2>1. x # 0
    BY <1>1
  <2> QED BY <2>1, <1>1, ShowsIs
<1>6. \A x \in 1..N : x \in Shows(ShownItems) <=>
         \E q \in 1..L : /\ request_items[q].source = x
                         /\ IF Compacts(plan) THEN q \notin P ELSE q \in plan.included
  <2> TAKE x \in 1..N
  <2>1. x # 0
    BY <1>1
  <2> QED BY <2>1, ShownSources
<1>7. CASE ~Compacts(plan)
  <2>1. plan.included = 1..L
    BY <1>1, <1>2, <1>7 DEF IsPlan
  <2> QED BY <2>1, <1>3, <1>4, <1>5, <1>6, <1>7
<1>8. CASE Compacts(plan)
  <2>1. \A q \in 1..L : request_items[q].source # 0 =>
           /\ request_items[q].record = 0
           /\ request_items[q].message = trajectory[request_items[q].source]
           /\ request_items[q].source \in 1..N
           /\ Span(request_items[q], replacements) = {request_items[q].source}
    BY <1>1 DEF ItemsOK, ItemOK, Span
  <2>2. \A q \in 1..L : request_items[q].message.role = "assistant" => request_items[q].source # 0
    <3> TAKE q \in 1..L
    <3>1. ItemOK(request_items[q], retained, trajectory, replacements, N)
      BY <1>1 DEF ItemsOK
    <3> QED BY <3>1, <1>1 DEF ItemOK
  <2>3. \A q, r \in 1..L :
           request_items[q].source # 0 /\ request_items[r].source # 0 =>
                 /\ q < r => request_items[q].source < request_items[r].source
                 /\ request_items[q].source = request_items[r].source => q = r
    <3> TAKE q, r \in 1..L
    <3> HAVE request_items[q].source # 0 /\ request_items[r].source # 0
    <3> DEFINE a == request_items[q].source
               b == request_items[r].source
    <3>1. /\ Span(request_items[q], replacements) = {a} /\ Span(request_items[r], replacements) = {b}
          /\ a \in 1..N /\ b \in 1..N
      BY <2>1
    <3> HIDE DEF a, b
    <3>2. Min({a}) = a /\ Min({b}) = b
      BY <3>1, <1>1, MinOne
    <3>3. q < r => a < b
      <4>1. q < r => Min(Span(request_items[q], replacements))
                     < Min(Span(request_items[r], replacements))
        BY <1>1 DEF Divides
      <4> QED BY <4>1, <3>1, <3>2
    <3>4. q # r => {a} \cap {b} = {}
      <4>1. q # r => Span(request_items[q], replacements)
                     \cap Span(request_items[r], replacements) = {}
        BY <1>1 DEF Divides
      <4> QED BY <4>1, <3>1
    <3>5. a = b => q = r
      BY <3>4
    <3> QED BY <3>3, <3>5 DEF a, b
  <2>4. CASE i \in Shows(request_items) /\ j \in Shows(request_items)
    <3>1. PICK q \in 1..L : request_items[q].source = i
      BY <2>4, <1>3, <1>5
    <3>2. PICK r \in 1..L : request_items[r].source = j
      BY <2>4, <1>3, <1>5
    <3>3. q <= r
      <4>1. r < q => j < i
        BY <3>1, <3>2, <2>3, <1>3
      <4> QED BY <4>1, <1>1, <1>3
    <3>4. q \in Loose(RM) /\ r \in Loose(RM)
      <4>1. RM[q] = trajectory[i] /\ RM[r] = trajectory[j]
        BY <3>1, <3>2, <2>1, <1>2, <1>3
      <4> QED BY <4>1, <1>2 DEF Loose
    <3>5. Together(RM, q, r)
      <4> SUFFICES ASSUME NEW a \in 1..L, q < a, a <= r, RM[a].role = "assistant"
                   PROVE  FALSE
        BY <3>3, <1>2 DEF Together
      <4> DEFINE x == request_items[a].source
      <4>1. request_items[a].message.role = "assistant" /\ x # 0
        BY <1>2, <2>2
      <4>2. x \in 1..N /\ trajectory[x].role = "assistant"
        BY <4>1, <2>1
      <4>3. i < x
        BY <4>1, <3>1, <2>3, <1>3
      <4>4. x <= j
        <5>1. CASE a = r
          BY <5>1, <3>2, <4>2
        <5>2. CASE a < r
          BY <5>2, <4>1, <3>2, <2>3, <1>3, <4>2
        <5> QED BY <5>1, <5>2
      <4> HIDE DEF x
      <4> QED BY <4>2, <4>3, <4>4, <1>1 DEF Together
    <3>6. q \in P <=> r \in P
      BY <3>4, <3>5, <1>1, <1>8 DEF IsPlan
    <3>7. i \in Shows(ShownItems) <=> q \notin P
      BY SMTT(30), <3>1, <2>3, <1>3, <1>6, <1>8
    <3>8. j \in Shows(ShownItems) <=> r \notin P
      BY <3>2, <2>3, <1>3, <1>6, <1>8
    <3> QED BY <3>6, <3>7, <3>8
  <2>5. CASE i \notin Shows(request_items) /\ j \notin Shows(request_items)
    BY <2>5, <1>3, <1>5, <1>6
  <2> QED BY <2>4, <2>5, <1>4
<1> QED
  BY <1>7, <1>8

(* The shown items are in order with the logs as the snapshot leaves them. *)
LEMMA ShownItemsOK ==
  ASSUME HistoryInvariant, Snapshot
  PROVE  /\ replacements' \in Seq(Record) /\ Grows(replacements, replacements')
         /\ Compacts(plan) => /\ NewRecord \in Record
                              /\ Len(replacements') = Len(replacements) + 1
                              /\ replacements'[Len(replacements) + 1] = NewRecord
         /\ ShownItems \in Seq(Item)
         /\ \A k \in 1..Len(ShownItems) :
               ItemOK(ShownItems[k], retained', trajectory, replacements', Len(trajectory))
<1> DEFINE L == Len(request_items)
           E == Len(retained)
           N == Len(trajectory)
           R == ShownItems
<1>1. /\ HistoryTypeOK /\ LoopOK /\ ItemsOK /\ phase = "snapshot"
      /\ IsPlan(run.policy, RequestMessages, run.limits, plan)
      /\ request_items \in Seq(Item) /\ retained \in Seq(Entry) /\ E \in Nat
      /\ trajectory \in Seq(Message) /\ replacements \in Seq(Record)
      /\ N \in Nat /\ Len(source_items) = N
  BY DEF HistoryInvariant, LoopOK, HistoryTypeOK, Snapshot
<1>2. R \in Seq(Item) /\ SummaryItem \in Item
  BY <1>1, ShownIs
<1>3. /\ retained' \in Seq(Entry) /\ Grows(retained, retained')
      /\ Compacts(plan) =>
            /\ Len(retained') = E + 4
            /\ retained'[E + 1]
               = append_replacement_summary(turn, RecordId, plan.summary,
                                            CompactedEntries, CompactedSources)
            /\ replacements' = Append(replacements, NewRecord)
      /\ ~Compacts(plan) => replacements' = replacements
  BY <1>1, SnapshotIs
<1>4. Compacts(plan) => NewRecord \in Record
  BY <1>1, CompactedAreMessages, CompactedIs
<1>5. replacements' \in Seq(Record) /\ Grows(replacements, replacements')
      /\ (Compacts(plan) => Len(replacements') = Len(replacements) + 1
                            /\ replacements'[Len(replacements) + 1] = NewRecord)
  <2>1. CASE Compacts(plan)
    <3>1. NewRecord \in Record /\ replacements' = Append(replacements, NewRecord)
      BY <2>1, <1>3, <1>4
    <3>2. /\ Append(replacements, NewRecord) \in Seq(Record)
          /\ Len(Append(replacements, NewRecord)) = Len(replacements) + 1
          /\ Grows(replacements, Append(replacements, NewRecord))
          /\ Append(replacements, NewRecord)[Len(replacements) + 1] = NewRecord
      BY <3>1, <1>1, AppendGrows
    <3> QED BY <3>1, <3>2, Zenon
  <2>2. CASE ~Compacts(plan)
    BY <2>2, <1>1, <1>3 DEF Grows
  <2> QED BY <2>1, <2>2
<1>6. \A q \in 1..L : ItemOK(request_items[q], retained', trajectory, replacements', N)
  <2> TAKE q \in 1..L
  <2>1. request_items[q] \in Item /\ ItemOK(request_items[q], retained, trajectory, replacements, N)
    BY <1>1 DEF ItemsOK
  <2>2. Grows(trajectory, trajectory) /\ N <= N /\ N <= Len(trajectory)
    BY <1>1, GrowsSame
  <2> HIDE DEF N
  <2> QED BY <2>1, <2>2, <1>1, <1>3, <1>5, ItemGrows
<1>7. Compacts(plan) => ItemOK(SummaryItem, retained', trajectory, replacements', N)
  <2> HAVE Compacts(plan)
  <2>1. /\ SummaryItem.message = plan.summary /\ SummaryItem.source = 0
        /\ SummaryItem.record = Len(replacements) + 1 /\ SummaryItem.entry = E + 1
    BY DEF SummaryItem, RecordId
  <2>2. /\ retained'[E + 1].message = plan.summary /\ retained'[E + 1].source = 0
        /\ retained'[E + 1].kind = "replacement_summary"
    BY <1>3 DEF append_replacement_summary, NoEntry
  <2>3. plan.summary.role = "system"
    BY <1>1 DEF IsPlan
  <2>4. E + 1 \in 1..Len(retained') /\ Len(replacements) + 1 \in 1..Len(replacements')
        /\ Len(replacements) + 1 # 0
    BY <1>1, <1>3, <1>5
  <2> QED BY <2>1, <2>2, <2>3, <2>4 DEF ItemOK
<1>8. \A k \in 1..Len(R) : ItemOK(R[k], retained', trajectory, replacements', N)
  <2>1. CASE Compacts(plan)
    <3>1. plan.compacted \subseteq 1..L /\ plan.compacted # {}
      BY <2>1, <1>1, CompactedAreMessages
    <3>2. R = Replaced(request_items, plan.compacted, SummaryItem)
      BY <2>1 DEF ShownItems
    <3>3. IsReplaced(R, request_items, plan.compacted, SummaryItem)
      BY <3>1, <3>2, <1>1, <1>2, ReplacedIs
    <3> HIDE DEF R, N
    <3>4. \A k \in 1..Len(R) : R[k] = SummaryItem \/ \E q \in 1..L : R[k] = request_items[q]
      BY <3>3 DEF IsReplaced
    <3> QED BY <3>4, <2>1, <1>6, <1>7
  <2>2. CASE ~Compacts(plan)
    <3>1. plan.included \subseteq 1..L /\ R = At(request_items, plan.included)
      BY <2>2, <1>1, ShownIs DEF ShownItems
    <3>2. \A k \in 1..Len(R) : \E q \in 1..L : R[k] = request_items[q]
      <4> DEFINE A == At(request_items, plan.included)
      <4>1. /\ Len(A) = Cardinality(plan.included)
            /\ \A k \in 1..Cardinality(plan.included) :
                  /\ Nth(plan.included, k) \in plan.included
                  /\ A[k] = request_items[Nth(plan.included, k)]
        BY <3>1, <1>1, AtIs
      <4> HIDE DEF A, R
      <4>2. R = A
        BY <3>1 DEF A
      <4> QED BY <4>1, <4>2, <3>1
    <3> HIDE DEF R, N
    <3> QED BY <3>2, <1>6
  <2> QED BY <2>1, <2>2
<1> QED
  BY <1>2, <1>4, <1>5, <1>8

(* The record of a compaction can be traced in the logs as they then are.  *)
LEMMA NewLineage ==
  ASSUME HistoryInvariant, Snapshot, Compacts(plan)
  PROVE  LineageRecordOk(append_snapshot(ShownItems, retained', FiledRecord), retained')
<1> DEFINE ctx == append_snapshot(ShownItems, retained', FiledRecord)
           E == Len(retained)
           Art == {id \in DOMAIN retained' :
                     /\ retained'[id].turn = ctx.turn
                     /\ retained'[id].kind = "history_control"
                     /\ retained'[id].control = "compaction_artifact"}
<1>1. /\ HistoryTypeOK /\ LoopOK /\ phase = "snapshot"
      /\ IsPlan(run.policy, RequestMessages, run.limits, plan)
      /\ retained \in Seq(Entry) /\ E \in Nat /\ turn = Len(contexts) + 1
      /\ contexts \in Seq(Context) /\ request_items \in Seq(Item)
  BY DEF HistoryInvariant, LoopOK, HistoryTypeOK, Snapshot
<1>2. /\ retained' \in Seq(Entry) /\ Grows(retained, retained')
      /\ Len(retained') = E + 4
      /\ retained'[E + 1] = append_replacement_summary(turn, RecordId, plan.summary,
                                                      CompactedEntries, CompactedSources)
      /\ retained'[E + 2] = append_carried_forward_state(turn, RecordId)
      /\ retained'[E + 3] = append_history_control(turn, "compaction_artifact")
      /\ retained'[E + 4] = append_history_control(turn, "context_selection_plan")
  BY <1>1, SnapshotIs
<1>3. RecordId \in Nat \ {0} /\ SummaryItem \in Item
  BY <1>1, ShownIs
<1>4. /\ ctx.turn = turn /\ ctx.summary = E + 1 /\ ctx.carried = E + 2
      /\ ctx.record = RecordId
      /\ ctx.selected = [k \in DOMAIN ShownItems |-> ShownItems[k].entry]
  BY <1>3 DEF append_snapshot, FiledRecord
<1>5. /\ retained'[E + 1].kind = "replacement_summary" /\ retained'[E + 1].record = RecordId
      /\ retained'[E + 1].entries = CompactedEntries /\ retained'[E + 1].control = "none"
      /\ retained'[E + 2].kind = "carry_forward_state" /\ retained'[E + 2].record = RecordId
      /\ retained'[E + 2].control = "none"
      /\ retained'[E + 3].kind = "history_control" /\ retained'[E + 3].turn = turn
      /\ retained'[E + 3].control = "compaction_artifact"
      /\ retained'[E + 4].control = "context_selection_plan"
  BY <1>2 DEF append_replacement_summary, append_carried_forward_state,
              append_history_control, NoEntry
<1>6. \A id \in 1..E : id \in 1..Len(retained') /\ retained'[id] = retained[id]
  BY <1>1, <1>2 DEF Grows
<1> HIDE DEF ctx
<1>7. Art = {E + 3}
  <2>1. DOMAIN retained' = 1..(E + 4)
    BY <1>2
  <2>2. \A id \in 1..(E + 4) : id \in 1..E \/ id \in {E + 1, E + 2, E + 3, E + 4}
    BY SMTT(30), <1>1
  <2>3. \A id \in 1..E : ~(retained'[id].turn = turn /\ retained'[id].control = "compaction_artifact")
    <3> TAKE id \in 1..E
    <3>1. retained[id].control = "compaction_artifact" => retained[id].turn <= Len(contexts)
      BY DEF HistoryInvariant, ArtifactsOK
    <3>2. ~(turn <= Len(contexts))
      BY <1>1
    <3> QED BY <3>1, <3>2, <1>6
  <2>4. E + 3 \in 1..(E + 4)
    BY <1>1
  <2> QED BY <2>1, <2>2, <2>3, <2>4, <1>4, <1>5
<1>8. Cardinality(Art) = 1
  <2> HIDE DEF Art
  <2> QED BY <1>7, FS_Singleton
<1>9. \A id \in Range(CompactedEntries) : id \in DOMAIN retained' /\ retained'[id].kind = "source_message"
  <2>1. \A id \in Range(CompactedEntries) :
           id \in 1..E /\ retained[id].kind = "source_message"
    BY <1>1, CompactedAreMessages
  <2>2. DOMAIN retained' = 1..Len(retained')
    BY <1>2
  <2> QED BY <2>1, <2>2, <1>6
<1>10. ctx.summary \in Range(ctx.selected) /\ ctx.carried \notin Range(ctx.selected)
  <2> DEFINE R == ShownItems
             P == plan.compacted
             L == Len(request_items)
  <2>1. P \subseteq 1..L /\ P # {}
    BY <1>1, CompactedAreMessages
  <2>2. R = Replaced(request_items, P, SummaryItem)
    BY DEF ShownItems
  <2>3. R \in Seq(Item) /\ IsReplaced(R, request_items, P, SummaryItem)
    BY <2>1, <2>2, <1>1, <1>3, ReplacedIs
  <2> HIDE DEF R
  <2>4. /\ Min(P) \in 1..Len(R) /\ R[Min(P)] = SummaryItem
        /\ \A k \in 1..Len(R) : k # Min(P) => \E q \in 1..L : R[k] = request_items[q]
    <3>1. Min(P) \in Nat \ {0}
      BY <2>1, <2>3 DEF IsReplaced
    <3> QED BY <3>1, <2>3 DEF IsReplaced
  <2>5. SummaryItem.entry = E + 1
    BY DEF SummaryItem
  <2>6. \A q \in 1..L : request_items[q].entry \in 1..E
    BY DEF HistoryInvariant, ItemsOK, ItemOK
  <2>7. \A k \in 1..Len(R) : R[k].entry \in 1..(E + 1)
    <3> TAKE k \in 1..Len(R)
    <3>1. CASE k = Min(P)
      BY <3>1, <2>4, <2>5, <1>1
    <3>2. CASE k # Min(P)
      <4>1. PICK q \in 1..L : R[k] = request_items[q]
        BY <3>2, <2>4
      <4> QED BY <4>1, <2>6, <1>1
    <3> QED BY <3>1, <3>2
  <2>8. \A x : x \in Range(ctx.selected) <=> \E k \in 1..Len(R) : x = R[k].entry
    BY <2>3, <1>4 DEF Range, R
  <2>9. E + 1 \in Range(ctx.selected)
    BY <2>4, <2>5, <2>8
  <2>10. E + 2 \notin Range(ctx.selected)
    <3>1. E + 2 \notin 1..(E + 1)
      BY <1>1
    <3> QED BY <3>1, <2>7, <2>8
  <2> QED BY <2>9, <2>10, <1>4
<1>11. {ctx.summary, ctx.carried} \subseteq DOMAIN retained'
  <2>1. E + 1 \in DOMAIN retained' /\ E + 2 \in DOMAIN retained'
    BY <1>1, <1>2
  <2> QED BY <2>1, <1>4
<1>12. LineageRecordOk(ctx, retained')
  BY <1>4, <1>5, <1>8, <1>9, <1>10, <1>11 DEF LineageRecordOk
<1> QED
  BY <1>12 DEF ctx

(* The entry of the request at hand is in order with the logs it is        *)
(* written with.                                                           *)
LEMMA NewContext ==
  ASSUME HistoryInvariant, Snapshot
  PROVE  ContextOK(append_snapshot(ShownItems, retained', FiledRecord), turn,
                   retained', trajectory, run)
<1> DEFINE ctx == append_snapshot(ShownItems, retained', FiledRecord)
           R == ShownItems
           N == Len(trajectory)
<1>1. /\ HistoryTypeOK /\ LoopOK /\ phase = "snapshot"
      /\ IsPlan(run.policy, RequestMessages, run.limits, plan)
      /\ trajectory \in Seq(Message) /\ N \in Nat
  BY DEF HistoryInvariant, LoopOK, HistoryTypeOK, Snapshot
<1>2. /\ R \in Seq(Item)
      /\ \A k \in 1..Len(R) : ItemOK(R[k], retained', trajectory, replacements', N)
  BY ShownItemsOK
<1>3. MessagesOf(R) = Asked(RequestMessages, plan)
  BY <1>1, ShownIs
<1>4. /\ ctx.turn = turn /\ ctx.record = FiledRecord /\ ctx.satisfied = plan.satisfied
      /\ ctx.selected = [k \in DOMAIN R |-> R[k].entry]
  BY DEF append_snapshot
<1>5. retained' \in Seq(Entry)
  BY <1>1, SnapshotIs
<1>6. LineageRecordOk(ctx, retained') \/ ctx.record = 0
  BY <1>4, NewLineage DEF FiledRecord
<1>7. run.policy # "tail_window" => WholeIn(trajectory, Shows(R))
  BY <1>1, ShownWhole
<1> HIDE DEF ctx, R, N
<1>8. DOMAIN R = 1..Len(R) /\ DOMAIN ctx.selected = 1..Len(R)
      /\ \A k \in 1..Len(R) : ctx.selected[k] = R[k].entry
  BY <1>2, <1>4
<1>9. \A k \in 1..Len(R) :
         /\ R[k].entry \in 1..Len(retained')
         /\ retained'[R[k].entry].message = R[k].message
         /\ retained'[R[k].entry].source = R[k].source
         /\ retained'[R[k].entry].kind \in {"source_message", "replacement_summary"}
         /\ R[k].source \in 0..N
  <2> TAKE k \in 1..Len(R)
  <2>1. ItemOK(R[k], retained', trajectory, replacements', N)
    BY <1>2
  <2>2. R[k].source \in 1..N \/ R[k].source = 0
    BY <2>1 DEF ItemOK
  <2>3. R[k].source \in 0..N
    BY <2>2, <1>1
  <2> QED BY <2>1, <2>3 DEF ItemOK
<1>10. SelectedReplays(ctx, retained')
  <2>1. DOMAIN retained' = 1..Len(retained')
    BY <1>5
  <2> QED BY <2>1, <1>8, <1>9 DEF SelectedReplays, Replayable
<1>11. reconstruct_selected_messages(ctx, retained') = MessagesOf(R)
  BY <1>8, <1>9 DEF reconstruct_selected_messages, Messages, MessagesOf
<1>12. run.policy # "model_backed_compaction" =>
          (ctx.satisfied <=> token_budget_allows(reconstruct_selected_messages(ctx, retained'),
                                                 run.limits))
  BY <1>1, <1>3, <1>4, <1>11 DEF IsPlan
<1>13. ShownBy(ctx, retained') = Shows(R)
  <2>1. \A k \in 1..Len(R) : retained'[ctx.selected[k]].source = R[k].source
    BY <1>8, <1>9
  <2> QED BY <2>1, <1>8 DEF ShownBy, Shows
<1>14. Shows(R) \subseteq 1..N
  <2> SUFFICES ASSUME NEW i, i \in Shows(R) PROVE i \in 1..N
    OBVIOUS
  <2>1. PICK k \in 1..Len(R) : i # 0 /\ R[k].source = i
    BY <1>2, ShowsIs
  <2> QED BY <2>1, <1>1, <1>9
<1>15. ContextOK(ctx, turn, retained', trajectory, run)
  BY <1>4, <1>6, <1>7, <1>10, <1>12, <1>13, <1>14 DEF ContextOK, N
<1> QED
  BY <1>15 DEF ctx

(* The plan that plans nothing is a plan.                                  *)
LEMMA NoPlanIs ==
  NoPlan \in Plan
<1>1. <<>> \in Seq(Message) /\ {} \in SUBSET DOMAIN <<>> /\ FALSE \in BOOLEAN
  OBVIOUS
<1>2. {} = DOMAIN <<>>
  OBVIOUS
<1> DEFINE lim == [messages |-> NoLimit, tokens |-> NoLimit]
<1> HIDE DEF lim
<1>3. IsPlan("full_history", <<>>, lim, Selection(<<>>, lim, {}, FALSE))
  BY <1>1, <1>2, SelectionIs
<1> QED
  BY <1>3 DEF NoPlan, IsPlan, lim

(* A snapshot keeps the invariant.                                         *)
LEMMA SnapshotStep ==
  ASSUME HistoryInvariant, Snapshot
  PROVE  HistoryInvariant'
<1> DEFINE E == Len(retained)
           N == Len(trajectory)
           C == Len(contexts)
           L == Len(request_items)
           ctx == append_snapshot(ShownItems, retained', FiledRecord)
<1>1. /\ HistoryTypeOK /\ LoopOK /\ phase = "snapshot" /\ ItemsOK
      /\ IsPlan(run.policy, RequestMessages, run.limits, plan)
      /\ retained \in Seq(Entry) /\ E \in Nat /\ trajectory \in Seq(Message) /\ N \in Nat
      /\ contexts \in Seq(Context) /\ C \in Nat /\ turn = C + 1
      /\ source_items \in Seq(Nat) /\ Len(source_items) = N
      /\ request_items \in Seq(Item) /\ L \in Nat /\ replacements \in Seq(Record)
  BY DEF HistoryInvariant, LoopOK, HistoryTypeOK, Snapshot
<1>2. /\ retained' \in Seq(Entry) /\ Grows(retained, retained')
      /\ Compacts(plan) => request_items' = ShownItems
      /\ ~Compacts(plan) => request_items' = request_items /\ replacements' = replacements
      /\ contexts' = Append(contexts, ctx) /\ ctx \in Context
  BY <1>1, SnapshotIs
<1>3. /\ run' = run /\ trajectory' = trajectory /\ source_items' = source_items
      /\ session' = session /\ turn' = turn /\ plan' = NoPlan /\ phase' = "request"
  BY DEF Snapshot
<1>4. /\ replacements' \in Seq(Record) /\ Grows(replacements, replacements')
      /\ Compacts(plan) => /\ NewRecord \in Record
                           /\ Len(replacements') = Len(replacements) + 1
                           /\ replacements'[Len(replacements) + 1] = NewRecord
      /\ ShownItems \in Seq(Item)
      /\ \A k \in 1..Len(ShownItems) :
            ItemOK(ShownItems[k], retained', trajectory, replacements', N)
  BY ShownItemsOK
<1>5. ContextOK(ctx, turn, retained', trajectory, run)
  BY NewContext
<1>6. \A id \in 1..Len(retained') :
         id \in 1..E \/ (id > E /\ (retained'[id].control = "compaction_artifact" =>
                                       retained'[id].turn = turn))
  <2> TAKE id \in 1..Len(retained')
  <2>1. CASE Compacts(plan)
    <3>1. /\ Len(retained') = E + 4
          /\ retained'[E + 1] = append_replacement_summary(turn, RecordId, plan.summary,
                                                           CompactedEntries, CompactedSources)
          /\ retained'[E + 2] = append_carried_forward_state(turn, RecordId)
          /\ retained'[E + 3] = append_history_control(turn, "compaction_artifact")
          /\ retained'[E + 4] = append_history_control(turn, "context_selection_plan")
      BY <2>1, <1>1, SnapshotIs
    <3>2. /\ retained'[E + 1].control = "none" /\ retained'[E + 2].control = "none"
          /\ retained'[E + 3].turn = turn
          /\ retained'[E + 4].control = "context_selection_plan"
      BY <3>1 DEF append_replacement_summary, append_carried_forward_state,
                  append_history_control, NoEntry
    <3>3. id \in 1..E \/ (id > E /\ id \in {E + 1, E + 2, E + 3, E + 4})
      <4>1. E \in Nat /\ id \in 1..(E + 4)
        BY <3>1, <1>1
      <4> HIDE DEF E
      <4>2. id \in 1..E \/ id = E + 1 \/ id = E + 2 \/ id = E + 3 \/ id = E + 4
        BY <4>1
      <4>3. E + 1 > E /\ E + 2 > E /\ E + 3 > E /\ E + 4 > E
        BY <4>1
      <4> QED BY <4>2, <4>3
    <3> QED BY <3>2, <3>3
  <2>2. CASE ~Compacts(plan)
    <3>1. /\ Len(retained') = E + 1
          /\ retained'[E + 1] = append_history_control(turn, "context_selection_plan")
      BY <2>2, <1>1, SnapshotIs
    <3>2. retained'[E + 1].control = "context_selection_plan"
      BY <3>1 DEF append_history_control, NoEntry
    <3>3. id \in 1..E \/ (id > E /\ id = E + 1)
      BY <3>1, <1>1
    <3> QED BY <3>2, <3>3
  <2> QED BY <2>1, <2>2
<1> HIDE DEF ctx, E, N, C, L
<1>7. PICK cs \in Seq(Context) :
         cs = contexts' /\ Len(cs) = C + 1 /\ Grows(contexts, cs) /\ cs[C + 1] = ctx
  <2>1. /\ Append(contexts, ctx) \in Seq(Context)
        /\ Len(Append(contexts, ctx)) = C + 1
        /\ Grows(contexts, Append(contexts, ctx))
        /\ Append(contexts, ctx)[C + 1] = ctx
    BY <1>1, <1>2, AppendGrows DEF C
  <2> QED BY <2>1, <1>2, Zenon
<1>8. request_items' \in Seq(Item)
  BY <1>1, <1>2, <1>4
<1>9. HistoryTypeOK'
  <2>1. NoPlan \in Plan
    BY NoPlanIs
  <2> QED BY <2>1, <1>1, <1>2, <1>3, <1>4, <1>7, <1>8 DEF HistoryTypeOK, Phases
<1>10. LoopOK'
  BY <1>1, <1>3, <1>7 DEF LoopOK, N
<1>11. ItemsOK'
  <2>1. CASE Compacts(plan)
    BY <2>1, <1>1, <1>2, <1>3, <1>4 DEF ItemsOK
  <2>2. CASE ~Compacts(plan)
    <3> SUFFICES ASSUME NEW k \in 1..L
                 PROVE  ItemOK(request_items[k], retained', trajectory, replacements', N)
      BY <2>2, <1>1, <1>2, <1>3 DEF ItemsOK, L
    <3>1. request_items[k] \in Item /\ ItemOK(request_items[k], retained, trajectory, replacements, N)
      BY <1>1 DEF ItemsOK, L
    <3>2. Grows(trajectory, trajectory) /\ N <= N /\ N <= Len(trajectory)
      BY <1>1, GrowsSame DEF N
    <3> QED BY <3>1, <3>2, <1>1, <1>2, <1>4, ItemGrows
  <2> QED BY <2>1, <2>2
<1>12. Divides(request_items, replacements, Len(source_items))'
  <2>1. Divides(request_items, replacements, N)
    BY <1>1 DEF HistoryInvariant
  <2>2. CASE Compacts(plan)
    <3> DEFINE P == plan.compacted
    <3>1. /\ P \subseteq 1..Len(request_items) /\ P # {}
          /\ \A p \in P : request_items[p].record = 0
          /\ Range(CompactedSources) = {request_items[p].source : p \in P}
      BY <2>2, <1>1, CompactedAreMessages
    <3>2. SummaryItem \in Item /\ SummaryItem.record = Len(replacements) + 1
      BY <1>1, ShownIs DEF SummaryItem, RecordId
    <3>3. ShownItems = Replaced(request_items, P, SummaryItem)
      BY <2>2 DEF ShownItems
    <3>4. IsReplaced(ShownItems, request_items, P, SummaryItem)
      BY <3>1, <3>2, <3>3, <1>1, ReplacedIs
    <3>5. \A k \in 1..Len(request_items) : request_items[k].record \in 0..Len(replacements)
      <4>1. Len(replacements) \in Nat
        BY <1>1
      <4>2. \A k \in 1..Len(request_items) : \/ request_items[k].record = 0
                                             \/ request_items[k].record \in 1..Len(replacements)
        BY <1>1 DEF ItemsOK, ItemOK
      <4> QED BY <4>1, <4>2
    <3>6. NewRecord.sources = CompactedSources
      BY DEF NewRecord
    <3>7. Range(NewRecord.sources) = {request_items[p].source : p \in P}
      BY <3>1, <3>6
    <3>8. /\ NewRecord \in Record /\ ShownItems \in Seq(Item)
          /\ replacements' \in Seq(Record) /\ Grows(replacements, replacements')
          /\ Len(replacements') = Len(replacements) + 1
          /\ replacements'[Len(replacements) + 1] = NewRecord
      BY <2>2, <1>4
    <3> HIDE DEF P
    <3>9. Divides(ShownItems, replacements', N)
      BY ZenonT(30), <2>1, <3>1, <3>2, <3>4, <3>5, <3>7, <3>8, <1>1, DividesCompact
    <3> QED BY <3>9, <2>2, <1>1, <1>2, <1>3
  <2>3. CASE ~Compacts(plan)
    BY <2>1, <2>3, <1>1, <1>2, <1>3
  <2> QED BY <2>2, <2>3
<1>13. ArtifactsOK'
  <2>1. \A id \in 1..E : retained'[id] = retained[id]
    BY <1>2 DEF Grows, E
  <2>2. \A id \in 1..E : retained[id].control = "compaction_artifact" => retained[id].turn <= C
    BY DEF HistoryInvariant, ArtifactsOK, E, C
  <2>3. \A id \in 1..E : retained'[id] \in Entry /\ retained[id] \in Entry
    <3>1. \A id \in 1..E : id \in 1..Len(retained')
      BY <1>2 DEF Grows, E
    <3> QED BY <3>1, <1>1, <1>2 DEF E
  <2>4. \A id \in 1..E : retained[id].turn \in Nat
    BY <2>3 DEF Entry
  <2> SUFFICES ASSUME NEW id \in 1..Len(retained'), retained'[id].control = "compaction_artifact"
               PROVE  retained'[id].turn <= C + 1
    BY <1>7 DEF ArtifactsOK
  <2>5. CASE id \in 1..E
    <3>1. retained'[id].turn <= C /\ retained'[id].turn \in Nat
      BY <2>1, <2>2, <2>4, <2>5
    <3>2. C \in Nat
      BY <1>1
    <3> QED BY <3>1, <3>2
  <2>6. CASE ~(id \in 1..E)
    <3>1. retained'[id].turn = turn /\ turn = C + 1 /\ C \in Nat
      BY <2>6, <1>1, <1>6
    <3> QED BY <3>1
  <2> QED BY <2>5, <2>6
<1>14. ContextsOK'
  <2> SUFFICES ASSUME NEW c \in 1..(C + 1)
               PROVE  ContextOK(cs[c], c, retained', trajectory, run)
    BY <1>3, <1>7 DEF ContextsOK
  <2>1. CASE c = C + 1
    BY <2>1, <1>1, <1>5, <1>7
  <2>2. CASE c # C + 1
    <3>1. c \in 1..C /\ c # turn
      BY <2>2, <1>1
    <3>2. cs[c] = contexts[c] /\ contexts[c] \in Context
      BY <3>1, <1>1, <1>7 DEF Grows, C
    <3>3. ContextOK(contexts[c], c, retained, trajectory, run)
      BY <3>1 DEF HistoryInvariant, ContextsOK, C
    <3>4. Grows(trajectory, trajectory) /\ ~(Len(trajectory) < Len(trajectory))
      BY <1>1, GrowsSame
    <3>5. \A id \in 1..Len(retained') :
             id > Len(retained) /\ retained'[id].control = "compaction_artifact" =>
                retained'[id].turn # c
      <4>1. \A id \in 1..E : ~(id > E)
        BY <1>1
      <4> QED BY <4>1, <3>1, <1>6 DEF E
    <3>6. ContextOK(contexts[c], c, retained', trajectory, run)
      BY <3>2, <3>3, <3>4, <3>5, <1>1, <1>2, ContextGrows
    <3> QED BY <3>2, <3>6
  <2> QED BY <2>1, <2>2
<1>15. TurnsOK'
  <2>1. CASE Compacts(plan)
    <3>1. WholeIn(trajectory, Shows(ShownItems))
      BY <2>1, <1>1, ShownWhole
    <3> QED BY <3>1, <2>1, <1>2, <1>3 DEF TurnsOK, WholeIn
  <2>2. CASE ~Compacts(plan)
    BY <2>2, <1>2, <1>3 DEF HistoryInvariant, TurnsOK
  <2> QED BY <2>1, <2>2
<1>16. FreshOK'
  BY <1>3 DEF HistoryInvariant, FreshOK
<1>17. PinnedOK'
  <2> SUFFICES ASSUME NEW i \in 1..N, trajectory[i].role \in {"system", "user"}
               PROVE  i \in Shows(request_items')
    BY <1>1, <1>3 DEF PinnedOK
  <2>1. i \in Shows(request_items)
    BY <1>1 DEF HistoryInvariant, PinnedOK
  <2>2. CASE Compacts(plan)
    <3>1. PICK q \in 1..L : i # 0 /\ request_items[q].source = i
      BY <2>1, <1>1, ShowsIs DEF L
    <3>2. request_items[q].message = trajectory[i]
      BY <3>1, <1>1 DEF ItemsOK, ItemOK, L
    <3>3. RequestMessages[q] = trajectory[i]
      BY <3>1, <3>2, <1>1 DEF RequestMessages, L
    <3>4. q \notin plan.compacted
      BY <3>3, <2>2, <1>1 DEF IsPlan, Loose
    <3>5. i \in Shows(ShownItems)
      BY <3>1, <3>4, <2>2, <1>1, ShownSources DEF L
    <3> QED BY <3>5, <2>2, <1>2
  <2>3. CASE ~Compacts(plan)
    BY <2>1, <2>3, <1>2
  <2> QED BY <2>2, <2>3
<1> QED
  BY <1>9, <1>10, <1>11, <1>12, <1>13, <1>14, <1>15, <1>16, <1>17 DEF HistoryInvariant

(* A turn begins: the histories stay in order, and the plan is one for the *)
(* request history as it then is.                                          *)
LEMMA BeginStep ==
  ASSUME HistoryInvariant, BeginTurn
  PROVE  HistoryInvariant'
<1>1. /\ HistoryTypeOK /\ LoopOK /\ phase = "loop" /\ turn \in Nat
      /\ turn = Len(contexts) /\ contexts \in Seq(Context)
      /\ run.policy \in ContextPolicyMode /\ session \in [issue : Nat, validated : Nat]
      /\ trajectory \in Seq(Message)
  BY DEF HistoryInvariant, LoopOK, HistoryTypeOK, BeginTurn
<1>2. /\ sync_source_messages(turn) /\ turn' = turn + 1
      /\ run' = run /\ trajectory' = trajectory /\ replacements' = replacements
      /\ contexts' = contexts /\ session' = session
  BY DEF BeginTurn
<1>3. /\ retained' \in Seq(Entry) /\ source_items' \in Seq(Nat)
      /\ request_items' \in Seq(Item) /\ Len(source_items') = Len(trajectory)
      /\ ItemsOK' /\ Divides(request_items, replacements, Len(source_items))'
      /\ ArtifactsOK' /\ ContextsOK' /\ TurnsOK' /\ FreshOK' /\ PinnedOK'
  BY <1>1, <1>2, SyncStep
<1>4. RequestMessages \o [k \in DOMAIN NewItems |-> NewItems[k].message] = RequestMessages'
  BY <1>1, <1>2, SyncIs
<1>5. PICK ms : ms = RequestMessages'
  OBVIOUS
<1>6. ms \in Seq(Message)
  <2>1. ms = MessagesOf(request_items')
    BY <1>5 DEF RequestMessages, MessagesOf
  <2> QED BY <2>1, <1>3, MessagesOfIs
<1>7. plan' = plan_request_context(run.policy, ms, run.limits, session, turn')
  BY <1>4, <1>5, Zenon DEF BeginTurn
<1>8. turn' \in Nat \ {0} /\ turn' = Len(contexts') + 1
  BY <1>1, <1>2
<1>9. IsPlan(run.policy, ms, run.limits, plan')
  BY <1>1, <1>6, <1>7, <1>8, PlanIs
<1>10. phase' \in {"compaction_call", "snapshot"}
       /\ (phase' = "compaction_call" => run.policy = "model_backed_compaction" /\ Compacts(plan'))
  BY DEF BeginTurn
<1>11. plan' \in Plan
  BY <1>9 DEF IsPlan
<1>12. HistoryTypeOK'
  BY <1>1, <1>2, <1>3, <1>8, <1>10, <1>11 DEF HistoryTypeOK, Phases
<1>13. LoopOK'
  <2>1. /\ Len(source_items') <= Len(trajectory') /\ Len(source_items') = Len(trajectory')
    BY <1>1, <1>2, <1>3
  <2>2. IsPlan(run.policy, RequestMessages, run.limits, plan)'
    BY <1>2, <1>5, <1>9
  <2> QED BY <2>1, <2>2, <1>2, <1>8, <1>10 DEF LoopOK
<1> QED
  BY <1>3, <1>12, <1>13 DEF HistoryInvariant

(* When no history is touched, every part about the histories stays.       *)
LEMMA SameHistories ==
  ASSUME HistoryInvariant,
         UNCHANGED <<run, trajectory, source_items, request_items, replacements,
                     retained, contexts>>
  PROVE  /\ ItemsOK' /\ Divides(request_items, replacements, Len(source_items))'
         /\ ArtifactsOK' /\ ContextsOK' /\ TurnsOK' /\ FreshOK' /\ PinnedOK'
         /\ RequestMessages' = RequestMessages
BY DEF HistoryInvariant, ItemsOK, ArtifactsOK, ContextsOK, TurnsOK, FreshOK, PinnedOK,
       RequestMessages

(* The model's summary, of any size, leaves a plan one to rely on: a       *)
(* model-backed plan promises nothing of the budget.                       *)
LEMMA ModelCompactsStep ==
  ASSUME HistoryInvariant, NEW size \in Sizes, ModelCompacts(size)
  PROVE  HistoryInvariant'
<1>1. /\ HistoryTypeOK /\ LoopOK /\ phase = "compaction_call"
      /\ IsPlan(run.policy, RequestMessages, run.limits, plan)
      /\ run.policy = "model_backed_compaction" /\ Compacts(plan)
      /\ plan \in Plan /\ size \in Nat
  BY HistoryAssumption DEF HistoryInvariant, LoopOK, HistoryTypeOK, ModelCompacts
<1>2. /\ run' = run /\ trajectory' = trajectory /\ source_items' = source_items
      /\ request_items' = request_items /\ replacements' = replacements
      /\ retained' = retained /\ contexts' = contexts /\ session' = session /\ turn' = turn
      /\ phase' = "snapshot" /\ plan' = [plan EXCEPT !.summary.size = size]
  BY DEF ModelCompacts, apply_model_backed_compaction_output
<1>3. /\ ItemsOK' /\ Divides(request_items, replacements, Len(source_items))'
      /\ ArtifactsOK' /\ ContextsOK' /\ TurnsOK' /\ FreshOK' /\ PinnedOK'
      /\ RequestMessages' = RequestMessages
  BY <1>2, SameHistories
<1>4. /\ plan.summary \in Message /\ plan.summary.role = "system" /\ plan.summary.ref # 0
      /\ plan.compacted \subseteq Loose(RequestMessages) /\ plan.compacted # {}
  BY <1>1 DEF Plan, IsPlan
<1>5. PICK sm : sm = [plan.summary EXCEPT !.size = size]
  OBVIOUS
<1>6. sm \in Message /\ sm.role = "system" /\ sm.ref # 0
  BY <1>1, <1>4, <1>5 DEF Message
<1>7. plan' = [plan EXCEPT !.summary = sm]
  BY <1>2, <1>5
<1>8. /\ plan' \in Plan /\ plan'.summary = sm /\ plan'.compacted = plan.compacted
  BY <1>1, <1>6, <1>7 DEF Plan
<1>9. Compacts(plan')
  <2>1. NoSummary.ref = 0
    BY DEF NoSummary
  <2> QED BY <2>1, <1>6, <1>8 DEF Compacts
<1>10. IsPlan(run.policy, RequestMessages, run.limits, plan')
  BY <1>1, <1>6, <1>8, <1>9 DEF IsPlan
<1>11. HistoryTypeOK'
  BY <1>1, <1>2, <1>8 DEF HistoryTypeOK, Phases
<1>12. LoopOK'
  BY <1>1, <1>2, <1>3, <1>10 DEF LoopOK
<1> QED
  BY <1>3, <1>11, <1>12 DEF HistoryInvariant

(* An answer, well formed or not, keeps the invariant.                     *)
LEMMA AnsweredStep ==
  ASSUME HistoryInvariant, phase = "request",
         NEW ms \in Seq(Message), Len(ms) # 0, ms[1].role = "assistant",
         trajectory' = trajectory \o ms,
         session' \in [issue : Nat, validated : Nat], phase' \in {"loop", "ending"},
         UNCHANGED <<run, source_items, request_items, replacements, retained, contexts,
                     turn, plan>>
  PROVE  HistoryInvariant'
<1>1. /\ trajectory' \in Seq(Message) /\ (Len(source_items) <= Len(trajectory))'
      /\ ItemsOK' /\ Divides(request_items, replacements, Len(source_items))'
      /\ ArtifactsOK' /\ ContextsOK' /\ TurnsOK' /\ FreshOK' /\ PinnedOK'
  BY AnswerStep
<1>2. HistoryTypeOK /\ LoopOK
  BY DEF HistoryInvariant
<1>3. HistoryTypeOK'
  BY <1>1, <1>2 DEF HistoryTypeOK, Phases
<1>4. LoopOK'
  BY <1>1, <1>2 DEF LoopOK
<1> QED
  BY <1>1, <1>3, <1>4 DEF HistoryInvariant

(* An answer with calls and their results.                                 *)
LEMMA AnswerIs ==
  ASSUME HistoryInvariant, NEW calls \in 0..MaxCalls, NEW goesOn \in BOOLEAN,
         NEW sizes \in [1..(calls + 1) -> Sizes], Answer(sizes, goesOn)
  PROVE  HistoryInvariant'
<1> DEFINE N == Len(trajectory)
           M == calls + 1
           ms == [k \in DOMAIN sizes |-> [role |-> IF k = 1 THEN "assistant" ELSE "tool",
                                          size |-> sizes[k], ref |-> N + k]]
<1>1. N \in Nat /\ M \in Nat /\ 1 \in 1..M
  BY HistoryAssumption DEF HistoryInvariant, HistoryTypeOK
<1>2. \A k \in 1..M : sizes[k] \in Nat /\ N + k \in Int
  <2>1. \A k \in 1..M : sizes[k] \in Sizes
    OBVIOUS
  <2>2. Sizes \subseteq Nat
    BY HistoryAssumption
  <2> HIDE DEF M, N
  <2>3. \A k \in 1..M : N + k \in Int
    BY <1>1
  <2> QED BY <2>1, <2>2, <2>3
<1>3. ms \in [1..M -> Message]
  <2>1. DOMAIN sizes = 1..M
    OBVIOUS
  <2> HIDE DEF M, N
  <2> QED BY <2>1, <1>2 DEF Message
<1>4. ms[1].role = "assistant"
  <2>1. 1 \in DOMAIN sizes
    BY <1>1
  <2> QED BY <2>1
<1>5. trajectory' = trajectory \o ms /\ phase = "request"
  BY DEF Answer
<1>6. /\ session' \in [issue : Nat, validated : Nat] /\ phase' \in {"loop", "ending"}
  BY DEF Answer, HistoryInvariant, HistoryTypeOK
<1>7. UNCHANGED <<run, source_items, request_items, replacements, retained, contexts,
                  turn, plan>>
  BY DEF Answer
<1> HIDE DEF ms, M
<1>8. ms \in Seq(Message) /\ Len(ms) # 0
  BY <1>1, <1>3, FcnSeq
<1> QED
  BY <1>4, <1>5, <1>6, <1>7, <1>8, AnsweredStep

(* An answer that cannot be parsed, with the runtime's message after it.   *)
LEMMA UnparsableIs ==
  ASSUME HistoryInvariant, NEW size \in Sizes, UnparsableAnswer(size)
  PROVE  HistoryInvariant'
<1> DEFINE A == [role |-> "assistant", size |-> size, ref |-> Len(trajectory) + 1]
           B == [role |-> "user", size |-> 1, ref |-> Len(trajectory) + 2]
           ms == <<A, B>>
<1>1. A \in Message /\ B \in Message /\ A.role = "assistant"
  BY HistoryAssumption DEF Message, HistoryInvariant, HistoryTypeOK
<1>2. trajectory' = trajectory \o ms /\ phase = "request"
  BY DEF UnparsableAnswer
<1>3. /\ session' \in [issue : Nat, validated : Nat] /\ phase' \in {"loop", "ending"}
  BY DEF UnparsableAnswer, HistoryInvariant, HistoryTypeOK
<1>4. UNCHANGED <<run, source_items, request_items, replacements, retained, contexts,
                  turn, plan>>
  BY DEF UnparsableAnswer
<1> HIDE DEF A, B
<1>5. ms \in Seq(Message) /\ Len(ms) # 0 /\ ms[1] = A
  BY <1>1
<1> HIDE DEF ms
<1> QED
  BY <1>1, <1>2, <1>3, <1>4, <1>5, AnsweredStep

(* A step that only moves on keeps the invariant: the model cannot be      *)
(* asked for a summary, the client raises, or nothing happens.             *)
LEMMA PlainSteps ==
  ASSUME HistoryInvariant, ModelFallsBack \/ RequestFails \/ UNCHANGED vars
  PROVE  HistoryInvariant'
<1>1. UNCHANGED <<run, trajectory, source_items, request_items, replacements,
                  retained, contexts, session, turn, plan>>
  BY DEF ModelFallsBack, RequestFails, vars
<1>2. /\ ItemsOK' /\ Divides(request_items, replacements, Len(source_items))'
      /\ ArtifactsOK' /\ ContextsOK' /\ TurnsOK' /\ FreshOK' /\ PinnedOK'
      /\ RequestMessages' = RequestMessages
  BY <1>1, SameHistories
<1>3. \/ phase = "compaction_call" /\ phase' = "snapshot"
      \/ phase = "request" /\ phase' = "ending"
      \/ phase' = phase
  BY DEF ModelFallsBack, RequestFails, vars
<1>4. HistoryTypeOK'
  BY <1>1, <1>3 DEF HistoryInvariant, HistoryTypeOK, Phases
<1>5. LoopOK'
  BY <1>1, <1>2, <1>3 DEF HistoryInvariant, LoopOK
<1> QED
  BY <1>2, <1>4, <1>5 DEF HistoryInvariant

(* The last sync keeps the invariant.                                      *)
LEMMA FinishStep ==
  ASSUME HistoryInvariant, Finish
  PROVE  HistoryInvariant'
<1>1. /\ HistoryTypeOK /\ LoopOK /\ turn \in Nat /\ turn = Len(contexts)
      /\ trajectory \in Seq(Message)
  BY DEF HistoryInvariant, LoopOK, HistoryTypeOK, Finish
<1>2. /\ sync_source_messages(turn) /\ phase' = "done"
      /\ UNCHANGED <<run, trajectory, replacements, contexts, session, turn, plan>>
  BY DEF Finish
<1>3. /\ retained' \in Seq(Entry) /\ source_items' \in Seq(Nat)
      /\ request_items' \in Seq(Item) /\ Len(source_items') = Len(trajectory)
      /\ ItemsOK' /\ Divides(request_items, replacements, Len(source_items))'
      /\ ArtifactsOK' /\ ContextsOK' /\ TurnsOK' /\ FreshOK' /\ PinnedOK'
  BY <1>1, <1>2, SyncStep
<1>4. HistoryTypeOK'
  BY <1>1, <1>2, <1>3 DEF HistoryTypeOK, Phases
<1>5. LoopOK'
  BY <1>1, <1>2, <1>3 DEF LoopOK
<1> QED
  BY <1>3, <1>4, <1>5 DEF HistoryInvariant

(* Every step keeps the invariant.                                         *)
LEMMA NextOK ==
  ASSUME HistoryInvariant, [Next]_vars
  PROVE  HistoryInvariant'
<1>1. CASE BeginTurn
  BY <1>1, BeginStep
<1>2. CASE \E size \in Sizes : ModelCompacts(size)
  BY <1>2, ModelCompactsStep
<1>3. CASE ModelFallsBack \/ RequestFails \/ UNCHANGED vars
  BY <1>3, PlainSteps
<1>4. CASE Snapshot
  BY <1>4, SnapshotStep
<1>5. CASE \E calls \in 0..MaxCalls, goesOn \in BOOLEAN :
              \E sizes \in [1..(calls + 1) -> Sizes] : Answer(sizes, goesOn)
  BY <1>5, AnswerIs
<1>6. CASE \E size \in Sizes : UnparsableAnswer(size)
  BY <1>6, UnparsableIs
<1>7. CASE Finish
  BY <1>7, FinishStep
<1> QED
  BY <1>1, <1>2, <1>3, <1>4, <1>5, <1>6, <1>7 DEF Next

-----------------------------------------------------------------------------
(* The theorems.                                                           *)

(* However a run goes, the invariant of its histories holds: the state is  *)
(* typed, every item of the request history says what its log entry says,  *)
(* and the items divide the synced trajectory among them (the loop of      *)
(* runner.py around history_manager.py).                                   *)
THEOREM HistoryIsConsistent == Spec => []HistoryInvariant
<1>1. Init => HistoryInvariant
  BY InitOK
<1>2. HistoryInvariant /\ [Next]_vars => HistoryInvariant'
  BY NextOK
<1> QED
  BY <1>1, <1>2, PTL DEF Spec

(* The state of a run is well typed, whatever the sizes and limits.        *)
THEOREM HistoryTypes == Spec => []HistoryTypeOK
<1>1. HistoryInvariant => HistoryTypeOK
  BY DEF HistoryInvariant
<1> QED
  BY <1>1, HistoryIsConsistent, PTL

(* Items that divide the positions give each position to exactly one.      *)
LEMMA DividesOnce ==
  ASSUME NEW items \in Seq(Item), NEW rs, NEW n \in Nat, Divides(items, rs, n), NEW i \in 1..n
  PROVE  Cardinality({k \in 1..Len(items) : i \in Span(items[k], rs)}) = 1
<1>1. PICK k \in 1..Len(items) : i \in Span(items[k], rs)
  BY DEF Divides
<1>2. \A l \in 1..Len(items) : l # k => i \notin Span(items[l], rs)
  BY <1>1 DEF Divides
<1>3. {l \in 1..Len(items) : i \in Span(items[l], rs)} = {k}
  BY <1>1, <1>2
<1> QED
  BY <1>3, FS_Singleton

(* However often the history is compacted, no message is lost and none is  *)
(* told twice, the items stay in trajectory order, and no prompt is ever   *)
(* replaced (sync_source_messages and _apply_compaction_replacement).      *)
THEOREM HistoryIsKept == Spec => []CompactionKeepsHistory
<1>1. ASSUME HistoryInvariant PROVE CompactionKeepsHistory
  <2> DEFINE n == Len(source_items)
             S(item) == IF item.record = 0 THEN {item.source}
                        ELSE Range(replacements[item.record].sources)
  <2>1. /\ request_items \in Seq(Item) /\ source_items \in Seq(Nat) /\ n \in Nat
        /\ Divides(request_items, replacements, n)
    BY <1>1 DEF HistoryInvariant, HistoryTypeOK
  <2>2. DOMAIN request_items = 1..Len(request_items) /\ DOMAIN source_items = 1..n
    BY <2>1
  <2>3. \A item : S(item) = Span(item, replacements)
    BY DEF Span
  <2>4. \A i \in 1..n :
           Cardinality({k \in 1..Len(request_items) : i \in Span(request_items[k], replacements)}) = 1
    BY <2>1, DividesOnce
  <2>5. \A i \in 1..n :
           {k \in DOMAIN request_items : i \in S(request_items[k])}
           = {k \in 1..Len(request_items) : i \in Span(request_items[k], replacements)}
    <3> HIDE DEF S
    <3> QED BY <2>2, <2>3
  <2>6. \A i \in DOMAIN source_items :
           Cardinality({k \in DOMAIN request_items : i \in S(request_items[k])}) = 1
    <3> HIDE DEF S, n
    <3> QED BY <2>2, <2>4, <2>5
  <2>7. \A i \in DOMAIN source_items :
           trajectory[i].role \in {"system", "user"} => i \in Shows(request_items)
    BY <1>1, <2>2 DEF HistoryInvariant, PinnedOK
  <2>8. \A k, l \in DOMAIN request_items :
           k < l => Min(S(request_items[k])) < Min(S(request_items[l]))
    <3> HIDE DEF S
    <3> QED BY <2>1, <2>2, <2>3 DEF Divides
  <2> QED BY <2>6, <2>7, <2>8, Zenon DEF CompactionKeepsHistory
<1> QED
  BY <1>1, HistoryIsConsistent, PTL

(* Every replacement record of a run can be traced across the two logs,    *)
(* however many there are (history_lineage.py).                            *)
THEOREM LineageAlwaysHolds == Spec => []LineageHolds
<1>1. ASSUME HistoryInvariant PROVE LineageHolds
  <2>1. DOMAIN contexts = 1..Len(contexts)
    BY <1>1 DEF HistoryInvariant, HistoryTypeOK
  <2> QED
    BY <1>1, <2>1 DEF HistoryInvariant, ContextsOK, ContextOK, LineageHolds,
                      build_history_lineage_report
<1> QED
  BY <1>1, HistoryIsConsistent, PTL

(* token_budget_satisfied in a request's entry is the truth about the      *)
(* request that was sent, for every limit, size and policy but the         *)
(* model-backed one (_build_context_selection).                            *)
THEOREM BudgetIsAlwaysReported == Spec => []BudgetIsReported
<1>1. ASSUME HistoryInvariant PROVE BudgetIsReported
  <2>1. DOMAIN contexts = 1..Len(contexts)
    BY <1>1 DEF HistoryInvariant, HistoryTypeOK
  <2> QED
    BY <1>1, <2>1 DEF HistoryInvariant, ContextsOK, ContextOK, BudgetIsReported
<1> QED
  BY <1>1, HistoryIsConsistent, PTL

(* Loose messages with as many assistant messages before them are of one   *)
(* turn.                                                                   *)
LEMMA OrdinalTogether ==
  ASSUME NEW ms \in Seq(Message), NEW i \in 1..Len(ms), NEW j \in 1..Len(ms), i <= j,
         Ordinal(ms, i) = Ordinal(ms, j)
  PROVE  Together(ms, i, j)
<1> DEFINE A(x) == {a \in 1..x : ms[a].role = "assistant"}
<1>1. IsFiniteSet(A(j)) /\ A(i) \in SUBSET A(j)
  <2>1. IsFiniteSet(1..j) /\ A(j) \in SUBSET (1..j)
    BY NthInterval
  <2>2. IsFiniteSet(A(j))
    <3> HIDE DEF A
    <3> QED BY <2>1, FS_Subset
  <2>3. \A a \in 1..i : a \in 1..j
    OBVIOUS
  <2> QED BY <2>2, <2>3
<1>2. Cardinality(A(j)) = Cardinality(A(i))
  BY DEF Ordinal
<1>3. A(j) = A(i)
  <2> HIDE DEF A
  <2> QED BY <1>1, <1>2, FS_Subset
<1>4. \A a \in 1..j : i < a => ms[a].role # "assistant"
  <2>1. \A a \in 1..j : i < a => a \notin 1..i
    OBVIOUS
  <2> QED BY <2>1, <1>3
<1> QED
  BY <1>4 DEF Together

(* A request never shows a tool result without the answer that called for  *)
(* it, nor an answer without its results, under every policy but the tail  *)
(* window (_build_turn_ranges, _select_deterministic_compaction).          *)
THEOREM TurnsStayWhole == Spec => []WholeTurns
<1>1. ASSUME HistoryInvariant PROVE WholeTurns
  <2>1. /\ trajectory \in Seq(Message) /\ contexts \in Seq(Context)
        /\ source_items \in Seq(Nat) /\ Len(source_items) <= Len(trajectory)
    BY SMTT(30), <1>1 DEF HistoryInvariant, HistoryTypeOK, LoopOK
  <2> SUFFICES ASSUME run.policy # "tail_window", NEW n \in DOMAIN contexts, NEW t
               PROVE  {i \in DOMAIN source_items \ pinned_indices(trajectory) : TurnOf(i) = t}
                         \cap Shown(n)
                      \in {{}, {i \in DOMAIN source_items \ pinned_indices(trajectory) : TurnOf(i) = t}}
    BY DEF WholeTurns
  <2> DEFINE whole == {i \in DOMAIN source_items \ pinned_indices(trajectory) : TurnOf(i) = t}
             shown == Shown(n)
  <2>2. WholeIn(trajectory, ShownBy(contexts[n], retained))
    BY <1>1, <2>1 DEF HistoryInvariant, ContextsOK, ContextOK
  <2>3. shown = ShownBy(contexts[n], retained)
    BY DEF Shown, ShownBy
  <2>4. \A i \in whole : /\ i \in Loose(trajectory) /\ i \in 1..Len(trajectory)
                         /\ Ordinal(trajectory, i) = t
    BY <2>1 DEF Loose, pinned_indices, TurnOf, Ordinal
  <2> HIDE DEF whole, shown
  <2>5. \A i, j \in whole : i <= j => (i \in shown <=> j \in shown)
    <3> SUFFICES ASSUME NEW i \in whole, NEW j \in whole, i <= j
                 PROVE  i \in shown <=> j \in shown
      OBVIOUS
    <3>1. Together(trajectory, i, j)
      BY <2>1, <2>4, OrdinalTogether
    <3> QED BY <3>1, <2>2, <2>3, <2>4 DEF WholeIn
  <2>6. \A i, j \in whole : i <= j \/ j <= i
    <3>1. \A i \in whole : i \in Nat
      BY <2>4
    <3> QED BY <3>1
  <2>7. \A i, j \in whole : i \in shown <=> j \in shown
    BY <2>5, <2>6
  <2>8. whole \cap shown = {} \/ whole \cap shown = whole
    BY <2>7
  <2> QED BY <2>8 DEF whole, shown
<1> QED
  BY <1>1, HistoryIsConsistent, PTL

-----------------------------------------------------------------------------
(* The first compaction of a run.                                          *)

(* A set that is numbered from 1 to n without repetition has n members.    *)
LEMMA Counted ==
  ASSUME NEW n \in Nat, NEW S, NEW f \in [1..n -> S],
         \A k, l \in 1..n : f[k] = f[l] => k = l,
         \A x \in S : \E k \in 1..n : f[k] = x
  PROVE  IsFiniteSet(S) /\ Cardinality(S) = n
<1>1. IsFiniteSet(1..n) /\ Cardinality(1..n) = n
  BY NthInterval
<1>2. f \in Bijection(1..n, S)
  BY DEF Bijection, Injection, IsInjective, Surjection
<1>3. ExistsBijection(1..n, S)
  BY <1>2 DEF ExistsBijection
<1> QED
  BY <1>1, <1>3, FS_Bijection

(* The numbering of a set of naturals in ascending order is Nth.           *)
LEMMA NthOf ==
  ASSUME NEW n \in Nat, NEW S, S \subseteq Nat, NEW f \in [1..n -> S],
         \A k, l \in 1..n : k < l => f[k] < f[l],
         \A x \in S : \E k \in 1..n : f[k] = x
  PROVE  /\ IsFiniteSet(S) /\ Cardinality(S) = n
         /\ \A k \in 1..n : Nth(S, k) = f[k]
<1>1. \A k \in 1..n : f[k] \in S /\ f[k] \in Nat
  OBVIOUS
<1>2. \A k, l \in 1..n : f[k] <= f[l] <=> k <= l
  <2> TAKE k, l \in 1..n
  <2>1. k < l \/ k = l \/ l < k
    OBVIOUS
  <2> QED BY <2>1, <1>1
<1>3. \A k, l \in 1..n : f[k] = f[l] => k = l
  <2> TAKE k, l \in 1..n
  <2>1. k < l \/ k = l \/ l < k
    OBVIOUS
  <2> QED BY <2>1, <1>1
<1>4. IsFiniteSet(S) /\ Cardinality(S) = n
  BY <1>3, Counted
<1>5. \A k \in 1..n : Cardinality({j \in S : j <= f[k]}) = k
  <2> TAKE k \in 1..n
  <2> DEFINE T == {j \in S : j <= f[k]}
             g == [a \in 1..k |-> f[a]]
  <2>1. \A a \in 1..k : a \in 1..n /\ a <= k
    OBVIOUS
  <2>2. g \in [1..k -> T]
    <3>1. \A a \in 1..k : f[a] \in T
      BY <2>1, <1>1, <1>2
    <3> HIDE DEF T
    <3> QED BY <3>1
  <2>3. \A x \in T : \E a \in 1..k : g[a] = x
    <3> TAKE x \in T
    <3>1. PICK a \in 1..n : f[a] = x
      OBVIOUS
    <3>2. a \in 1..k
      BY <3>1, <1>2
    <3> QED BY <3>1, <3>2
  <2>4. \A a, b \in 1..k : g[a] = g[b] => a = b
    BY <2>1, <1>3
  <2> HIDE DEF T, g
  <2>5. k \in Nat
    OBVIOUS
  <2>6. Cardinality(T) = k
    BY <2>2, <2>3, <2>4, <2>5, Counted
  <2> QED BY <2>6 DEF T
<1>6. ASSUME NEW k \in 1..n PROVE Nth(S, k) = f[k]
  <2>1. \E i \in S : Cardinality({j \in S : j <= i}) = k
    BY <1>1, <1>5
  <2>2. PICK i : i = Nth(S, k) /\ i \in S /\ Cardinality({j \in S : j <= i}) = k
    BY <2>1 DEF Nth
  <2>3. PICK l \in 1..n : f[l] = i
    BY <2>2
  <2>4. l = k
    BY <2>2, <2>3, <1>5
  <2> QED BY <2>2, <2>3, <2>4
<1> QED
  BY <1>4, <1>6

Pair == [at : Nat, id : Nat]

(* Pairs whose places are 1 to b, each once, are sorted by place.          *)
LEMMA SortedIs ==
  ASSUME NEW pairs \in Seq(Pair), NEW b \in Nat,
         \A i \in 1..Len(pairs) : pairs[i].at \in 1..b,
         \A i, j \in 1..Len(pairs) : pairs[i].at = pairs[j].at => i = j,
         \A k \in 1..b : \E i \in 1..Len(pairs) : pairs[i].at = k
  PROVE  /\ Len(pairs) = b /\ DOMAIN Sorted(pairs) = 1..b
         /\ \A k \in 1..b : \E i \in 1..b : Sorted(pairs)[k] = pairs[i] /\ pairs[i].at = k
<1> DEFINE n == Len(pairs)
           Place(k) == CHOOSE i \in 1..n : pairs[i].at = k
           Below(i) == {j \in DOMAIN pairs : \/ pairs[j].at < pairs[i].at
                                             \/ pairs[j].at = pairs[i].at /\ j <= i}
<1>1. n \in Nat /\ DOMAIN pairs = 1..n
  OBVIOUS
<1>2. \A k \in 1..b : Place(k) \in 1..n /\ pairs[Place(k)].at = k
  <2> TAKE k \in 1..b
  <2>1. \E i \in 1..n : pairs[i].at = k
    OBVIOUS
  <2> QED BY <2>1
<1> HIDE DEF n, Place
<1>3. \A i \in 1..n : pairs[i].at \in 1..b /\ Place(pairs[i].at) = i
  BY <1>2 DEF n
<1>4. n = b
  <2> DEFINE f == [k \in 1..b |-> Place(k)]
  <2>1. f \in [1..b -> 1..n]
    BY <1>2
  <2>2. \A k, l \in 1..b : f[k] = f[l] => k = l
    <3>1. \A k \in 1..b : f[k] = Place(k)
      OBVIOUS
    <3> HIDE DEF f
    <3> TAKE k, l \in 1..b
    <3> HAVE f[k] = f[l]
    <3>2. Place(k) = Place(l)
      BY <3>1
    <3>3. pairs[Place(k)].at = k /\ pairs[Place(l)].at = l
      BY <1>2
    <3> QED BY <3>2, <3>3
  <2>3. \A x \in 1..n : \E k \in 1..b : f[k] = x
    BY <1>3
  <2> HIDE DEF f
  <2>4. Cardinality(1..n) = b
    BY <2>1, <2>2, <2>3, Counted
  <2>5. Cardinality(1..n) = n
    BY <1>1, NthInterval
  <2> QED BY <2>4, <2>5
<1>5. \A i \in 1..n : Rank(pairs, i) = pairs[i].at
  <2> TAKE i \in 1..n
  <2> DEFINE p == pairs[i].at
             f == [k \in 1..p |-> Place(k)]
  <2>1. p \in 1..b /\ \A k \in 1..p : k \in 1..b
    BY <1>3
  <2>2. \A k \in 1..p : Place(k) \in Below(i)
    <3> TAKE k \in 1..p
    <3>1. Place(k) \in 1..n /\ pairs[Place(k)].at = k
      BY <2>1, <1>2
    <3>2. k < p \/ k = p
      BY <2>1
    <3>3. k = p => Place(k) = i
      BY <1>3
    <3>4. i <= i
      BY <1>1
    <3> QED BY <3>1, <3>2, <3>3, <3>4, <1>1
  <2>3. \A j \in Below(i) : \E k \in 1..p : Place(k) = j
    <3> TAKE j \in Below(i)
    <3>1. j \in 1..n /\ pairs[j].at \in 1..b /\ Place(pairs[j].at) = j
      BY <1>1, <1>3
    <3>2. pairs[j].at < p \/ pairs[j].at = p
      OBVIOUS
    <3>3. pairs[j].at \in 1..p
      <4>1. PICK q : q = pairs[j].at /\ q \in 1..b /\ (q < p \/ q = p)
        BY <3>1, <3>2
      <4> HIDE DEF p
      <4>2. q \in 1..p
        BY <4>1, <2>1
      <4> QED BY <4>1, <4>2
    <3> QED BY <3>1, <3>3
  <2> HIDE DEF Below
  <2>4. f \in [1..p -> Below(i)]
    BY <2>2
  <2>5. \A k, l \in 1..p : f[k] = f[l] => k = l
    <3>1. \A k \in 1..p : f[k] = Place(k) /\ k \in 1..b
      BY <2>1
    <3> HIDE DEF f, p
    <3> TAKE k, l \in 1..p
    <3> HAVE f[k] = f[l]
    <3>2. Place(k) = Place(l)
      BY <3>1
    <3>3. pairs[Place(k)].at = k /\ pairs[Place(l)].at = l
      BY <3>1, <1>2
    <3> QED BY <3>2, <3>3
  <2>6. \A j \in Below(i) : \E k \in 1..p : f[k] = j
    BY <2>3
  <2>7. p \in Nat
    BY <2>1
  <2> HIDE DEF f, p
  <2>8. Cardinality(Below(i)) = p
    BY ZenonT(60), <2>4, <2>5, <2>6, <2>7, Counted
  <2> QED BY <2>8 DEF Rank, Below, p
<1>6. DOMAIN Sorted(pairs) = 1..b
  BY <1>1, <1>4 DEF Sorted
<1>7. ASSUME NEW k \in 1..b
      PROVE  \E i \in 1..b : Sorted(pairs)[k] = pairs[i] /\ pairs[i].at = k
  <2>1. \E i \in DOMAIN pairs : Rank(pairs, i) = k
    <3>1. Place(k) \in 1..n /\ pairs[Place(k)].at = k
      BY <1>2
    <3>2. Rank(pairs, Place(k)) = k
      BY <3>1, <1>5
    <3> QED BY <3>1, <3>2, <1>1
  <2>2. PICK i : i = (CHOOSE j \in DOMAIN pairs : Rank(pairs, j) = k)
                 /\ i \in DOMAIN pairs /\ Rank(pairs, i) = k
    BY <2>1
  <2>3. Sorted(pairs)[k] = pairs[i]
    BY <2>2, <1>1, <1>4 DEF Sorted
  <2> QED BY ZenonT(30), <2>2, <2>3, <1>1, <1>4, <1>5
<1> QED
  BY <1>4, <1>6, <1>7 DEF n

\* The source entries of the log are the synced trajectory messages, in order.
LoggedOK(log, ids, messages) ==
    /\ \A k \in 1..Len(ids) : /\ ids[k] \in 1..Len(log)
                              /\ log[ids[k]].kind = "source_message"
                              /\ log[ids[k]].source = k
                              /\ log[ids[k]].message = messages[k]
    /\ \A k, l \in 1..Len(ids) : k < l => ids[k] < ids[l]
    /\ \A id \in 1..Len(log) : log[id].kind = "source_message" =>
                                  \E k \in 1..Len(ids) : ids[k] = id

\* Until something is compacted the request history is the trajectory.
PlainOK ==
    Len(replacements) = 0 =>
        /\ Len(request_items) = Len(source_items)
        /\ \A k \in 1..Len(source_items) : /\ request_items[k].source = k
                                           /\ request_items[k].record = 0
                                           /\ request_items[k].entry = source_items[k]

\* A compaction is on record with the request it was made for.
RecordsOK ==
    Len(replacements) # 0 => \E n \in 1..Len(contexts) : contexts[n].record # 0

\* Requests are logged one after the other.
StampsOK ==
    /\ \A n \in 1..Len(contexts) :
          /\ contexts[n].retained_before <= contexts[n].retained_after
          /\ contexts[n].retained_after <= Len(retained)
    /\ \A n \in 2..Len(contexts) :
          contexts[n - 1].retained_after <= contexts[n].retained_before

\* A request that was made of the b synced messages, with nothing compacted.
UncompactedAt(ctx, b, ids, r) ==
    /\ ~ctx.active /\ ctx.summary = 0 /\ ctx.carried = 0
    /\ \A k \in 1..Len(ctx.omitted) : \E i \in 1..b : ctx.omitted[k] = ids[i]
    /\ r.policy # "tail_window" => /\ Len(ctx.selected) = b
                                   /\ \A k \in 1..b : ctx.selected[k] = ids[k]

\* A request that was made of the b synced messages, with those at P compacted.
CompactedAt(ctx, P, b, ids, summary) ==
    /\ P \subseteq 1..b /\ P # {}
    /\ ctx.active
    /\ Len(summary.entries) = Cardinality(P)
    /\ Len(summary.sources) = Cardinality(P)
    /\ \A k \in 1..Cardinality(P) : /\ summary.entries[k] = ids[Nth(P, k)]
                                    /\ summary.sources[k] = Nth(P, k)
    /\ ctx.omitted = summary.entries
    /\ Len(ctx.selected) = Min(P) + Cardinality(After(b, P))
    /\ ctx.selected[Min(P)] = ctx.summary
    /\ \A k \in 1..Len(ctx.selected) :
          k # Min(P) => ctx.selected[k] = ids[From(b, P, k)]

\* A request up to the first compaction is one of all the messages synced by
\* then.
FirstOK(ctx, log, ids, r) ==
    /\ ctx.items_before <= Len(ids)
    /\ ctx.request_message_count = Len(ctx.selected)
    /\ \A k \in 1..Len(ids) : IF k <= ctx.items_before THEN ids[k] <= ctx.retained_before
                              ELSE ids[k] > ctx.retained_after
    /\ ctx.record = 0 => UncompactedAt(ctx, ctx.items_before, ids, r)
    /\ ctx.record # 0 => \E P \in SUBSET (1..ctx.items_before) :
                            CompactedAt(ctx, P, ctx.items_before, ids, log[ctx.summary])

\* Nothing was compacted before request n.
First(cs, n) == \A m \in 1..(n - 1) : cs[m].record = 0

FirstsOK ==
    \A n \in 1..Len(contexts) :
        First(contexts, n) => FirstOK(contexts[n], retained, source_items, run)

FirstInvariant ==
    /\ LoggedOK(retained, source_items, trajectory)
    /\ PlainOK
    /\ RecordsOK
    /\ StampsOK
    /\ FirstsOK

\* The items of a list of b with those at P replaced come in order from all
\* the positions but those at P.
IsFrom(b, P) ==
    LET c == Min(P) + Cardinality(After(b, P))
    IN  /\ Min(P) \in P /\ Min(P) \in 1..c /\ c \in Nat
        /\ \A k \in 1..c : From(b, P, k) \in 1..b
        /\ \A k \in 1..c : k # Min(P) => From(b, P, k) \in (1..b) \ P
        /\ \A k, l \in 1..c : k < l => From(b, P, k) < From(b, P, l)
        /\ \A i \in (1..b) \ P : \E k \in 1..c : k # Min(P) /\ From(b, P, k) = i

(* Where the items of a list with some replaced come from, without a list. *)
LEMMA FromIs ==
  ASSUME NEW b \in Nat, NEW P, P \subseteq 1..b, P # {}
  PROVE  IsFrom(b, P)
<1>1. PICK list : list = [k \in 1..b |-> k]
  OBVIOUS
<1>2. list \in [1..b -> Nat]
  BY <1>1
<1>3. list \in Seq(Nat) /\ Len(list) = b
  BY <1>2, FcnSeq
<1>4. PICK R : R = Replaced(list, P, 0)
  OBVIOUS
<1>5. IsReplaced(R, list, P, 0)
  <2>1. P \subseteq 1..Len(list) /\ 0 \in Nat
    BY <1>3
  <2> QED BY <2>1, <1>3, <1>4, ReplacedIs
<1>6. Min(P) \in Nat /\ Min(P) # 0
  <2>1. Min(P) \in P
    BY <1>5 DEF IsReplaced
  <2>2. \A x \in P : x \in Nat /\ x # 0
    OBVIOUS
  <2> QED BY <2>1, <2>2
<1> QED
  BY <1>3, <1>5, <1>6 DEF IsReplaced, IsFrom

\* K lists the entries of the first b messages but those at P, each once.
IsKept(K, b, P, ids) ==
    /\ K \in Seq(Nat)
    /\ \A k \in 1..Len(K) : \E i \in (1..b) \ P : K[k] = ids[i]
    /\ \A k, l \in 1..Len(K) : K[k] = K[l] => k = l
    /\ \A i \in (1..b) \ P : \E k \in 1..Len(K) : K[k] = ids[i]

(* What stays of a request when something is compacted: the other          *)
(* messages, each once.                                                    *)
LEMMA KeptIs ==
  ASSUME NEW log \in Seq(Entry), NEW ids \in Seq(Nat), NEW ms, LoggedOK(log, ids, ms),
         NEW ctx \in Context, NEW P, NEW b \in Nat, b <= Len(ids),
         CompactedAt(ctx, P, b, ids, log[ctx.summary]),
         log[ctx.summary].kind = "replacement_summary"
  PROVE  IsKept(Kept(ctx), b, P, ids)
<1> DEFINE sel == ctx.selected
           c == Min(P) + Cardinality(After(b, P))
           m == Min(P)
           Q == {k \in DOMAIN sel : sel[k] # ctx.summary}
           K == Kept(ctx)
           q == Cardinality(Q)
<1>1. /\ sel \in Seq(Nat) /\ Len(sel) = c /\ sel[m] = ctx.summary
      /\ \A k \in 1..c : k # m => sel[k] = ids[From(b, P, k)]
      /\ P \subseteq 1..b /\ P # {}
  BY DEF CompactedAt, Context
<1>2. /\ m \in 1..c /\ c \in Nat
      /\ \A k \in 1..c : k # m => From(b, P, k) \in (1..b) \ P
      /\ \A k, l \in 1..c : k < l => From(b, P, k) < From(b, P, l)
      /\ \A k \in 1..c : From(b, P, k) \in 1..b
      /\ \A i \in (1..b) \ P : \E k \in 1..c : k # m /\ From(b, P, k) = i
  <2>1. IsFrom(b, P)
    BY <1>1, FromIs
  <2> QED BY <2>1 DEF IsFrom
<1>3. \A i \in 1..b : /\ i \in 1..Len(ids) /\ ids[i] # ctx.summary /\ ids[i] \in Nat
  BY DEF LoggedOK
<1>4. \A i, j \in 1..b : ids[i] = ids[j] => i = j
  BY <1>3 DEF LoggedOK
<1> HIDE DEF sel, c, m
<1>5. Q = (1..c) \ {m}
  <2>1. DOMAIN sel = 1..c
    BY <1>1
  <2>2. \A k \in 1..c : k # m => sel[k] # ctx.summary
    BY ZenonT(30), <1>1, <1>2, <1>3
  <2> QED BY <2>1, <2>2, <1>1
<1>6. /\ IsFiniteSet(Q) /\ q \in Nat /\ K \in Seq(Nat) /\ Len(K) = q
      /\ \A k \in 1..q : Nth(Q, k) \in Q /\ K[k] = sel[Nth(Q, k)]
  <2>1. Q \subseteq 1..Len(sel) /\ sel \in Seq(Nat)
    BY <1>1, <1>5
  <2>2. K = At(sel, Q)
    BY DEF Kept, sel
  <2> HIDE DEF Q, K
  <2> QED BY <2>1, <2>2, AtIs
<1>7. /\ \A i \in Q : \E k \in 1..q : Nth(Q, k) = i
      /\ \A k, l \in 1..q : k = l <=> Nth(Q, k) = Nth(Q, l)
  <2>1. Q \subseteq Nat
    BY <1>5
  <2> HIDE DEF Q
  <2> QED BY <2>1, <1>6, NthIs
<1> HIDE DEF Q, K, q
<1>8. \A k \in 1..q : /\ Nth(Q, k) \in 1..c /\ Nth(Q, k) # m
                      /\ K[k] = ids[From(b, P, Nth(Q, k))]
                      /\ From(b, P, Nth(Q, k)) \in (1..b) \ P
  BY <1>1, <1>2, <1>5, <1>6
<1>9. \A k, l \in 1..q : K[k] = K[l] => k = l
  <2> TAKE k, l \in 1..q
  <2> HAVE K[k] = K[l]
  <2>1. From(b, P, Nth(Q, k)) = From(b, P, Nth(Q, l))
    BY <1>4, <1>8
  <2>2. PICK x \in 1..c, y \in 1..c : x = Nth(Q, k) /\ y = Nth(Q, l)
    BY <1>8
  <2>3. x < y \/ x = y \/ y < x
    BY <1>2
  <2>4. From(b, P, x) \in 1..b /\ From(b, P, y) \in 1..b
    BY <1>2
  <2>5. x = y
    BY <2>1, <2>2, <2>3, <2>4, <1>2
  <2> QED BY <2>2, <2>5, <1>7
<1>10. \A i \in (1..b) \ P : \E k \in 1..q : K[k] = ids[i]
  <2> TAKE i \in (1..b) \ P
  <2>1. PICK x \in 1..c : x # m /\ From(b, P, x) = i
    BY <1>2
  <2>2. PICK k \in 1..q : Nth(Q, k) = x
    BY <2>1, <1>5, <1>7
  <2> QED BY <2>1, <2>2, <1>8
<1>11. Len(K) = q /\ K \in Seq(Nat)
  BY <1>6
<1>12. /\ \A k \in 1..Len(K) : \E i \in (1..b) \ P : K[k] = ids[i]
       /\ \A k, l \in 1..Len(K) : K[k] = K[l] => k = l
       /\ \A i \in (1..b) \ P : \E k \in 1..Len(K) : K[k] = ids[i]
  BY <1>8, <1>9, <1>10, <1>11
<1> QED
  BY <1>11, <1>12 DEF K, IsKept

\* D pairs each of the first b places with its entry, once.
IsPairs(D, b, ids) ==
    /\ D \in Seq(Pair)
    /\ \A i \in 1..Len(D) : D[i].at \in 1..b /\ D[i].id = ids[D[i].at]
    /\ \A i, j \in 1..Len(D) : D[i].at = D[j].at => i = j
    /\ \A k \in 1..b : \E i \in 1..Len(D) : D[i].at = k

(* The pairs of a compacted request: every synced message at its place.    *)
LEMMA PairsAre ==
  ASSUME NEW log \in Seq(Entry), NEW ids \in Seq(Nat), NEW ms, LoggedOK(log, ids, ms),
         NEW ctx \in Context, NEW P, NEW b \in Nat, b <= Len(ids),
         CompactedAt(ctx, P, b, ids, log[ctx.summary]), ctx.summary \in DOMAIN log,
         log[ctx.summary].kind = "replacement_summary"
  PROVE  IsPairs(Pairs(ctx, log), b, ids)
<1> DEFINE K == Kept(ctx)
           sm == log[ctx.summary]
           q == Len(K)
           p == Cardinality(P)
           A == [k \in DOMAIN K |-> [at |-> log[K[k]].source, id |-> K[k]]]
           B == [k \in DOMAIN sm.entries |-> [at |-> sm.sources[k], id |-> sm.entries[k]]]
<1>1. /\ K \in Seq(Nat)
      /\ \A k \in 1..q : \E i \in (1..b) \ P : K[k] = ids[i]
      /\ \A k, l \in 1..q : K[k] = K[l] => k = l
      /\ \A i \in (1..b) \ P : \E k \in 1..q : K[k] = ids[i]
  <2>1. IsKept(Kept(ctx), b, P, ids)
    BY KeptIs
  <2> QED BY <2>1 DEF IsKept
<1>2. \A i \in 1..b : /\ i \in 1..Len(ids) /\ ids[i] \in Nat /\ log[ids[i]].source = i
  BY DEF LoggedOK
<1>3. /\ P \subseteq 1..b /\ Len(sm.entries) = p /\ Len(sm.sources) = p
      /\ \A k \in 1..p : sm.entries[k] = ids[Nth(P, k)] /\ sm.sources[k] = Nth(P, k)
  BY DEF CompactedAt
<1>4. sm.entries \in Seq(Nat) /\ sm.sources \in Seq(Nat)
  <2>1. sm \in Entry
    OBVIOUS
  <2> HIDE DEF sm
  <2> QED BY <2>1 DEF Entry
<1>5. Pairs(ctx, log) = A \o B
  BY DEF Pairs
<1>6. /\ p \in Nat
      /\ \A k \in 1..p : Nth(P, k) \in P
      /\ \A i \in P : \E k \in 1..p : Nth(P, k) = i
      /\ \A k, l \in 1..p : k = l <=> Nth(P, k) = Nth(P, l)
  <2>1. IsFiniteSet(1..b) /\ P \in SUBSET (1..b) /\ P \subseteq Nat
    BY <1>3, NthInterval
  <2>2. IsFiniteSet(P)
    BY <2>1, FS_Subset
  <2> QED BY <2>1, <2>2, NthIs
<1> HIDE DEF K, sm, p
<1>7. /\ q \in Nat /\ DOMAIN K = 1..q /\ DOMAIN sm.entries = 1..p
  BY <1>1, <1>3, <1>4, <1>6
<1> HIDE DEF q
<1>8. \A k \in 1..q : /\ A[k].id = K[k] /\ A[k].at \in (1..b) \ P
                      /\ A[k].id = ids[A[k].at] /\ A[k] \in Pair
  <2> TAKE k \in 1..q
  <2>1. PICK i \in (1..b) \ P : K[k] = ids[i]
    BY <1>1
  <2>2. log[K[k]].source = i /\ ids[i] \in Nat /\ i \in Nat
    BY <2>1, <1>2
  <2>3. A[k] = [at |-> i, id |-> ids[i]]
    BY <2>1, <2>2, <1>7
  <2> HIDE DEF A
  <2> QED BY <2>1, <2>2, <2>3 DEF Pair
<1>9. \A k \in 1..p : /\ B[k].at = Nth(P, k) /\ B[k].at \in P
                      /\ B[k].id = ids[B[k].at] /\ B[k] \in Pair
  <2> TAKE k \in 1..p
  <2>1. PICK i \in P : Nth(P, k) = i
    BY <1>6
  <2>2. B[k] = [at |-> i, id |-> ids[i]]
    BY <2>1, <1>3, <1>7
  <2>3. ids[i] \in Nat /\ i \in Nat
    BY <1>2, <1>3
  <2> HIDE DEF B
  <2> QED BY <2>1, <2>2, <2>3 DEF Pair
<1>10. A \in Seq(Pair) /\ Len(A) = q /\ B \in Seq(Pair) /\ Len(B) = p
  <2>1. DOMAIN A = 1..q /\ DOMAIN B = 1..p
    BY <1>7
  <2>2. A = [k \in 1..q |-> A[k]] /\ B = [k \in 1..p |-> B[k]]
    BY <1>7
  <2> HIDE DEF A, B
  <2>3. A \in [1..q -> Pair] /\ B \in [1..p -> Pair]
    BY <2>1, <2>2, <1>8, <1>9
  <2> QED BY <2>3, <1>6, <1>7, FcnSeq
<1> HIDE DEF A, B
<1>11. PICK D : /\ D = Pairs(ctx, log) /\ D \in Seq(Pair) /\ Len(D) = q + p
                /\ \A k \in 1..q : D[k] = A[k]
                /\ \A k \in 1..p : D[q + k] = B[k]
  <2>1. /\ A \o B \in Seq(Pair) /\ Len(A \o B) = Len(A) + Len(B)
        /\ Grows(A, A \o B)
        /\ \A k \in 1..Len(B) : (A \o B)[Len(A) + k] = B[k]
    BY <1>10, CatGrows
  <2>2. PICK D : D = A \o B
    OBVIOUS
  <2>3. /\ D \in Seq(Pair) /\ Len(D) = q + p
        /\ \A k \in 1..q : D[k] = A[k]
        /\ \A k \in 1..p : D[q + k] = B[k]
    BY <2>1, <2>2, <1>10 DEF Grows
  <2> QED BY <2>2, <2>3, <1>5
<1>12. \A i \in 1..(q + p) : i \in 1..q \/ \E k \in 1..p : i = q + k
  <2> TAKE i \in 1..(q + p)
  <2>1. i \in 1..q \/ (i - q \in 1..p /\ i = q + (i - q))
    BY <1>6, <1>7
  <2> QED BY <2>1
<1>13. \A i \in 1..q : D[i].at \in (1..b) \ P /\ D[i].id = ids[D[i].at] /\ D[i].id = K[i]
  BY <1>8, <1>11
<1>14. \A k \in 1..p : D[q + k].at = Nth(P, k) /\ D[q + k].at \in P /\ D[q + k].id = ids[D[q + k].at]
  BY <1>9, <1>11
<1>15. \A i \in 1..(q + p) : D[i].at \in 1..b /\ D[i].id = ids[D[i].at]
  <2> TAKE i \in 1..(q + p)
  <2>1. CASE i \in 1..q
    BY <2>1, <1>13
  <2>2. ASSUME NEW k \in 1..p, i = q + k PROVE D[i].at \in 1..b /\ D[i].id = ids[D[i].at]
    BY <2>2, <1>3, <1>14
  <2> QED BY <2>1, <2>2, <1>12
<1>16. ASSUME NEW i \in 1..(q + p), NEW j \in 1..(q + p), D[i].at = D[j].at
       PROVE  i = j
  <2>1. CASE i \in 1..q /\ j \in 1..q
    <3>1. D[i].id = ids[D[i].at] /\ D[j].id = ids[D[j].at]
      BY <1>15
    <3>2. K[i] = K[j]
      BY <3>1, <2>1, <1>13, <1>16
    <3> QED BY <3>2, <2>1, <1>1
  <2>2. CASE i \in 1..q /\ \E k \in 1..p : j = q + k
    BY <2>2, <1>13, <1>14, <1>16
  <2>3. CASE j \in 1..q /\ \E k \in 1..p : i = q + k
    BY <2>3, <1>13, <1>14, <1>16
  <2>4. ASSUME NEW k \in 1..p, NEW l \in 1..p, i = q + k, j = q + l PROVE i = j
    BY <2>4, <1>6, <1>14, <1>16
  <2> QED BY <2>1, <2>2, <2>3, <2>4, <1>12
<1>17. ASSUME NEW k \in 1..b PROVE \E i \in 1..(q + p) : D[i].at = k
  <2>1. CASE k \in P
    <3>1. PICK l \in 1..p : Nth(P, l) = k
      BY <2>1, <1>6
    <3>2. q + l \in 1..(q + p)
      BY <1>6, <1>7
    <3> QED BY <3>1, <3>2, <1>14
  <2>2. CASE k \notin P
    <3>1. PICK i \in 1..q : K[i] = ids[k]
      BY <2>2, <1>1
    <3>2. D[i].at \in 1..b /\ ids[D[i].at] = ids[k]
      BY <3>1, <1>13
    <3>3. D[i].at = k
      BY <3>2, <1>2
    <3>4. i \in 1..(q + p)
      BY <1>6, <1>7
    <3> QED BY <3>3, <3>4
  <2> QED BY <2>1, <2>2
<1>18. IsPairs(D, b, ids)
  BY <1>11, <1>15, <1>16, <1>17 DEF IsPairs
<1> QED
  BY <1>11, <1>18

\* The first b of some messages.
Prefix(ms, b) == [k \in 1..b |-> ms[k]]

(* The history before a compaction can be replayed, and is the synced      *)
(* messages.                                                               *)
LEMMA PreIs ==
  ASSUME NEW log \in Seq(Entry), NEW ids \in Seq(Nat), NEW ms, LoggedOK(log, ids, ms),
         NEW ctx \in Context, NEW P, NEW b \in Nat, b <= Len(ids),
         CompactedAt(ctx, P, b, ids, log[ctx.summary]), ctx.summary \in DOMAIN log,
         log[ctx.summary].kind = "replacement_summary"
  PROVE  /\ PreCompactionReplays(ctx, log)
         /\ reconstruct_pre_compaction_messages(ctx, log) = Prefix(ms, b)
<1> DEFINE K == Kept(ctx)
           sm == log[ctx.summary]
           p == Cardinality(P)
           D == Pairs(ctx, log)
           T == Sorted(Pairs(ctx, log))
<1>1. IsKept(K, b, P, ids)
  BY KeptIs
<1>2. IsPairs(D, b, ids)
  BY PairsAre
<1>3. \A i \in 1..b : /\ i \in 1..Len(ids) /\ ids[i] \in DOMAIN log
                      /\ log[ids[i]].kind = "source_message"
                      /\ log[ids[i]].source = i /\ log[ids[i]].message = ms[i] /\ i # 0
  BY DEF LoggedOK
<1>4. /\ P \subseteq 1..b /\ Len(sm.entries) = p /\ Len(sm.sources) = p /\ ctx.active
      /\ \A k \in 1..p : sm.entries[k] = ids[Nth(P, k)]
  BY DEF CompactedAt
<1>5. sm.entries \in Seq(Nat)
  <2>1. sm \in Entry
    OBVIOUS
  <2> HIDE DEF sm
  <2> QED BY <2>1 DEF Entry
<1>6. \A k \in 1..p : Nth(P, k) \in P
  <2>1. IsFiniteSet(1..b) /\ P \in SUBSET (1..b) /\ P \subseteq Nat
    BY <1>4, NthInterval
  <2>2. IsFiniteSet(P)
    BY <2>1, FS_Subset
  <2> QED BY <2>1, <2>2, NthIs
<1> HIDE DEF K, D, p, sm
<1>7. \A k \in DOMAIN sm.entries : Replayable(log, sm.entries[k])
  <2>1. DOMAIN sm.entries = 1..p
    BY <1>4, <1>5
  <2> SUFFICES ASSUME NEW k \in 1..p PROVE Replayable(log, sm.entries[k])
    BY <2>1
  <2>2. PICK i \in 1..b : sm.entries[k] = ids[i]
    BY <1>4, <1>6
  <2> QED BY <2>2, <1>3 DEF Replayable
<1>8. \A k \in DOMAIN K : Replayable(log, K[k]) /\ log[K[k]].source # 0
  <2>1. DOMAIN K = 1..Len(K) /\ \A k \in 1..Len(K) : \E i \in (1..b) \ P : K[k] = ids[i]
    BY <1>1 DEF IsKept
  <2> SUFFICES ASSUME NEW k \in 1..Len(K)
               PROVE  Replayable(log, K[k]) /\ log[K[k]].source # 0
    BY <2>1
  <2>2. PICK i \in 1..b : K[k] = ids[i]
    BY <2>1
  <2> QED BY <2>2, <1>3 DEF Replayable
<1>9. PreCompactionReplays(ctx, log)
  BY <1>4, <1>7, <1>8 DEF PreCompactionReplays, K, sm
<1>10. /\ D \in Seq(Pair)
       /\ \A i \in 1..Len(D) : D[i].at \in 1..b /\ D[i].id = ids[D[i].at]
       /\ \A i, j \in 1..Len(D) : D[i].at = D[j].at => i = j
       /\ \A k \in 1..b : \E i \in 1..Len(D) : D[i].at = k
  BY <1>2 DEF IsPairs
<1>11. /\ Len(D) = b /\ DOMAIN Sorted(D) = 1..b
       /\ \A k \in 1..b : \E i \in 1..b : Sorted(D)[k] = D[i] /\ D[i].at = k
  <2>1. \A i \in 1..Len(D) : D[i].at \in 1..b
    BY <1>10
  <2> QED BY ZenonT(60), <2>1, <1>10, SortedIs
<1>12. T = Sorted(D)
  BY DEF D
<1> HIDE DEF T
<1>13. DOMAIN T = 1..b /\ \A k \in 1..b : T[k].id = ids[k]
  <2>1. ASSUME NEW k \in 1..b PROVE T[k].id = ids[k]
    <3>1. PICK i \in 1..b : T[k] = D[i] /\ D[i].at = k
      BY <1>11, <1>12
    <3> QED BY ZenonT(30), <3>1, <1>10, <1>11
  <2> QED BY <2>1, <1>11, <1>12
<1>14. reconstruct_pre_compaction_messages(ctx, log) = [k \in DOMAIN T |-> log[T[k].id].message]
  BY <1>4 DEF reconstruct_pre_compaction_messages, T
<1>15. \A k \in 1..b : log[T[k].id].message = ms[k]
  BY <1>3, <1>13
<1> QED
  BY <1>9, <1>13, <1>14, <1>15 DEF Prefix

(* The request can be replayed from the history before the compaction.     *)
LEMMA PostIs ==
  ASSUME NEW log \in Seq(Entry), NEW ids \in Seq(Nat), NEW ms \in Seq(Message),
         LoggedOK(log, ids, ms),
         NEW ctx \in Context, NEW P, NEW b \in Nat, b <= Len(ids), b <= Len(ms),
         CompactedAt(ctx, P, b, ids, log[ctx.summary]), ctx.summary \in DOMAIN log,
         log[ctx.summary].kind = "replacement_summary"
  PROVE  /\ PostCompactionReplays(ctx, log)
         /\ reconstruct_post_compaction_messages_from_pre_compaction(ctx, log)
            = reconstruct_selected_messages(ctx, log)
<1> DEFINE K == Kept(ctx)
           sm == log[ctx.summary]
           p == Cardinality(P)
           pre == Prefix(ms, b)
           c == Min(P) + Cardinality(After(b, P))
           sel == ctx.selected
           used == Range(sm.entries) \cup Range(K)
           places == {log[id].source : id \in used} \ {0}
           gone == {k \in 1..Cardinality(places) : Nth(places, k) \in Range(sm.sources)}
<1>1. /\ PreCompactionReplays(ctx, log)
      /\ reconstruct_pre_compaction_messages(ctx, log) = pre
  BY ZenonT(60), PreIs
<1>2. IsKept(K, b, P, ids)
  BY KeptIs
<1>3. \A i \in 1..b : /\ i \in 1..Len(ids)
                      /\ log[ids[i]].source = i /\ log[ids[i]].message = ms[i] /\ i # 0
  BY DEF LoggedOK
<1>4. /\ P \subseteq 1..b /\ P # {} /\ Len(sm.entries) = p /\ Len(sm.sources) = p
      /\ \A k \in 1..p : sm.entries[k] = ids[Nth(P, k)] /\ sm.sources[k] = Nth(P, k)
      /\ Len(sel) = c /\ sel[Min(P)] = ctx.summary
      /\ \A k \in 1..c : k # Min(P) => sel[k] = ids[From(b, P, k)]
  BY DEF CompactedAt
<1>5. sm \in Entry /\ sm.entries \in Seq(Nat) /\ sm.sources \in Seq(Nat) /\ sm.message \in Message
  <2>1. sm \in Entry
    OBVIOUS
  <2> HIDE DEF sm
  <2> QED BY <2>1 DEF Entry
<1>6. /\ p \in Nat /\ p # 0
      /\ \A k \in 1..p : Nth(P, k) \in P
      /\ \A i \in P : \E k \in 1..p : Nth(P, k) = i
  <2>1. IsFiniteSet(1..b) /\ P \in SUBSET (1..b) /\ P \subseteq Nat
    BY <1>4, NthInterval
  <2>2. IsFiniteSet(P)
    BY <2>1, FS_Subset
  <2>3. p # 0
    BY <2>2, <1>4, FS_EmptySet
  <2> QED BY <2>1, <2>2, <2>3, NthIs
<1>7. sel \in Seq(Nat)
  BY DEF Context
<1> HIDE DEF K, sm, p, sel
<1>8. DOMAIN sm.entries = 1..p /\ DOMAIN sm.sources = 1..p /\ DOMAIN K = 1..Len(K)
  BY <1>2, <1>4, <1>5, <1>6 DEF IsKept
<1>9. \A x : x \in used <=> \E i \in 1..b : x = ids[i]
  <2>1. \A x : x \in Range(sm.entries) <=> \E i \in P : x = ids[i]
    <3>1. \A x : x \in Range(sm.entries) <=> \E k \in 1..p : x = sm.entries[k]
      BY <1>8 DEF Range
    <3>2. \A k \in 1..p : \E i \in P : sm.entries[k] = ids[i]
      BY <1>4, <1>6
    <3>3. \A i \in P : \E k \in 1..p : ids[i] = sm.entries[k]
      BY <1>4, <1>6
    <3> SUFFICES ASSUME NEW x PROVE x \in Range(sm.entries) <=> \E i \in P : x = ids[i]
      OBVIOUS
    <3>4. ASSUME x \in Range(sm.entries) PROVE \E i \in P : x = ids[i]
      <4>1. PICK k \in 1..p : x = sm.entries[k]
        BY <3>1, <3>4
      <4> QED BY <4>1, <3>2
    <3>5. ASSUME NEW i \in P, x = ids[i] PROVE x \in Range(sm.entries)
      <4>1. PICK k \in 1..p : ids[i] = sm.entries[k]
        BY <3>3
      <4> QED BY <4>1, <3>1, <3>5
    <3> QED BY <3>4, <3>5
  <2>2. \A x : x \in Range(K) <=> \E i \in (1..b) \ P : x = ids[i]
    <3>1. \A x : x \in Range(K) <=> \E k \in 1..Len(K) : x = K[k]
      BY <1>8 DEF Range
    <3>2. \A k \in 1..Len(K) : \E i \in (1..b) \ P : K[k] = ids[i]
      BY <1>2 DEF IsKept
    <3>3. \A i \in (1..b) \ P : \E k \in 1..Len(K) : ids[i] = K[k]
      BY <1>2 DEF IsKept
    <3> SUFFICES ASSUME NEW x PROVE x \in Range(K) <=> \E i \in (1..b) \ P : x = ids[i]
      OBVIOUS
    <3>4. ASSUME x \in Range(K) PROVE \E i \in (1..b) \ P : x = ids[i]
      <4>1. PICK k \in 1..Len(K) : x = K[k]
        BY <3>1, <3>4
      <4> QED BY <4>1, <3>2
    <3>5. ASSUME NEW i \in (1..b) \ P, x = ids[i] PROVE x \in Range(K)
      <4>1. PICK k \in 1..Len(K) : ids[i] = K[k]
        BY <3>3
      <4> QED BY <4>1, <3>1, <3>5
    <3> QED BY <3>4, <3>5
  <2> QED BY <2>1, <2>2, <1>4
<1>10. Range(sm.sources) = P
  <2>1. \A x : x \in Range(sm.sources) <=> \E k \in 1..p : x = sm.sources[k]
    BY <1>8 DEF Range
  <2>2. \A k \in 1..p : sm.sources[k] \in P
    BY <1>4, <1>6
  <2>3. \A i \in P : \E k \in 1..p : i = sm.sources[k]
    <3> TAKE i \in P
    <3>1. PICK k \in 1..p : Nth(P, k) = i
      BY <1>6
    <3>2. i = sm.sources[k]
      BY <3>1, <1>4
    <3> QED BY <3>2
  <2>4. \A x : x \in Range(sm.sources) => x \in P
    <3> TAKE x
    <3> HAVE x \in Range(sm.sources)
    <3>1. PICK k \in 1..p : x = sm.sources[k]
      BY <2>1
    <3> QED BY <3>1, <2>2
  <2>5. \A x : x \in P => x \in Range(sm.sources)
    <3> TAKE x
    <3> HAVE x \in P
    <3>1. PICK k \in 1..p : x = sm.sources[k]
      BY <2>3
    <3> QED BY <3>1, <2>1
  <2> QED BY ZenonT(30), <2>4, <2>5
<1> HIDE DEF used
<1>11. places = 1..b
  <2>1. \A i \in 1..b : i \in places
    <3> TAKE i \in 1..b
    <3>1. ids[i] \in used /\ log[ids[i]].source = i /\ i # 0
      BY <1>3, <1>9
    <3> QED BY <3>1
  <2>2. \A x \in used : log[x].source \in 1..b
    <3> TAKE x \in used
    <3>1. PICK i \in 1..b : x = ids[i]
      BY <1>9
    <3> QED BY <3>1, <1>3
  <2> QED BY <2>1, <2>2
<1>12. Cardinality(1..b) = b /\ \A k \in 1..b : Nth(1..b, k) = k
  BY NthInterval
<1>13. gone = P
  <2> HIDE DEF places
  <2>1. gone = {k \in 1..Cardinality(1..b) : Nth(1..b, k) \in P}
    BY <1>10, <1>11
  <2> QED BY <2>1, <1>4, <1>12
<1>14. PostCompactionReplays(ctx, log)
  <2> DEFINE told == {id \in used : log[id].source # 0}
             f == [i \in 1..b |-> ids[i]]
  <2>1. f \in [1..b -> told]
    BY <1>3, <1>9
  <2>2. \A i, j \in 1..b : f[i] = f[j] => i = j
    BY <1>3
  <2>3. \A x \in told : \E i \in 1..b : f[i] = x
    BY <1>9
  <2>4. Cardinality(told) = b
    <3> HIDE DEF f, told
    <3> QED BY <2>1, <2>2, <2>3, Counted
  <2>5. Len(pre) = b
    <3>1. \A k \in 1..b : ms[k] \in Message
      OBVIOUS
    <3>2. pre \in [1..b -> Message]
      BY <3>1 DEF Prefix
    <3> HIDE DEF pre
    <3> QED BY <3>2, FcnSeq
  <2>6. sm.sources # <<>>
    BY <1>4, <1>6
  <2> HIDE DEF pre
  <2>7. Len(reconstruct_pre_compaction_messages(ctx, log)) = Cardinality(told)
    BY <2>4, <2>5, <1>1
  <2> QED BY <2>6, <2>7, <1>1, Zenon DEF PostCompactionReplays, used, sm, K
<1>15. pre \in Seq(Message) /\ Len(pre) = b /\ \A k \in 1..b : pre[k] = ms[k]
  <2>1. \A k \in 1..b : ms[k] \in Message
    OBVIOUS
  <2>2. pre \in [1..b -> Message]
    BY <2>1 DEF Prefix
  <2>3. \A k \in 1..b : pre[k] = ms[k]
    BY DEF Prefix
  <2> HIDE DEF pre
  <2> QED BY <2>2, <2>3, FcnSeq
<1> HIDE DEF pre, gone, places
<1>16. PICK R : R = Replaced(pre, P, sm.message)
  OBVIOUS
<1>17. reconstruct_post_compaction_messages_from_pre_compaction(ctx, log) = R
  <2>1. reconstruct_post_compaction_messages_from_pre_compaction(ctx, log)
        = Replaced(reconstruct_pre_compaction_messages(ctx, log), gone, sm.message)
    BY Zenon DEF reconstruct_post_compaction_messages_from_pre_compaction, gone, places,
                 used, sm, K
  <2> QED BY <2>1, <1>1, <1>13, <1>16, Zenon
<1>18. /\ R \in Seq(Message) /\ Len(R) = c /\ R[Min(P)] = sm.message
       /\ \A k \in 1..c : k # Min(P) => R[k] = pre[From(b, P, k)]
  <2>1. P \subseteq 1..Len(pre)
    BY <1>4, <1>15
  <2>2. R \in Seq(Message) /\ IsReplaced(R, pre, P, sm.message)
    BY <2>1, <1>4, <1>5, <1>15, <1>16, ReplacedIs
  <2> QED BY <2>2, <1>15 DEF IsReplaced
<1>19. c \in Nat /\ \A k \in 1..c : From(b, P, k) \in 1..b
  <2>1. IsFrom(b, P)
    BY <1>4, FromIs
  <2> QED BY <2>1 DEF IsFrom
<1>20. reconstruct_selected_messages(ctx, log) = [k \in 1..c |-> log[sel[k]].message]
  <2>1. DOMAIN sel = 1..c
    BY <1>4, <1>7
  <2> QED BY <2>1 DEF reconstruct_selected_messages, Messages, sel
<1> HIDE DEF c
<1>21. \A k \in 1..c : log[sel[k]].message = R[k]
  <2> TAKE k \in 1..c
  <2>1. CASE k = Min(P)
    BY <2>1, <1>4, <1>18 DEF sm
  <2>2. CASE k # Min(P)
    <3>1. From(b, P, k) \in 1..b /\ sel[k] = ids[From(b, P, k)]
          /\ R[k] = pre[From(b, P, k)]
      BY <2>2, <1>4, <1>18, <1>19
    <3> QED BY <3>1, <1>3, <1>15
  <2> QED BY <2>1, <2>2
<1>22. R = [k \in 1..c |-> R[k]]
  BY <1>18
<1>23. R = reconstruct_selected_messages(ctx, log)
  BY <1>20, <1>21, <1>22
<1> QED
  BY <1>14, <1>17, <1>23

\* The messages after the first a of some, up to the b-th.
Between(ms, a, b) == [k \in 1..(b - a) |-> ms[a + k]]

(* The source messages logged in a stretch of the log that holds the       *)
(* entries of messages a + 1 to b and of no others.                        *)
LEMMA AppendedAre ==
  ASSUME NEW log \in Seq(Entry), NEW ids \in Seq(Nat), NEW ms, LoggedOK(log, ids, ms),
         NEW from \in Nat, NEW to \in Nat, from <= to, to <= Len(log),
         NEW a \in Nat, NEW b \in Nat, a <= b, b <= Len(ids),
         \A k \in 1..Len(ids) : k <= a => ids[k] <= from,
         \A k \in 1..Len(ids) : k > a => ids[k] > from,
         \A k \in 1..Len(ids) : k <= b => ids[k] <= to,
         \A k \in 1..Len(ids) : k > b => ids[k] > to
  PROVE  AppendedSources(log, from, to) = Between(ms, a, b)
<1> DEFINE d == to - from
           n == b - a
           J == [j \in 1..d |-> from + j]
           S == {j \in DOMAIN J : log[J[j]].kind = "source_message"}
           f == [k \in 1..n |-> ids[a + k] - from]
<1>1. d \in Nat /\ n \in Nat /\ Len(ids) \in Nat /\ Len(log) \in Nat
  OBVIOUS
<1>2. \A k \in 1..n : a + k \in 1..Len(ids) /\ a + k > a /\ a + k <= b
  OBVIOUS
<1>3. \A j \in 1..d : J[j] = from + j /\ from + j \in 1..Len(log)
  OBVIOUS
<1>4. J \in Seq(Nat) /\ Len(J) = d /\ DOMAIN J = 1..d
  <2>1. J \in [1..d -> Nat]
    OBVIOUS
  <2> HIDE DEF J, d
  <2> QED BY <2>1, <1>1, FcnSeq
<1>5. \A k \in 1..Len(ids) : /\ ids[k] \in 1..Len(log) /\ log[ids[k]].kind = "source_message"
                             /\ log[ids[k]].message = ms[k] /\ ids[k] \in Nat
  BY DEF LoggedOK
<1> HIDE DEF J, d, n
<1>6. \A k \in 1..n : /\ ids[a + k] - from \in 1..d
                      /\ from + (ids[a + k] - from) = ids[a + k]
  <2> TAKE k \in 1..n
  <2>1. ids[a + k] > from /\ ids[a + k] <= to /\ ids[a + k] \in Nat
    BY <1>2, <1>5
  <2>2. PICK x \in Nat : x = ids[a + k] /\ x > from /\ x <= to
    BY <2>1
  <2>3. x - from \in 1..d /\ from + (x - from) = x
    BY SMTT(30), <2>2 DEF d
  <2> QED BY <2>2, <2>3
<1>7. f \in [1..n -> S]
  <2>1. ASSUME NEW k \in 1..n PROVE ids[a + k] - from \in S
    <3>1. PICK x : x = ids[a + k] - from /\ x \in 1..d /\ from + x = ids[a + k]
      BY <1>6
    <3>2. J[x] = ids[a + k]
      BY <3>1, <1>3
    <3> QED BY <3>1, <3>2, <1>2, <1>4, <1>5
  <2> HIDE DEF S
  <2> QED BY <2>1
<1>8. \A k, l \in 1..n : k < l => f[k] < f[l]
  <2> TAKE k, l \in 1..n
  <2> HAVE k < l
  <2>1. a + k < a + l /\ a + k \in 1..Len(ids) /\ a + l \in 1..Len(ids)
    BY <1>2
  <2>2. ids[a + k] < ids[a + l] /\ ids[a + k] \in Nat /\ ids[a + l] \in Nat
    BY <2>1, <1>5 DEF LoggedOK
  <2>3. f[k] = ids[a + k] - from /\ f[l] = ids[a + l] - from
    OBVIOUS
  <2> HIDE DEF f
  <2> QED BY SMTT(30), <2>2, <2>3
<1>9. \A j \in S : \E k \in 1..n : f[k] = j
  <2> TAKE j \in S
  <2>1. j \in 1..d /\ from + j \in 1..Len(log) /\ log[from + j].kind = "source_message"
    BY <1>3, <1>4
  <2>2. PICK i \in 1..Len(ids) : ids[i] = from + j
    BY <2>1 DEF LoggedOK
  <2>3. from + j > from /\ from + j <= to
    BY <2>1, <1>1 DEF d
  <2>4. i > a /\ i <= b
    <3>1. i <= a => from + j <= from
      BY <2>2
    <3>2. i > b => from + j > to
      BY <2>2
    <3>3. ~(from + j <= from) /\ ~(from + j > to)
      BY <2>1, <2>3, <1>1
    <3>4. (i <= a \/ i > a) /\ (i <= b \/ i > b)
      BY <1>1
    <3> QED BY <3>1, <3>2, <3>3, <3>4
  <2>5. i - a \in 1..n /\ a + (i - a) = i
    BY <2>4, <1>1 DEF n
  <2>6. f[i - a] = ids[i] - from
    BY <2>5
  <2>7. ids[i] - from = j
    BY <2>1, <2>2
  <2> QED BY <2>5, <2>6, <2>7
<1>10. S \subseteq Nat /\ S \subseteq 1..d
  BY <1>4
<1>11. \A k \in 1..n : f[k] = ids[a + k] - from
  OBVIOUS
<1> HIDE DEF S, f
<1>12. Cardinality(S) = n /\ \A k \in 1..n : Nth(S, k) = f[k]
  <2>1. n \in Nat
    BY <1>1
  <2>2. S \subseteq Nat
    BY <1>10
  <2> QED BY ZenonT(60), <2>1, <2>2, <1>7, <1>8, <1>9, NthOf
<1>13. At(J, S) = [k \in 1..n |-> J[Nth(S, k)]]
  BY <1>12 DEF At
<1>14. \A k \in 1..n : J[Nth(S, k)] = ids[a + k]
  <2> TAKE k \in 1..n
  <2>1. PICK x \in 1..d : x = f[k] /\ from + x = ids[a + k]
    BY <1>6, <1>11
  <2> QED BY <2>1, <1>3, <1>12
<1>15. AppendedSources(log, from, to) = Messages(log, At(J, S))
  BY Zenon DEF AppendedSources, S, J, d
<1>16. Messages(log, At(J, S)) = [k \in 1..n |-> log[J[Nth(S, k)]].message]
  BY <1>13 DEF Messages
<1>17. \A k \in 1..n : log[J[Nth(S, k)]].message = ms[a + k]
  BY <1>2, <1>5, <1>14
<1> QED
  BY <1>15, <1>16, <1>17 DEF Between, n

(* The first b messages are the first a and those between.                 *)
LEMMA PrefixSplit ==
  ASSUME NEW ms \in Seq(Message), NEW a \in Nat, NEW b \in Nat, a <= b, b <= Len(ms)
  PROVE  /\ Prefix(ms, b) \in Seq(Message) /\ Len(Prefix(ms, b)) = b
         /\ Len(Between(ms, a, b)) = b - a
         /\ Prefix(ms, b) = Prefix(ms, a) \o Between(ms, a, b)
<1>1. \A k \in 1..Len(ms) : ms[k] \in Message
  OBVIOUS
<1>2. /\ Prefix(ms, b) \in [1..b -> Message] /\ Prefix(ms, a) \in [1..a -> Message]
      /\ \A k \in 1..b : Prefix(ms, b)[k] = ms[k]
      /\ \A k \in 1..a : Prefix(ms, a)[k] = ms[k]
  BY <1>1 DEF Prefix
<1>3. /\ Between(ms, a, b) \in [1..(b - a) -> Message] /\ b - a \in Nat
      /\ \A k \in 1..(b - a) : Between(ms, a, b)[k] = ms[a + k]
  BY <1>1 DEF Between
<1>4. PICK p, q, r : p = Prefix(ms, b) /\ q = Prefix(ms, a) /\ r = Between(ms, a, b)
  OBVIOUS
<1>5. /\ p \in Seq(Message) /\ Len(p) = b /\ q \in Seq(Message) /\ Len(q) = a
      /\ r \in Seq(Message) /\ Len(r) = b - a
  BY <1>2, <1>3, <1>4, FcnSeq
<1>6. /\ q \o r \in Seq(Message) /\ Len(q \o r) = a + (b - a) /\ Grows(q, q \o r)
      /\ \A k \in 1..(b - a) : (q \o r)[a + k] = r[k]
  <2>1. /\ q \o r \in Seq(Message) /\ Len(q \o r) = Len(q) + Len(r) /\ Grows(q, q \o r)
        /\ \A k \in 1..Len(r) : (q \o r)[Len(q) + k] = r[k]
    BY <1>5, CatGrows
  <2> QED BY <2>1, <1>5, Zenon
<1>7. PICK s : s = q \o r
  OBVIOUS
<1>8. /\ s \in Seq(Message) /\ Len(s) = b /\ \A k \in 1..a : s[k] = ms[k]
      /\ \A k \in 1..(b - a) : s[a + k] = ms[a + k]
  <2>1. /\ s \in Seq(Message) /\ Len(s) = a + (b - a) /\ Grows(q, s)
        /\ \A k \in 1..(b - a) : s[a + k] = r[k]
    BY <1>6, <1>7
  <2>2. \A k \in 1..a : s[k] = q[k]
    BY <2>1, <1>5 DEF Grows
  <2>3. \A k \in 1..a : s[k] = ms[k]
    BY <2>2, <1>2, <1>4
  <2>4. \A k \in 1..(b - a) : s[a + k] = ms[a + k]
    BY <2>1, <1>3, <1>4
  <2>5. a + (b - a) = b
    OBVIOUS
  <2> QED BY <2>1, <2>3, <2>4, <2>5
<1>9. \A k \in 1..b : s[k] = p[k]
  <2> TAKE k \in 1..b
  <2>1. CASE k \in 1..a
    BY <2>1, <1>2, <1>4, <1>8
  <2>2. CASE k \notin 1..a
    <3>1. k - a \in 1..(b - a) /\ a + (k - a) = k
      BY <2>2
    <3>2. s[k] = ms[k]
      BY <3>1, <1>8
    <3> QED BY <3>2, <1>2, <1>4
  <2> QED BY <2>1, <2>2
<1>10. s = p
  BY <1>5, <1>8, <1>9
<1> QED
  BY <1>4, <1>5, <1>7, <1>10

(* A request up to the first compaction is verified against the log, and   *)
(* what it showed before its compaction is all that was synced.            *)
LEMMA RequestVerifies ==
  ASSUME NEW log \in Seq(Entry), NEW ids \in Seq(Nat), NEW ms \in Seq(Message),
         LoggedOK(log, ids, ms), Len(ids) <= Len(ms),
         NEW ctx \in Context, NEW n, NEW r, ContextOK(ctx, n, log, ms, r),
         FirstOK(ctx, log, ids, r)
  PROVE  /\ verify_request_context_entry(ctx, log)
         /\ PreCompactionReplays(ctx, log)
         /\ r.policy # "tail_window" =>
               /\ reconstruct_pre_compaction_messages(ctx, log) = Prefix(ms, ctx.items_before)
               /\ ctx.record = 0 => reconstruct_selected_messages(ctx, log)
                                    = Prefix(ms, ctx.items_before)
<1> DEFINE b == ctx.items_before
<1>1. /\ b \in Nat /\ b <= Len(ids) /\ b <= Len(ms) /\ DOMAIN log = 1..Len(log)
      /\ ctx.selected \in Seq(Nat) /\ ctx.omitted \in Seq(Nat)
      /\ ctx.record \in Nat /\ ctx.request_message_count = Len(ctx.selected)
  <2>1. /\ b \in Nat /\ b <= Len(ids)
        /\ ctx.selected \in Seq(Nat) /\ ctx.omitted \in Seq(Nat)
        /\ ctx.record \in Nat /\ ctx.request_message_count = Len(ctx.selected)
    BY DEF Context, FirstOK
  <2>2. Len(ids) \in Nat /\ Len(ms) \in Nat
    OBVIOUS
  <2> HIDE DEF b
  <2> QED BY <2>1, <2>2
<1>2. SelectedReplays(ctx, log)
  BY DEF ContextOK
<1>3. \A i \in 1..Len(ids) : /\ ids[i] \in DOMAIN log /\ log[ids[i]].message = ms[i]
  BY <1>1 DEF LoggedOK
<1>4. Range(ctx.selected) \subseteq DOMAIN log
  BY <1>2 DEF SelectedReplays, Replayable, Range
<1>5. CASE ctx.record = 0
  <2>1. UncompactedAt(ctx, b, ids, r)
    BY <1>5 DEF FirstOK
  <2>2. ~ctx.active /\ ctx.summary = 0 /\ ctx.carried = 0
    BY <2>1 DEF UncompactedAt
  <2>3. Range(ctx.omitted) \subseteq DOMAIN log
    <3> SUFFICES ASSUME NEW k \in DOMAIN ctx.omitted PROVE ctx.omitted[k] \in DOMAIN log
      BY DEF Range
    <3>1. k \in 1..Len(ctx.omitted)
      BY <1>1
    <3>2. PICK i \in 1..b : ctx.omitted[k] = ids[i]
      BY <3>1, <2>1 DEF UncompactedAt
    <3>3. i \in 1..Len(ids)
      BY <1>1
    <3> QED BY <3>2, <3>3, <1>3
  <2>4. verify_request_context_entry(ctx, log)
    <3>1. {ctx.summary, ctx.carried, ctx.record} = {0}
      BY <2>2, <1>5
    <3>2. Range(ctx.selected) \cup Range(ctx.omitted) \subseteq DOMAIN log
      BY <2>3, <1>4
    <3>3. ctx.selected # <<>> => Len(ctx.selected) = ctx.request_message_count
      BY <1>1
    <3> QED BY <3>1, <3>2, <3>3, <2>2, <1>2, Zenon DEF verify_request_context_entry
  <2>5. PreCompactionReplays(ctx, log)
    BY <2>2, <1>2 DEF PreCompactionReplays
  <2>6. reconstruct_pre_compaction_messages(ctx, log) = reconstruct_selected_messages(ctx, log)
    BY <2>2 DEF reconstruct_pre_compaction_messages
  <2>7. ASSUME r.policy # "tail_window"
        PROVE  reconstruct_selected_messages(ctx, log) = Prefix(ms, b)
    <3>1. Len(ctx.selected) = b /\ \A k \in 1..b : ctx.selected[k] = ids[k]
      BY <2>1, <2>7 DEF UncompactedAt
    <3> HIDE DEF b
    <3>2. DOMAIN ctx.selected = 1..b
      BY <3>1, <1>1
    <3>3. \A k \in 1..b : log[ctx.selected[k]].message = ms[k]
      <4> TAKE k \in 1..b
      <4>1. k \in 1..Len(ids)
        BY <1>1
      <4> QED BY <4>1, <3>1, <1>3
    <3> QED BY <3>2, <3>3 DEF reconstruct_selected_messages, Messages, Prefix
  <2> QED BY <2>4, <2>5, <2>6, <2>7
<1>6. CASE ctx.record # 0
  <2>1. PICK P : CompactedAt(ctx, P, b, ids, log[ctx.summary])
    BY <1>6 DEF FirstOK
  <2>2. ctx.active /\ ctx.omitted = log[ctx.summary].entries
    BY <2>1 DEF CompactedAt
  <2>3. LineageRecordOk(ctx, log)
    BY <2>2, <1>6 DEF ContextOK
  <2>4. /\ {ctx.summary, ctx.carried} \subseteq DOMAIN log
        /\ log[ctx.summary].kind = "replacement_summary"
        /\ log[ctx.summary].record = ctx.record
        /\ log[ctx.carried].kind = "carry_forward_state"
        /\ log[ctx.carried].record = ctx.record
        /\ \A id \in Range(log[ctx.summary].entries) : id \in DOMAIN log
        /\ ctx.summary \in Range(ctx.selected)
        /\ ctx.carried \notin Range(ctx.selected)
    BY <2>3 DEF LineageRecordOk
  <2>5. ctx.summary \in DOMAIN log
    BY <2>4
  <2> HIDE DEF b
  <2>6. /\ PreCompactionReplays(ctx, log)
        /\ reconstruct_pre_compaction_messages(ctx, log) = Prefix(ms, b)
    <3>1. b \in Nat /\ b <= Len(ids)
      BY <1>1
    <3>2. log[ctx.summary].kind = "replacement_summary"
      BY <2>4
    <3> QED BY ZenonT(60), <3>1, <3>2, <2>1, <2>5, PreIs
  <2>7. /\ PostCompactionReplays(ctx, log)
        /\ reconstruct_post_compaction_messages_from_pre_compaction(ctx, log)
           = reconstruct_selected_messages(ctx, log)
    BY <2>1, <2>4, <2>5, <1>1, PostIs
  <2>8. Len(Prefix(ms, b)) = b
    <3>1. b <= b
      BY <1>1
    <3> QED BY <3>1, <1>1, PrefixSplit
  <2>9. 0 \notin {ctx.summary, ctx.carried, ctx.record}
    <3>1. 0 \notin DOMAIN log
      BY <1>1
    <3> QED BY <3>1, <2>4, <1>6
  <2>10. Range(ctx.selected) \cup Range(ctx.omitted) \subseteq DOMAIN log
    BY <2>2, <2>4, <1>4
  <2>11. ctx.selected # <<>> => Len(ctx.selected) = ctx.request_message_count
    BY <1>1
  <2>12. Len(reconstruct_pre_compaction_messages(ctx, log)) = ctx.items_before
    BY <2>6, <2>8 DEF b
  <2>13. verify_request_context_entry(ctx, log)
    BY <2>2, <2>4, <2>7, <2>9, <2>10, <2>11, <2>12, <1>2, Zenon
       DEF verify_request_context_entry
  <2> QED BY <2>6, <2>13, <1>6 DEF b
<1> QED
  BY <1>5, <1>6

(* What a request shows before its own compaction is the request before it *)
(* with the messages logged in between.                                    *)
LEMMA RequestFollows ==
  ASSUME NEW log \in Seq(Entry), NEW ids \in Seq(Nat), NEW ms \in Seq(Message),
         LoggedOK(log, ids, ms), Len(ids) <= Len(ms), NEW r,
         NEW prev \in Context, FirstOK(prev, log, ids, r),
         NEW ctx \in Context, FirstOK(ctx, log, ids, r),
         ctx.retained_before <= Len(log), ctx.retained_before <= ctx.retained_after,
         prev.retained_before <= prev.retained_after,
         prev.retained_after <= ctx.retained_before
  PROVE  Prefix(ms, ctx.items_before)
         = Prefix(ms, prev.items_before)
           \o AppendedSources(log, prev.retained_after, ctx.retained_before)
<1> DEFINE a == prev.items_before
           b == ctx.items_before
           from == prev.retained_after
           to == ctx.retained_before
           past == ctx.retained_after
           start == prev.retained_before
<1>1. /\ a \in Nat /\ b \in Nat /\ from \in Nat /\ to \in Nat /\ past \in Nat /\ start \in Nat
  BY DEF Context
<1>2. /\ a <= Len(ids) /\ b <= Len(ids)
      /\ \A k \in 1..Len(ids) : IF k <= a THEN ids[k] <= start ELSE ids[k] > from
      /\ \A k \in 1..Len(ids) : IF k <= b THEN ids[k] <= to ELSE ids[k] > past
  BY DEF FirstOK
<1>3. to <= Len(log) /\ to <= past /\ start <= from /\ from <= to
      /\ Len(log) \in Nat /\ Len(ids) \in Nat /\ Len(ms) \in Nat /\ Len(ids) <= Len(ms)
  OBVIOUS
<1>4. \A k \in 1..Len(ids) : ids[k] \in Nat
  OBVIOUS
<1> HIDE DEF a, b, from, to, past, start
<1>5. \A k \in 1..Len(ids) : k <= a => ids[k] <= from
  <2> TAKE k \in 1..Len(ids)
  <2> HAVE k <= a
  <2>1. ids[k] <= start /\ ids[k] \in Nat
    BY <1>2, <1>4
  <2> QED BY <2>1, <1>1, <1>3
<1>6. \A k \in 1..Len(ids) : k > a => ids[k] > from
  <2> TAKE k \in 1..Len(ids)
  <2> HAVE k > a
  <2>1. ~(k <= a)
    BY <1>1
  <2> QED BY <2>1, <1>2
<1>7. \A k \in 1..Len(ids) : k <= b => ids[k] <= to
  BY <1>2
<1>8. \A k \in 1..Len(ids) : k > b => ids[k] > to
  <2> TAKE k \in 1..Len(ids)
  <2> HAVE k > b
  <2>1. ~(k <= b)
    BY <1>1
  <2>2. ids[k] > past /\ ids[k] \in Nat
    BY <2>1, <1>2, <1>4
  <2> QED BY <2>2, <1>1, <1>3
<1>9. a <= b
  <2> SUFFICES ASSUME ~(a <= b) PROVE FALSE
    OBVIOUS
  <2>1. a \in 1..Len(ids) /\ a > b /\ a <= a
    BY <1>1, <1>2, <1>3
  <2>2. ids[a] <= from /\ ids[a] > to /\ ids[a] \in Nat
    BY <2>1, <1>4, <1>5, <1>8
  <2> QED BY <2>2, <1>1, <1>3
<1>10. AppendedSources(log, from, to) = Between(ms, a, b)
  <2>1. a \in Nat /\ b \in Nat /\ from \in Nat /\ to \in Nat
    BY <1>1
  <2>2. b <= Len(ids) /\ from <= to /\ to <= Len(log)
    BY <1>2, <1>3
  <2> QED BY SMTT(30), <2>1, <2>2, <1>5, <1>6, <1>7, <1>8, <1>9, AppendedAre
<1>11. Prefix(ms, b) = Prefix(ms, a) \o Between(ms, a, b)
  <2>1. b <= Len(ms)
    BY <1>1, <1>2, <1>3
  <2> QED BY <2>1, <1>1, <1>9, PrefixSplit
<1> QED
  BY <1>10, <1>11 DEF a, b, from, to

(* The first request shows as many messages as were logged before it.      *)
LEMMA RequestBegins ==
  ASSUME NEW log \in Seq(Entry), NEW ids \in Seq(Nat), NEW ms \in Seq(Message),
         LoggedOK(log, ids, ms), Len(ids) <= Len(ms), NEW r,
         NEW ctx \in Context, FirstOK(ctx, log, ids, r),
         ctx.retained_before <= Len(log), ctx.retained_before <= ctx.retained_after
  PROVE  Len(Prefix(ms, ctx.items_before)) = Len(AppendedSources(log, 0, ctx.retained_before))
<1> DEFINE b == ctx.items_before
           to == ctx.retained_before
           past == ctx.retained_after
<1>1. b \in Nat /\ to \in Nat /\ past \in Nat /\ b <= Len(ids)
      /\ \A k \in 1..Len(ids) : IF k <= b THEN ids[k] <= to ELSE ids[k] > past
  BY DEF Context, FirstOK
<1>2. to <= Len(log) /\ to <= past
      /\ Len(log) \in Nat /\ Len(ids) \in Nat /\ Len(ms) \in Nat /\ Len(ids) <= Len(ms)
  OBVIOUS
<1>3. \A k \in 1..Len(ids) : ids[k] \in Nat /\ ids[k] > 0
  BY DEF LoggedOK
<1> HIDE DEF b, to, past
<1>4. \A k \in 1..Len(ids) : k <= 0 => ids[k] <= 0
  OBVIOUS
<1>5. \A k \in 1..Len(ids) : k > 0 => ids[k] > 0
  BY <1>3
<1>6. \A k \in 1..Len(ids) : k <= b => ids[k] <= to
  BY <1>1
<1>7. \A k \in 1..Len(ids) : k > b => ids[k] > to
  <2> TAKE k \in 1..Len(ids)
  <2> HAVE k > b
  <2>1. ~(k <= b)
    BY <1>1
  <2>2. ids[k] > past /\ ids[k] \in Nat
    BY <2>1, <1>1, <1>3
  <2> QED BY <2>2, <1>1, <1>2
<1>8. 0 \in Nat /\ 0 <= b /\ 0 <= to /\ b <= Len(ms) /\ b - 0 = b
  BY <1>1, <1>2
<1>9. AppendedSources(log, 0, to) = Between(ms, 0, b)
  <2>1. b \in Nat /\ to \in Nat
    BY <1>1
  <2>2. b <= Len(ids) /\ to <= Len(log)
    BY <1>1, <1>2
  <2> QED BY SMTT(30), <2>1, <2>2, <1>4, <1>5, <1>6, <1>7, <1>8, AppendedAre
<1>10. Len(Prefix(ms, b)) = b /\ Len(Between(ms, 0, b)) = b - 0
  BY <1>1, <1>8, PrefixSplit
<1> QED
  BY <1>8, <1>9, <1>10 DEF b, to

(* The invariant says that the logs pass the checks up to the first        *)
(* compaction.                                                             *)
LEMMA FirstsVerify ==
  ASSUME HistoryInvariant, FirstInvariant
  PROVE  FirstCompactionVerifies
<1>1. /\ retained \in Seq(Entry) /\ source_items \in Seq(Nat) /\ trajectory \in Seq(Message)
      /\ contexts \in Seq(Context) /\ Len(source_items) <= Len(trajectory)
      /\ LoggedOK(retained, source_items, trajectory)
  BY DEF HistoryInvariant, HistoryTypeOK, LoopOK, FirstInvariant
<1> SUFFICES ASSUME NEW n \in 1..Len(contexts), First(contexts, n)
             PROVE  LET sofar == SubSeq(contexts, 1, n)
                    IN  /\ verify_request_context_entry(contexts[n], retained)
                        /\ build_history_reconciliation_bundle(sofar, retained)
                        /\ run.policy # "tail_window" => EvolutionOk(sofar, retained, n)
  <2>1. DOMAIN contexts = 1..Len(contexts)
    BY <1>1
  <2> QED BY <2>1 DEF FirstCompactionVerifies, First
<1> DEFINE ctx == contexts[n]
<1>2. /\ ctx \in Context /\ ContextOK(ctx, n, retained, trajectory, run)
      /\ FirstOK(ctx, retained, source_items, run)
  BY <1>1 DEF HistoryInvariant, ContextsOK, FirstInvariant, FirstsOK
<1>3. /\ ctx.retained_before <= ctx.retained_after /\ ctx.retained_before <= Len(retained)
  <2>1. ctx.retained_before <= ctx.retained_after /\ ctx.retained_after <= Len(retained)
    BY DEF FirstInvariant, StampsOK
  <2>2. ctx.retained_before \in Nat /\ ctx.retained_after \in Nat /\ Len(retained) \in Nat
    <3> HIDE DEF ctx
    <3> QED BY <1>1, <1>2 DEF Context
  <2> HIDE DEF ctx
  <2> QED BY <2>1, <2>2
<1>4. PICK cs : cs = SubSeq(contexts, 1, n)
  OBVIOUS
<1>5. cs \in Seq(Context) /\ Len(cs) = n /\ \A k \in 1..n : cs[k] = contexts[k]
  BY <1>1, <1>4
<1> HIDE DEF ctx
<1>6. /\ verify_request_context_entry(ctx, retained)
      /\ PreCompactionReplays(ctx, retained)
      /\ run.policy # "tail_window" =>
            /\ reconstruct_pre_compaction_messages(ctx, retained)
               = Prefix(trajectory, ctx.items_before)
            /\ ctx.record = 0 => reconstruct_selected_messages(ctx, retained)
                                 = Prefix(trajectory, ctx.items_before)
  BY <1>1, <1>2, RequestVerifies
<1>7. SelectedReplays(ctx, retained) /\ (ctx.active /\ ctx.record # 0 => LineageRecordOk(ctx, retained))
  BY <1>2 DEF ContextOK
<1>8. build_history_reconciliation_bundle(cs, retained)
  <2> SUFFICES ASSUME NEW k \in 1..n, cs[k].active, cs[k].record # 0
               PROVE  /\ LineageRecordOk(cs[k], retained)
                      /\ SelectedReplays(cs[k], retained)
                      /\ PreCompactionReplays(cs[k], retained)
    BY <1>5 DEF build_history_reconciliation_bundle
  <2>1. k = n \/ k \in 1..(n - 1)
    OBVIOUS
  <2>2. k \notin 1..(n - 1)
    BY <1>5 DEF First
  <2>3. cs[k] = ctx
    BY <2>1, <2>2, <1>5 DEF ctx
  <2> QED BY <2>3, <1>6, <1>7
<1>9. ASSUME run.policy # "tail_window" PROVE EvolutionOk(cs, retained, n)
  <2>1. cs[n] = ctx
    BY <1>5 DEF ctx
  <2>2. CASE n = 1
    <3>1. Len(Prefix(trajectory, ctx.items_before))
          = Len(AppendedSources(retained, 0, ctx.retained_before))
      BY <1>1, <1>2, <1>3, RequestBegins
    <3> QED BY <3>1, <2>1, <2>2, <1>6, <1>7, <1>9 DEF EvolutionOk
  <2>3. CASE n # 1
    <3>1. n - 1 \in 1..Len(contexts) /\ n - 1 \in 1..n /\ n \in 2..Len(contexts)
          /\ n - 1 \in 1..(n - 1)
      BY <2>3, <1>1
    <3> DEFINE prev == contexts[n - 1]
    <3>2. cs[n - 1] = prev /\ prev.record = 0
      BY <3>1, <1>5 DEF First
    <3>3. First(contexts, n - 1)
      BY <3>1 DEF First
    <3>4. /\ prev \in Context /\ ContextOK(prev, n - 1, retained, trajectory, run)
          /\ FirstOK(prev, retained, source_items, run)
      BY <3>1, <3>3, <1>1 DEF HistoryInvariant, ContextsOK, FirstInvariant, FirstsOK
    <3>5. /\ prev.retained_before <= prev.retained_after
          /\ prev.retained_after <= ctx.retained_before
      BY <3>1 DEF FirstInvariant, StampsOK, ctx
    <3> HIDE DEF prev
    <3>6. reconstruct_selected_messages(prev, retained) = Prefix(trajectory, prev.items_before)
      BY <3>2, <3>4, <1>1, <1>9, RequestVerifies
    <3>7. Prefix(trajectory, ctx.items_before)
          = Prefix(trajectory, prev.items_before)
            \o AppendedSources(retained, prev.retained_after, ctx.retained_before)
      BY <3>4, <3>5, <1>1, <1>2, <1>3, RequestFollows
    <3>8. SelectedReplays(prev, retained)
      BY <3>4 DEF ContextOK
    <3> QED BY <3>2, <3>6, <3>7, <3>8, <2>1, <2>3, <1>6, <1>7, <1>9 DEF EvolutionOk
  <2> QED BY <2>2, <2>3
<1> QED
  BY <1>4, <1>6, <1>8, <1>9 DEF ctx

(* Growing logs leave a request up to the first compaction as it was.      *)
LEMMA FirstGrows ==
  ASSUME NEW log \in Seq(Entry), NEW log2 \in Seq(Entry), Grows(log, log2),
         NEW ids \in Seq(Nat), NEW ids2 \in Seq(Nat), Grows(ids, ids2),
         \A k \in 1..Len(ids2) : k > Len(ids) => ids2[k] > Len(log),
         NEW ctx \in Context, NEW n, NEW ms, NEW r, ContextOK(ctx, n, log, ms, r),
         FirstOK(ctx, log, ids, r), ctx.retained_after <= Len(log)
  PROVE  FirstOK(ctx, log2, ids2, r)
<1> DEFINE b == ctx.items_before
<1>1. /\ b \in Nat /\ b <= Len(ids) /\ ctx.retained_after \in Nat
      /\ ctx.request_message_count = Len(ctx.selected)
  BY DEF Context, FirstOK
<1>2. /\ Len(ids) \in Nat /\ Len(ids2) \in Nat /\ Len(ids) <= Len(ids2) /\ Len(log) \in Nat
      /\ \A k \in 1..Len(ids) : ids2[k] = ids[k]
  BY DEF Grows
<1>3. \A k \in 1..Len(ids) : IF k <= b THEN ids[k] <= ctx.retained_before
                             ELSE ids[k] > ctx.retained_after
  BY DEF FirstOK
<1>4. \A k \in 1..Len(ids2) : ids2[k] \in Nat
  OBVIOUS
<1> HIDE DEF b
<1>5. b <= Len(ids2) /\ \A k \in 1..b : k \in 1..Len(ids) /\ ids2[k] = ids[k]
  BY <1>1, <1>2
<1>6. \A k \in 1..Len(ids2) : IF k <= b THEN ids2[k] <= ctx.retained_before
                              ELSE ids2[k] > ctx.retained_after
  <2> TAKE k \in 1..Len(ids2)
  <2>1. CASE k <= Len(ids)
    <3>1. k \in 1..Len(ids) /\ ids2[k] = ids[k]
      BY <2>1, <1>2
    <3> QED BY <3>1, <1>3
  <2>2. CASE k > Len(ids)
    <3>1. ~(k <= b)
      BY <2>2, <1>1, <1>2
    <3>2. ids2[k] > Len(log) /\ ids2[k] \in Nat
      BY <2>2, <1>4
    <3>3. ids2[k] > ctx.retained_after
      BY <3>2, <1>1, <1>2
    <3> QED BY <3>1, <3>3
  <2> QED BY <2>1, <2>2, <1>2
<1>7. ctx.record = 0 => UncompactedAt(ctx, b, ids2, r)
  <2> HAVE ctx.record = 0
  <2>1. UncompactedAt(ctx, b, ids, r)
    BY DEF FirstOK, b
  <2> QED BY <2>1, <1>5 DEF UncompactedAt
<1>8. ctx.record # 0 => \E P \in SUBSET (1..b) : CompactedAt(ctx, P, b, ids2, log2[ctx.summary])
  <2> HAVE ctx.record # 0
  <2>1. PICK P \in SUBSET (1..b) : CompactedAt(ctx, P, b, ids, log[ctx.summary])
    BY DEF FirstOK, b
  <2>2. ctx.summary \in DOMAIN log
    BY <2>1 DEF CompactedAt, ContextOK, LineageRecordOk
  <2>3. log2[ctx.summary] = log[ctx.summary]
    BY <2>2 DEF Grows
  <2>4. \A k \in 1..Cardinality(P) : Nth(P, k) \in P
    <3>1. IsFiniteSet(1..b) /\ P \in SUBSET (1..b) /\ P \subseteq Nat
      BY <1>1, NthInterval
    <3>2. IsFiniteSet(P)
      BY <3>1, FS_Subset
    <3> QED BY <3>1, <3>2, NthIs
  <2>5. \A k \in 1..Cardinality(P) : ids2[Nth(P, k)] = ids[Nth(P, k)]
    BY <2>4, <1>5
  <2>6. P \subseteq 1..b /\ P # {} /\ Len(ctx.selected) = Min(P) + Cardinality(After(b, P))
    BY <2>1 DEF CompactedAt
  <2>7. \A k \in 1..Len(ctx.selected) : From(b, P, k) \in 1..b
    <3>1. IsFrom(b, P)
      BY <2>6, <1>1, FromIs
    <3> QED BY <3>1, <2>6 DEF IsFrom
  <2>8. \A k \in 1..Len(ctx.selected) : ids2[From(b, P, k)] = ids[From(b, P, k)]
    BY <2>7, <1>5
  <2>9. CompactedAt(ctx, P, b, ids2, log2[ctx.summary])
    BY <2>1, <2>3, <2>5, <2>8 DEF CompactedAt
  <2> QED BY <2>9
<1> QED
  BY <1>1, <1>5, <1>6, <1>7, <1>8 DEF FirstOK, b

(* Syncing keeps the invariant.                                            *)
LEMMA SyncFirst ==
  ASSUME HistoryInvariant, FirstInvariant, NEW t \in Nat, sync_source_messages(t),
         UNCHANGED <<run, trajectory, replacements, contexts>>
  PROVE  FirstInvariant'
<1> DEFINE n == Len(source_items)
           N == Len(trajectory)
           d == N - n
           L == Len(request_items)
           E == Len(retained)
<1>1. /\ n \in Nat /\ d \in Nat
      /\ retained' \in Seq(Entry) /\ Grows(retained, retained')
      /\ Len(retained') = E + d
      /\ \A k \in 1..d : retained'[E + k] = append_source_message(t, n + k, trajectory[n + k])
      /\ source_items' \in Seq(Nat) /\ Grows(source_items, source_items')
      /\ Len(source_items') = N
      /\ \A k \in 1..d : source_items'[n + k] = E + k
      /\ request_items' \in Seq(Item) /\ Grows(request_items, request_items')
      /\ Len(request_items') = L + d
      /\ \A k \in 1..d : request_items'[L + k]
            = [message |-> trajectory[n + k], source |-> n + k, record |-> 0, entry |-> E + k]
  BY SyncIs DEF HistoryInvariant
<1>2. /\ trajectory \in Seq(Message) /\ N \in Nat /\ n + d = N /\ n <= N
      /\ request_items \in Seq(Item) /\ L \in Nat /\ source_items \in Seq(Nat)
      /\ retained \in Seq(Entry) /\ E \in Nat /\ replacements \in Seq(Record)
      /\ contexts \in Seq(Context)
  BY SMTT(30), <1>1 DEF HistoryInvariant, HistoryTypeOK, LoopOK
<1>3. PICK log, ids, items : log = retained' /\ ids = source_items' /\ items = request_items'
  OBVIOUS
<1>4. \A k \in 1..d : /\ log[E + k].message = trajectory[n + k]
                      /\ log[E + k].source = n + k
                      /\ log[E + k].kind = "source_message"
  BY <1>1, <1>3 DEF append_source_message, NoEntry
<1> HIDE DEF n, N, d, L, E
<1>5. \A k \in 1..N : k \in 1..n \/ \E j \in 1..d : k = n + j
  <2> TAKE k \in 1..N
  <2>1. n \in Nat /\ d \in Nat /\ n + d = N
    BY <1>1, <1>2
  <2>2. k \in 1..n \/ (k - n \in 1..d /\ k = n + (k - n))
    BY <2>1
  <2> QED BY <2>2
<1>6. /\ \A k \in 1..n : ids[k] = source_items[k] /\ k \in 1..N
      /\ \A k \in 1..E : log[k] = retained[k] /\ k \in 1..(E + d)
      /\ \A k \in 1..d : ids[n + k] = E + k /\ n + k \in 1..N /\ E + k \in 1..(E + d)
      /\ Len(ids) = N /\ Len(log) = E + d
  <2>1. n \in Nat /\ d \in Nat /\ n + d = N /\ E \in Nat
    BY <1>1, <1>2
  <2>2. /\ \A k \in 1..n : k \in 1..N
        /\ \A k \in 1..E : k \in 1..(E + d)
        /\ \A k \in 1..d : n + k \in 1..N /\ E + k \in 1..(E + d)
    BY <2>1
  <2>3. \A k \in 1..n : ids[k] = source_items[k]
    BY <1>1, <1>3 DEF Grows, n
  <2>4. \A k \in 1..E : log[k] = retained[k]
    BY <1>1, <1>3 DEF Grows, E
  <2> QED BY <2>2, <2>3, <2>4, <1>1, <1>3
<1>7. LoggedOK(retained, source_items, trajectory)
  BY DEF FirstInvariant
<1>8. LoggedOK(log, ids, trajectory)
  <2>1. \A k \in 1..N : /\ ids[k] \in 1..(E + d) /\ log[ids[k]].kind = "source_message"
                        /\ log[ids[k]].source = k /\ log[ids[k]].message = trajectory[k]
    <3> TAKE k \in 1..N
    <3>1. CASE k \in 1..n
      <4>1. source_items[k] \in 1..E
        BY <3>1, <1>7 DEF LoggedOK, n, E
      <4>2. ids[k] = source_items[k] /\ log[source_items[k]] = retained[source_items[k]]
            /\ source_items[k] \in 1..(E + d)
        BY <3>1, <4>1, <1>6
      <4> QED BY <3>1, <4>2, <1>7 DEF LoggedOK, n
    <3>2. ASSUME NEW j \in 1..d, k = n + j
          PROVE  /\ ids[k] \in 1..(E + d) /\ log[ids[k]].kind = "source_message"
                 /\ log[ids[k]].source = k /\ log[ids[k]].message = trajectory[k]
      BY <3>2, <1>4, <1>6
    <3> QED BY <3>1, <3>2, <1>5
  <2>2. \A k, l \in 1..N : k < l => ids[k] < ids[l]
    <3> TAKE k, l \in 1..N
    <3> HAVE k < l
    <3>1. \A i \in 1..n : ids[i] \in 1..E
      BY <1>6, <1>7 DEF LoggedOK, n, E
    <3>2. CASE l \in 1..n
      <4>1. k \in 1..n
        BY <3>2, <1>1
      <4> QED BY <3>2, <4>1, <1>6, <1>7 DEF LoggedOK, n
    <3>3. ASSUME NEW j \in 1..d, l = n + j PROVE ids[k] < ids[l]
      <4>1. ids[l] = E + j
        BY <3>3, <1>6
      <4>2. CASE k \in 1..n
        <5>1. ids[k] \in 1..E
          BY <4>2, <3>1
        <5> QED BY <5>1, <4>1, <1>2
      <4>3. ASSUME NEW i \in 1..d, k = n + i PROVE ids[k] < ids[l]
        <5>1. ids[k] = E + i /\ i < j
          BY <3>3, <4>3, <1>1, <1>6
        <5> QED BY <5>1, <4>1, <1>2
      <4> QED BY <4>2, <4>3, <1>5
    <3> QED BY <3>2, <3>3, <1>5
  <2>3. \A id \in 1..(E + d) : log[id].kind = "source_message" => \E k \in 1..N : ids[k] = id
    <3> TAKE id \in 1..(E + d)
    <3> HAVE log[id].kind = "source_message"
    <3>1. CASE id \in 1..E
      <4>1. PICK k \in 1..n : source_items[k] = id
        BY <3>1, <1>6, <1>7 DEF LoggedOK, n, E
      <4> QED BY <4>1, <1>6
    <3>2. CASE id \notin 1..E
      <4>1. id - E \in 1..d /\ id = E + (id - E)
        BY <3>2, <1>1, <1>2
      <4> QED BY <4>1, <1>6
    <3> QED BY <3>1, <3>2
  <2> QED BY <2>1, <2>2, <2>3, <1>6 DEF LoggedOK
<1>9. PlainOK'
  <2> SUFFICES ASSUME Len(replacements) = 0
               PROVE  /\ Len(items) = N
                      /\ \A k \in 1..N : /\ items[k].source = k /\ items[k].record = 0
                                         /\ items[k].entry = ids[k]
    BY <1>1, <1>3, Zenon DEF PlainOK
  <2>1. L = n /\ \A k \in 1..n : /\ request_items[k].source = k
                                 /\ request_items[k].record = 0
                                 /\ request_items[k].entry = source_items[k]
    BY DEF FirstInvariant, PlainOK, L, n
  <2>2. \A k \in 1..n : items[k] = request_items[k]
    BY <2>1, <1>1, <1>3 DEF Grows, L
  <2>3. \A k \in 1..d : items[n + k]
            = [message |-> trajectory[n + k], source |-> n + k, record |-> 0, entry |-> E + k]
    BY <2>1, <1>1, <1>3
  <2>4. ASSUME NEW k \in 1..N
        PROVE  items[k].source = k /\ items[k].record = 0 /\ items[k].entry = ids[k]
    <3>1. CASE k \in 1..n
      BY <3>1, <2>1, <2>2, <1>6
    <3>2. ASSUME NEW j \in 1..d, k = n + j
          PROVE  items[k].source = k /\ items[k].record = 0 /\ items[k].entry = ids[k]
      <4>1. items[k] = [message |-> trajectory[k], source |-> k, record |-> 0, entry |-> E + j]
        BY <3>2, <2>3
      <4>2. ids[k] = E + j
        BY <3>2, <1>6
      <4> QED BY <4>1, <4>2
    <3> QED BY <3>1, <3>2, <1>5
  <2>5. Len(items) = N
    BY <2>1, <1>1, <1>2, <1>3
  <2> QED BY <2>4, <2>5
<1>10. RecordsOK'
  BY DEF FirstInvariant, RecordsOK
<1>11. StampsOK'
  <2>1. \A k \in 1..Len(contexts) : /\ contexts[k].retained_before <= contexts[k].retained_after
                                    /\ contexts[k].retained_after <= E
                                    /\ contexts[k].retained_after \in Nat
    <3>1. \A k \in 1..Len(contexts) : contexts[k] \in Context
      BY <1>2
    <3> QED BY <3>1 DEF FirstInvariant, StampsOK, Context, E
  <2>2. \A x \in Nat : x <= E => x <= E + d
    BY <1>1, <1>2
  <2>3. \A k \in 1..Len(contexts) : contexts[k].retained_after <= E + d
    BY <2>1, <2>2
  <2> QED BY <2>1, <2>3, <1>1 DEF FirstInvariant, StampsOK
<1>12. FirstsOK'
  <2> SUFFICES ASSUME NEW k \in 1..Len(contexts), First(contexts, k)
               PROVE  FirstOK(contexts[k], log, ids, run)
    BY <1>3, Zenon DEF FirstsOK, First
  <2>1. /\ contexts[k] \in Context
        /\ ContextOK(contexts[k], k, retained, trajectory, run)
        /\ FirstOK(contexts[k], retained, source_items, run)
        /\ contexts[k].retained_after <= Len(retained)
    BY <1>2 DEF HistoryInvariant, ContextsOK, FirstInvariant, FirstsOK, StampsOK
  <2>2. \A j \in 1..Len(ids) : j > Len(source_items) => ids[j] > Len(retained)
    <3> SUFFICES ASSUME NEW j \in 1..N, j > n PROVE ids[j] > E
      BY <1>6 DEF n, E
    <3>1. j \notin 1..n
      BY <1>1
    <3>2. PICK i \in 1..d : j = n + i
      BY <3>1, <1>5
    <3>3. ids[j] = E + i
      BY <3>2, <1>6
    <3> QED BY <3>3, <1>2
  <2>3. /\ log \in Seq(Entry) /\ Grows(retained, log)
        /\ ids \in Seq(Nat) /\ Grows(source_items, ids)
    BY <1>1, <1>3
  <2> QED BY <2>1, <2>2, <2>3, <1>2, FirstGrows
<1> QED
  BY <1>3, <1>8, <1>9, <1>10, <1>11, <1>12, Zenon DEF FirstInvariant

\* A lists what list has at the positions P.
IsAt(A, list, P) ==
    /\ A \in Seq(Nat) /\ Cardinality(P) \in Nat
    /\ Len(A) = Cardinality(P) /\ DOMAIN A = 1..Cardinality(P)
    /\ \A k \in 1..Cardinality(P) : Nth(P, k) \in P /\ A[k] = list[Nth(P, k)]

(* At, for a list of entries.                                              *)
LEMMA AtEntries ==
  ASSUME NEW list \in Seq(Nat), NEW P, P \subseteq 1..Len(list)
  PROVE  IsAt(At(list, P), list, P)
<1>1. /\ At(list, P) \in Seq(Nat) /\ Cardinality(P) \in Nat
      /\ Len(At(list, P)) = Cardinality(P) /\ DOMAIN At(list, P) = 1..Cardinality(P)
      /\ \A k \in 1..Cardinality(P) : Nth(P, k) \in P /\ At(list, P)[k] = list[Nth(P, k)]
  BY AtIs
<1> QED
  BY <1>1 DEF IsAt

(* Nothing is compacted yet, and this request compacts nothing.            *)
LEMMA NewUncompacted ==
  ASSUME HistoryInvariant, FirstInvariant, Snapshot, Len(replacements) = 0, ~Compacts(plan)
  PROVE  UncompactedAt(append_snapshot(ShownItems, retained', FiledRecord),
                       Len(source_items), source_items, run)
<1> DEFINE ctx == append_snapshot(ShownItems, retained', FiledRecord)
           R == ShownItems
           N == Len(source_items)
           shown == {R[k].source : k \in DOMAIN R}
           Q == DOMAIN source_items \ shown
           inc == plan.included
<1>1. /\ HistoryTypeOK /\ IsPlan(run.policy, RequestMessages, run.limits, plan)
      /\ source_items \in Seq(Nat) /\ N \in Nat /\ request_items \in Seq(Item)
  BY DEF HistoryInvariant, LoopOK, HistoryTypeOK, Snapshot
<1>2. /\ Len(request_items) = N
      /\ \A k \in 1..N : /\ request_items[k].source = k /\ request_items[k].record = 0
                         /\ request_items[k].entry = source_items[k]
  BY DEF FirstInvariant, PlainOK
<1>3. inc \subseteq 1..N /\ R = At(request_items, inc)
  BY <1>1, <1>2, ShownIs DEF ShownItems
<1>4. run.policy # "tail_window" => inc = 1..N
  <2>1. DOMAIN RequestMessages = 1..N
    BY <1>1, <1>2 DEF RequestMessages
  <2> QED BY <2>1, <1>1 DEF IsPlan
<1>5. /\ ctx.summary = 0 /\ ctx.carried = 0
      /\ ctx.active = (\E k \in DOMAIN R : R[k].record # 0)
      /\ ctx.selected = [k \in DOMAIN R |-> R[k].entry]
      /\ ctx.omitted = At(source_items, Q)
  BY DEF append_snapshot, FiledRecord
<1> HIDE DEF ctx, R, N, inc
<1>6. /\ Cardinality(inc) \in Nat /\ DOMAIN R = 1..Cardinality(inc)
      /\ \A k \in 1..Cardinality(inc) : Nth(inc, k) \in inc /\ R[k] = request_items[Nth(inc, k)]
  <2>1. inc \subseteq 1..Len(request_items)
    BY <1>2, <1>3
  <2> QED BY <2>1, <1>1, <1>3, AtIs
<1>7. ~ctx.active
  <2>1. \A k \in DOMAIN R : R[k].record = 0
    BY <1>2, <1>3, <1>6
  <2> QED BY <2>1, <1>5
<1>8. \A k \in 1..Len(ctx.omitted) : \E i \in 1..N : ctx.omitted[k] = source_items[i]
  <2>1. Q \subseteq 1..Len(source_items)
    BY <1>1
  <2> HIDE DEF Q
  <2>2. /\ Len(ctx.omitted) = Cardinality(Q)
        /\ \A k \in 1..Cardinality(Q) : Nth(Q, k) \in Q /\ ctx.omitted[k] = source_items[Nth(Q, k)]
    <3>1. source_items \in Seq(Nat)
      BY <1>1
    <3>2. IsAt(At(source_items, Q), source_items, Q)
      BY <2>1, <3>1, AtEntries
    <3> QED BY <3>2, <1>5 DEF IsAt
  <2>3. Q \subseteq 1..N
    BY <2>1 DEF N
  <2> QED BY <2>2, <2>3
<1>9. ASSUME run.policy # "tail_window"
      PROVE  Len(ctx.selected) = N /\ \A k \in 1..N : ctx.selected[k] = source_items[k]
  <2>1. Cardinality(1..N) = N /\ \A k \in 1..N : Nth(1..N, k) = k
    BY <1>1, NthInterval
  <2>2. inc = 1..N
    BY <1>4, <1>9
  <2>3. DOMAIN R = 1..N /\ \A k \in 1..N : R[k] = request_items[k]
    BY <2>1, <2>2, <1>6
  <2>4. ctx.selected = [k \in 1..N |-> R[k].entry]
    BY <2>3, <1>5
  <2>5. \A k \in 1..N : R[k].entry \in Nat
    <3>1. \A k \in 1..N : source_items[k] \in Nat
      BY <1>1 DEF N
    <3> QED BY <3>1, <2>3, <1>2
  <2>6. ctx.selected \in [1..N -> Nat]
    BY <2>4, <2>5
  <2>7. Len(ctx.selected) = N
    BY <2>6, <1>1, FcnSeq
  <2> QED BY <2>3, <2>4, <2>7, <1>2
<1>10. UncompactedAt(ctx, N, source_items, run)
  BY <1>5, <1>7, <1>8, <1>9 DEF UncompactedAt
<1> QED
  BY <1>10 DEF ctx, N

(* Nothing is compacted yet, and this request compacts.                    *)
LEMMA NewCompacted ==
  ASSUME HistoryInvariant, FirstInvariant, Snapshot, Len(replacements) = 0, Compacts(plan)
  PROVE  CompactedAt(append_snapshot(ShownItems, retained', FiledRecord),
                     plan.compacted, Len(source_items), source_items,
                     retained'[Len(retained) + 1])
<1> DEFINE ctx == append_snapshot(ShownItems, retained', FiledRecord)
           R == ShownItems
           N == Len(source_items)
           E == Len(retained)
           P == plan.compacted
           p == Cardinality(P)
           c == Min(P) + Cardinality(After(N, P))
           shown == {R[k].source : k \in DOMAIN R}
           Q == DOMAIN source_items \ shown
           sm == retained'[E + 1]
<1>1. /\ HistoryTypeOK /\ LoopOK /\ IsPlan(run.policy, RequestMessages, run.limits, plan)
      /\ source_items \in Seq(Nat) /\ N \in Nat /\ request_items \in Seq(Item)
      /\ phase = "snapshot"
  BY DEF HistoryInvariant, LoopOK, HistoryTypeOK, Snapshot
<1>2. /\ Len(request_items) = N
      /\ \A k \in 1..N : /\ request_items[k].source = k /\ request_items[k].record = 0
                         /\ request_items[k].entry = source_items[k]
  BY DEF FirstInvariant, PlainOK
<1>3. P \subseteq 1..N /\ P # {}
  BY <1>1, <1>2, CompactedAreMessages
<1>4. sm = append_replacement_summary(turn, RecordId, plan.summary,
                                      CompactedEntries, CompactedSources)
  BY <1>1, SnapshotIs
<1>5. sm.entries = CompactedEntries /\ sm.sources = CompactedSources
  BY <1>4 DEF append_replacement_summary, NoEntry
<1>6. RecordId \in Nat \ {0} /\ SummaryItem \in Item
  BY <1>1, ShownIs
<1>7. /\ ctx.summary = E + 1
      /\ ctx.active = (\E k \in DOMAIN R : R[k].record # 0)
      /\ ctx.selected = [k \in DOMAIN R |-> R[k].entry]
      /\ ctx.omitted = At(source_items, Q)
  BY <1>6 DEF append_snapshot, FiledRecord
<1>8. R \in Seq(Item) /\ IsReplaced(R, request_items, P, SummaryItem)
  <2>1. R = Replaced(request_items, P, SummaryItem)
    BY DEF ShownItems
  <2>2. P \subseteq 1..Len(request_items)
    BY <1>2, <1>3
  <2> QED BY <2>1, <2>2, <1>1, <1>3, <1>6, ReplacedIs
<1> HIDE DEF ctx, R, N, E, P, sm
<1>9. /\ Len(R) = c /\ R[Min(P)] = SummaryItem
      /\ \A k \in 1..c : k # Min(P) => R[k] = request_items[From(N, P, k)]
  BY <1>2, <1>8 DEF IsReplaced
<1>10. /\ Min(P) \in P /\ Min(P) \in 1..c /\ c \in Nat
       /\ \A k \in 1..c : k # Min(P) => From(N, P, k) \in (1..N) \ P
       /\ \A i \in (1..N) \ P : \E k \in 1..c : k # Min(P) /\ From(N, P, k) = i
  <2>1. N \in Nat
    BY <1>1
  <2>2. IsFrom(N, P)
    BY <2>1, <1>3, FromIs
  <2> QED BY <2>2 DEF IsFrom
<1>11. DOMAIN R = 1..c
  BY <1>8, <1>9
<1> HIDE DEF c
<1>12. /\ SummaryItem.source = 0 /\ SummaryItem.record = RecordId /\ SummaryItem.entry = E + 1
  BY DEF SummaryItem, E
<1>13. \A k \in 1..c : k # Min(P) => /\ R[k].source = From(N, P, k)
                                     /\ R[k].entry = source_items[From(N, P, k)]
  <2> TAKE k \in 1..c
  <2> HAVE k # Min(P)
  <2>1. From(N, P, k) \in 1..N /\ R[k] = request_items[From(N, P, k)]
    BY <1>9, <1>10
  <2> QED BY <2>1, <1>2
<1>14. ctx.active
  BY <1>6, <1>7, <1>9, <1>10, <1>11, <1>12
<1>15. Q = P
  <2>1. \A i \in 1..N : i \in shown <=> i \notin P
    <3> TAKE i \in 1..N
    <3>1. ASSUME i \in shown PROVE i \notin P
      <4>1. PICK k \in 1..c : R[k].source = i
        BY <3>1, <1>11
      <4>2. CASE k = Min(P)
        BY <4>1, <4>2, <1>1, <1>9, <1>12
      <4>3. CASE k # Min(P)
        BY <4>1, <4>3, <1>10, <1>13
      <4> QED BY <4>2, <4>3
    <3>2. ASSUME i \notin P PROVE i \in shown
      <4>1. PICK k \in 1..c : k # Min(P) /\ From(N, P, k) = i
        BY <3>2, <1>10
      <4> QED BY <4>1, <1>11, <1>13
    <3> QED BY <3>1, <3>2
  <2>2. DOMAIN source_items = 1..N
    BY <1>1 DEF N
  <2> HIDE DEF shown
  <2> QED BY <2>1, <2>2, <1>3
<1>16. /\ p \in Nat /\ DOMAIN ctx.omitted = 1..p
       /\ \A k \in 1..p : Nth(P, k) \in P /\ ctx.omitted[k] = source_items[Nth(P, k)]
  <2>1. P \subseteq 1..Len(source_items)
    BY <1>3 DEF N
  <2> HIDE DEF Q
  <2>2. source_items \in Seq(Nat)
    BY <1>1
  <2>3. IsAt(At(source_items, P), source_items, P)
    BY <2>1, <2>2, AtEntries
  <2> QED BY <2>3, <1>7, <1>15 DEF IsAt
<1>17. /\ CompactedEntries \in Seq(Nat) /\ CompactedSources \in Seq(Nat)
       /\ Len(CompactedEntries) = p
       /\ \A k \in 1..p : CompactedEntries[k] = request_items[Nth(P, k)].entry
  <2>1. plan.compacted \subseteq 1..Len(request_items)
    BY <1>2, <1>3 DEF P
  <2>2. /\ Len(Compacted) = p
        /\ \A k \in 1..Len(Compacted) : Compacted[k] = request_items[Nth(P, k)]
        /\ CompactedEntries \in Seq(Nat) /\ CompactedSources \in Seq(Nat)
        /\ Len(CompactedEntries) = Len(Compacted)
        /\ \A k \in 1..Len(Compacted) : CompactedEntries[k] = Compacted[k].entry
    BY <2>1, <1>1, CompactedIs DEF P
  <2> QED BY <2>2
<1>18. /\ DOMAIN CompactedSources = 1..p
       /\ \A k \in 1..p : CompactedSources[k] = request_items[Nth(P, k)].source
  <2>1. plan.compacted \subseteq 1..Len(request_items)
    BY <1>2, <1>3 DEF P
  <2>2. \A i \in plan.compacted : request_items[i].source # 0
    <3>1. \A i \in 1..N : i # 0
      BY <1>1
    <3> QED BY <3>1, <1>2, <1>3 DEF P
  <2> QED BY <2>1, <2>2, <1>1, CompactedSourcesAre DEF P
<1> HIDE DEF p
<1>19. \A k \in 1..p : /\ CompactedEntries[k] = source_items[Nth(P, k)]
                       /\ CompactedSources[k] = Nth(P, k)
  <2> TAKE k \in 1..p
  <2>1. Nth(P, k) \in 1..N
    BY <1>3, <1>16
  <2> QED BY <2>1, <1>2, <1>17, <1>18
<1>20. ctx.omitted = CompactedEntries
  <2>1. DOMAIN CompactedEntries = 1..p
    BY <1>17
  <2>2. ctx.omitted = [k \in 1..p |-> ctx.omitted[k]]
    <3>1. ctx.omitted = [k \in DOMAIN ctx.omitted |-> ctx.omitted[k]]
      <4>1. ctx.omitted = At(source_items, Q)
        BY <1>7
      <4> HIDE DEF Q
      <4> QED BY <4>1 DEF At
    <3> QED BY <3>1, <1>16
  <2>3. CompactedEntries = [k \in 1..p |-> CompactedEntries[k]]
    BY <2>1, <1>17
  <2>4. \A k \in 1..p : ctx.omitted[k] = CompactedEntries[k]
    BY <1>16, <1>19
  <2> QED BY <2>2, <2>3, <2>4
<1>21. Len(CompactedSources) = p
  BY <1>16, <1>17, <1>18
<1>22. /\ Len(ctx.selected) = c /\ ctx.selected[Min(P)] = E + 1
       /\ \A k \in 1..c : k # Min(P) => ctx.selected[k] = source_items[From(N, P, k)]
  <2>1. ctx.selected = [k \in 1..c |-> R[k].entry]
    BY <1>7, <1>11
  <2>2. \A k \in 1..c : R[k].entry \in Nat
    <3>1. \A k \in 1..c : R[k] \in Item
      BY <1>8, <1>9
    <3> QED BY <3>1 DEF Item
  <2>3. ctx.selected \in [1..c -> Nat]
    BY <2>1, <2>2
  <2>4. Len(ctx.selected) = c
    BY <2>3, <1>10, FcnSeq
  <2> QED BY <2>1, <2>4, <1>9, <1>10, <1>12, <1>13
<1>23. CompactedAt(ctx, P, N, source_items, sm)
  BY <1>3, <1>5, <1>7, <1>14, <1>17, <1>19, <1>20, <1>21, <1>22 DEF CompactedAt, c, p
<1> QED
  BY <1>23 DEF ctx, P, N, E, sm

(* The request that is filed while nothing is compacted yet, or for the    *)
(* first compaction, is one of all the messages synced so far.             *)
LEMMA NewFirst ==
  ASSUME HistoryInvariant, FirstInvariant, Snapshot, Len(replacements) = 0
  PROVE  FirstOK(append_snapshot(ShownItems, retained', FiledRecord), retained', source_items, run)
<1> DEFINE ctx == append_snapshot(ShownItems, retained', FiledRecord)
           N == Len(source_items)
           E == Len(retained)
           P == plan.compacted
<1>1. /\ HistoryTypeOK /\ LoopOK /\ IsPlan(run.policy, RequestMessages, run.limits, plan)
      /\ source_items \in Seq(Nat) /\ N \in Nat /\ request_items \in Seq(Item)
      /\ retained \in Seq(Entry) /\ E \in Nat
  BY DEF HistoryInvariant, LoopOK, HistoryTypeOK, Snapshot
<1>2. Len(request_items) = N
  BY DEF FirstInvariant, PlainOK
<1>3. RecordId \in Nat \ {0} /\ ShownItems \in Seq(Item)
  BY <1>1, ShownIs
<1>4. /\ ctx.items_before = N /\ ctx.retained_before = E
      /\ ctx.request_message_count = Len(ShownItems)
      /\ ctx.selected = [k \in DOMAIN ShownItems |-> ShownItems[k].entry]
      /\ ctx.record = FiledRecord
      /\ ctx.summary = IF FiledRecord = 0 THEN 0 ELSE E + 1
  BY <1>2 DEF append_snapshot
<1>5. Compacts(plan) <=> FiledRecord # 0
  BY <1>3 DEF FiledRecord
<1>6. ~Compacts(plan) => UncompactedAt(ctx, N, source_items, run)
  BY NewUncompacted
<1>7. Compacts(plan) => CompactedAt(ctx, P, N, source_items, retained'[E + 1])
  BY NewCompacted
<1>8. \A k \in 1..N : source_items[k] <= E
  BY DEF FirstInvariant, LoggedOK
<1> HIDE DEF ctx, N, E, P
<1>9. ctx.request_message_count = Len(ctx.selected)
  <2>1. /\ DOMAIN ShownItems = 1..Len(ShownItems) /\ Len(ShownItems) \in Nat
        /\ \A k \in 1..Len(ShownItems) : ShownItems[k] \in Item
    BY <1>3
  <2>2. ctx.selected \in [1..Len(ShownItems) -> Nat]
    BY <2>1, <1>4 DEF Item
  <2> QED BY <2>1, <2>2, <1>4, FcnSeq
<1>10. \A k \in 1..N : IF k <= N THEN source_items[k] <= E ELSE source_items[k] > ctx.retained_after
  BY <1>1, <1>8
<1>11. ctx.record # 0 => \E S \in SUBSET (1..N) :
                             CompactedAt(ctx, S, N, source_items, retained'[ctx.summary])
  <2> HAVE ctx.record # 0
  <2>1. CompactedAt(ctx, P, N, source_items, retained'[E + 1]) /\ ctx.summary = E + 1
    BY <1>4, <1>5, <1>7
  <2>2. P \in SUBSET (1..N)
    BY <2>1 DEF CompactedAt
  <2> QED BY <2>1, <2>2
<1>12. ctx.record = 0 => UncompactedAt(ctx, N, source_items, run)
  BY <1>4, <1>5, <1>6
<1>13. N <= N
  BY <1>1
<1>14. FirstOK(ctx, retained', source_items, run)
  BY <1>4, <1>9, <1>10, <1>11, <1>12, <1>13, Zenon DEF FirstOK, N
<1> QED
  BY <1>14 DEF ctx

(* Filing a request keeps the invariant.                                   *)
LEMMA SnapshotFirst ==
  ASSUME HistoryInvariant, FirstInvariant, Snapshot
  PROVE  FirstInvariant'
<1> DEFINE E == Len(retained)
           C == Len(contexts)
           n == Len(source_items)
           ctx == append_snapshot(ShownItems, retained', FiledRecord)
<1>1. /\ HistoryTypeOK /\ LoopOK /\ phase = "snapshot"
      /\ IsPlan(run.policy, RequestMessages, run.limits, plan)
      /\ retained \in Seq(Entry) /\ E \in Nat /\ trajectory \in Seq(Message)
      /\ contexts \in Seq(Context) /\ C \in Nat
      /\ source_items \in Seq(Nat) /\ n \in Nat
      /\ request_items \in Seq(Item) /\ replacements \in Seq(Record)
  BY DEF HistoryInvariant, LoopOK, HistoryTypeOK, Snapshot
<1>2. /\ retained' \in Seq(Entry) /\ Grows(retained, retained')
      /\ ~Compacts(plan) => request_items' = request_items /\ replacements' = replacements
      /\ contexts' = Append(contexts, ctx) /\ ctx \in Context
  BY <1>1, SnapshotIs
<1>3. run' = run /\ trajectory' = trajectory /\ source_items' = source_items
  BY DEF Snapshot
<1>4. Compacts(plan) => Len(replacements') = Len(replacements) + 1
  BY ShownItemsOK
<1>5. RecordId \in Nat \ {0}
  BY <1>1, ShownIs
<1>6. /\ ctx.retained_before = E /\ ctx.retained_after = Len(retained')
      /\ ctx.record = FiledRecord
  BY DEF append_snapshot
<1>7. Len(replacements) = 0 => FirstOK(ctx, retained', source_items, run)
  BY NewFirst
<1>8. \A id \in 1..Len(retained') : id \in 1..E \/ retained'[id].kind # "source_message"
  <2> TAKE id \in 1..Len(retained')
  <2>1. CASE Compacts(plan)
    <3>1. /\ Len(retained') = E + 4
          /\ retained'[E + 1] = append_replacement_summary(turn, RecordId, plan.summary,
                                                           CompactedEntries, CompactedSources)
          /\ retained'[E + 2] = append_carried_forward_state(turn, RecordId)
          /\ retained'[E + 3] = append_history_control(turn, "compaction_artifact")
          /\ retained'[E + 4] = append_history_control(turn, "context_selection_plan")
      BY <2>1, <1>1, SnapshotIs
    <3>2. /\ retained'[E + 1].kind = "replacement_summary"
          /\ retained'[E + 2].kind = "carry_forward_state"
          /\ retained'[E + 3].kind = "history_control"
          /\ retained'[E + 4].kind = "history_control"
      BY <3>1 DEF append_replacement_summary, append_carried_forward_state,
                  append_history_control, NoEntry
    <3>3. id \in 1..E \/ id = E + 1 \/ id = E + 2 \/ id = E + 3 \/ id = E + 4
      <4>1. E \in Nat /\ id \in 1..(E + 4)
        BY <3>1, <1>1
      <4> HIDE DEF E
      <4> QED BY <4>1
    <3> QED BY <3>2, <3>3
  <2>2. CASE ~Compacts(plan)
    <3>1. /\ Len(retained') = E + 1
          /\ retained'[E + 1] = append_history_control(turn, "context_selection_plan")
      BY <2>2, <1>1, SnapshotIs
    <3>2. retained'[E + 1].kind = "history_control"
      BY <3>1 DEF append_history_control, NoEntry
    <3>3. id \in 1..E \/ id = E + 1
      BY <3>1, <1>1
    <3> QED BY <3>2, <3>3
  <2> QED BY <2>1, <2>2
<1> HIDE DEF ctx, E, C, n
<1>9. PICK log \in Seq(Entry) : log = retained'
  BY <1>2
<1>10. PICK cs \in Seq(Context) :
          cs = contexts' /\ Len(cs) = C + 1 /\ Grows(contexts, cs) /\ cs[C + 1] = ctx
  <2>1. /\ Append(contexts, ctx) \in Seq(Context)
        /\ Len(Append(contexts, ctx)) = C + 1
        /\ Grows(contexts, Append(contexts, ctx))
        /\ Append(contexts, ctx)[C + 1] = ctx
    BY <1>1, <1>2, AppendGrows DEF C
  <2> QED BY <2>1, <1>2, Zenon
<1>11. /\ Grows(retained, log) /\ Len(log) \in Nat /\ E <= Len(log)
       /\ \A id \in 1..E : id \in 1..Len(log) /\ log[id] = retained[id]
  <2>1. Grows(retained, log) /\ Len(log) \in Nat /\ E <= Len(log)
    BY <1>2, <1>9 DEF Grows, E
  <2> QED BY <2>1, <1>1 DEF Grows, E
<1>12. \A m \in 1..C : cs[m] = contexts[m] /\ m \in 1..(C + 1)
  BY <1>1, <1>10 DEF Grows, C
<1>13. \A m \in 1..(C + 1) : m \in 1..C \/ m = C + 1
  BY <1>1
<1>14. \A id \in 1..Len(log) : id \in 1..E \/ log[id].kind # "source_message"
  BY <1>8, <1>9
<1>15. FiledRecord # 0 <=> Compacts(plan)
  BY <1>5 DEF FiledRecord
<1>16. LoggedOK(log, source_items, trajectory)
  <2>1. LoggedOK(retained, source_items, trajectory)
    BY DEF FirstInvariant
  <2>2. \A k \in 1..n : /\ source_items[k] \in 1..Len(log)
                        /\ log[source_items[k]] = retained[source_items[k]]
    BY <2>1, <1>11 DEF LoggedOK, n, E
  <2>3. \A id \in 1..Len(log) : log[id].kind = "source_message" =>
                                   \E k \in 1..n : source_items[k] = id
    <3> TAKE id \in 1..Len(log)
    <3> HAVE log[id].kind = "source_message"
    <3>1. id \in 1..E
      BY <1>14
    <3>2. retained[id].kind = "source_message"
      BY <3>1, <1>11
    <3> QED BY <3>1, <3>2, <2>1 DEF LoggedOK, n, E
  <2> QED BY <2>1, <2>2, <2>3 DEF LoggedOK, n
<1>17. PlainOK'
  <2>1. CASE Compacts(plan)
    <3>1. Len(replacements') # 0
      BY <2>1, <1>1, <1>4
    <3> QED BY <3>1 DEF PlainOK
  <2>2. CASE ~Compacts(plan)
    BY <2>2, <1>2, <1>3 DEF FirstInvariant, PlainOK
  <2> QED BY <2>1, <2>2
<1>18. RecordsOK'
  <2> SUFFICES ASSUME Len(replacements') # 0
               PROVE  \E m \in 1..(C + 1) : cs[m].record # 0
    BY <1>10 DEF RecordsOK
  <2>1. CASE Compacts(plan)
    <3>1. C + 1 \in 1..(C + 1) /\ cs[C + 1].record # 0
      BY <2>1, <1>1, <1>6, <1>10, <1>15
    <3> QED BY <3>1
  <2>2. CASE ~Compacts(plan)
    <3>1. PICK m \in 1..C : contexts[m].record # 0
      BY <2>2, <1>2 DEF FirstInvariant, RecordsOK, C
    <3> QED BY <3>1, <1>12
  <2> QED BY <2>1, <2>2
<1>19. \A m \in 1..C : /\ contexts[m].retained_before <= contexts[m].retained_after
                       /\ contexts[m].retained_after <= E
                       /\ contexts[m].retained_after \in Nat
  <2>1. \A m \in 1..C : contexts[m] \in Context
    BY <1>1 DEF C
  <2> QED BY <2>1 DEF FirstInvariant, StampsOK, Context, E, C
<1>20. StampsOK'
  <2>1. \A m \in 1..(C + 1) : /\ cs[m].retained_before <= cs[m].retained_after
                              /\ cs[m].retained_after <= Len(log)
    <3> TAKE m \in 1..(C + 1)
    <3>1. CASE m \in 1..C
      <4>1. \A x \in Nat : x <= E => x <= Len(log)
        BY <1>1, <1>11
      <4> QED BY <3>1, <4>1, <1>12, <1>19
    <3>2. CASE m = C + 1
      <4>1. cs[m] = ctx /\ ctx.retained_before = E /\ ctx.retained_after = Len(log)
        BY <3>2, <1>6, <1>9, <1>10
      <4> QED BY <4>1, <1>11
    <3> QED BY <3>1, <3>2, <1>13
  <2>2. \A m \in 2..(C + 1) : cs[m - 1].retained_after <= cs[m].retained_before
    <3> TAKE m \in 2..(C + 1)
    <3>1. m - 1 \in 1..C /\ (m \in 2..C \/ m = C + 1)
      BY <1>1
    <3>2. cs[m - 1] = contexts[m - 1]
      BY <3>1, <1>12
    <3>3. CASE m \in 2..C
      <4>1. cs[m] = contexts[m]
        BY <3>3, <1>12
      <4> QED BY <3>2, <3>3, <4>1 DEF FirstInvariant, StampsOK, C
    <3>4. CASE m = C + 1
      <4>1. cs[m].retained_before = E
        BY <3>4, <1>6, <1>10
      <4> QED BY <4>1, <3>1, <3>2, <1>19
    <3> QED BY <3>1, <3>3, <3>4
  <2> QED BY <2>1, <2>2, <1>9, <1>10, Zenon DEF StampsOK
<1>21. FirstsOK'
  <2> SUFFICES ASSUME NEW m \in 1..(C + 1), First(cs, m)
               PROVE  FirstOK(cs[m], log, source_items, run)
    BY <1>3, <1>9, <1>10, Zenon DEF FirstsOK
  <2>1. CASE m \in 1..C
    <3>1. First(contexts, m)
      <4>1. \A l \in 1..(m - 1) : l \in 1..C
        BY <2>1, <1>1
      <4> QED BY <4>1, <1>12 DEF First
    <3>2. /\ contexts[m] \in Context
          /\ ContextOK(contexts[m], m, retained, trajectory, run)
          /\ FirstOK(contexts[m], retained, source_items, run)
          /\ contexts[m].retained_after <= Len(retained)
      BY <2>1, <3>1, <1>1 DEF HistoryInvariant, ContextsOK, FirstInvariant, FirstsOK, StampsOK, C
    <3>3. \A k \in 1..Len(source_items) : k > Len(source_items) => source_items[k] > Len(retained)
      BY <1>1 DEF n
    <3>4. Grows(source_items, source_items)
      BY <1>1, GrowsSame
    <3>5. FirstOK(contexts[m], log, source_items, run)
      BY <3>2, <3>3, <3>4, <1>1, <1>11, FirstGrows
    <3> QED BY <2>1, <3>5, <1>12
  <2>2. CASE m = C + 1
    <3>1. \A l \in 1..C : contexts[l].record = 0
      <4>1. m - 1 = C
        BY <2>2, <1>1
      <4> QED BY <4>1, <1>12 DEF First
    <3>2. Len(replacements) = 0
      BY <3>1 DEF FirstInvariant, RecordsOK, C
    <3> QED BY <3>2, <2>2, <1>7, <1>9, <1>10
  <2> QED BY <2>1, <2>2, <1>13
<1>22. LoggedOK(retained, source_items, trajectory)'
  BY <1>3, <1>9, <1>16, Zenon DEF LoggedOK
<1> QED
  BY <1>17, <1>18, <1>20, <1>21, <1>22 DEF FirstInvariant

(* A step that leaves the logs alone and adds to the trajectory keeps the  *)
(* invariant.                                                              *)
LEMMA GrowthFirst ==
  ASSUME HistoryInvariant, FirstInvariant, trajectory' \in Seq(Message),
         Grows(trajectory, trajectory'),
         UNCHANGED <<run, source_items, request_items, replacements, retained, contexts>>
  PROVE  FirstInvariant'
<1>1. /\ trajectory \in Seq(Message) /\ Len(source_items) \in Nat
      /\ Len(source_items) <= Len(trajectory)
  BY DEF HistoryInvariant, HistoryTypeOK, LoopOK
<1>2. LoggedOK(retained, source_items, trajectory)
  BY DEF FirstInvariant
<1>3. \A k \in 1..Len(source_items) : trajectory'[k] = trajectory[k]
  <2>1. \A k \in 1..Len(source_items) : k \in 1..Len(trajectory)
    BY <1>1
  <2> QED BY <2>1 DEF Grows
<1>4. LoggedOK(retained, source_items, trajectory')
  BY <1>2, <1>3 DEF LoggedOK
<1>5. LoggedOK(retained, source_items, trajectory)'
  BY <1>4, Zenon
<1>6. PlainOK' /\ RecordsOK' /\ StampsOK'
  BY DEF FirstInvariant, PlainOK, RecordsOK, StampsOK
<1>7. FirstsOK'
  BY Zenon DEF FirstInvariant, FirstsOK
<1> QED
  BY <1>5, <1>6, <1>7 DEF FirstInvariant

(* What the model says is added to the trajectory.                         *)
LEMMA AnswersGrow ==
  ASSUME HistoryInvariant,
         \/ \E calls \in 0..MaxCalls, goesOn \in BOOLEAN :
               \E sizes \in [1..(calls + 1) -> Sizes] : Answer(sizes, goesOn)
         \/ \E size \in Sizes : UnparsableAnswer(size)
  PROVE  /\ trajectory' \in Seq(Message) /\ Grows(trajectory, trajectory')
         /\ UNCHANGED <<run, source_items, request_items, replacements, retained, contexts>>
<1>1. trajectory \in Seq(Message) /\ trajectory' \in Seq(Message)
  <2>1. [Next]_vars
    BY DEF Next
  <2>2. HistoryInvariant'
    BY <2>1, NextOK
  <2> QED BY <2>2 DEF HistoryInvariant, HistoryTypeOK
<1>2. UNCHANGED <<run, source_items, request_items, replacements, retained, contexts>>
  BY DEF Answer, UnparsableAnswer
<1>3. ASSUME NEW calls \in 0..MaxCalls, NEW goesOn \in BOOLEAN,
             NEW sizes \in [1..(calls + 1) -> Sizes], Answer(sizes, goesOn)
      PROVE  Grows(trajectory, trajectory')
  <2> DEFINE ms == [k \in DOMAIN sizes |-> [role |-> IF k = 1 THEN "assistant" ELSE "tool",
                                            size |-> sizes[k],
                                            ref  |-> Len(trajectory) + k]]
  <2>1. trajectory' = trajectory \o ms
    BY <1>3 DEF Answer
  <2>2. calls + 1 \in Nat /\ DOMAIN sizes = 1..(calls + 1)
    BY HistoryAssumption
  <2>3. \A k \in 1..(calls + 1) : sizes[k] \in Nat /\ Len(trajectory) + k \in Int
    <3>1. Sizes \subseteq Nat /\ \A k \in 1..(calls + 1) : sizes[k] \in Sizes
      BY HistoryAssumption
    <3>2. \A k \in 1..(calls + 1) : Len(trajectory) + k \in Int
      BY <1>1, <2>2
    <3> QED BY <3>1, <3>2
  <2>4. ms \in [1..(calls + 1) -> Message]
    BY <2>2, <2>3 DEF Message
  <2> HIDE DEF ms
  <2>5. ms \in Seq(Message)
    BY <2>2, <2>4, FcnSeq
  <2> QED BY <2>1, <2>5, <1>1, CatGrows
<1>4. ASSUME NEW size \in Sizes, UnparsableAnswer(size)
      PROVE  Grows(trajectory, trajectory')
  <2> DEFINE A == [role |-> "assistant", size |-> size, ref |-> Len(trajectory) + 1]
             B == [role |-> "user", size |-> 1, ref |-> Len(trajectory) + 2]
             ms == <<A, B>>
  <2>1. A \in Message /\ B \in Message
    BY HistoryAssumption, <1>1 DEF Message
  <2>2. trajectory' = trajectory \o ms
    BY <1>4 DEF UnparsableAnswer
  <2> HIDE DEF A, B
  <2>3. ms \in Seq(Message)
    BY <2>1
  <2> HIDE DEF ms
  <2> QED BY <2>2, <2>3, <1>1, CatGrows
<1> QED
  BY <1>1, <1>2, <1>3, <1>4

(* A run begins with its prompts logged and nothing compacted.             *)
LEMMA InitFirst ==
  ASSUME Init
  PROVE  FirstInvariant
<1>1. /\ trajectory = FirstMessages /\ source_items = <<1, 2>>
      /\ request_items = [k \in 1..2 |-> [message |-> FirstMessages[k], source |-> k,
                                          record |-> 0, entry |-> k]]
      /\ replacements = <<>> /\ contexts = <<>>
      /\ retained = [k \in 1..2 |-> append_source_message(0, k, FirstMessages[k])]
  BY DEF Init
<1>2. Len(source_items) = 2 /\ \A k \in 1..2 : source_items[k] = k
  <2>1. \A k \in 1..2 : k = 1 \/ k = 2
    OBVIOUS
  <2> QED BY <2>1, <1>1
<1>3. Len(retained) = 2 /\ Len(request_items) = 2 /\ Len(contexts) = 0 /\ Len(replacements) = 0
  <2>1. HistoryInvariant
    BY InitOK
  <2>2. retained \in Seq(Entry) /\ request_items \in Seq(Item)
    BY <2>1 DEF HistoryInvariant, HistoryTypeOK
  <2>3. DOMAIN retained = 1..2 /\ DOMAIN request_items = 1..2
    BY <1>1
  <2> QED BY <2>2, <2>3, <1>1
<1>4. \A k \in 1..2 : /\ retained[k].kind = "source_message" /\ retained[k].source = k
                      /\ retained[k].message = trajectory[k]
  BY <1>1 DEF append_source_message, NoEntry
<1>5. LoggedOK(retained, source_items, trajectory)
  BY <1>2, <1>3, <1>4 DEF LoggedOK
<1>6. \A k \in 1..2 : /\ request_items[k].source = k /\ request_items[k].record = 0
                      /\ request_items[k].entry = k
  BY <1>1
<1>7. PlainOK
  BY <1>2, <1>3, <1>6 DEF PlainOK
<1>8. RecordsOK /\ StampsOK /\ FirstsOK
  BY <1>3 DEF RecordsOK, StampsOK, FirstsOK
<1> QED
  BY <1>5, <1>7, <1>8 DEF FirstInvariant

(* Every step keeps the invariant.                                         *)
LEMMA FirstNext ==
  ASSUME HistoryInvariant, FirstInvariant, [Next]_vars
  PROVE  FirstInvariant'
<1>1. turn \in Nat /\ trajectory \in Seq(Message)
  BY DEF HistoryInvariant, HistoryTypeOK
<1>2. CASE BeginTurn
  BY <1>1, <1>2, SyncFirst DEF BeginTurn
<1>3. CASE Finish
  BY <1>1, <1>3, SyncFirst DEF Finish
<1>4. CASE Snapshot
  BY <1>4, SnapshotFirst
<1>5. CASE \/ \E calls \in 0..MaxCalls, goesOn \in BOOLEAN :
                 \E sizes \in [1..(calls + 1) -> Sizes] : Answer(sizes, goesOn)
           \/ \E size \in Sizes : UnparsableAnswer(size)
  <2>1. /\ trajectory' \in Seq(Message) /\ Grows(trajectory, trajectory')
        /\ UNCHANGED <<run, source_items, request_items, replacements, retained, contexts>>
    BY <1>5, AnswersGrow
  <2> QED BY <2>1, GrowthFirst
<1>6. CASE (\E size \in Sizes : ModelCompacts(size)) \/ ModelFallsBack \/ RequestFails
           \/ UNCHANGED vars
  <2>1. UNCHANGED <<run, trajectory, source_items, request_items, replacements, retained,
                    contexts>>
    BY <1>6 DEF ModelCompacts, ModelFallsBack, RequestFails, vars
  <2>2. Grows(trajectory, trajectory')
    BY <2>1, <1>1, GrowsSame
  <2> QED BY <2>1, <2>2, <1>1, GrowthFirst
<1> QED
  BY <1>2, <1>3, <1>4, <1>5, <1>6 DEF Next

(* However a run goes, its logs keep the shape the replay relies on: the   *)
(* source entries are the synced messages in order, a compaction is on     *)
(* record with its request, requests are logged one after the other, and   *)
(* every request up to the first compaction is one of all the messages     *)
(* synced by then (history_manager.py, retained_history.py and             *)
(* request_context.py).                                                    *)
THEOREM FirstsAreKept == Spec => []FirstInvariant
<1>1. Init => FirstInvariant
  BY InitFirst
<1>2. HistoryInvariant /\ FirstInvariant /\ [Next]_vars => FirstInvariant'
  BY FirstNext
<1> QED
  BY <1>1, <1>2, HistoryIsConsistent, PTL DEF Spec

(* Up to and including the first compaction of a run the logs pass every   *)
(* check the repository makes of them: each request is consistent with the *)
(* retained history, can be replayed before and after the compaction, and  *)
(* continues the request before it (history_verify.py,                     *)
(* history_reconciliation.py and history_evolution.py).                    *)
THEOREM FirstCompactionAlwaysVerifies == Spec => []FirstCompactionVerifies
<1>1. HistoryInvariant /\ FirstInvariant => FirstCompactionVerifies
  BY FirstsVerify
<1> QED
  BY <1>1, HistoryIsConsistent, FirstsAreKept, PTL

=============================================================================
