------------------------------- MODULE Induction -------------------------------
(***************************************************************************)
(* Induction over natural numbers, and what a fold over 1 .. n computes,   *)
(* as facts about sets and functions: the least counterexample in place of *)
(* a predicate; and from them what sorting, filtering and adding up give.  *)
(***************************************************************************)
EXTENDS Listing, FiniteSetsExt, FiniteSetTheorems, WellFoundedInduction, TLAPS

(* A set of natural numbers has a least one.                               *)
LEMMA LeastOf ==
  ASSUME NEW T \in SUBSET Nat, T # {}
  PROVE  \E x \in T : \A y \in T : x <= y
<1>1. PICK x \in T : \A y \in T : <<y, x>> \notin OpToRel(<, Nat)
  BY NatLessThanWellFounded, WFMin, Zenon
<1>2. \A y \in T : ~(y < x)
  BY <1>1, Zenon DEF OpToRel
<1> QED
  BY <1>2

(* What holds of 0 and goes from each number of 1 .. n over to the next    *)
(* holds of all.                                                           *)
LEMMA UpTo ==
  ASSUME NEW n \in Nat, NEW T, 0 \in T,
         \A k \in 1 .. n : k - 1 \in T => k \in T
  PROVE  \A k \in 0 .. n : k \in T
<1> DEFINE missing == {k \in 0 .. n : k \notin T}
<1> SUFFICES ASSUME missing # {}
             PROVE  FALSE
  OBVIOUS
<1>1. missing \in SUBSET Nat
  OBVIOUS
<1>2. PICK k \in missing : \A j \in missing : k <= j
  BY <1>1, LeastOf
<1>3. k \in 1 .. n /\ k - 1 \in 0 .. n /\ k - 1 < k
  BY <1>2
<1> QED
  BY <1>2, <1>3

(* The greatest of a set of numbers.                                       *)
LEMMA MaxIs ==
  ASSUME NEW k \in Nat, NEW s \in SUBSET (1 .. k), k \in s
  PROVE  Max(s) = k
<1>1. k \in s /\ \A y \in s : k >= y
  OBVIOUS
<1>2. \A x \in s : (\A y \in s : x >= y) => x = k
  OBVIOUS
<1> QED
  BY <1>1, <1>2 DEF Max

LEMMA GreatestOf ==
  ASSUME NEW n \in Nat, NEW s \in SUBSET (0 .. n), s # {}
  PROVE  Max(s) \in s /\ \A y \in s : Max(s) >= y
<1> DEFINE T == {n - x : x \in s}
<1>1. T \in SUBSET Nat /\ T # {}
  <2>1. \A x \in s : n - x \in Nat
    OBVIOUS
  <2>2. PICK x : x \in s
    OBVIOUS
  <2> QED
    BY <2>1, <2>2
<1>2. PICK t \in T : \A u \in T : t <= u
  BY <1>1, LeastOf
<1>3. PICK x \in s : t = n - x
  BY <1>2
<1>4. \A y \in s : x >= y
  <2> SUFFICES ASSUME NEW y \in s
               PROVE  x >= y
    OBVIOUS
  <2>1. n - y \in T
    OBVIOUS
  <2>2. n - x <= n - y
    BY <1>2, <1>3, <2>1
  <2> QED
    BY <2>2
<1> QED
  BY <1>4, Zenon DEF Max

LEMMA MaxOf ==
  ASSUME NEW n \in Nat, NEW s \in SUBSET (1 .. n), s # {}
  PROVE  Max(s) \in s
<1>1. s \in SUBSET (0 .. n)
  OBVIOUS
<1> QED
  BY <1>1, GreatestOf

(* The beginnings of 1 .. n, which are what a fold goes through.           *)
LEMMA Beginnings ==
  ASSUME NEW n \in Nat, NEW k \in 1 .. n
  PROVE  /\ 1 .. k \in SUBSET (1 .. n) /\ 1 .. k # {}
         /\ Max(1 .. k) = k /\ (1 .. k) \ {k} = 1 .. (k - 1)
<1>1. k \in 1 .. k /\ 1 .. k \in SUBSET (1 .. k) /\ k \in Nat
  OBVIOUS
<1>2. Max(1 .. k) = k
  BY <1>1, MaxIs
<1>3. (1 .. k) \ {k} = 1 .. (k - 1) /\ 1 .. k \in SUBSET (1 .. n)
  OBVIOUS
<1> QED
  BY <1>1, <1>2, <1>3

(* The function that a fold over 1 .. n iterates: step[k] is what element  *)
(* k does to the values.                                                   *)
Iterates(iter, n, V, base, step) ==
  /\ iter \in [SUBSET (1 .. n) -> V]
  /\ \A s \in SUBSET (1 .. n) :
        iter[s] = IF s = {} THEN base
                  ELSE step[Max(s)][iter[s \ {Max(s)}]]

LEMMA IterExists ==
  ASSUME NEW n \in Nat, NEW V, NEW base \in V, NEW step \in [1 .. n -> [V -> V]]
  PROVE  \E iter : Iterates(iter, n, V, base, step)
<1> DEFINE Iter(m, iter) ==
             /\ iter \in [SUBSET (1 .. m) -> V]
             /\ \A s \in SUBSET (1 .. m) :
                   iter[s] = IF s = {} THEN base
                             ELSE step[Max(s)][iter[s \ {Max(s)}]]
           T == {m \in 0 .. n : \E iter : Iter(m, iter)}
<1>1. 0 \in T
  <2> DEFINE iter == [s \in SUBSET (1 .. 0) |-> base]
  <2>1. 1 .. 0 = {}
    OBVIOUS
  <2>2. Iter(0, iter)
    BY <2>1
  <2>3. 0 \in 0 .. n
    OBVIOUS
  <2> HIDE DEF Iter, iter
  <2> QED
    BY <2>2, <2>3
<1>2. ASSUME NEW m \in 1 .. n, m - 1 \in T
      PROVE  m \in T
  <2>1. PICK before : Iter(m - 1, before)
    BY <1>2
  <2> DEFINE iter == [s \in SUBSET (1 .. m) |->
                        IF m \in s THEN step[m][before[s \ {m}]] ELSE before[s]]
  <2>2. \A s \in SUBSET (1 .. m) : s \ {m} \in SUBSET (1 .. m - 1)
    OBVIOUS
  <2>3. \A s \in SUBSET (1 .. m) : m \notin s => s \in SUBSET (1 .. m - 1)
    OBVIOUS
  <2>4. iter \in [SUBSET (1 .. m) -> V]
    BY <2>1, <2>2, <2>3
  <2>5. ASSUME NEW s \in SUBSET (1 .. m)
        PROVE  iter[s] = IF s = {} THEN base
                         ELSE step[Max(s)][iter[s \ {Max(s)}]]
    <3>1. CASE m \in s
      <4>1. Max(s) = m
        BY <3>1, MaxIs
      <4>2. iter[s \ {m}] = before[s \ {m}]
        BY <2>2
      <4>3. iter[s] = step[m][before[s \ {m}]]
        BY <3>1
      <4> HIDE DEF iter
      <4> QED
        BY <3>1, <4>1, <4>2, <4>3
    <3>2. CASE m \notin s
      <4> DEFINE less == s \ {Max(s)}
      <4>1. s \in SUBSET (1 .. m - 1) /\ less \in SUBSET (1 .. m) /\ m \notin less
        BY <3>2, <2>3
      <4>2. iter[s] = before[s] /\ iter[less] = before[less]
        BY <3>2, <4>1
      <4>3. before[s] = IF s = {} THEN base ELSE step[Max(s)][before[less]]
        BY <2>1, <4>1
      <4> HIDE DEF iter
      <4> QED
        BY <4>2, <4>3
    <3> QED
      BY <3>1, <3>2
  <2> HIDE DEF iter
  <2>6. Iter(m, iter)
    BY <2>4, <2>5
  <2>7. m \in 0 .. n
    OBVIOUS
  <2> HIDE DEF Iter
  <2> QED
    BY <2>6, <2>7
<1>3. \A m \in 0 .. n : m \in T
  <2> HIDE DEF T
  <2> QED
    BY <1>1, <1>2, UpTo
<1>4. \E iter : Iter(n, iter)
  <2> HIDE DEF Iter
  <2> QED
    BY <1>3
<1> QED
  BY <1>4 DEF Iterates

-----------------------------------------------------------------------------
(* Sorting.                                                                *)

Orders(S, R) ==
  /\ \A x \in S : <<x, x>> \notin R
  /\ \A x, y, z \in S : <<x, y>> \in R /\ <<y, z>> \in R => <<x, z>> \in R
  /\ \A x, y \in S : x # y => <<x, y>> \in R \/ <<y, x>> \in R

(* A finite set that is ordered is enumerated, each element once, in its   *)
(* order.                                                                  *)
LEMMA SortedEnumerates ==
  ASSUME NEW S, IsFiniteSet(S), NEW R, Orders(S, R)
  PROVE  /\ Cardinality(S) \in Nat
         /\ Sorted(S, R) \in [1 .. Cardinality(S) -> S]
         /\ Len(Sorted(S, R)) = Cardinality(S)
         /\ \A i, j \in 1 .. Cardinality(S) :
               i < j <=> <<Sorted(S, R)[i], Sorted(S, R)[j]>> \in R
         /\ \A x \in S : \E i \in 1 .. Cardinality(S) : Sorted(S, R)[i] = x
<1> DEFINE N == Cardinality(S)
           below(x) == {y \in S : <<y, x>> \in R}
           place == [x \in S |-> Cardinality(below(x)) + 1]
<1>1. N \in Nat
  BY FS_CardinalityType
<1>2. ASSUME NEW x \in S
      PROVE  /\ Cardinality(below(x)) \in Nat
             /\ place[x] \in 1 .. N
  <2>1. below(x) \in SUBSET S /\ x \notin below(x)
    BY DEF Orders
  <2> HIDE DEF below
  <2>2. IsFiniteSet(below(x)) /\ Cardinality(below(x)) <= N
        /\ (N = Cardinality(below(x)) => S = below(x))
    BY <2>1, FS_Subset
  <2>3. Cardinality(below(x)) \in Nat
    BY <2>2, FS_CardinalityType
  <2> QED
    BY <1>1, <2>1, <2>2, <2>3
<1>3. ASSUME NEW x \in S, NEW y \in S, <<x, y>> \in R
      PROVE  place[x] < place[y]
  <2>1. below(x) \in SUBSET below(y) /\ x \in below(y) /\ x \notin below(x)
    BY <1>3, Zenon DEF Orders
  <2>2. below(y) \in SUBSET S
    OBVIOUS
  <2>3. Cardinality(below(x)) \in Nat /\ Cardinality(below(y)) \in Nat
    BY <1>2
  <2>4. place[x] = Cardinality(below(x)) + 1 /\ place[y] = Cardinality(below(y)) + 1
    OBVIOUS
  <2> HIDE DEF below, place
  <2>5. IsFiniteSet(below(y))
    BY <2>2, FS_Subset
  <2>6. /\ Cardinality(below(x)) <= Cardinality(below(y))
        /\ Cardinality(below(y)) = Cardinality(below(x)) => below(y) = below(x)
    BY <2>1, <2>5, FS_Subset
  <2> QED
    BY <2>1, <2>3, <2>4, <2>6
<1> HIDE DEF place
<1>4. ASSUME NEW x \in S, NEW y \in S
      PROVE  place[x] < place[y] <=> <<x, y>> \in R
  <2>1. place[x] \in 1 .. N /\ place[y] \in 1 .. N
    BY <1>2
  <2>2. x # y => <<x, y>> \in R \/ <<y, x>> \in R
    BY DEF Orders
  <2>3. <<y, x>> \in R => place[y] < place[x]
    BY <1>3
  <2>4. <<x, y>> \in R => place[x] < place[y]
    BY <1>3
  <2> QED
    BY <2>1, <2>2, <2>3, <2>4
<1>5. place \in [S -> 1 .. N] /\ DOMAIN place = S
  BY <1>2 DEF place
<1>6. \A x, y \in S : place[x] = place[y] => x = y
  <2> SUFFICES ASSUME NEW x \in S, NEW y \in S, x # y
               PROVE  place[x] # place[y]
    OBVIOUS
  <2>1. <<x, y>> \in R \/ <<y, x>> \in R
    BY DEF Orders
  <2>2. place[x] \in 1 .. N /\ place[y] \in 1 .. N
    BY <1>2
  <2> QED
    BY <2>1, <2>2, <1>4
<1>7. \A i \in 1 .. N : \E x \in S : place[x] = i
  <2>1. IsFiniteSet(1 .. N) /\ Cardinality(1 .. N) = N
    BY <1>1, FS_Interval
  <2>2. place \in Injection(S, 1 .. N)
    BY <1>5, <1>6, Zenon DEF Injection, IsInjective
  <2>3. place \in Surjection(S, 1 .. N)
    BY <2>1, <2>2, FS_Injection
  <2> QED
    BY <2>3, Zenon DEF Surjection
<1> DEFINE s == Sorted(S, R)
<1>8. ASSUME NEW i \in 1 .. N
      PROVE  s[i] \in S /\ place[s[i]] = i
  <2>1. s[i] = CHOOSE x \in S : Cardinality(below(x)) = i - 1
    BY DEF Sorted
  <2>2. PICK x \in S : place[x] = i
    BY <1>7
  <2>3. Cardinality(below(x)) = i - 1
    BY <1>2, <2>2 DEF place
  <2>4. s[i] \in S /\ Cardinality(below(s[i])) = i - 1
    <3> HIDE DEF below
    <3> QED
      BY <2>1, <2>3
  <2> HIDE DEF below, s
  <2> QED
    BY <2>4 DEF place
<1>9. DOMAIN s = 1 .. N
  BY DEF Sorted
<1>10. s \in [1 .. N -> S]
  <2> DEFINE at(i) == CHOOSE x \in S : Cardinality(below(x)) = i - 1
  <2>1. s = [i \in 1 .. N |-> at(i)]
    BY DEF Sorted
  <2> HIDE DEF s, at
  <2>2. \A i \in 1 .. N : at(i) \in S
    BY <1>8, <2>1
  <2> QED
    BY <2>1, <2>2
<1>11. Len(s) = N
  <2> HIDE DEF s, N
  <2> QED
    BY <1>1, <1>10
<1>12. \A i, j \in 1 .. N : i < j <=> <<s[i], s[j]>> \in R
  <2> HIDE DEF s
  <2> QED
    BY <1>4, <1>8
<1>13. \A x \in S : \E i \in 1 .. N : s[i] = x
  <2> SUFFICES ASSUME NEW x \in S
               PROVE  \E i \in 1 .. N : s[i] = x
    OBVIOUS
  <2>1. place[x] \in 1 .. N
    BY <1>2
  <2>2. s[place[x]] = x
    <3> HIDE DEF s
    <3> QED
      BY <1>6, <1>8, <2>1
  <2> QED
    BY <2>1, <2>2
<1> HIDE DEF s
<1> QED
  BY <1>1, <1>10, <1>11, <1>12, <1>13 DEF s

-----------------------------------------------------------------------------
(* The least of two numbers, and sums.                                     *)

(* Of two numbers, the least is the one that is at most the other.         *)
LEMMA MinOfTwo ==
  ASSUME NEW a \in Nat, NEW b \in Nat
  PROVE  Min({a, b}) = IF a <= b THEN a ELSE b
<1> DEFINE m == IF a <= b THEN a ELSE b
<1>1. m \in {a, b} /\ \A y \in {a, b} : m <= y
  OBVIOUS
<1>2. \A x \in {a, b} : (\A y \in {a, b} : x <= y) => x = m
  OBVIOUS
<1> HIDE DEF m
<1>3. Min({a, b}) = m
  BY <1>1, <1>2 DEF Min
<1> QED
  BY <1>3 DEF m

(* A total is where the sums over the beginnings have got to.              *)
LEMMA TotalIs ==
  ASSUME NEW s \in Seq(Nat)
  PROVE  \E f \in [0 .. Len(s) -> Nat] :
            /\ f[0] = 0
            /\ \A k \in 1 .. Len(s) : f[k] = f[k - 1] + s[k]
            /\ Total(s) = f[Len(s)]
<1> DEFINE n == Len(s)
           step == [k \in 1 .. n |-> [v \in Nat |-> v + s[k]]]
           Iter(g) == g = [t \in SUBSET (DOMAIN s) |->
                             IF t = {} THEN 0
                             ELSE g[t \ {Max(t)}] + s[Max(t)]]
<1>1. n \in Nat /\ DOMAIN s = 1 .. n /\ \A k \in 1 .. n : s[k] \in Nat
  OBVIOUS
<1>2. step \in [1 .. n -> [Nat -> Nat]]
  BY <1>1
<1>3. PICK some : Iterates(some, n, Nat, 0, step)
  <2> HIDE DEF n, step
  <2> QED
    BY <1>1, <1>2, IterExists
<1>4. \E g : Iter(g)
  <2>1. \A t \in SUBSET (1 .. n) : t # {} => Max(t) \in 1 .. n
    <3> HIDE DEF n
    <3> QED
      BY <1>1, MaxOf
  <2>2. Iter(some)
    BY <1>1, <1>3, <2>1 DEF Iterates
  <2> QED
    BY <2>2
<1>5. PICK g : Iter(g) /\ Total(s) = g[DOMAIN s]
  BY <1>4, Zenon DEF Total, FoldLeft, MapThenFoldSet
<1> DEFINE f == [k \in 0 .. n |-> g[1 .. k]]
<1>6. f[0] = 0
  <2>1. 1 .. 0 = {} /\ {} \in SUBSET (DOMAIN s) /\ 0 \in 0 .. n
    BY <1>1
  <2> QED
    BY <1>5, <2>1
<1>7. ASSUME NEW k \in 1 .. n
      PROVE  f[k] = f[k - 1] + s[k]
  <2>1. /\ 1 .. k \in SUBSET (DOMAIN s) /\ 1 .. k # {}
        /\ Max(1 .. k) = k /\ (1 .. k) \ {k} = 1 .. (k - 1)
    <3> HIDE DEF n
    <3> QED
      BY <1>1, Beginnings
  <2>2. g[1 .. k] = g[1 .. (k - 1)] + s[k]
    BY <1>5, <2>1
  <2>3. k \in 0 .. n /\ k - 1 \in 0 .. n
    BY <1>1
  <2> QED
    BY <2>2, <2>3
<1>8. f \in [0 .. n -> Nat]
  <2> DEFINE T == {k \in 0 .. n : f[k] \in Nat}
  <2>1. 0 \in T
    BY <1>1, <1>6
  <2>2. \A k \in 1 .. n : k - 1 \in T => k \in T
    <3> HIDE DEF f
    <3>1. \A k \in 1 .. n : k \in 0 .. n /\ s[k] \in Nat
      BY <1>1
    <3> QED
      BY <3>1, <1>7
  <2>3. \A k \in 0 .. n : k \in T
    <3> HIDE DEF T
    <3> QED
      BY <1>1, <2>1, <2>2, UpTo
  <2> QED
    BY <2>3
<1>9. Total(s) = f[n]
  BY <1>1, <1>5
<1> HIDE DEF f
<1> QED
  BY <1>6, <1>7, <1>8, <1>9

(* The total of nothing, of one number, and of numbers the first of which  *)
(* it is at least.                                                         *)
LEMMA TotalBounds ==
  ASSUME NEW s \in Seq(Nat)
  PROVE  /\ Total(s) \in Nat
         /\ Len(s) = 0 => Total(s) = 0
         /\ Len(s) = 1 => Total(s) = s[1]
         /\ Len(s) > 0 => Total(s) >= s[1]
<1> DEFINE n == Len(s)
<1>1. n \in Nat /\ \A k \in 1 .. n : s[k] \in Nat
  OBVIOUS
<1>2. PICK f \in [0 .. n -> Nat] :
         /\ f[0] = 0
         /\ \A k \in 1 .. n : f[k] = f[k - 1] + s[k]
         /\ Total(s) = f[n]
  BY TotalIs
<1>3. f[n] \in Nat
  BY <1>1
<1>4. n > 0 => f[1] = s[1]
  <2> SUFFICES ASSUME n > 0
               PROVE  f[1] = s[1]
    OBVIOUS
  <2>1. 1 \in 1 .. n /\ f[1] = f[0] + s[1] /\ s[1] \in Nat
    BY <1>1, <1>2
  <2> QED
    BY <1>2, <2>1
<1>5. n > 0 => f[n] >= s[1]
  <2> SUFFICES ASSUME n > 0
               PROVE  f[n] >= s[1]
    OBVIOUS
  <2> DEFINE T == {k \in 0 .. n : k = 0 \/ f[k] >= s[1]}
  <2>1. 0 \in T
    BY <1>1
  <2>2. ASSUME NEW k \in 1 .. n, k - 1 \in T
        PROVE  k \in T
    <3>1. k \in 0 .. n /\ k - 1 \in 0 .. n /\ f[k - 1] \in Nat /\ f[k] \in Nat
          /\ s[k] \in Nat /\ s[1] \in Nat /\ k \in Nat
      BY <1>1
    <3>2. f[k] = f[k - 1] + s[k]
      BY <1>2
    <3>3. CASE k = 1
      BY <3>1, <3>3, <1>4
    <3>4. CASE k # 1
      BY <3>1, <3>2, <3>4, <2>2
    <3> QED
      BY <3>3, <3>4
  <2>3. \A k \in 0 .. n : k \in T
    <3> HIDE DEF T, n
    <3> QED
      BY <1>1, <2>1, <2>2, UpTo
  <2>4. n \in T
    BY <1>1, <2>3
  <2> QED
    BY <2>4
<1> QED
  BY <1>2, <1>3, <1>4, <1>5

-----------------------------------------------------------------------------
(* What of a sequence is in a set.                                         *)

Picks(at, s, K, n) ==
  /\ at \in Seq(1 .. n)
  /\ \A j, k \in 1 .. Len(at) : j < k => at[j] < at[k]
  /\ \A i \in 1 .. n : s[i] \in K => \E j \in 1 .. Len(at) : at[j] = i
  /\ \A j \in 1 .. Len(at) : s[at[j]] \in K

(* The elements in a set are picked from rising places, all of them.       *)
LEMMA OnlyPicks ==
  ASSUME NEW E, NEW s \in Seq(E), NEW K
  PROVE  \E at : /\ Picks(at, s, K, Len(s))
                 /\ Only(s, K) = [j \in 1 .. Len(at) |-> s[at[j]]]
<1> DEFINE n == Len(s)
           step == [k \in 1 .. n |-> [t \in Seq(E) |->
                      IF s[k] \in K THEN Append(t, s[k]) ELSE t]]
           Iter(g) == g = [t \in SUBSET (DOMAIN s) |->
                             IF t = {} THEN <<>>
                             ELSE IF s[Max(t)] \in K
                                  THEN Append(g[t \ {Max(t)}], s[Max(t)])
                                  ELSE g[t \ {Max(t)}]]
<1>1. n \in Nat /\ DOMAIN s = 1 .. n /\ \A k \in 1 .. n : s[k] \in E
  OBVIOUS
<1>2. step \in [1 .. n -> [Seq(E) -> Seq(E)]]
  BY <1>1
<1>3. PICK some : Iterates(some, n, Seq(E), <<>>, step)
  <2>1. <<>> \in Seq(E)
    OBVIOUS
  <2> HIDE DEF n, step
  <2> QED
    BY <1>1, <1>2, <2>1, IterExists
<1>4. \E g : Iter(g)
  <2>1. \A t \in SUBSET (1 .. n) : t # {} => Max(t) \in 1 .. n
    <3> HIDE DEF n
    <3> QED
      BY <1>1, MaxOf
  <2>2. Iter(some)
    <3>1. ASSUME NEW t \in SUBSET (1 .. n)
          PROVE  some[t] = IF t = {} THEN <<>>
                           ELSE IF s[Max(t)] \in K
                                THEN Append(some[t \ {Max(t)}], s[Max(t)])
                                ELSE some[t \ {Max(t)}]
      <4>1. t # {} => some[t \ {Max(t)}] \in Seq(E)
        BY <1>3 DEF Iterates
      <4> QED
        BY <1>1, <1>3, <2>1, <4>1 DEF Iterates
    <3>2. some = [t \in SUBSET (DOMAIN s) |-> some[t]]
      BY <1>1, <1>3 DEF Iterates
    <3> QED
      BY <1>1, <3>1, <3>2
  <2> QED
    BY <2>2
<1>5. PICK g : Iter(g) /\ Only(s, K) = g[DOMAIN s]
  BY <1>4, Zenon DEF Only, FoldLeft, MapThenFoldSet
<1> DEFINE f == [k \in 0 .. n |-> g[1 .. k]]
<1>6. f[0] = <<>>
  <2>1. 1 .. 0 = {} /\ {} \in SUBSET (DOMAIN s) /\ 0 \in 0 .. n
    BY <1>1
  <2> QED
    BY <1>5, <2>1
<1>7. ASSUME NEW k \in 1 .. n
      PROVE  f[k] = IF s[k] \in K THEN Append(f[k - 1], s[k]) ELSE f[k - 1]
  <2>1. /\ 1 .. k \in SUBSET (DOMAIN s) /\ 1 .. k # {}
        /\ Max(1 .. k) = k /\ (1 .. k) \ {k} = 1 .. (k - 1)
    <3> HIDE DEF n
    <3> QED
      BY <1>1, Beginnings
  <2>2. g[1 .. k] = IF s[k] \in K THEN Append(g[1 .. (k - 1)], s[k])
                                  ELSE g[1 .. (k - 1)]
    BY <1>5, <2>1
  <2>3. k \in 0 .. n /\ k - 1 \in 0 .. n
    BY <1>1
  <2> QED
    BY <2>2, <2>3
<1> DEFINE Upto(k, at) == /\ Picks(at, s, K, k)
                          /\ f[k] = [j \in 1 .. Len(at) |-> s[at[j]]]
           T == {k \in 0 .. n : \E at : Upto(k, at)}
<1>8. 0 \in T
  <2>1. Picks(<<>>, s, K, 0)
    BY DEF Picks
  <2>2. [j \in 1 .. Len(<<>>) |-> s[<<>>[j]]] = <<>>
    OBVIOUS
  <2>3. Upto(0, <<>>)
    BY <1>6, <2>1, <2>2
  <2> QED
    BY <1>1, <2>3
<1>9. ASSUME NEW k \in 1 .. n, k - 1 \in T
      PROVE  k \in T
  <2>1. PICK at : Upto(k - 1, at)
    BY <1>9
  <2>2. k \in 0 .. n /\ k \in Nat /\ s[k] \in E
        /\ 1 .. k = (1 .. (k - 1)) \union {k}
    BY <1>1
  <2>3. at \in Seq(1 .. (k - 1)) /\ Len(at) \in Nat
    BY <2>1 DEF Picks
  <2> SUFFICES \E b : Upto(k, b)
    BY <2>2
  <2> HIDE DEF f
  <2>4. CASE s[k] \notin K
    <3>1. Picks(at, s, K, k)
      <4>1. at \in Seq(1 .. k)
        BY <2>2, <2>3
      <4> QED
        BY <2>1, <2>2, <2>4, <4>1 DEF Picks
    <3>2. f[k] = f[k - 1]
      BY <1>7, <2>4
    <3> QED
      BY <2>1, <3>1, <3>2
  <2>5. CASE s[k] \in K
    <3> DEFINE b == Append(at, k)
    <3>1. /\ b \in Seq(1 .. k) /\ Len(b) = Len(at) + 1
          /\ \A j \in 1 .. Len(at) : b[j] = at[j]
          /\ b[Len(b)] = k
      BY <2>2, <2>3
    <3>2. \A j \in 1 .. Len(at) : at[j] \in 1 .. (k - 1)
      BY <2>3
    <3>3. \A j \in 1 .. Len(b) : j = Len(b) \/ j \in 1 .. Len(at)
      BY <3>1, <2>3
    <3> HIDE DEF b
    <3>4. Picks(b, s, K, k)
      <4>1. \A j, l \in 1 .. Len(b) : j < l => b[j] < b[l]
        <5> SUFFICES ASSUME NEW j \in 1 .. Len(b), NEW l \in 1 .. Len(b), j < l
                     PROVE  b[j] < b[l]
          OBVIOUS
        <5>1. j \in 1 .. Len(at) /\ Len(b) \in Nat
          BY <2>3, <3>1
        <5>2. CASE l = Len(b)
          <6>1. at[j] < k
            BY <2>2, <3>2, <5>1
          <6> QED
            BY <3>1, <5>1, <5>2, <6>1
        <5>3. CASE l \in 1 .. Len(at)
          BY <2>1, <3>1, <5>1, <5>3 DEF Picks
        <5> QED
          BY <3>3, <5>2, <5>3
      <4>2. ASSUME NEW i \in 1 .. k, s[i] \in K
            PROVE  \E j \in 1 .. Len(b) : b[j] = i
        <5>1. CASE i = k
          <6>1. Len(b) \in 1 .. Len(b) /\ b[Len(b)] = i
            BY <5>1, <3>1, <2>3
          <6> QED
            BY <6>1
        <5>2. CASE i # k
          <6>1. i \in 1 .. (k - 1)
            BY <5>2, <2>2
          <6>2. PICK j \in 1 .. Len(at) : at[j] = i
            BY <2>1, <4>2, <6>1 DEF Picks
          <6>3. j \in 1 .. Len(b) /\ b[j] = i
            BY <2>3, <3>1, <6>2
          <6> QED
            BY <6>3
        <5> QED
          BY <5>1, <5>2
      <4>3. \A j \in 1 .. Len(b) : s[b[j]] \in K
        BY <2>1, <2>5, <3>1, <3>3 DEF Picks
      <4> QED
        BY <3>1, <4>1, <4>2, <4>3 DEF Picks
    <3>5. f[k] = [j \in 1 .. Len(b) |-> s[b[j]]]
      <4>1. f[k] = Append(f[k - 1], s[k])
        BY <1>7, <2>5
      <4>2. f[k - 1] = [j \in 1 .. Len(at) |-> s[at[j]]]
        BY <2>1
      <4>3. \A j \in 1 .. Len(at) : s[at[j]] \in E
        BY <1>1, <3>2
      <4> DEFINE a == [j \in 1 .. Len(at) |-> s[at[j]]]
                 c == [j \in 1 .. Len(b) |-> s[b[j]]]
      <4>4. a \in Seq(E) /\ Len(a) = Len(at)
        BY <2>3, <4>3
      <4>5. /\ \A j \in 1 .. Len(at) : c[j] = a[j]
            /\ c[Len(b)] = s[k] /\ c \in [1 .. Len(b) -> E]
        BY <3>1, <3>3, <2>3, <2>2, <4>3
      <4> HIDE DEF a, c
      <4>6. c = Append(a, s[k])
        BY <4>4, <4>5, <3>1, <2>3, <2>2
      <4> QED
        BY <4>1, <4>2, <4>6 DEF a, c
    <3> QED
      BY <3>4, <3>5
  <2> QED
    BY <2>4, <2>5
<1>10. \A k \in 0 .. n : k \in T
  <2> HIDE DEF T
  <2> QED
    BY <1>1, <1>8, <1>9, UpTo
<1>11. PICK at : Upto(n, at)
  <2>1. n \in 0 .. n
    BY <1>1
  <2> QED
    BY <1>10, <2>1
<1>12. f[n] = Only(s, K)
  BY <1>1, <1>5
<1> HIDE DEF f
<1> QED
  BY <1>11, <1>12

HowMany(s, L) == Cardinality({i \in DOMAIN s : s[i] \in L})

(* Of a sequence, only what is in a set is as many as there are of that.   *)
LEMMA OnlyCounts ==
  ASSUME NEW E, NEW s \in Seq(E), NEW K, NEW L
  PROVE  /\ Only(s, K) \in Seq(E) /\ Len(Only(s, K)) <= Len(s)
         /\ Range(Only(s, K)) = Range(s) \intersect K
         /\ HowMany(Only(s, K), L) = HowMany(s, K \intersect L)
<1>1. PICK at : /\ Picks(at, s, K, Len(s))
                /\ Only(s, K) = [j \in 1 .. Len(at) |-> s[at[j]]]
  BY OnlyPicks
<1> DEFINE t == Only(s, K)
           S == {i \in DOMAIN t : t[i] \in L}
           U == {i \in DOMAIN s : s[i] \in K \intersect L}
           f == [i \in S |-> at[i]]
<1>2. Len(s) \in Nat /\ DOMAIN s = 1 .. Len(s) /\ \A i \in 1 .. Len(s) : s[i] \in E
  OBVIOUS
<1>3. /\ at \in Seq(1 .. Len(s)) /\ Len(at) \in Nat
      /\ \A j \in 1 .. Len(at) : at[j] \in 1 .. Len(s) /\ s[at[j]] \in K
  BY <1>1 DEF Picks
<1>4. t \in [1 .. Len(at) -> E] /\ DOMAIN t = 1 .. Len(at)
      /\ \A j \in 1 .. Len(at) : t[j] = s[at[j]]
  BY <1>1, <1>2, <1>3
<1>5. t \in Seq(E) /\ Len(t) = Len(at)
  BY <1>3, <1>4
<1> HIDE DEF t
<1>6. Range(t) = Range(s) \intersect K
  <2>1. ASSUME NEW x \in Range(s) \intersect K
        PROVE  x \in Range(t)
    <3>1. PICK i \in 1 .. Len(s) : s[i] = x
      BY <1>2 DEF Range
    <3>2. PICK j \in 1 .. Len(at) : at[j] = i
      BY <1>1, <3>1 DEF Picks
    <3> QED
      BY <1>4, <3>1, <3>2 DEF Range
  <2> QED
    BY <1>2, <1>3, <1>4, <2>1 DEF Range
<1>7. f \in [S -> U]
  BY <1>2, <1>3, <1>4
<1>8. \A i, j \in S : f[i] = f[j] => i = j
  <2> SUFFICES ASSUME NEW i \in S, NEW j \in S, at[i] = at[j]
               PROVE  i = j
    OBVIOUS
  <2>1. i \in 1 .. Len(at) /\ j \in 1 .. Len(at)
    BY <1>4
  <2>2. i < j => at[i] < at[j]
    BY <1>1, <2>1 DEF Picks
  <2>3. j < i => at[j] < at[i]
    BY <1>1, <2>1 DEF Picks
  <2>4. at[i] \in Int /\ i \in Int /\ j \in Int
    BY <1>3, <2>1
  <2> QED
    BY <2>2, <2>3, <2>4
<1>9. \A u \in U : \E i \in S : f[i] = u
  <2> SUFFICES ASSUME NEW u \in U
               PROVE  \E i \in S : f[i] = u
    OBVIOUS
  <2>1. PICK j \in 1 .. Len(at) : at[j] = u
    BY <1>1, <1>2 DEF Picks
  <2> QED
    BY <1>4, <2>1
<1>10. f \in Injection(S, U)
  BY <1>7, <1>8 DEF Injection, IsInjective
<1>11. f \in Surjection(S, U)
  BY <1>7, <1>9 DEF Surjection
<1>12. IsFiniteSet(U)
  <2>1. IsFiniteSet(1 .. Len(s)) /\ U \in SUBSET (1 .. Len(s))
    BY <1>2, FS_Interval
  <2> QED
    BY <2>1, FS_Subset
<1>13. Cardinality(S) = Cardinality(U)
  BY <1>10, <1>11, <1>12, FS_Injection
<1>14. Len(at) <= Len(s)
  <2>1. DOMAIN at = 1 .. Len(at)
    BY <1>3
  <2>2. at \in [1 .. Len(at) -> 1 .. Len(s)]
    BY <1>3
  <2>3. at \in Injection(1 .. Len(at), 1 .. Len(s))
    <3> SUFFICES ASSUME NEW i \in 1 .. Len(at), NEW j \in 1 .. Len(at), at[i] = at[j]
                 PROVE  i = j
      BY <2>2 DEF Injection, IsInjective
    <3>1. i < j => at[i] < at[j]
      BY <1>1 DEF Picks
    <3>2. j < i => at[j] < at[i]
      BY <1>1 DEF Picks
    <3>3. at[i] \in Int /\ i \in Int /\ j \in Int
      BY <1>3
    <3> QED
      BY <3>1, <3>2, <3>3
  <2>4. IsFiniteSet(1 .. Len(s)) /\ Cardinality(1 .. Len(s)) = Len(s)
        /\ Cardinality(1 .. Len(at)) = Len(at)
    <3>1. \A n \in Nat : IsFiniteSet(1 .. n) /\ Cardinality(1 .. n) = n
      <4> SUFFICES ASSUME NEW n \in Nat
                   PROVE  IsFiniteSet(1 .. n) /\ Cardinality(1 .. n) = n
        OBVIOUS
      <4>1. Cardinality(1 .. n) = IF 1 > n THEN 0 ELSE n - 1 + 1
        BY FS_Interval
      <4> QED
        BY <4>1, FS_Interval
    <3> QED
      BY <3>1, <1>2, <1>3
  <2>5. Cardinality(1 .. Len(at)) <= Cardinality(1 .. Len(s))
    BY <2>3, <2>4, FS_Injection
  <2> QED
    BY <2>4, <2>5
<1> HIDE DEF S, U
<1> QED
  BY <1>5, <1>6, <1>13, <1>14 DEF S, U, t, HowMany

(* What two sequences hold together.                                       *)
LEMMA RangeOfBoth ==
  ASSUME NEW E, NEW s \in Seq(E), NEW t \in Seq(E)
  PROVE  Range(s \o t) = Range(s) \union Range(t)
<1> DEFINE u == s \o t
<1>1. /\ DOMAIN u = 1 .. Len(s) + Len(t) /\ Len(s) \in Nat /\ Len(t) \in Nat
      /\ DOMAIN s = 1 .. Len(s) /\ DOMAIN t = 1 .. Len(t)
      /\ \A i \in 1 .. Len(s) : u[i] = s[i]
      /\ \A i \in 1 .. Len(t) : u[Len(s) + i] = t[i]
  OBVIOUS
<1>2. \A i \in 1 .. Len(s) + Len(t) :
         i \in 1 .. Len(s) \/ (i - Len(s) \in 1 .. Len(t) /\ i = Len(s) + (i - Len(s)))
  BY <1>1
<1> HIDE DEF u
<1>3. \A x \in Range(u) : x \in Range(s) \union Range(t)
  <2> SUFFICES ASSUME NEW i \in 1 .. Len(s) + Len(t)
               PROVE  u[i] \in Range(s) \union Range(t)
    BY <1>1 DEF Range
  <2>1. CASE i \in 1 .. Len(s)
    BY <1>1, <2>1 DEF Range
  <2>2. CASE i - Len(s) \in 1 .. Len(t) /\ i = Len(s) + (i - Len(s))
    <3>1. u[i] = t[i - Len(s)]
      BY <1>1, <2>2
    <3> QED
      BY <1>1, <2>2, <3>1 DEF Range
  <2> QED
    BY <1>2, <2>1, <2>2
<1>4. \A x \in Range(s) \union Range(t) : x \in Range(u)
  <2>1. \A i \in 1 .. Len(s) : i \in 1 .. Len(s) + Len(t)
    BY <1>1
  <2>2. \A i \in 1 .. Len(t) : Len(s) + i \in 1 .. Len(s) + Len(t)
    BY <1>1
  <2> QED
    BY <1>1, <2>1, <2>2 DEF Range
<1> QED
  BY <1>3, <1>4 DEF u

(* The values that a recursion over 0 .. n takes.                          *)
Recurs(f, n, V, base, step) ==
  /\ f \in [0 .. n -> V] /\ f[0] = base
  /\ \A k \in 1 .. n : f[k] = step[k][f[k - 1]]

LEMMA StepsExist ==
  ASSUME NEW n \in Nat, NEW V, NEW base \in V, NEW step \in [1 .. n -> [V -> V]]
  PROVE  \E f : Recurs(f, n, V, base, step)
<1>1. PICK iter : Iterates(iter, n, V, base, step)
  BY IterExists
<1> DEFINE f == [k \in 0 .. n |-> iter[1 .. k]]
<1>2. f \in [0 .. n -> V]
  <2>1. \A k \in 0 .. n : 1 .. k \in SUBSET (1 .. n)
    OBVIOUS
  <2> QED
    BY <1>1, <2>1 DEF Iterates
<1>3. f[0] = base
  <2>1. 1 .. 0 = {} /\ {} \in SUBSET (1 .. n) /\ 0 \in 0 .. n
    OBVIOUS
  <2> QED
    BY <1>1, <2>1 DEF Iterates
<1>4. ASSUME NEW k \in 1 .. n
      PROVE  f[k] = step[k][f[k - 1]]
  <2>1. /\ 1 .. k \in SUBSET (1 .. n) /\ 1 .. k # {}
        /\ Max(1 .. k) = k /\ (1 .. k) \ {k} = 1 .. (k - 1)
    BY Beginnings
  <2>2. k \in 0 .. n /\ k - 1 \in 0 .. n
    OBVIOUS
  <2>3. iter[1 .. k] = step[k][iter[1 .. (k - 1)]]
    BY <1>1, <2>1 DEF Iterates
  <2> QED
    BY <2>2, <2>3
<1> HIDE DEF f
<1> QED
  BY <1>2, <1>3, <1>4 DEF Recurs

(* The least of a set of numbers, and the greater of two.                  *)
LEMMA MinIs ==
  ASSUME NEW T \in SUBSET Nat, T # {}
  PROVE  Min(T) \in T /\ \A y \in T : Min(T) <= y
<1>1. PICK x \in T : \A y \in T : x <= y
  BY LeastOf
<1> QED
  BY <1>1, Zenon DEF Min

LEMMA MaxOfTwo ==
  ASSUME NEW a \in Int, NEW b \in Int
  PROVE  Max({a, b}) = IF a >= b THEN a ELSE b
<1> DEFINE m == IF a >= b THEN a ELSE b
<1>1. m \in {a, b} /\ \A y \in {a, b} : m >= y
  OBVIOUS
<1>2. \A x \in {a, b} : (\A y \in {a, b} : x >= y) => x = m
  OBVIOUS
<1> HIDE DEF m
<1>3. Max({a, b}) = m
  BY <1>1, <1>2 DEF Max
<1> QED
  BY <1>3 DEF m

LEMMA CountedFrom ==
  ASSUME NEW m \in Nat
  PROVE  /\ IsFiniteSet(0 .. m - 1) /\ Cardinality(0 .. m - 1) = m
         /\ IsFiniteSet(1 .. m) /\ Cardinality(1 .. m) = m
<1>1. /\ IsFiniteSet(0 .. m - 1)
      /\ Cardinality(0 .. m - 1) = IF 0 > m - 1 THEN 0 ELSE m - 1 - 0 + 1
  BY FS_Interval
<1>2. /\ IsFiniteSet(1 .. m)
      /\ Cardinality(1 .. m) = IF 1 > m THEN 0 ELSE m - 1 + 1
  BY FS_Interval
<1> QED
  BY <1>1, <1>2

(* Where a division has got to.                                            *)
LEMMA Divided ==
  ASSUME NEW a \in Nat, NEW b \in Nat \ {0}
  PROVE  a \div b \in Nat /\ b * (a \div b) <= a /\ a < b * ((a \div b) + 1)
OBVIOUS

LEMMA DividedIs ==
  ASSUME NEW a \in Nat, NEW b \in Nat \ {0}, NEW q \in Nat, b * q <= a
  PROVE  /\ q <= a \div b
         /\ a < b * (q + 1) => a \div b = q
<1> DEFINE d == a \div b
<1>1. d \in Nat /\ b * d <= a /\ a < b * (d + 1)
  BY Divided
<1> HIDE DEF d
<1>2. ~(d < q)
  <2> SUFFICES ASSUME d + 1 <= q
               PROVE  FALSE
    BY <1>1
  <2>1. b * (d + 1) <= b * q
    BY <1>1
  <2>2. b * (d + 1) \in Nat /\ b * q \in Nat
    BY <1>1
  <2> QED
    BY <1>1, <2>1, <2>2
<1>3. ASSUME a < b * (q + 1)
      PROVE  ~(q < d)
  <2> SUFFICES ASSUME q + 1 <= d
               PROVE  FALSE
    BY <1>1
  <2>1. b * (q + 1) <= b * d
    BY <1>1
  <2>2. b * (q + 1) \in Nat /\ b * d \in Nat
    BY <1>1
  <2> QED
    BY <1>1, <1>3, <2>1, <2>2
<1>4. q <= d /\ (a < b * (q + 1) => d = q)
  BY <1>1, <1>2, <1>3
<1> QED
  BY <1>4 DEF d

(* One sequence of many.                                                   *)
Flattens(f, E, seqs) ==
  /\ f \in [0 .. Len(seqs) -> Seq(E)] /\ f[0] = <<>>
  /\ \A k \in 1 .. Len(seqs) : f[k] = f[k - 1] \o seqs[k]
  /\ FlattenSeq(seqs) = f[Len(seqs)]

LEMMA FlattenIs ==
  ASSUME NEW E, NEW seqs \in Seq(Seq(E))
  PROVE  \E f : Flattens(f, E, seqs)
<1> DEFINE n == Len(seqs)
           V == Seq(E)
           step == [k \in 1 .. n |-> [v \in V |-> v \o seqs[k]]]
           Rec(h) == h = [i \in 1 .. n |-> IF i = 1 THEN seqs[i] ELSE h[i - 1] \o seqs[i]]
<1>1. n \in Nat /\ \A k \in 1 .. n : seqs[k] \in V
  OBVIOUS
<1>2. step \in [1 .. n -> [V -> V]] /\ <<>> \in V
  <2>1. \A k \in 1 .. n : \A v \in V : v \o seqs[k] \in V
    BY <1>1
  <2>2. <<>> \in V
    OBVIOUS
  <2> HIDE DEF n, V
  <2> QED
    BY <2>1, <2>2
<1>3. PICK f : Recurs(f, n, V, <<>>, step)
  <2> HIDE DEF n, V, step
  <2> QED
    BY <1>1, <1>2, StepsExist
<1>4. /\ f \in [0 .. n -> V] /\ f[0] = <<>>
      /\ \A k \in 1 .. n : f[k] = f[k - 1] \o seqs[k]
  <2>1. /\ f \in [0 .. n -> V] /\ f[0] = <<>>
        /\ \A k \in 1 .. n : f[k] = step[k][f[k - 1]]
    BY <1>3 DEF Recurs
  <2>2. \A k \in 1 .. n : f[k - 1] \in V
    <3>1. \A k \in 1 .. n : k - 1 \in 0 .. n
      BY <1>1
    <3> HIDE DEF n, V
    <3> QED
      BY <2>1, <3>1
  <2> HIDE DEF n, V
  <2> QED
    BY <2>1, <2>2
<1>5. CASE n = 0
  <2>1. FlattenSeq(seqs) = <<>>
    <3>1. FlattenSeq(seqs) = seqs
      BY <1>5 DEF FlattenSeq
    <3> QED
      BY <1>5, <3>1
  <2> QED
    BY <1>4, <1>5, <2>1 DEF Flattens
<1>6. CASE n # 0
  <2> DEFINE h == [i \in 1 .. n |-> f[i]]
  <2>1. Rec(h)
    <3>1. ASSUME NEW i \in 1 .. n
          PROVE  h[i] = IF i = 1 THEN seqs[i] ELSE h[i - 1] \o seqs[i]
      <4>1. f[i] = f[i - 1] \o seqs[i]
        BY <1>4
      <4>2. CASE i = 1
        <5>1. <<>> \o seqs[1] = seqs[1]
          <6>1. seqs[1] \in Seq(E)
            BY <1>1, <4>2
          <6> QED
            BY <6>1
        <5>2. h[1] = f[1] /\ f[1] = f[0] \o seqs[1]
          <6>1. i - 1 = 0
            BY <4>2
          <6>2. h[i] = f[i]
            OBVIOUS
          <6> QED
            BY <4>1, <4>2, <6>1, <6>2
        <5> QED
          BY <1>4, <4>2, <5>1, <5>2
      <4>3. CASE i # 1
        <5>1. i - 1 \in 1 .. n
          BY <1>1, <4>3
        <5> QED
          BY <4>1, <4>3, <5>1
      <4> QED
        BY <4>2, <4>3
    <3> HIDE DEF n
    <3>2. h = [i \in 1 .. n |-> h[i]]
      OBVIOUS
    <3> HIDE DEF h
    <3> QED
      BY <3>1, <3>2
  <2> DEFINE up == CHOOSE g : Rec(g)
  <2>2. Rec(up)
    <3> HIDE DEF Rec
    <3> QED
      BY <2>1
  <2>3. FlattenSeq(seqs) = up[n]
    BY <1>6, Zenon DEF FlattenSeq
  <2> HIDE DEF up
  <2> DEFINE Q == {k \in 0 .. n : k # 0 => up[k] = f[k]}
  <2>4. 0 \in Q
    BY <1>1
  <2>5. ASSUME NEW k \in 1 .. n, k - 1 \in Q
        PROVE  k \in Q
    <3>1. k \in 0 .. n
      BY <1>1
    <3>2. up[k] = IF k = 1 THEN seqs[k] ELSE up[k - 1] \o seqs[k]
      BY <2>2
    <3>3. h[k] = IF k = 1 THEN seqs[k] ELSE h[k - 1] \o seqs[k]
      BY <2>1
    <3>4. h[k] = f[k] /\ (k # 1 => k - 1 # 0 /\ h[k - 1] = f[k - 1])
      BY <1>1
    <3>5. k # 1 => up[k - 1] = f[k - 1]
      BY <2>5, <3>4
    <3> QED
      BY <3>1, <3>2, <3>3, <3>4, <3>5
  <2>6. \A k \in 0 .. n : k \in Q
    <3> HIDE DEF Q, n
    <3> QED
      BY <1>1, <2>4, <2>5, UpTo
  <2>7. FlattenSeq(seqs) = f[n]
    <3>1. n \in 0 .. n
      BY <1>1
    <3> HIDE DEF n
    <3> QED
      BY <1>6, <2>3, <2>6, <3>1
  <2> QED
    BY <1>4, <2>7 DEF Flattens
<1> QED
  BY <1>5, <1>6

(* A sequence that holds a set, each of it once, in the order of R.        *)
Rises(s, S, R) ==
  /\ s \in Seq(S) /\ Range(s) = S
  /\ \A i, j \in DOMAIN s : i < j => <<s[i], s[j]>> \in R

LEMMA RisesTogether ==
  ASSUME NEW S, NEW T, NEW R, NEW s, NEW t, Rises(s, S, R), Rises(t, T, R),
         \A x \in S : \A y \in T : <<x, y>> \in R
  PROVE  Rises(s \o t, S \union T, R)
<1> DEFINE U == S \union T
           m == Len(s)
           n == Len(t)
           u == s \o t
<1>1. /\ s \in Seq(S) /\ t \in Seq(T) /\ Range(s) = S /\ Range(t) = T
      /\ m \in Nat /\ n \in Nat /\ DOMAIN s = 1 .. m /\ DOMAIN t = 1 .. n
      /\ \A i \in 1 .. m : s[i] \in S
      /\ \A i \in 1 .. n : t[i] \in T
  BY DEF Rises
<1>2. s \in Seq(U) /\ t \in Seq(U)
  <2> HIDE DEF U
  <2>1. S \subseteq U /\ T \subseteq U
    BY DEF U
  <2> QED
    BY <1>1, <2>1
<1> HIDE DEF U
<1>3. /\ u \in Seq(U) /\ Range(u) = U
  <2>1. Range(u) = Range(s) \union Range(t)
    BY <1>2, RangeOfBoth
  <2> QED
    BY <1>1, <1>2, <2>1 DEF U
<1>4. /\ DOMAIN u = 1 .. m + n
      /\ \A i \in 1 .. m + n : u[i] = IF i <= m THEN s[i] ELSE t[i - m]
  BY <1>2
<1> HIDE DEF u, m, n
<1>5. ASSUME NEW i \in 1 .. m + n, NEW j \in 1 .. m + n, i < j
      PROVE  <<u[i], u[j]>> \in R
  <2>1. CASE j <= m
    <3>1. i \in 1 .. m /\ j \in 1 .. m
      BY <1>1, <1>5, <2>1
    <3> QED
      BY <1>1, <1>4, <1>5, <3>1 DEF Rises
  <2>2. CASE i > m
    <3>1. i - m \in 1 .. n /\ j - m \in 1 .. n /\ i - m < j - m /\ ~(i <= m) /\ ~(j <= m)
      BY <1>1, <1>5, <2>2
    <3> QED
      BY <1>1, <1>4, <1>5, <3>1 DEF Rises
  <2>3. CASE i <= m /\ ~(j <= m)
    <3>1. i \in 1 .. m /\ j - m \in 1 .. n
      BY <1>1, <1>5, <2>3
    <3> QED
      BY <1>1, <1>4, <2>3, <3>1
  <2> QED
    BY <1>1, <2>1, <2>2, <2>3
<1> QED
  BY <1>3, <1>4, <1>5 DEF Rises, U, u

(* Many of them, one after the other.                                      *)
LEMMA RisesInAll ==
  ASSUME NEW E, NEW seqs \in Seq(Seq(E)), NEW R,
         NEW sets \in [1 .. Len(seqs) -> SUBSET E],
         \A k \in 1 .. Len(seqs) : Rises(seqs[k], sets[k], R),
         \A k, l \in 1 .. Len(seqs) : k < l =>
            \A x \in sets[k] : \A y \in sets[l] : <<x, y>> \in R
  PROVE  Rises(FlattenSeq(seqs), UNION {sets[k] : k \in 1 .. Len(seqs)}, R)
<1> DEFINE n == Len(seqs)
           U(k) == UNION {sets[l] : l \in 1 .. k}
<1>1. PICK f : Flattens(f, E, seqs)
  BY FlattenIs
<1>2. /\ f[0] = <<>> /\ FlattenSeq(seqs) = f[n]
      /\ \A k \in 1 .. n : f[k] = f[k - 1] \o seqs[k]
  BY <1>1 DEF Flattens
<1> DEFINE T == {k \in 0 .. n : Rises(f[k], U(k), R)}
<1>3. n \in Nat
  OBVIOUS
<1> HIDE DEF n
<1>4. 0 \in T
  <2>1. U(0) = {}
    OBVIOUS
  <2>2. Rises(<<>>, {}, R)
    <3>1. <<>> \in Seq({}) /\ DOMAIN <<>> = {}
      OBVIOUS
    <3> QED
      BY <3>1 DEF Rises, Range
  <2> HIDE DEF U
  <2>3. Rises(f[0], U(0), R)
    BY <1>2, <2>1, <2>2, Zenon
  <2> QED
    BY <1>3, <2>3
<1>5. ASSUME NEW k \in 1 .. n, k - 1 \in T
      PROVE  k \in T
  <2>1. U(k) = U(k - 1) \union sets[k]
    <3>1. \A l \in 1 .. k : l \in 1 .. k - 1 \/ l = k
      BY <1>3
    <3>2. \A l \in 1 .. k - 1 : l \in 1 .. k
      BY <1>3
    <3>3. k \in 1 .. k
      BY <1>3
    <3> QED
      BY <3>1, <3>2, <3>3
  <2>2. \A x \in U(k - 1) : \A y \in sets[k] : <<x, y>> \in R
    <3> SUFFICES ASSUME NEW l \in 1 .. k - 1, NEW x \in sets[l], NEW y \in sets[k]
                 PROVE  <<x, y>> \in R
      OBVIOUS
    <3>1. l \in 1 .. n /\ l < k
      BY <1>3
    <3> QED
      BY <3>1 DEF n
  <2>3. Rises(f[k - 1], U(k - 1), R)
    BY <1>5
  <2>4. Rises(seqs[k], sets[k], R)
    BY DEF n
  <2> HIDE DEF U
  <2>5. Rises(f[k - 1] \o seqs[k], U(k - 1) \union sets[k], R)
    BY <2>2, <2>3, <2>4, RisesTogether
  <2>6. f[k] = f[k - 1] \o seqs[k]
    BY <1>2, Zenon
  <2>7. Rises(f[k], U(k), R)
    BY <2>1, <2>5, <2>6, Zenon
  <2>8. k \in 0 .. n
    BY <1>3
  <2> QED
    BY <2>7, <2>8
<1>6. \A k \in 0 .. n : k \in T
  <2> HIDE DEF T
  <2> QED
    BY <1>3, <1>4, <1>5, UpTo
<1>7. n \in 0 .. n
  BY <1>3
<1> QED
  BY <1>2, <1>6, <1>7 DEF n

LEMMA RisesOnly ==
  ASSUME NEW S, NEW R, NEW s, Rises(s, S, R), NEW K
  PROVE  Rises(Only(s, K), S \intersect K, R)
<1> DEFINE n == Len(s)
           o == Only(s, K)
<1>1. s \in Seq(S) /\ Range(s) = S /\ n \in Nat /\ DOMAIN s = 1 .. n
  BY DEF Rises
<1>2. PICK at : Picks(at, s, K, n) /\ o = [j \in 1 .. Len(at) |-> s[at[j]]]
  BY <1>1, OnlyPicks
<1>3. /\ at \in Seq(1 .. n) /\ Len(at) \in Nat /\ DOMAIN at = 1 .. Len(at)
      /\ \A j, k \in 1 .. Len(at) : j < k => at[j] < at[k]
      /\ \A i \in 1 .. n : s[i] \in K => \E j \in 1 .. Len(at) : at[j] = i
      /\ \A j \in 1 .. Len(at) : at[j] \in 1 .. n /\ s[at[j]] \in K
  BY <1>2 DEF Picks
<1> HIDE DEF n, o
<1>4. \A j \in 1 .. Len(at) : o[j] = s[at[j]] /\ o[j] \in S \intersect K
  BY <1>1, <1>2, <1>3 DEF n
<1>5. o \in Seq(S \intersect K) /\ DOMAIN o = 1 .. Len(at)
  BY <1>2, <1>3, <1>4
<1>6. Range(o) = S \intersect K
  <2>1. ASSUME NEW x \in S \intersect K
        PROVE  x \in Range(o)
    <3>1. PICK i \in 1 .. n : s[i] = x
      BY <1>1 DEF Range
    <3>2. PICK j \in 1 .. Len(at) : at[j] = i
      BY <1>3, <3>1
    <3> QED
      BY <1>4, <1>5, <3>1, <3>2 DEF Range
  <2> QED
    BY <1>4, <1>5, <2>1 DEF Range
<1>7. \A j, k \in DOMAIN o : j < k => <<o[j], o[k]>> \in R
  BY <1>1, <1>3, <1>4, <1>5 DEF Rises
<1> QED
  BY <1>5, <1>6, <1>7 DEF Rises, o

(* What each of it is made into.                                           *)
LEMMA RisesMapped ==
  ASSUME NEW S, NEW R, NEW s, Rises(s, S, R), NEW g, DOMAIN g = S, NEW Q,
         \A x, y \in S : <<x, y>> \in R => <<g[x], g[y]>> \in Q
  PROVE  Rises([i \in DOMAIN s |-> g[s[i]]], {g[x] : x \in S}, Q)
<1> DEFINE t == [i \in DOMAIN s |-> g[s[i]]]
           T == {g[x] : x \in S}
<1>1. s \in Seq(S) /\ Len(s) \in Nat /\ DOMAIN s = 1 .. Len(s) /\ Range(s) = S
  BY DEF Rises
<1>2. \A i \in 1 .. Len(s) : s[i] \in S /\ g[s[i]] \in T
  BY <1>1
<1>3. t \in Seq(T)
  <2> HIDE DEF T
  <2> QED
    BY <1>1, <1>2
<1>4. Range(t) = T
  BY <1>1 DEF Range
<1>5. \A i, j \in DOMAIN t : i < j => <<t[i], t[j]>> \in Q
  BY <1>1, <1>2 DEF Rises
<1> QED
  BY <1>3, <1>4, <1>5 DEF Rises

(* As many as the set has, and each at the place that those before it      *)
(* leave it.                                                               *)
LEMMA RisesCounts ==
  ASSUME NEW S, NEW R, NEW s, Rises(s, S, R),
         \A x, y \in S : <<x, y>> \in R => <<y, x>> \notin R
  PROVE  /\ IsFiniteSet(S) /\ Cardinality(S) = Len(s)
         /\ \A i \in DOMAIN s : Cardinality({y \in S : <<y, s[i]>> \in R}) + 1 = i
<1> DEFINE n == Len(s)
<1>1. s \in Seq(S) /\ n \in Nat /\ DOMAIN s = 1 .. n /\ Range(s) = S
  BY DEF Rises
<1>2. \A i \in 1 .. n : s[i] \in S
  BY <1>1
<1>3. \A i, j \in 1 .. n : i < j <=> <<s[i], s[j]>> \in R
  <2> SUFFICES ASSUME NEW i \in 1 .. n, NEW j \in 1 .. n, <<s[i], s[j]>> \in R, ~(i < j)
               PROVE  FALSE
    BY <1>1 DEF Rises
  <2>1. CASE j < i
    BY <1>1, <1>2, <2>1 DEF Rises
  <2>2. CASE i = j
    BY <1>2, <2>2
  <2> QED
    BY <1>1, <2>1, <2>2
<1>4. \A i, j \in 1 .. n : s[i] = s[j] => i = j
  <2> SUFFICES ASSUME NEW i \in 1 .. n, NEW j \in 1 .. n, s[i] = s[j], i # j
               PROVE  FALSE
    OBVIOUS
  <2>1. ~(i < i) /\ ~(j < j) /\ (i < j \/ j < i)
    BY <1>1
  <2>2. <<s[i], s[i]>> \notin R
    BY <1>3, <2>1
  <2>3. <<s[i], s[j]>> \in R \/ <<s[j], s[i]>> \in R
    BY <1>3, <2>1
  <2> QED
    BY <2>2, <2>3
<1> HIDE DEF n
<1>5. ASSUME NEW k \in 0 .. n, NEW P, P = {s[i] : i \in 1 .. k}
      PROVE  IsFiniteSet(P) /\ Cardinality(P) = k
  <2> DEFINE g == [i \in 1 .. k |-> s[i]]
  <2>1. \A i \in 1 .. k : i \in 1 .. n
    BY <1>1
  <2>2. g \in [1 .. k -> P] /\ \A i, j \in 1 .. k : g[i] = g[j] => i = j
    BY <1>4, <1>5, <2>1
  <2>3. \A p \in P : \E i \in 1 .. k : g[i] = p
    BY <1>5
  <2> HIDE DEF g
  <2>4. g \in Bijection(1 .. k, P)
    BY <2>2, <2>3 DEF Bijection, Injection, Surjection, IsInjective
  <2>5. IsFiniteSet(1 .. k) /\ Cardinality(1 .. k) = k /\ k \in Nat
    BY <1>1, CountedFrom
  <2> QED
    BY <2>4, <2>5, FS_Bijection DEF ExistsBijection
<1>6. S = {s[i] : i \in 1 .. n}
  BY <1>1 DEF Range
<1>7. IsFiniteSet(S) /\ Cardinality(S) = n
  BY <1>1, <1>5, <1>6
<1>8. ASSUME NEW i \in 1 .. n
      PROVE  Cardinality({y \in S : <<y, s[i]>> \in R}) + 1 = i
  <2>1. {y \in S : <<y, s[i]>> \in R} = {s[j] : j \in 1 .. i - 1}
    <3>1. \A j \in 1 .. n : j < i <=> j \in 1 .. i - 1
      BY <1>1
    <3>2. \A j \in 1 .. i - 1 : j \in 1 .. n
      BY <1>1
    <3> QED
      BY <1>3, <1>6, <3>1, <3>2
  <2>2. i - 1 \in 0 .. n
    BY <1>1
  <2>3. Cardinality({y \in S : <<y, s[i]>> \in R}) = i - 1
    BY <1>5, <2>1, <2>2
  <2> QED
    BY <1>1, <2>3
<1> QED
  BY <1>1, <1>7, <1>8 DEF n
==============================================================================
