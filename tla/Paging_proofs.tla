---------------------------- MODULE Paging_proofs ----------------------------
(***************************************************************************)
(* Proofs about Paging: a reading in pages loses nothing and repeats       *)
(* nothing, each page fits, and the answers without pages are exact, for   *)
(* every limit, budget, and number of lines and keys.                      *)
(***************************************************************************)
EXTENDS Paging, Induction, FiniteSetTheorems

-----------------------------------------------------------------------------
(* Positions and their order.                                              *)

Typed ==
  /\ kind \in Kinds /\ limit \in 1 .. MaxLimit
  /\ lines \in [File -> Seq(Line)]
  /\ kind = "logs" => lines[2] = <<>>

(* A position is a file and a line of it, and of logs there is one file.   *)
LEMMA PositionsAre ==
  ASSUME Typed, NEW p \in Position
  PROVE  /\ p = <<p[1], p[2]>> /\ p[1] \in {1, 2} /\ p[2] \in Nat
         /\ 1 <= p[2] /\ p[2] <= Len(lines[p[1]])
         /\ At(p) \in Line /\ At(p).key \in 1 .. MaxKey
         /\ At(p).size \in Nat
         /\ kind = "logs" => p[1] = 1
<1>1. /\ p \in File \X (1 .. MaxLines) /\ p[2] <= Len(lines[p[1]])
  BY DEF Position
<1>2. p = <<p[1], p[2]>> /\ p[1] \in {1, 2} /\ p[2] \in Nat /\ 1 <= p[2]
  BY <1>1, BoundsAssumption DEF File
<1>3. lines[p[1]] \in Seq(Line)
  BY <1>2 DEF Typed, File
<1>4. At(p) \in Line
  BY <1>1, <1>2, <1>3 DEF At
<1>5. At(p).key \in 1 .. MaxKey /\ At(p).size \in Nat
  BY <1>4, BoundsAssumption DEF Line, Small, Large
<1>6. kind = "logs" => p[1] = 1
  <2> SUFFICES ASSUME kind = "logs", p[1] = 2
               PROVE  FALSE
    BY <1>2
  <2>1. Len(lines[2]) = 0
    BY DEF Typed
  <2> QED
    BY <1>1, <1>2, <2>1
<1> QED
  BY <1>1, <1>2, <1>4, <1>5, <1>6

(* There are finitely many positions.                                      *)
LEMMA PositionsAreFinite ==
  IsFiniteSet(Position) /\ \A S \in SUBSET Position : IsFiniteSet(S)
<1>1. IsFiniteSet(1 .. MaxLines) /\ IsFiniteSet(1 .. 2) /\ 1 .. 2 = File
  <2>1. 1 \in Int /\ MaxLines \in Int /\ 2 \in Int
    BY BoundsAssumption
  <2>2. 1 .. 2 = File
    BY DEF File
  <2> QED
    BY <2>1, <2>2, FS_Interval
<1>2. IsFiniteSet(File \X (1 .. MaxLines))
  BY <1>1, FS_Product
<1>3. Position \in SUBSET (File \X (1 .. MaxLines))
  BY DEF Position
<1>4. IsFiniteSet(Position)
  BY <1>2, <1>3, FS_Subset
<1> QED
  BY <1>4, FS_Subset

(* compareSortKeys and the order of collection make one strict order of all*)
(* positions.                                                              *)
LEMMA SortingIsAnOrder ==
  ASSUME Typed
  PROVE  /\ \A p \in Position : ~SortsBefore(p, p)
         /\ \A p, q, r \in Position :
               SortsBefore(p, q) /\ SortsBefore(q, r) => SortsBefore(p, r)
         /\ \A p, q \in Position : p # q => SortsBefore(p, q) \/ SortsBefore(q, p)
<1>1. \A p \in Position : /\ p = <<p[1], p[2]>> /\ p[1] \in Int /\ p[2] \in Int
                          /\ At(p).key \in Int
  BY PositionsAre
<1> HIDE DEF Typed
<1>2. \A p, q \in Position : p # q => p[1] # q[1] \/ p[2] # q[2]
  BY <1>1
<1>3. \A p \in Position : ~SortsBefore(p, p)
  BY <1>1 DEF SortsBefore, Precedes
<1>4. \A p, q \in Position : p # q => SortsBefore(p, q) \/ SortsBefore(q, p)
  BY <1>1, <1>2 DEF SortsBefore, Precedes
<1>5. ASSUME NEW p \in Position, NEW q \in Position, NEW r \in Position,
             SortsBefore(p, q), SortsBefore(q, r)
      PROVE  SortsBefore(p, r)
  <2> DEFINE kp == At(p).key
             kq == At(q).key
             kr == At(r).key
  <2>1. kp \in Int /\ kq \in Int /\ kr \in Int
        /\ p[1] \in Int /\ p[2] \in Int /\ q[1] \in Int /\ q[2] \in Int
        /\ r[1] \in Int /\ r[2] \in Int
    BY <1>1
  <2>2. IF kind = "sort" /\ kp # kq THEN kp < kq ELSE Precedes(p, q)
    BY <1>5 DEF SortsBefore
  <2>3. IF kind = "sort" /\ kq # kr THEN kq < kr ELSE Precedes(q, r)
    BY <1>5 DEF SortsBefore
  <2>4. Precedes(p, q) /\ Precedes(q, r) => Precedes(p, r)
    BY <2>1 DEF Precedes
  <2> HIDE DEF kp, kq, kr
  <2>5. IF kind = "sort" /\ kp # kr THEN kp < kr ELSE Precedes(p, r)
    BY <2>1, <2>2, <2>3, <2>4
  <2> QED
    BY <2>5 DEF SortsBefore, kp, kr
<1> QED
  BY <1>3, <1>4, <1>5

(* Sorting loses no position and repeats none.                             *)
LEMMA InOrderEnumerates ==
  ASSUME Typed, NEW S \in SUBSET Position
  PROVE  /\ Len(InOrder(S)) \in Nat /\ Len(InOrder(S)) = Cardinality(S)
         /\ InOrder(S) \in [1 .. Len(InOrder(S)) -> S]
         /\ \A i, j \in 1 .. Len(InOrder(S)) :
               i < j <=> SortsBefore(InOrder(S)[i], InOrder(S)[j])
         /\ \A p \in S : \E i \in 1 .. Len(InOrder(S)) : InOrder(S)[i] = p
<1> DEFINE R == {e \in S \X S : SortsBefore(e[1], e[2])}
           N == Cardinality(S)
<1>1. \A p, q \in S : <<p, q>> \in R <=> SortsBefore(p, q)
  OBVIOUS
<1>2. InOrder(S) = Sorted(S, R)
  BY DEF InOrder
<1> HIDE DEF R
<1>3. Orders(S, R)
  <2>1. \A p \in S : <<p, p>> \notin R
    BY <1>1, SortingIsAnOrder
  <2>2. \A p, q, r \in S : <<p, q>> \in R /\ <<q, r>> \in R => <<p, r>> \in R
    BY <1>1, SortingIsAnOrder
  <2>3. \A p, q \in S : p # q => <<p, q>> \in R \/ <<q, p>> \in R
    BY <1>1, SortingIsAnOrder
  <2> QED
    BY <2>1, <2>2, <2>3 DEF Orders
<1>4. IsFiniteSet(S)
  BY PositionsAreFinite
<1>5. /\ N \in Nat /\ InOrder(S) \in [1 .. N -> S] /\ Len(InOrder(S)) = N
      /\ \A i, j \in 1 .. N :
            i < j <=> <<InOrder(S)[i], InOrder(S)[j]>> \in R
      /\ \A p \in S : \E i \in 1 .. N : InOrder(S)[i] = p
  BY <1>2, <1>3, <1>4, SortedEnumerates
<1>6. \A i, j \in 1 .. N : i < j <=> SortsBefore(InOrder(S)[i], InOrder(S)[j])
  <2>1. \A i \in 1 .. N : InOrder(S)[i] \in S
    BY <1>5
  <2> QED
    BY <1>1, <1>5, <2>1
<1>7. Len(InOrder(S)) = N /\ Len(InOrder(S)) = Cardinality(S)
  BY <1>5
<1> HIDE DEF N
<1> QED
  BY <1>5, <1>6, <1>7

-----------------------------------------------------------------------------
(* What a page does.                                                       *)

Held(c) ==
  c = None \/ /\ c \in Cursor /\ c.kind = kind
              /\ kind = "logs" => c.pos <= Len(lines[1])

(* What a page hands out as its cursor is one, and not the lack of one.    *)
LEMMA ResumeIs ==
  ASSUME NEW k \in Kinds, NEW f \in File, NEW n \in Nat
  PROVE  LET c == Resume(k, f, n)
         IN  c \in Cursor /\ c # None /\ c.kind = k /\ c.file = f /\ c.pos = n
<1>1. Resume(k, f, n) \in Cursor
  BY DEF Resume, Cursor
<1> QED
  BY <1>1, NoneAssumption DEF Resume

(* A cursor names a kind, a file and a place.                              *)
LEMMA CursorsAre ==
  ASSUME NEW c \in Cursor
  PROVE  c # None /\ c.kind \in Kinds /\ c.file \in {1, 2} /\ c.pos \in Nat
BY NoneAssumption DEF Cursor, File

(* What a cursor has passed sorts before what it has not.                  *)
LEMMA PassedFirst ==
  ASSUME Typed, NEW c, Held(c), NEW p \in Position, NEW q \in Position,
         Passed(p, c), ~Passed(q, c)
  PROVE  SortsBefore(p, q)
<1>1. /\ p[1] \in {1, 2} /\ p[2] \in Nat /\ At(p).key \in Nat
      /\ q[1] \in {1, 2} /\ q[2] \in Nat /\ At(q).key \in Nat
      /\ kind = "logs" => p[1] = 1 /\ q[1] = 1
  BY PositionsAre
<1>2. c # None /\ c \in Cursor /\ c.kind = kind
  BY DEF Passed, Held
<1>3. c.file \in {1, 2} /\ c.pos \in Nat
  BY <1>2, CursorsAre
<1>4. CASE kind = "logs"
  <2>1. p[2] < c.pos /\ ~(q[2] < c.pos)
    BY <1>2, <1>4 DEF Passed
  <2> QED
    BY <1>1, <1>3, <1>4, <2>1 DEF SortsBefore, Precedes
<1>5. CASE kind = "stream"
  <2>1. Precedes(p, <<c.file, c.pos>>) /\ ~Precedes(q, <<c.file, c.pos>>)
    BY <1>2, <1>5 DEF Passed
  <2>2. Precedes(p, q)
    BY <1>1, <1>3, <2>1 DEF Precedes
  <2> QED
    BY <1>5, <2>2 DEF SortsBefore
<1>6. CASE kind = "sort"
  <2>1. At(p).key <= c.pos /\ ~(At(q).key <= c.pos)
    BY <1>2, <1>6 DEF Passed
  <2> QED
    BY <1>1, <1>3, <1>6, <2>1 DEF SortsBefore
<1> QED
  BY <1>4, <1>5, <1>6 DEF Typed, Kinds

(* What is left for the page from a cursor.                                *)
Left(c) == {p \in Wanted : ~Passed(p, c)}

(* What is left is what each way of reading selects from its cursor on.    *)
LEMMA LeftIs ==
  ASSUME Typed, NEW c, Held(c)
  PROVE  /\ Left(c) \in SUBSET Position
         /\ kind = "logs" =>
              Left(c) = {p \in Wanted : p[1] = 1
                                        /\ p[2] >= IF c = None THEN 1 ELSE c.pos}
         /\ kind = "stream" =>
              Left(c) = {p \in Wanted : ~Precedes(p, IF c = None THEN <<1, 1>>
                                                     ELSE <<c.file, c.pos>>)}
         /\ kind = "sort" =>
              Left(c) = {p \in Wanted : ResumesAfter(p, IF c = None THEN 0 ELSE c.pos)}
<1>1. Wanted \in SUBSET Position
  BY DEF Wanted
<1>2. c # None => c.file \in {1, 2} /\ c.pos \in Nat
  BY CursorsAre DEF Held
<1>3. \A p \in Wanted : /\ p[1] \in {1, 2} /\ p[2] \in Nat /\ 1 <= p[2]
                        /\ At(p).key \in Nat /\ At(p).key > 0
                        /\ kind = "logs" => p[1] = 1
  BY <1>1, PositionsAre
<1>4. ASSUME kind = "logs", NEW p \in Wanted
      PROVE  ~Passed(p, c) <=> p[1] = 1 /\ p[2] >= IF c = None THEN 1 ELSE c.pos
  <2>1. Passed(p, c) <=> c # None /\ p[2] < c.pos
    BY <1>4 DEF Passed
  <2> QED
    BY <1>2, <1>3, <1>4, <2>1
<1>5. ASSUME kind = "stream", NEW p \in Wanted
      PROVE  ~Passed(p, c) <=> ~Precedes(p, IF c = None THEN <<1, 1>>
                                            ELSE <<c.file, c.pos>>)
  <2>1. Passed(p, c) <=> c # None /\ Precedes(p, <<c.file, c.pos>>)
    BY <1>5 DEF Passed
  <2>2. ~Precedes(p, <<1, 1>>)
    BY <1>3 DEF Precedes
  <2> QED
    BY <2>1, <2>2
<1>6. ASSUME kind = "sort", NEW p \in Wanted
      PROVE  ~Passed(p, c) <=> ResumesAfter(p, IF c = None THEN 0 ELSE c.pos)
  <2>1. Passed(p, c) <=> c # None /\ At(p).key <= c.pos
    BY <1>6 DEF Passed
  <2> QED
    BY <1>2, <1>3, <2>1 DEF ResumesAfter
<1> QED
  BY <1>1, <1>4, <1>5, <1>6 DEF Left

(* A page takes the first of what is left, up to the limit, and something  *)
(* if there is anything.                                                   *)
Takes(found, n, a) ==
  /\ n \in 0 .. Len(found) /\ n <= limit
  /\ n = 0 => Len(found) = 0
  /\ a = Answer(SubSeq(found, 1, n), a.next, a.cut) /\ a.cut \in BOOLEAN
  /\ CASE kind = "logs" ->
            /\ a.next = LogsNext(found, n)
            /\ a.cut <=> n > 0 /\ At(found[1]).size > Budget
            /\ n <= 1 \/ Sizes(SubSeq(found, 1, n)) <= Budget
       [] kind = "stream" ->
            /\ a.next = IF n < Len(found)
                        THEN Resume("stream", found[n + 1][1], found[n + 1][2])
                        ELSE None
            /\ ~a.cut
       [] kind = "sort" ->
            /\ a.next = IF n < Len(found)
                        THEN Resume("sort", 1, At(found[n]).key) ELSE None
            /\ ~a.cut

(* Each of the three ways of reading takes its page so.                    *)
LEMMA PagesTake ==
  ASSUME Typed, NEW c, Held(c)
  PROVE  \E n : Takes(InOrder(Left(c)), n, PageFrom(c))
<1> DEFINE found == InOrder(Left(c))
           N == Len(found)
           a == PageFrom(c)
<1>1. N \in Nat
  BY LeftIs, InOrderEnumerates
<1>2. limit \in Nat /\ limit >= 1
  BY DEF Typed
<1>3. CASE kind = "logs"
  <2> DEFINE from == IF c = None THEN 1 ELSE c.pos
             K == {k \in 0 .. N :
                     /\ k <= limit
                     /\ k <= 1 \/ Sizes(SubSeq(found, 1, k)) <= Budget}
             n == Max(K)
             cut == n > 0 /\ At(found[1]).size > Budget
  <2>1. a = LogsPage(from)
    BY <1>3 DEF PageFrom
  <2>2. Left(c) = {p \in Wanted : p[1] = 1 /\ p[2] >= from}
    BY <1>3, LeftIs
  <2> HIDE DEF from, a
  <2>3. a = Answer(SubSeq(found, 1, n), LogsNext(found, n), cut)
    BY <2>1, <2>2, Zenon DEF LogsPage
  <2>4. 0 \in K /\ (N > 0 => 1 \in K) /\ K \in SUBSET (0 .. N)
    BY <1>1, <1>2
  <2> HIDE DEF found
  <2>5. n \in K /\ \A k \in K : n >= k
    <3> HIDE DEF K, N
    <3> QED
      BY <1>1, <2>4, GreatestOf
  <2>6. n \in 0 .. N /\ n <= limit /\ (n <= 1 \/ Sizes(SubSeq(found, 1, n)) <= Budget)
    BY <2>5
  <2>7. n = 0 => N = 0
    BY <1>1, <2>4, <2>5
  <2> HIDE DEF n
  <2>8. a.next = LogsNext(found, n) /\ a.cut = cut
    BY <2>3 DEF Answer
  <2>11. cut \in BOOLEAN
    OBVIOUS
  <2>9. a = Answer(SubSeq(found, 1, n), a.next, a.cut)
    BY <2>3 DEF Answer
  <2>10. Takes(found, n, a)
    BY <1>3, <2>6, <2>7, <2>8, <2>9, <2>11 DEF Takes
  <2> QED
    BY <2>10 DEF found, a
<1>4. CASE kind = "stream"
  <2> DEFINE from == IF c = None THEN <<1, 1>> ELSE <<c.file, c.pos>>
             n == Min({limit, N})
             next == IF n < N THEN Resume("stream", found[n + 1][1], found[n + 1][2])
                     ELSE None
  <2>1. a = StreamPage(from[1], from[2]) /\ from = <<from[1], from[2]>>
    BY <1>4 DEF PageFrom
  <2>2. Left(c) = {p \in Wanted : ~Precedes(p, <<from[1], from[2]>>)}
    BY <1>4, <2>1, LeftIs
  <2> HIDE DEF from, a
  <2>3. a = Answer(SubSeq(found, 1, n), next, FALSE)
    BY <2>1, <2>2, Zenon DEF StreamPage
  <2> HIDE DEF found
  <2>4. n = IF limit <= N THEN limit ELSE N
    <3> HIDE DEF N
    <3> QED
      BY <1>1, <1>2, MinOfTwo
  <2>5. n \in 0 .. N /\ n <= limit /\ (n = 0 => N = 0)
    <3> HIDE DEF N, n
    <3> QED
      BY <1>1, <1>2, <2>4
  <2> HIDE DEF n
  <2>6. a.next = next /\ a.cut = FALSE
        /\ a = Answer(SubSeq(found, 1, n), a.next, a.cut)
    BY <2>3 DEF Answer
  <2>7. Takes(found, n, a)
    BY <1>4, <2>5, <2>6 DEF Takes
  <2> QED
    BY <2>7 DEF found, a
<1>5. CASE kind = "sort"
  <2> DEFINE from == IF c = None THEN 0 ELSE c.pos
             n == Min({limit, N})
             next == IF n > 0 /\ n < N THEN Resume("sort", 1, At(found[n]).key)
                     ELSE None
  <2>1. a = SortPage(from)
    BY <1>5 DEF PageFrom
  <2>2. Left(c) = {p \in Wanted : ResumesAfter(p, from)}
    BY <1>5, LeftIs
  <2> HIDE DEF from, a
  <2>3. a = Answer(SubSeq(found, 1, n), next, FALSE)
    BY <2>1, <2>2, Zenon DEF SortPage
  <2> HIDE DEF found
  <2>4. n = IF limit <= N THEN limit ELSE N
    <3> HIDE DEF N
    <3> QED
      BY <1>1, <1>2, MinOfTwo
  <2>5. n \in 0 .. N /\ n <= limit /\ (n = 0 => N = 0)
        /\ (n < N => n > 0)
    <3> HIDE DEF N, n
    <3> QED
      BY <1>1, <1>2, <2>4
  <2> HIDE DEF n
  <2>6. a.next = next /\ a.cut = FALSE
        /\ a = Answer(SubSeq(found, 1, n), a.next, a.cut)
    BY <2>3 DEF Answer
  <2>7. Takes(found, n, a)
    BY <1>5, <2>5, <2>6 DEF Takes
  <2> QED
    BY <2>7 DEF found, a
<1> QED
  BY <1>3, <1>4, <1>5 DEF Typed, Kinds

(* A page goes on from its cursor: what it returns is left, in order, and  *)
(* its own cursor has passed just that, but for a tie.                     *)
Continues(c, a) ==
  /\ a.records \in Seq(Left(c))
  /\ \A i, j \in DOMAIN a.records : i < j => SortsBefore(a.records[i], a.records[j])
  /\ Held(a.next)
  /\ a.next # None =>
       /\ \A i \in DOMAIN a.records : Passed(a.records[i], a.next)
       /\ \A p \in Position : Passed(p, c) => Passed(p, a.next)
  /\ \A p \in Left(c) : a.next = None \/ Passed(p, a.next)
                          => p \in Range(a.records) \/ Tied(p)

(* The first of an order.                                                  *)
LEMMA TakenAre ==
  ASSUME Typed, NEW S \in SUBSET Position, NEW n \in 0 .. Len(InOrder(S))
  PROVE  LET found == InOrder(S)
             taken == SubSeq(found, 1, n)
         IN  /\ taken \in Seq(S) /\ Len(taken) = n /\ DOMAIN taken = 1 .. n
             /\ \A i \in 1 .. n : taken[i] = found[i] /\ taken[i] \in S
             /\ \A i, j \in 1 .. n : i < j => SortsBefore(taken[i], taken[j])
             /\ \A p \in S : p \in Range(taken)
                               \/ \E i \in n + 1 .. Len(found) : p = found[i]
<1> DEFINE found == InOrder(S)
           N == Len(found)
           taken == SubSeq(found, 1, n)
<1>1. /\ N \in Nat /\ found \in [1 .. N -> S]
      /\ \A i, j \in 1 .. N : i < j <=> SortsBefore(found[i], found[j])
      /\ \A p \in S : \E i \in 1 .. N : found[i] = p
  BY InOrderEnumerates
<1>0. n \in 0 .. N
  OBVIOUS
<1> HIDE DEF found
<1>2. found \in Seq(S)
  BY <1>1
<1>3. /\ taken \in Seq(S) /\ Len(taken) = n /\ DOMAIN taken = 1 .. n
      /\ \A i \in 1 .. n : taken[i] = found[i] /\ taken[i] \in S
  BY <1>0, <1>1, <1>2
<1>4. \A i \in 1 .. n : i \in 1 .. N
  BY <1>0, <1>1
<1>5. \A i, j \in 1 .. n : i < j => SortsBefore(taken[i], taken[j])
  BY <1>1, <1>3, <1>4
<1>6. ASSUME NEW p \in S
      PROVE  p \in Range(taken) \/ \E i \in n + 1 .. N : p = found[i]
  <2>1. PICK i \in 1 .. N : found[i] = p
    BY <1>1
  <2>2. CASE i <= n
    <3>1. i \in 1 .. n /\ taken[i] = p
      BY <1>1, <1>3, <2>1, <2>2
    <3> QED
      BY <1>3, <3>1 DEF Range
  <2>3. CASE ~(i <= n)
    <3>1. i \in n + 1 .. N
      BY <1>1, <2>3
    <3> QED
      BY <2>1, <3>1
  <2> QED
    BY <2>2, <2>3
<1> QED
  BY <1>3, <1>5, <1>6 DEF found

(* Pages of logs, of a stream and of a sorted source.                      *)
LEMMA LogsContinue ==
  ASSUME Typed, NEW c, Held(c), NEW n, NEW a,
         Takes(InOrder(Left(c)), n, a), kind = "logs"
  PROVE  Continues(c, a)
<1> DEFINE found == InOrder(Left(c))
           N == Len(found)
           taken == SubSeq(found, 1, n)
<1>1. /\ Left(c) \in SUBSET Position
      /\ Left(c) = {p \in Wanted : p[1] = 1 /\ p[2] >= IF c = None THEN 1 ELSE c.pos}
  BY LeftIs
<1>2. /\ N \in Nat /\ found \in [1 .. N -> Left(c)]
      /\ \A i, j \in 1 .. N : i < j <=> SortsBefore(found[i], found[j])
  BY <1>1, InOrderEnumerates
<1>3. n \in 0 .. N /\ n <= limit /\ (n = 0 => N = 0)
      /\ a.records = taken /\ a.next = LogsNext(found, n)
  BY DEF Takes, Answer
<1>4. /\ taken \in Seq(Left(c)) /\ Len(taken) = n /\ DOMAIN taken = 1 .. n
      /\ \A i \in 1 .. n : taken[i] = found[i] /\ taken[i] \in Left(c)
      /\ \A i, j \in 1 .. n : i < j => SortsBefore(taken[i], taken[j])
      /\ \A p \in Left(c) : p \in Range(taken) \/ \E i \in n + 1 .. N : p = found[i]
  BY <1>1, <1>3, TakenAre
<1>5. \A p \in Position : p[1] = 1 /\ p[2] \in Nat /\ 1 <= p[2] /\ p[2] <= Len(lines[1])
  BY PositionsAre
<1>6. Len(lines[1]) \in Nat /\ limit \in Nat /\ limit >= 1
  BY DEF Typed, File
<1> HIDE DEF found, taken
<1>7. \A i, j \in 1 .. N : i < j <=> found[i][2] < found[j][2]
  <2>1. \A i \in 1 .. N : found[i] \in Position
    BY <1>1, <1>2
  <2>2. \A p, q \in Position : SortsBefore(p, q) <=> p[2] < q[2]
    BY <1>5 DEF SortsBefore, Precedes
  <2> QED
    BY <1>2, <2>1, <2>2
<1>8. \A i \in 1 .. N : found[i][2] \in Nat /\ 1 <= found[i][2]
                        /\ found[i][2] <= Len(lines[1])
                        /\ (c # None => c.pos <= found[i][2])
  BY <1>1, <1>2, <1>5
<1>9. c # None => c.pos \in Nat
  BY CursorsAre DEF Held
(* The cursor is behind all that was taken and at or before the rest.      *)
<1>10. ASSUME a.next # None
       PROVE  /\ a.next \in Cursor /\ a.next.kind = kind
              /\ a.next.pos \in Nat /\ a.next.pos <= Len(lines[1])
              /\ \A i \in 1 .. n : found[i][2] < a.next.pos
              /\ \A i \in n + 1 .. N : a.next.pos <= found[i][2]
              /\ c # None => c.pos <= a.next.pos
  <2>1. CASE n = limit
    <3>1. n \in 1 .. N /\ found[n][2] < Len(lines[1])
          /\ a.next = Resume("logs", 1, found[n][2] + 1)
      BY <1>3, <1>6, <1>10, <2>1 DEF LogsNext
    <3>2. found[n][2] + 1 \in Nat /\ found[n][2] + 1 <= Len(lines[1])
      BY <1>6, <1>8, <3>1
    <3>3. a.next \in Cursor /\ a.next.kind = "logs" /\ a.next.pos = found[n][2] + 1
      BY <3>1, <3>2, ResumeIs DEF Kinds, File
    <3>4. \A i \in 1 .. n : found[i][2] < found[n][2] + 1
      <4> SUFFICES ASSUME NEW i \in 1 .. n
                   PROVE  found[i][2] < found[n][2] + 1
        OBVIOUS
      <4>1. i \in 1 .. N /\ (i < n \/ i = n)
        BY <1>3
      <4> QED
        BY <1>7, <1>8, <3>1, <4>1
    <3>5. \A i \in n + 1 .. N : found[n][2] + 1 <= found[i][2]
      <4> SUFFICES ASSUME NEW i \in n + 1 .. N
                   PROVE  found[n][2] + 1 <= found[i][2]
        OBVIOUS
      <4>1. i \in 1 .. N /\ n < i
        BY <1>3
      <4> QED
        BY <1>7, <1>8, <3>1, <4>1
    <3>6. c # None => c.pos <= found[n][2] + 1
      BY <1>8, <1>9, <3>1
    <3> QED
      BY <3>2, <3>3, <3>4, <3>5, <3>6
  <2>2. CASE n # limit
    <3>1. n + 1 \in 1 .. N /\ a.next = Resume("logs", 1, found[n + 1][2])
      BY <1>2, <1>3, <1>10, <2>2 DEF LogsNext
    <3>2. a.next \in Cursor /\ a.next.kind = "logs" /\ a.next.pos = found[n + 1][2]
      BY <1>8, <3>1, ResumeIs DEF Kinds, File
    <3>3. \A i \in 1 .. n : found[i][2] < found[n + 1][2]
      BY <1>3, <1>7, <3>1
    <3>4. \A i \in n + 1 .. N : found[n + 1][2] <= found[i][2]
      <4> SUFFICES ASSUME NEW i \in n + 1 .. N
                   PROVE  found[n + 1][2] <= found[i][2]
        OBVIOUS
      <4>1. i \in 1 .. N /\ (n + 1 < i \/ i = n + 1)
        BY <1>3
      <4> QED
        BY <1>7, <1>8, <3>1, <4>1
    <3> QED
      BY <1>8, <3>1, <3>2, <3>3, <3>4
  <2> QED
    BY <2>1, <2>2
(* There is no cursor only when all was taken.                             *)
<1>11. ASSUME a.next = None
       PROVE  n = N
  <2>1. CASE n = limit
    <3>1. n \in 1 .. N
      BY <1>3, <1>6, <2>1
    <3>2. ~(found[n][2] < Len(lines[1]))
      <4> SUFFICES ASSUME found[n][2] < Len(lines[1])
                   PROVE  FALSE
        OBVIOUS
      <4>1. a.next = Resume("logs", 1, found[n][2] + 1)
        BY <1>3, <2>1 DEF LogsNext
      <4>2. found[n][2] + 1 \in Nat
        BY <1>8, <3>1
      <4> QED
        BY <1>11, <4>1, <4>2, ResumeIs DEF Kinds, File
    <3>3. ASSUME n # N
          PROVE  FALSE
      <4>1. n + 1 \in 1 .. N /\ n < n + 1
        <5>1. n \in 1 .. N /\ N \in Nat /\ n # N
          BY <1>2, <3>1, <3>3
        <5> HIDE DEF N
        <5> QED
          BY <5>1
      <4> QED
        BY <1>6, <1>7, <1>8, <3>1, <3>2, <4>1
    <3> QED
      BY <3>3
  <2>2. CASE n # limit
    <3>1. ASSUME n < N
          PROVE  FALSE
      <4>1. a.next = Resume("logs", 1, found[n + 1][2]) /\ n + 1 \in 1 .. N
        BY <1>2, <1>3, <2>2, <3>1 DEF LogsNext
      <4> QED
        BY <1>8, <1>11, <4>1, ResumeIs DEF Kinds, File
    <3>2. n \in 0 .. N /\ N \in Nat /\ ~(n < N)
      BY <1>2, <1>3, <3>1
    <3> HIDE DEF N
    <3> QED
      BY <3>2
  <2> QED
    BY <2>1, <2>2
<1>12. ASSUME a.next # None, NEW p
       PROVE  Passed(p, a.next) <=> p[2] < a.next.pos
  BY <1>12 DEF Passed
<1>13. \A i \in 1 .. n : a.records[i] = found[i] /\ DOMAIN a.records = 1 .. n
  BY <1>3, <1>4
<1>14. Held(a.next)
  BY <1>10 DEF Held
<1>15. a.next # None =>
         /\ \A i \in DOMAIN a.records : Passed(a.records[i], a.next)
         /\ \A p \in Position : Passed(p, c) => Passed(p, a.next)
  <2> SUFFICES ASSUME a.next # None
               PROVE  /\ \A i \in DOMAIN a.records : Passed(a.records[i], a.next)
                      /\ \A p \in Position : Passed(p, c) => Passed(p, a.next)
    OBVIOUS
  <2>1. \A i \in DOMAIN a.records : Passed(a.records[i], a.next)
    BY <1>3, <1>4, <1>10, <1>12
  <2>2. ASSUME NEW p \in Position, Passed(p, c)
        PROVE  Passed(p, a.next)
    <3>1. c # None /\ p[2] < c.pos
      BY <2>2 DEF Passed
    <3>2. p[2] < a.next.pos
      BY <1>5, <1>9, <1>10, <3>1
    <3> QED
      BY <1>12, <3>2
  <2> QED
    BY <2>1, <2>2
<1>16. ASSUME NEW p \in Left(c), a.next = None \/ Passed(p, a.next)
       PROVE  p \in Range(a.records)
  <2> SUFFICES ASSUME NEW i \in n + 1 .. N, p = found[i]
               PROVE  FALSE
    BY <1>3, <1>4
  <2>1. i \in 1 .. N /\ n # N
    BY <1>2, <1>3
  <2>2. a.next # None /\ Passed(p, a.next)
    BY <1>11, <1>16, <2>1
  <2>3. p[2] < a.next.pos /\ a.next.pos <= found[i][2] /\ found[i][2] \in Nat
        /\ a.next.pos \in Nat
    BY <1>8, <1>10, <1>12, <2>1, <2>2
  <2> QED
    BY <2>3
<1> QED
  BY <1>3, <1>4, <1>14, <1>15, <1>16 DEF Continues

(* A page of a stream ends where the next record begins.                   *)
LEMMA StreamContinues ==
  ASSUME Typed, NEW c, Held(c), NEW n, NEW a,
         Takes(InOrder(Left(c)), n, a), kind = "stream"
  PROVE  Continues(c, a)
<1> DEFINE found == InOrder(Left(c))
           N == Len(found)
           taken == SubSeq(found, 1, n)
<1>1. Left(c) \in SUBSET Position
  BY LeftIs
<1>2. /\ N \in Nat /\ found \in [1 .. N -> Left(c)]
      /\ \A i, j \in 1 .. N : i < j <=> SortsBefore(found[i], found[j])
  BY <1>1, InOrderEnumerates
<1>3. n \in 0 .. N /\ n <= limit /\ (n = 0 => N = 0) /\ a.records = taken
      /\ a.next = IF n < N THEN Resume("stream", found[n + 1][1], found[n + 1][2])
                  ELSE None
  BY DEF Takes, Answer
<1>4. /\ taken \in Seq(Left(c)) /\ Len(taken) = n /\ DOMAIN taken = 1 .. n
      /\ \A i \in 1 .. n : taken[i] = found[i] /\ taken[i] \in Left(c)
      /\ \A i, j \in 1 .. n : i < j => SortsBefore(taken[i], taken[j])
      /\ \A p \in Left(c) : p \in Range(taken) \/ \E i \in n + 1 .. N : p = found[i]
  BY <1>1, <1>3, TakenAre
<1>5. \A p \in Position : p = <<p[1], p[2]>> /\ p[1] \in {1, 2} /\ p[2] \in Nat
  BY PositionsAre
<1> HIDE DEF found, taken
<1>6. \A i, j \in 1 .. N : i < j <=> Precedes(found[i], found[j])
  BY <1>2 DEF SortsBefore
<1>7. \A i \in 1 .. N : found[i] \in Position /\ found[i] \in Left(c)
                        /\ found[i] = <<found[i][1], found[i][2]>>
                        /\ found[i][1] \in File /\ found[i][2] \in Nat
  BY <1>1, <1>2, <1>5 DEF File
<1> HIDE DEF N
<1>8. CASE n = N
  <2>1. a.next = None
    BY <1>2, <1>3, <1>8
  <2>2. \A p \in Left(c) : p \in Range(a.records)
    <3> SUFFICES ASSUME NEW i \in n + 1 .. N
                 PROVE  FALSE
      BY <1>3, <1>4
    <3> QED
      BY <1>2, <1>8
  <2> QED
    BY <1>3, <1>4, <2>1, <2>2 DEF Continues, Held
<1>9. CASE n # N
  <2>1. n + 1 \in 1 .. N /\ n < N
    BY <1>2, <1>3, <1>9
  <2> DEFINE q == found[n + 1]
  <2>2. a.next \in Cursor /\ a.next # None /\ a.next.kind = "stream"
        /\ <<a.next.file, a.next.pos>> = q
    BY <1>3, <1>7, <2>1, ResumeIs DEF Kinds
  <2>3. q \in Position /\ q \in Left(c)
    BY <1>7, <2>1
  <2>4. ASSUME NEW p
        PROVE  Passed(p, a.next) <=> Precedes(p, q)
    BY <2>2 DEF Passed
  <2>5. \A i \in DOMAIN a.records : Passed(a.records[i], a.next)
    <3> SUFFICES ASSUME NEW i \in 1 .. n
                 PROVE  Precedes(found[i], q)
      BY <1>3, <1>4, <2>4
    <3>1. i \in 1 .. N /\ i < n + 1
      BY <1>2, <1>3, <2>1
    <3> QED
      BY <1>6, <2>1, <3>1
  <2> HIDE DEF q
  <2>6. ASSUME NEW p \in Position, Passed(p, c)
        PROVE  Passed(p, a.next)
    <3>1. ~Passed(q, c)
      BY <2>3 DEF Left
    <3>2. SortsBefore(p, q)
      BY <2>3, <2>6, <3>1, PassedFirst
    <3> QED
      BY <2>4, <3>2 DEF SortsBefore
  <2>7. ASSUME NEW p \in Left(c), a.next = None \/ Passed(p, a.next)
        PROVE  p \in Range(a.records)
    <3> SUFFICES ASSUME NEW i \in n + 1 .. N, p = found[i]
                 PROVE  FALSE
      BY <1>3, <1>4
    <3>1. Precedes(found[i], found[n + 1])
      BY <2>2, <2>4, <2>7 DEF q
    <3>2. i \in 1 .. N /\ n \in Nat /\ n + 1 <= i
      BY <1>2, <1>3
    <3>3. i < n + 1
      BY <1>6, <2>1, <3>1, <3>2
    <3> QED
      BY <3>2, <3>3
  <2>8. Held(a.next)
    BY <2>2 DEF Held
  <2> QED
    BY <1>3, <1>4, <2>5, <2>6, <2>7, <2>8 DEF Continues
<1> QED
  BY <1>8, <1>9

(* A page of a sorted source ends with a key that all it leaves share or   *)
(* exceed.                                                                 *)
LEMMA SortContinues ==
  ASSUME Typed, NEW c, Held(c), NEW n, NEW a,
         Takes(InOrder(Left(c)), n, a), kind = "sort"
  PROVE  Continues(c, a)
<1> DEFINE found == InOrder(Left(c))
           N == Len(found)
           taken == SubSeq(found, 1, n)
<1>1. Left(c) \in SUBSET Position /\ Left(c) \in SUBSET Wanted
  BY LeftIs DEF Left
<1>2. /\ N \in Nat /\ found \in [1 .. N -> Left(c)]
      /\ \A i, j \in 1 .. N : i < j <=> SortsBefore(found[i], found[j])
  BY <1>1, InOrderEnumerates
<1>3. n \in 0 .. N /\ n <= limit /\ (n = 0 => N = 0) /\ a.records = taken
      /\ a.next = IF n < N THEN Resume("sort", 1, At(found[n]).key) ELSE None
  BY DEF Takes, Answer
<1>4. /\ taken \in Seq(Left(c)) /\ Len(taken) = n /\ DOMAIN taken = 1 .. n
      /\ \A i \in 1 .. n : taken[i] = found[i] /\ taken[i] \in Left(c)
      /\ \A i, j \in 1 .. n : i < j => SortsBefore(taken[i], taken[j])
      /\ \A p \in Left(c) : p \in Range(taken) \/ \E i \in n + 1 .. N : p = found[i]
  BY <1>1, <1>3, TakenAre
<1>5. \A p \in Position : At(p).key \in Nat
  BY PositionsAre
<1> HIDE DEF found, taken
<1>6. \A i \in 1 .. N : found[i] \in Position /\ found[i] \in Left(c)
                        /\ found[i] \in Wanted /\ At(found[i]).key \in Nat
  BY <1>1, <1>2, <1>5
<1>7. \A i, j \in 1 .. N : i < j => At(found[i]).key <= At(found[j]).key
                                    /\ found[i] # found[j]
  <2> SUFFICES ASSUME NEW i \in 1 .. N, NEW j \in 1 .. N, i < j
               PROVE  At(found[i]).key <= At(found[j]).key /\ found[i] # found[j]
    OBVIOUS
  <2>1. SortsBefore(found[i], found[j])
    BY <1>2
  <2>2. found[i] # found[j]
    BY <1>6, <2>1, SortingIsAnOrder
  <2>3. At(found[i]).key <= At(found[j]).key
    BY <1>6, <2>1 DEF SortsBefore
  <2> QED
    BY <2>2, <2>3
<1> HIDE DEF N
<1>8. CASE n = N
  <2>1. a.next = None
    BY <1>2, <1>3, <1>8
  <2>2. \A p \in Left(c) : p \in Range(a.records)
    <3> SUFFICES ASSUME NEW i \in n + 1 .. N
                 PROVE  FALSE
      BY <1>3, <1>4
    <3> QED
      BY <1>2, <1>8
  <2> QED
    BY <1>3, <1>4, <2>1, <2>2 DEF Continues, Held
<1>9. CASE n # N
  <2>1. n \in 1 .. N /\ n < N
    BY <1>2, <1>3, <1>9
  <2> DEFINE q == found[n]
  <2>2. a.next \in Cursor /\ a.next # None /\ a.next.kind = "sort"
        /\ a.next.pos = At(q).key
    BY <1>3, <1>6, <2>1, ResumeIs DEF Kinds, File
  <2>3. q \in Position /\ q \in Left(c) /\ q \in Wanted /\ At(q).key \in Nat
    BY <1>6, <2>1
  <2>4. ASSUME NEW p
        PROVE  Passed(p, a.next) <=> At(p).key <= At(q).key
    BY <2>2 DEF Passed
  <2>5. \A i \in DOMAIN a.records : Passed(a.records[i], a.next)
    <3> SUFFICES ASSUME NEW i \in 1 .. n
                 PROVE  At(found[i]).key <= At(q).key
      BY <1>3, <1>4, <2>4
    <3>1. i \in 1 .. N /\ (i < n \/ i = n)
      BY <1>2, <1>3, <2>1
    <3> QED
      BY <1>7, <2>1, <2>3, <3>1
  <2>6. ASSUME NEW p \in Position, Passed(p, c)
        PROVE  Passed(p, a.next)
    <3>1. ~Passed(q, c)
      BY <2>3 DEF Left
    <3>2. SortsBefore(p, q)
      BY <2>3, <2>6, <3>1, PassedFirst
    <3>3. At(p).key <= At(q).key
      BY <1>5, <2>3, <3>2 DEF SortsBefore
    <3> QED
      BY <2>4, <3>3
  <2>7. ASSUME NEW p \in Left(c), a.next = None \/ Passed(p, a.next)
        PROVE  p \in Range(a.records) \/ Tied(p)
    <3> SUFFICES ASSUME NEW i \in n + 1 .. N, p = found[i]
                 PROVE  Tied(p)
      BY <1>3, <1>4
    <3>1. i \in 1 .. N /\ n < i
      BY <1>2, <2>1
    <3>2. At(q).key <= At(p).key /\ q # p
      BY <1>7, <2>1, <3>1
    <3>3. At(p).key <= At(q).key /\ At(p).key \in Nat
      BY <1>6, <2>2, <2>4, <2>7, <3>1
    <3>4. At(q).key = At(p).key
      BY <2>3, <3>2, <3>3
    <3> HIDE DEF q
    <3> QED
      BY <2>3, <3>2, <3>4 DEF Tied
  <2>8. Held(a.next)
    BY <2>2 DEF Held
  <2> QED
    BY <1>3, <1>4, <2>5, <2>6, <2>7, <2>8 DEF Continues
<1> QED
  BY <1>8, <1>9

(* Whatever way the source is read in, a page goes on from its cursor.     *)
LEMMA PagesContinue ==
  ASSUME Typed, NEW c, Held(c)
  PROVE  Continues(c, PageFrom(c))
<1>1. PICK n : Takes(InOrder(Left(c)), n, PageFrom(c))
  BY PagesTake
<1> QED
  BY <1>1, LogsContinue, StreamContinues, SortContinues DEF Typed, Kinds

(* What PagesFit says of a page.                                           *)
Fits(a) ==
  /\ a.status = "ok"
  /\ Len(a.records) <= limit
  /\ a.cut <=> kind = "logs" /\ Sizes(a.records) > Budget
  /\ a.cut => Len(a.records) = 1
  /\ a.next # None => a.records # <<>>

(* The size of records: none of nothing, and at least that of the first.   *)
LEMMA SizesAre ==
  ASSUME Typed, NEW s \in Seq(Position)
  PROVE  /\ Sizes(s) \in Nat
         /\ Len(s) = 0 => Sizes(s) = 0
         /\ Len(s) = 1 => Sizes(s) = At(s[1]).size
         /\ Len(s) > 0 => Sizes(s) >= At(s[1]).size
<1> DEFINE sizes == [i \in DOMAIN s |-> At(s[i]).size]
<1>1. \A i \in 1 .. Len(s) : At(s[i]).size \in Nat
  <2>1. \A i \in 1 .. Len(s) : s[i] \in Position
    OBVIOUS
  <2> QED
    BY <2>1, PositionsAre
<1>2. DOMAIN s = 1 .. Len(s) /\ Len(s) \in Nat
  OBVIOUS
<1>3. sizes \in Seq(Nat) /\ Len(sizes) = Len(s)
      /\ (Len(s) > 0 => sizes[1] = At(s[1]).size)
  <2>1. sizes \in [1 .. Len(s) -> Nat]
    BY <1>1, <1>2
  <2>2. Len(s) > 0 => sizes[1] = At(s[1]).size
    BY <1>2
  <2> HIDE DEF sizes
  <2> QED
    BY <1>2, <2>1, <2>2
<1>4. Sizes(s) = Total(sizes)
  BY DEF Sizes
<1> HIDE DEF sizes
<1>5. /\ Total(sizes) \in Nat
      /\ Len(sizes) = 0 => Total(sizes) = 0
      /\ Len(sizes) = 1 => Total(sizes) = sizes[1]
      /\ Len(sizes) > 0 => Total(sizes) >= sizes[1]
  BY <1>3, TotalBounds
<1> QED
  BY <1>2, <1>3, <1>4, <1>5

(* A page keeps to the limit and the budget, and is not empty if more is to*)
(* come.                                                                   *)
LEMMA APageFits ==
  ASSUME Typed, NEW c, Held(c)
  PROVE  Fits(PageFrom(c))
<1> DEFINE found == InOrder(Left(c))
           N == Len(found)
           a == PageFrom(c)
<1>1. PICK n : Takes(found, n, a)
  BY PagesTake
<1>2. Left(c) \in SUBSET Position
  BY LeftIs
<1> HIDE DEF a
<1>3. n \in 0 .. N /\ n <= limit /\ (n = 0 => N = 0)
      /\ a.records = SubSeq(found, 1, n) /\ a.status = "ok"
  BY <1>1 DEF Takes, Answer
<1>4. /\ N \in Nat /\ found \in [1 .. N -> Left(c)]
  BY <1>2, InOrderEnumerates
<1>5. /\ a.records \in Seq(Left(c)) /\ Len(a.records) = n
      /\ \A i \in 1 .. n : a.records[i] = found[i]
  BY <1>2, <1>3, TakenAre
<1>6. limit \in Nat /\ limit >= 1 /\ Budget \in Nat
  BY BoundsAssumption DEF Typed
<1>7. a.records \in Seq(Position)
  BY <1>2, <1>5
<1> HIDE DEF found
<1>8. CASE kind = "logs"
  <2>1. /\ a.next = LogsNext(found, n)
        /\ a.cut <=> n > 0 /\ At(found[1]).size > Budget
        /\ n <= 1 \/ Sizes(a.records) <= Budget
    BY <1>1, <1>3, <1>8 DEF Takes
  <2>2. n = 0 => a.next = None
    BY <1>3, <1>6, <2>1 DEF LogsNext
  <2>3. /\ Sizes(a.records) \in Nat
        /\ n = 0 => Sizes(a.records) = 0
        /\ n = 1 => Sizes(a.records) = At(a.records[1]).size
        /\ n > 0 => Sizes(a.records) >= At(a.records[1]).size
    BY <1>5, <1>7, SizesAre
  <2>4. n > 0 => a.records[1] = found[1] /\ At(found[1]).size \in Nat
    <3> SUFFICES ASSUME n > 0
                 PROVE  a.records[1] = found[1] /\ At(found[1]).size \in Nat
      OBVIOUS
    <3>1. 1 \in 1 .. n /\ 1 \in 1 .. N
      BY <1>3
    <3>2. found[1] \in Position
      BY <1>2, <1>4, <3>1
    <3> QED
      BY <1>5, <3>1, <3>2, PositionsAre
  <2>5. n \in Nat
    BY <1>3
  <2> HIDE DEF N
  <2>6. a.cut <=> Sizes(a.records) > Budget
    <3>1. CASE n = 0
      BY <1>6, <2>1, <2>3, <3>1
    <3>2. CASE n = 1
      BY <1>6, <2>1, <2>3, <2>4, <3>2
    <3>3. CASE n > 1
      <4>1. At(a.records[1]).size = At(found[1]).size /\ n > 0
        BY <2>4, <2>5, <3>3
      <4>2. Sizes(a.records) <= Budget /\ Sizes(a.records) >= At(found[1]).size
        BY <2>1, <2>3, <2>5, <3>3, <4>1
      <4> QED
        BY <1>6, <2>1, <2>3, <2>4, <4>1, <4>2
    <3> QED
      BY <2>5, <3>1, <3>2, <3>3
  <2>7. a.cut => n = 1
    BY <1>6, <2>1, <2>3, <2>4, <2>5
  <2>8. a.next # None => a.records # <<>>
    BY <1>5, <2>2
  <2> QED
    BY <1>3, <1>5, <1>8, <2>6, <2>7, <2>8 DEF Fits, a
<1>9. CASE kind # "logs"
  <2>1. ~a.cut /\ (n = N => a.next = None)
    <3>1. CASE kind = "stream"
      <4>1. ~a.cut /\ a.next = IF n < N
              THEN Resume("stream", found[n + 1][1], found[n + 1][2]) ELSE None
        BY <1>1, <3>1 DEF Takes
      <4> HIDE DEF N
      <4> QED
        BY <1>4, <4>1
    <3>2. CASE kind = "sort"
      <4>1. ~a.cut /\ a.next = IF n < N
              THEN Resume("sort", 1, At(found[n]).key) ELSE None
        BY <1>1, <3>2 DEF Takes
      <4> HIDE DEF N
      <4> QED
        BY <1>4, <4>1
    <3> QED
      BY <1>9, <3>1, <3>2 DEF Typed, Kinds
  <2>2. a.next # None => a.records # <<>>
    BY <1>3, <1>5, <2>1
  <2> QED
    BY <1>3, <1>5, <1>9, <2>1, <2>2 DEF Fits, a
<1> QED
  BY <1>8, <1>9

-----------------------------------------------------------------------------
(* What stays true of lines that have been written.                        *)

Kept ==
  /\ kind' = kind /\ limit' = limit /\ window' = window
  /\ Position \in SUBSET Position'
  /\ \A p \in Position : At(p)' = At(p)

(* Lines that stay as they are are kept.                                   *)
LEMMA SameLinesAreKept ==
  ASSUME UNCHANGED <<query, lines>>
  PROVE  /\ Kept /\ Position' = Position
         /\ Typed => Typed'
<1>1. kind' = kind /\ limit' = limit /\ window' = window /\ lines' = lines
  BY DEF query
<1> QED
  BY <1>1 DEF Kept, Position, At, Typed

(* What is wanted changes with the lines and the mark alone.               *)
LEMMA SameWindowsAreKept ==
  ASSUME UNCHANGED <<query, lines, mark>>
  PROVE  Wanted' = Wanted
<1>1. kind' = kind /\ window' = window /\ lines' = lines /\ mark' = mark
  BY DEF query
<1> QED
  BY <1>1 DEF Wanted, Position, At, InWindow

(* A line that is appended leaves all others in place, and comes behind    *)
(* them.                                                                   *)
LEMMA AppendedLinesAreKept ==
  ASSUME Typed, NEW f \in File, NEW l \in Line, Appended(f, l)
  PROVE  /\ Kept /\ Typed'
         /\ \A p \in Position' \ Position : p[1] = f /\ p[2] > Len(lines[f])
         /\ Len(lines[1]) <= Len(lines'[1])
         /\ \A p \in Position : p \in Wanted' <=> p \in Wanted
<1>1. /\ kind' = kind /\ limit' = limit /\ window' = window /\ mark' = mark
      /\ lines' = [lines EXCEPT ![f] = Append(@, l)]
      /\ kind = "logs" => f = 1
  BY DEF Appended, query
<1>2. \A g \in File : lines[g] \in Seq(Line) /\ Len(lines[g]) \in Nat
  BY DEF Typed
<1>3. lines' \in [File -> Seq(Line)] /\ lines'[f] = Append(lines[f], l)
      /\ \A g \in File \ {f} : lines'[g] = lines[g]
  BY <1>1, <1>2 DEF Typed
<1>4. Len(lines'[f]) = Len(lines[f]) + 1
      /\ \A i \in 1 .. Len(lines[f]) : lines'[f][i] = lines[f][i]
  BY <1>2, <1>3
<1>5. \A g \in File : Len(lines[g]) <= Len(lines'[g]) /\ Len(lines'[g]) \in Nat
  BY <1>2, <1>3, <1>4
<1>6. \A p : p \in Position <=> p \in File \X (1 .. MaxLines) /\ p[2] <= Len(lines[p[1]])
  BY DEF Position
<1>7. \A p : p \in Position' <=> p \in File \X (1 .. MaxLines) /\ p[2] <= Len(lines'[p[1]])
  BY DEF Position
<1>8. \A p \in File \X (1 .. MaxLines) : p[1] \in File /\ p[2] \in Nat /\ 1 <= p[2]
  BY BoundsAssumption
<1>9. Position \in SUBSET Position'
  <2> SUFFICES ASSUME NEW p \in Position
               PROVE  p \in Position'
    OBVIOUS
  <2>1. p[1] \in File /\ p[2] \in Nat /\ p[2] <= Len(lines[p[1]])
    BY <1>6, <1>8
  <2>2. p[2] <= Len(lines'[p[1]])
    BY <1>2, <1>5, <2>1
  <2> QED
    BY <1>6, <1>7, <2>2
<1>10. \A p \in Position : At(p)' = At(p)
  <2> SUFFICES ASSUME NEW p \in Position
               PROVE  lines'[p[1]][p[2]] = lines[p[1]][p[2]]
    BY DEF At
  <2>1. p[1] \in File /\ p[2] \in 1 .. Len(lines[p[1]])
    BY <1>2, <1>6, <1>8
  <2> QED
    BY <1>3, <1>4, <2>1
<1>11. ASSUME NEW p \in Position' \ Position
       PROVE  p[1] = f /\ p[2] > Len(lines[f])
  <2>1. p[1] \in File /\ p[2] \in Nat /\ p[2] <= Len(lines'[p[1]])
        /\ ~(p[2] <= Len(lines[p[1]]))
    BY <1>6, <1>7, <1>8
  <2>2. p[1] = f
    BY <1>3, <2>1
  <2> QED
    BY <1>2, <2>1, <2>2
<1>12. Kept
  BY <1>1, <1>9, <1>10 DEF Kept
<1>13. Typed'
  <2>1. kind = "logs" => lines'[2] = <<>>
    BY <1>1, <1>3 DEF Typed, File
  <2> QED
    BY <1>1, <1>3, <2>1 DEF Typed
<1>14. Len(lines[1]) <= Len(lines'[1])
  BY <1>5 DEF File
<1>15. \A p \in Position : p \in Wanted' <=> p \in Wanted
  <2> SUFFICES ASSUME NEW p \in Position
               PROVE  p \in Wanted' <=> p \in Wanted
    OBVIOUS
  <2>1. p \in Position' /\ At(p)' = At(p)
    BY <1>9, <1>10
  <2>2. InWindow(p)' <=> InWindow(p)
    BY <1>1 DEF InWindow
  <2>3. p \in Wanted' <=> p \in Position' /\ At(p)'.wanted /\ InWindow(p)'
    BY DEF Wanted
  <2>4. p \in Wanted <=> p \in Position /\ At(p).wanted /\ InWindow(p)
    BY DEF Wanted
  <2> QED
    BY <2>1, <2>2, <2>3, <2>4
<1> QED
  BY <1>11, <1>12, <1>13, <1>14, <1>15

(* Orders, pasts and sizes of such lines.                                  *)
LEMMA KeptLinesStay ==
  ASSUME Kept
  PROVE  /\ \A p, q \in Position : SortsBefore(p, q)' <=> SortsBefore(p, q)
         /\ \A p \in Position : \A c : Passed(p, c)' <=> Passed(p, c)
         /\ \A s \in Seq(Position) : s \in Seq(Position') /\ Sizes(s)' = Sizes(s)
<1>1. \A p, q \in Position : SortsBefore(p, q)' <=> SortsBefore(p, q)
  <2> SUFFICES ASSUME NEW p \in Position, NEW q \in Position
               PROVE  SortsBefore(p, q)' <=> SortsBefore(p, q)
    OBVIOUS
  <2>1. At(p)' = At(p) /\ At(q)' = At(q) /\ kind' = kind
    BY DEF Kept
  <2> QED
    BY <2>1, Zenon DEF SortsBefore, Precedes
<1>2. \A p \in Position : \A c : Passed(p, c)' <=> Passed(p, c)
  <2> SUFFICES ASSUME NEW p \in Position, NEW c
               PROVE  Passed(p, c)' <=> Passed(p, c)
    OBVIOUS
  <2>1. At(p)' = At(p) /\ kind' = kind
    BY DEF Kept
  <2> QED
    BY <2>1 DEF Passed, Precedes
<1>3. ASSUME NEW s \in Seq(Position)
      PROVE  s \in Seq(Position') /\ Sizes(s)' = Sizes(s)
  <2>1. s \in Seq(Position')
    BY DEF Kept
  <2>2. \A i \in DOMAIN s : s[i] \in Position
    OBVIOUS
  <2>3. [i \in DOMAIN s |-> At(s[i])'.size] = [i \in DOMAIN s |-> At(s[i]).size]
    BY <2>2 DEF Kept
  <2> QED
    BY <2>1, <2>3 DEF Sizes
<1> QED
  BY <1>1, <1>2, <1>3

-----------------------------------------------------------------------------
(* The invariant.                                                          *)

Pages == [status : {"ok", "refused"}, records : Seq(Position),
          next : Cursor \union {None}, cut : BOOLEAN]

(* A page is an answer.                                                    *)
LEMMA PagesAreTyped ==
  ASSUME Typed, NEW c, Held(c)
  PROVE  PageFrom(c) \in Pages
<1> DEFINE a == PageFrom(c)
<1>1. PICK n : Takes(InOrder(Left(c)), n, a)
  BY PagesTake
<1>2. Continues(c, a) /\ Left(c) \in SUBSET Position
  BY PagesContinue, LeftIs
<1>3. Fits(a)
  BY APageFits
<1> HIDE DEF a
<1>4. a.cut \in BOOLEAN /\ a = Answer(SubSeq(InOrder(Left(c)), 1, n), a.next, a.cut)
  BY <1>1 DEF Takes
<1>5. a.records \in Seq(Position) /\ a.next \in Cursor \union {None}
  BY <1>2 DEF Continues, Held
<1>6. a = [status |-> "ok", records |-> a.records, next |-> a.next, cut |-> a.cut]
  BY <1>4 DEF Answer
<1>7. a \in Pages
  BY <1>4, <1>5, <1>6 DEF Pages
<1> QED
  BY <1>7 DEF a

(* What the lemmas on pages need of the invariant.                         *)
LEMMA InvTyped ==
  ASSUME ReadingInv
  PROVE  /\ Typed /\ page \in Pages
         /\ asked \in SUBSET Position
         /\ state # "answered" => returned \in Seq(Position)
BY DEF ReadingInv, TypeOK, KindsDiffer, Typed, Pages

(* A cursor that is accepted is the one of the reading that is under way.  *)
LEMMA AcceptedCursors ==
  ASSUME ReadingInv, state # "answered", NEW call \in Call, Accepted(call)
  PROVE  /\ Held(call.cursor)
         /\ call.cursor # None => call.cursor = cursor /\ state = "open"
<1> SUFFICES ASSUME call.cursor # None
             PROVE  Held(call.cursor) /\ call.cursor = cursor /\ state = "open"
  BY DEF Held
<1>1. Decodes(call.cursor)
  BY DEF Accepted
<1>2. call.cursor \in {None, cursor} \union Foreign
  BY DEF Call
<1>3. \A c \in Foreign : ~Decodes(c)
  <2> SUFFICES ASSUME NEW c \in Foreign, Decodes(c)
               PROVE  FALSE
    OBVIOUS
  <2> DEFINE own == Resume(kind, 1, 2)
  <2>1. \/ c = [own EXCEPT !.kind = IF kind = "sort" THEN "stream" ELSE "sort"]
        \/ kind # "logs" /\ c \in {[own EXCEPT !.run = "other"],
                                   [own EXCEPT !.source = "other"],
                                   [own EXCEPT !.file = 3]}
    BY DEF Foreign
  <2>2. c.kind = kind /\ (kind # "logs" => c.run = Here /\ c.source = Here
                                             /\ c.file \in File)
    BY DEF Decodes
  <2> QED
    BY <2>1, <2>2 DEF Resume, Here, File
<1>4. call.cursor = cursor
  BY <1>1, <1>2, <1>3
<1>5. state = "open"
  BY <1>4 DEF ReadingInv, CursorHeld, TypeOK
<1>6. Held(cursor)
  BY <1>5 DEF ReadingInv, CursorHeld, TypeOK, Held
<1> QED
  BY <1>4, <1>5, <1>6

(* The invariant holds before the first page.                              *)
LEMMA InitReads == Init => ReadingInv
<1> SUFFICES ASSUME Init
             PROVE  ReadingInv
  OBVIOUS
<1>1. TypeOK
  <2>1. <<>> \in Seq(Position) /\ returned = <<>> /\ Refusal.records = <<>>
    BY DEF Init, Refusal
  <2>2. lines \in [File -> Seq(Line)]
    <3>1. <<>> \in Seq(Line)
      OBVIOUS
    <3> QED
      BY <3>1 DEF Init
  <2>3. page \in Pages
    BY <2>1 DEF Init, Refusal, Pages
  <2>4. /\ kind \in Kinds /\ limit \in 1 .. MaxLimit
        /\ window \in {"all", "after", "before"}
        /\ mark = None /\ cursor = None /\ asked = {} /\ state = "new"
        /\ unended = {}
        /\ remarked = FALSE
    BY DEF Init
  <2> QED
    BY <2>1, <2>2, <2>3, <2>4 DEF TypeOK, Pages
<1>2. KindsDiffer /\ CursorHeld /\ ReadSoFar /\ PagesFit
  BY DEF Init, KindsDiffer, CursorHeld, ReadSoFar, PagesFit, Refusal, Reading, File
<1> QED
  BY <1>1, <1>2 DEF ReadingInv

(* A page that lies before the reader goes on fitting.                     *)
LEMMA PageStays ==
  ASSUME ReadingInv, Kept, page' \in {page, Refusal}
  PROVE  page' \in Pages' /\ PagesFit'
<1>1. page \in Pages /\ PagesFit
  BY InvTyped DEF ReadingInv
<1>2. CASE page' = page
  <2>1. /\ page.records \in Seq(Position) /\ page.next \in Cursor \union {None}
        /\ page.cut \in BOOLEAN /\ page.status \in {"ok", "refused"}
        /\ page = [status |-> page.status, records |-> page.records,
                   next |-> page.next, cut |-> page.cut]
    BY <1>1 DEF Pages
  <2>2. PICK s \in Seq(Position) : s = page.records
    BY <2>1
  <2>3. s \in Seq(Position') /\ Sizes(s)' = Sizes(s)
    BY KeptLinesStay
  <2>4. Sizes(page.records)' = Sizes(page.records)
    <3>1. page'.records = s
      BY <1>2, <2>2
    <3> QED
      BY <2>2, <2>3, <3>1 DEF Sizes, At
  <2>5. page' \in Pages'
    BY <1>2, <2>1, <2>2, <2>3 DEF Pages
  <2>6. kind' = kind /\ limit' = limit
    BY DEF Kept
  <2> QED
    BY <1>1, <1>2, <2>6, <2>4, <2>5 DEF PagesFit
<1>3. CASE page' = Refusal
  BY <1>3 DEF Refusal, PagesFit, Pages
<1> QED
  BY <1>2, <1>3

(* Two sequences joined hold what the two hold, the first before the       *)
(* second.                                                                 *)
LEMMA Joined ==
  ASSUME NEW S, NEW s \in Seq(S), NEW t \in Seq(S)
  PROVE  /\ s \o t \in Seq(S) /\ Len(s \o t) = Len(s) + Len(t)
         /\ \A i \in DOMAIN (s \o t) :
               \/ i \in DOMAIN s /\ (s \o t)[i] = s[i]
               \/ i > Len(s) /\ i - Len(s) \in DOMAIN t
                  /\ (s \o t)[i] = t[i - Len(s)]
         /\ Range(s) \subseteq Range(s \o t) /\ Range(t) \subseteq Range(s \o t)
<1>1. s \o t \in Seq(S) /\ Len(s \o t) = Len(s) + Len(t)
  OBVIOUS
<1>2. /\ Len(s) \in Nat /\ Len(t) \in Nat
      /\ DOMAIN s = 1 .. Len(s) /\ DOMAIN t = 1 .. Len(t)
      /\ DOMAIN (s \o t) = 1 .. Len(s) + Len(t)
  OBVIOUS
<1>3. /\ \A i \in 1 .. Len(s) : (s \o t)[i] = s[i]
      /\ \A i \in 1 .. Len(t) : (s \o t)[Len(s) + i] = t[i]
  OBVIOUS
<1>4. \A i \in DOMAIN (s \o t) :
         \/ i \in DOMAIN s /\ (s \o t)[i] = s[i]
         \/ i > Len(s) /\ i - Len(s) \in DOMAIN t /\ (s \o t)[i] = t[i - Len(s)]
  <2> SUFFICES ASSUME NEW i \in 1 .. Len(s) + Len(t), ~(i \in 1 .. Len(s))
               PROVE  i > Len(s) /\ i - Len(s) \in 1 .. Len(t)
                      /\ (s \o t)[i] = t[i - Len(s)]
    BY <1>2, <1>3
  <2>1. i > Len(s) /\ i - Len(s) \in 1 .. Len(t) /\ Len(s) + (i - Len(s)) = i
    BY <1>2
  <2> QED
    BY <1>3, <2>1
<1>5. Range(s) \subseteq Range(s \o t)
  <2>1. \A i \in DOMAIN s : i \in DOMAIN (s \o t) /\ (s \o t)[i] = s[i]
    BY <1>2, <1>3
  <2> QED
    BY <2>1, Zenon DEF Range
<1>6. Range(t) \subseteq Range(s \o t)
  <2>1. \A i \in DOMAIN t : Len(s) + i \in DOMAIN (s \o t)
                            /\ (s \o t)[Len(s) + i] = t[i]
    BY <1>2, <1>3
  <2> QED
    BY <2>1, Zenon DEF Range
<1> QED
  BY <1>1, <1>4, <1>5, <1>6

(* A page keeps the invariant, whether it begins a reading or goes on with *)
(* one.                                                                    *)
LEMMA PageKeeps ==
  ASSUME ReadingInv, state # "answered", NEW call \in Call, GetPage(call)
  PROVE  ReadingInv'
<1> DEFINE c == call.cursor
           a == PageFrom(c)
           begins == c = None
           old == IF begins THEN <<>> ELSE returned
           r == old \o a.records
           wants == IF begins \/ kind = "logs" THEN Wanted ELSE asked
<1>1. /\ Typed /\ Held(c) /\ (~begins => c = cursor /\ state = "open")
      /\ returned \in Seq(Position) /\ asked \in SUBSET Position
  BY InvTyped, AcceptedCursors DEF GetPage
<1>2. Continues(c, a) /\ Fits(a) /\ a \in Pages /\ Left(c) \in SUBSET Position
  BY <1>1, PagesContinue, APageFits, PagesAreTyped, LeftIs
<1>3. /\ page' = a /\ cursor' = a.next
      /\ returned' = IF begins THEN a.records ELSE returned \o a.records
      /\ asked' = wants
      /\ remarked' = (remarked /\ ~begins)
      /\ state' = IF a.next = None THEN "over" ELSE "open"
      /\ kind' = kind /\ limit' = limit /\ window' = window
      /\ lines' = lines /\ mark' = mark /\ unended' = unended
  BY DEF GetPage, query
<1>4. /\ Position' = Position /\ Wanted' = Wanted
      /\ Typed'
  BY <1>1, <1>3, SameLinesAreKept, SameWindowsAreKept DEF query
<1> HIDE DEF a
<1>5. a.records \in Seq(Position) /\ old \in Seq(Position) /\ old \in Seq(Position)
  BY <1>1, <1>2 DEF Continues
<1>6. returned' = r
  <2>1. begins => r = a.records
    BY <1>5
  <2> QED
    BY <1>3, <2>1
<1>7. /\ \A i, j \in DOMAIN old : i < j => SortsBefore(old[i], old[j])
      /\ \A i \in DOMAIN old : Passed(old[i], c)
  <2>1. CASE begins
    BY <2>1
  <2>2. CASE ~begins
    BY <1>1, <2>2 DEF ReadingInv, ReadSoFar, Reading
  <2> QED
    BY <2>1, <2>2
<1>8. ~remarked' => \A p \in wants : Passed(p, c) => p \in Range(old) \/ Tied(p)
  <2>1. CASE begins
    BY <2>1 DEF Passed
  <2>2. CASE ~begins
    <3>1. wants = Sought
      BY <2>2 DEF Sought
    <3> QED
      BY <1>1, <1>3, <2>2, <3>1 DEF ReadingInv, ReadSoFar
  <2> QED
    BY <2>1, <2>2
<1>9. wants \in SUBSET Wanted
  BY DEF ReadingInv, KindsDiffer
<1> HIDE DEF old, wants
<1>10. /\ r \in Seq(Position) /\ Len(r) = Len(old) + Len(a.records)
       /\ \A i \in DOMAIN r :
             \/ i \in DOMAIN old /\ r[i] = old[i]
             \/ i > Len(old) /\ i - Len(old) \in DOMAIN a.records
                /\ r[i] = a.records[i - Len(old)]
       /\ Range(old) \subseteq Range(r) /\ Range(a.records) \subseteq Range(r)
  BY <1>5, Joined
<1>11. /\ Len(old) \in Nat /\ DOMAIN old = 1 .. Len(old)
       /\ DOMAIN a.records \in SUBSET Nat /\ DOMAIN r \in SUBSET Nat
       /\ \A i \in DOMAIN old : old[i] \in Position
       /\ \A i \in DOMAIN a.records : a.records[i] \in Left(c)
  <2>1. DOMAIN a.records = 1 .. Len(a.records) /\ DOMAIN r = 1 .. Len(r)
    BY <1>5, <1>10
  <2>2. \A i \in DOMAIN a.records : a.records[i] \in Left(c)
    <3>1. a.records \in Seq(Left(c))
      BY <1>2 DEF Continues
    <3> QED
      BY <3>1
  <2> QED
    BY <1>5, <2>1, <2>2
<1> HIDE DEF r
(* The order of what has been returned.                                    *)
<1>12. \A i, j \in DOMAIN r : i < j => SortsBefore(r[i], r[j])
  <2> SUFFICES ASSUME NEW i \in DOMAIN r, NEW j \in DOMAIN r, i < j
               PROVE  SortsBefore(r[i], r[j])
    OBVIOUS
  <2>1. CASE i \in DOMAIN old /\ j \in DOMAIN old
    <3>1. r[i] = old[i] /\ r[j] = old[j]
      BY <1>10, <1>11, <2>1
    <3> QED
      BY <1>7, <2>1, <3>1
  <2>2. CASE i \in DOMAIN old /\ j \notin DOMAIN old
    <3>1. r[i] = old[i] /\ r[j] \in Left(c)
      BY <1>10, <1>11, <2>2
    <3>2. Passed(r[i], c) /\ ~Passed(r[j], c) /\ r[i] \in Position /\ r[j] \in Position
      BY <1>2, <1>7, <1>11, <2>2, <3>1 DEF Left
    <3> QED
      BY <1>1, <3>2, PassedFirst
  <2>3. CASE i \notin DOMAIN old
    <3>1. i > Len(old) /\ j > Len(old) /\ i \in Nat /\ j \in Nat
      BY <1>10, <1>11, <2>3
    <3>2. /\ i - Len(old) \in DOMAIN a.records /\ r[i] = a.records[i - Len(old)]
          /\ j - Len(old) \in DOMAIN a.records /\ r[j] = a.records[j - Len(old)]
      BY <1>10, <1>11, <3>1
    <3>3. i - Len(old) < j - Len(old)
      BY <1>11, <3>1
    <3> QED
      BY <1>2, <3>2, <3>3 DEF Continues
  <2> QED
    BY <2>1, <2>2, <2>3
(* All of it is behind the new cursor.                                     *)
<1>13. a.next # None => \A i \in DOMAIN r : Passed(r[i], a.next)
  <2> SUFFICES ASSUME a.next # None, NEW i \in DOMAIN r
               PROVE  Passed(r[i], a.next)
    OBVIOUS
  <2>1. CASE i \in DOMAIN old /\ r[i] = old[i]
    BY <1>2, <1>7, <1>11, <2>1 DEF Continues
  <2>2. CASE i - Len(old) \in DOMAIN a.records /\ r[i] = a.records[i - Len(old)]
    BY <1>2, <2>2 DEF Continues
  <2> QED
    BY <1>10, <2>1, <2>2
(* And nothing else is that was asked for.                                 *)
<1>14. ASSUME ~remarked', NEW p \in wants, a.next = None \/ Passed(p, a.next)
       PROVE  p \in Range(r) \/ Tied(p)
  <2>1. CASE Passed(p, c)
    BY <1>8, <1>10, <1>14, <2>1
  <2>2. CASE ~Passed(p, c)
    <3>1. p \in Left(c)
      BY <1>9, <2>2 DEF Left
    <3> QED
      BY <1>2, <1>10, <1>14, <3>1 DEF Continues
  <2> QED
    BY <2>1, <2>2
<1>15. /\ \A p, q : SortsBefore(p, q)' <=> SortsBefore(p, q)
       /\ \A p, e : Passed(p, e)' <=> Passed(p, e)
       /\ \A p : Tied(p)' <=> Tied(p)
  <2>1. \A p, q : SortsBefore(p, q)' <=> SortsBefore(p, q)
    BY <1>3 DEF SortsBefore, Precedes, At
  <2>2. \A p, e : Passed(p, e)' <=> Passed(p, e)
    BY <1>3 DEF Passed, Precedes, At
  <2>3. \A p : Tied(p)' <=> Tied(p)
    BY <1>3, <1>4 DEF Tied, At
  <2> QED
    BY <2>1, <2>2, <2>3
<1>16. Sought' = wants
  BY <1>3, <1>4 DEF Sought, wants
<1>17. ReadSoFar'
  <2>1. (Reading => \A i, j \in DOMAIN returned :
                       i < j => SortsBefore(returned[i], returned[j]))'
    BY <1>6, <1>12, <1>15
  <2>2. (state = "open" => \A i \in DOMAIN returned : Passed(returned[i], cursor))'
    BY <1>3, <1>6, <1>13, <1>15
  <2>3. (state = "open" => (~remarked => \A p \in Sought :
           Passed(p, cursor) => p \in Range(returned) \/ Tied(p)))'
    BY <1>3, <1>6, <1>14, <1>15, <1>16
  <2>4. (state = "over" /\ ~remarked =>
           \A p \in asked : p \in Range(returned) \/ Tied(p))'
    BY <1>3, <1>6, <1>14, <1>15
  <2> QED
    BY <2>1, <2>2, <2>3, <2>4 DEF ReadSoFar
<1>18. CursorHeld'
  <2>1. a.next # None => a.next.kind = kind
                         /\ (kind = "logs" => a.next.pos <= Len(lines[1]))
    BY <1>2 DEF Continues, Held
  <2> QED
    BY <1>3, <2>1 DEF CursorHeld
<1>19. KindsDiffer'
  <2>1. kind # "logs" => window = "all"
    BY DEF ReadingInv, KindsDiffer
  <2> QED
    BY <1>1, <1>3, <1>4, <1>9, <2>1 DEF KindsDiffer, Typed
<1>20. TypeOK'
  <2>1. a.next \in Cursor \union {None}
    BY <1>2 DEF Pages
  <2>2. wants \in SUBSET Position
    BY <1>9 DEF Wanted
  <2>3. /\ window \in {"all", "after", "before"} /\ mark \in Nat \union {None}
        /\ remarked \in BOOLEAN /\ unended \subseteq File
    BY DEF ReadingInv, TypeOK
  <2>4. remarked' \in BOOLEAN
    BY <1>3
  <2>5. page' \in Pages'
    BY <1>2, <1>3, <1>4 DEF Pages
  <2>6. /\ kind' \in Kinds /\ limit' \in 1 .. MaxLimit /\ lines' \in [File -> Seq(Line)]
    BY <1>4 DEF Typed
  <2> QED
    BY <1>3, <1>4, <1>6, <1>10, <2>1, <2>2, <2>3, <2>4, <2>5, <2>6 DEF TypeOK, Pages
<1>21. PagesFit'
  <2>1. Sizes(page.records)' = Sizes(a.records)
    BY <1>3 DEF Sizes, At
  <2> QED
    BY <1>2, <1>3, <2>1 DEF Fits, PagesFit
<1> QED
  BY <1>17, <1>18, <1>19, <1>20, <1>21 DEF ReadingInv

(* Steps that leave the reading as it is.                                  *)
LEMMA ReadingStays ==
  ASSUME ReadingInv, UNCHANGED <<query, lines, mark, cursor, asked, remarked>>,
         unended' \subseteq File, page' \in {page, Refusal},
         \/ UNCHANGED <<returned, state>>
         \/ state' = "answered"
  PROVE  ReadingInv'
<1>1. /\ kind' = kind /\ limit' = limit /\ window' = window
      /\ lines' = lines /\ mark' = mark /\ cursor' = cursor
      /\ asked' = asked /\ remarked' = remarked
  BY DEF query
<1>2. Kept /\ Position' = Position /\ Wanted' = Wanted
  BY SameLinesAreKept, SameWindowsAreKept DEF query
<1>3. page' \in Pages' /\ PagesFit'
  BY <1>2, PageStays
<1>4. TypeOK' /\ KindsDiffer'
  <2>1. TypeOK'
    BY <1>1, <1>2, <1>3 DEF ReadingInv, TypeOK, Pages
  <2>2. KindsDiffer'
    BY <1>1, <1>2 DEF ReadingInv, KindsDiffer
  <2> QED
    BY <2>1, <2>2
<1>5. CASE state' = "answered"
  <2>1. CursorHeld' /\ ReadSoFar'
    BY <1>5 DEF CursorHeld, ReadSoFar, Reading
  <2> QED
    BY <1>3, <1>4, <2>1 DEF ReadingInv
<1>6. CASE UNCHANGED <<returned, state>>
  <2>1. returned' = returned /\ state' = state
    BY <1>6
  <2>2. CursorHeld'
    BY <1>1, <2>1 DEF ReadingInv, CursorHeld
  <2>3. /\ \A p, q : SortsBefore(p, q)' <=> SortsBefore(p, q)
        /\ \A p, e : Passed(p, e)' <=> Passed(p, e)
        /\ \A p : Tied(p)' <=> Tied(p)
    <3>1. \A p, q : SortsBefore(p, q)' <=> SortsBefore(p, q)
      BY <1>1 DEF SortsBefore, Precedes, At
    <3>2. \A p, e : Passed(p, e)' <=> Passed(p, e)
      BY <1>1 DEF Passed, Precedes, At
    <3>3. \A p : Tied(p)' <=> Tied(p)
      BY <1>1, <1>2 DEF Tied, At
    <3> QED
      BY <3>1, <3>2, <3>3
  <2>4. Sought' = Sought
    BY <1>1, <1>2 DEF Sought
  <2>5. ReadSoFar'
    BY <1>1, <2>1, <2>3, <2>4 DEF ReadingInv, ReadSoFar, Reading
  <2> QED
    BY <1>3, <1>4, <2>2, <2>5 DEF ReadingInv
<1> QED
  BY <1>5, <1>6

(* So does a line that is derived or pulled while a reading is under way.  *)
LEMMA AppendedKeeps ==
  ASSUME ReadingInv, state # "answered", NEW f \in File, NEW l \in LineOf(kind),
         Appended(f, l)
  PROVE  ReadingInv'
<1>1. /\ kind' = kind /\ limit' = limit /\ window' = window /\ mark' = mark
      /\ cursor' = cursor /\ returned' = returned /\ asked' = asked
      /\ state' = state /\ page' = page /\ remarked' = remarked
      /\ kind = "logs" => f = 1
  BY DEF Appended, query
<1>0. unended' \subseteq File
  BY DEF Appended, ReadingInv, TypeOK
<1>2. l \in Line
  BY DEF LineOf
<1>3. /\ Typed /\ returned \in Seq(Position) /\ asked \in SUBSET Position
  BY InvTyped
<1>4. /\ Kept /\ Typed'
      /\ \A p \in Position' \ Position : p[1] = f /\ p[2] > Len(lines[f])
      /\ Len(lines[1]) <= Len(lines'[1])
      /\ \A p \in Position : p \in Wanted' <=> p \in Wanted
  BY <1>2, <1>3, AppendedLinesAreKept
<1>5. /\ Position \in SUBSET Position'
      /\ \A p \in Position : At(p)' = At(p)
  BY <1>4 DEF Kept
<1>6. /\ \A p, q \in Position : SortsBefore(p, q)' <=> SortsBefore(p, q)
      /\ \A p \in Position : \A e : Passed(p, e)' <=> Passed(p, e)
  BY <1>4, KeptLinesStay
<1>7. Wanted \in SUBSET Position /\ Wanted \in SUBSET Wanted'
  BY <1>4 DEF Wanted
<1>8. \A p \in Position : Tied(p) => Tied(p)'
  <2> SUFFICES ASSUME NEW p \in Position, Tied(p)
               PROVE  Tied(p)'
    OBVIOUS
  <2>1. PICK q \in Wanted \ {p} : At(q).key = At(p).key
    BY DEF Tied
  <2>2. q \in Wanted' \ {p} /\ At(q)' = At(q) /\ At(p)' = At(p)
    BY <1>5, <1>7, <2>1
  <2>3. \E e \in Wanted' \ {p} : At(e)'.key = At(p)'.key
    BY <2>1, <2>2
  <2> QED
    BY <1>1, <2>3 DEF Tied
<1>9. page' \in Pages' /\ PagesFit'
  BY <1>1, <1>4, PageStays
<1>10. returned \in Seq(Position')
  BY <1>3, <1>5
<1>11. TypeOK'
  <2>1. /\ window \in {"all", "after", "before"} /\ mark \in Nat \union {None}
        /\ remarked \in BOOLEAN /\ cursor \in Cursor \union {None}
        /\ state \in {"new", "open", "over", "answered"}
    BY DEF ReadingInv, TypeOK
  <2>2. /\ kind' \in Kinds /\ limit' \in 1 .. MaxLimit /\ lines' \in [File -> Seq(Line)]
    BY <1>4 DEF Typed
  <2>3. asked \in SUBSET Position'
    BY <1>3, <1>5
  <2> QED
    BY <1>0, <1>1, <1>9, <1>10, <2>1, <2>2, <2>3 DEF TypeOK, Pages
<1>12. KindsDiffer'
  <2>1. kind # "logs" => window = "all" /\ asked \subseteq Wanted
    BY DEF ReadingInv, KindsDiffer
  <2> QED
    BY <1>1, <1>4, <1>7, <2>1 DEF KindsDiffer, Typed
<1>13. CursorHeld'
  <2>1. Len(lines[1]) \in Nat /\ Len(lines'[1]) \in Nat
    BY <1>1, <1>3, <1>4 DEF Typed, File
  <2>2. cursor # None => cursor.pos \in Nat
    BY CursorsAre DEF ReadingInv, TypeOK
  <2>3. /\ state \in {"new", "over"} => cursor = None
        /\ state = "open" => /\ cursor # None /\ cursor.kind = kind
                             /\ kind = "logs" => cursor.pos <= Len(lines[1])
    BY DEF ReadingInv, CursorHeld
  <2>4. state = "open" /\ kind = "logs" => cursor.pos <= Len(lines'[1])
    BY <1>4, <2>1, <2>2, <2>3
  <2> QED
    BY <1>1, <2>3, <2>4 DEF CursorHeld
(* A line that is appended is not behind the cursor.                       *)
<1>14. ASSUME NEW p \in Sought', state = "open", Passed(p, cursor)'
       PROVE  p \in Position /\ p \in Sought
  <2>1. CASE kind # "logs"
    <3>1. p \in asked
      BY <1>1, <2>1 DEF Sought
    <3> QED
      BY <1>3, <2>1, <3>1 DEF Sought
  <2>2. CASE kind = "logs"
    <3>1. p \in Wanted' /\ p \in Position'
      BY <1>1, <2>2 DEF Sought, Wanted
    <3>2. p \in Position
      <4> SUFFICES ASSUME p \notin Position
                   PROVE  FALSE
        OBVIOUS
      <4>1. p[2] > Len(lines[1])
        BY <1>1, <1>4, <2>2, <3>1
      <4>2. p[2] < cursor.pos
        BY <1>1, <1>14, <2>2 DEF Passed
      <4>3. cursor.pos <= Len(lines[1]) /\ cursor.pos \in Nat
        BY <1>14, <2>2, CursorsAre DEF ReadingInv, CursorHeld, TypeOK
      <4>4. p[2] \in Nat /\ Len(lines[1]) \in Nat
        BY <1>3, <3>1, BoundsAssumption DEF Position, Typed, File
      <4> QED
        BY <4>1, <4>2, <4>3, <4>4
    <3> QED
      BY <1>4, <2>2, <3>1, <3>2 DEF Sought
  <2> QED
    BY <2>1, <2>2
<1>15. \A i \in DOMAIN returned : returned[i] \in Position
  BY <1>3
<1>16. ReadSoFar'
  <2>1. (Reading => \A i, j \in DOMAIN returned :
                       i < j => SortsBefore(returned[i], returned[j]))'
    BY <1>1, <1>6, <1>15 DEF ReadingInv, ReadSoFar, Reading
  <2>2. (state = "open" => \A i \in DOMAIN returned : Passed(returned[i], cursor))'
    BY <1>1, <1>6, <1>15 DEF ReadingInv, ReadSoFar
  <2>3. (state = "open" => (~remarked => \A p \in Sought :
           Passed(p, cursor) => p \in Range(returned) \/ Tied(p)))'
    <3> SUFFICES ASSUME state = "open", ~remarked, NEW p \in Sought',
                        Passed(p, cursor)'
                 PROVE  p \in Range(returned) \/ Tied(p)'
      BY <1>1
    <3>1. p \in Position /\ p \in Sought
      BY <1>14
    <3>2. Passed(p, cursor)
      BY <1>1, <1>6, <3>1
    <3>3. p \in Range(returned) \/ Tied(p)
      BY <3>1, <3>2 DEF ReadingInv, ReadSoFar
    <3> QED
      BY <1>8, <3>1, <3>3
  <2>4. (state = "over" /\ ~remarked =>
           \A p \in asked : p \in Range(returned) \/ Tied(p))'
    <3> SUFFICES ASSUME state = "over", ~remarked, NEW p \in asked
                 PROVE  p \in Range(returned) \/ Tied(p)'
      BY <1>1
    <3>1. p \in Range(returned) \/ Tied(p)
      BY DEF ReadingInv, ReadSoFar
    <3> QED
      BY <1>3, <1>8, <3>1
  <2> QED
    BY <2>1, <2>2, <2>3, <2>4 DEF ReadSoFar
<1> QED
  BY <1>9, <1>11, <1>12, <1>13, <1>16 DEF ReadingInv

(* So does a mark, which only the lines of a log can have.                 *)
LEMMA SetMarkKeeps ==
  ASSUME ReadingInv, state # "answered", SetMark
  PROVE  ReadingInv'
<1>1. /\ kind' = kind /\ limit' = limit /\ window' = window /\ lines' = lines
      /\ cursor' = cursor /\ returned' = returned /\ asked' = asked
      /\ state' = state /\ page' = page /\ remarked' = TRUE
      /\ mark' = Len(lines[1]) /\ window # "all" /\ unended' = unended
  BY DEF SetMark, query
<1>2. kind = "logs"
  BY <1>1 DEF ReadingInv, KindsDiffer
<1>3. Typed /\ Kept /\ Position' = Position
  BY InvTyped, SameLinesAreKept, <1>1 DEF query
<1>4. page' \in Pages' /\ PagesFit'
  BY <1>1, <1>3, PageStays
<1>5. mark' \in Nat
  BY <1>1, <1>3 DEF Typed, File
<1>6. TypeOK'
  BY <1>1, <1>3, <1>4, <1>5 DEF ReadingInv, TypeOK, Pages
<1>7. KindsDiffer' /\ CursorHeld'
  BY <1>1, <1>2 DEF ReadingInv, KindsDiffer, CursorHeld
<1>8. /\ \A p, q : SortsBefore(p, q)' <=> SortsBefore(p, q)
      /\ \A p, e : Passed(p, e)' <=> Passed(p, e)
  <2>1. \A p, q : SortsBefore(p, q)' <=> SortsBefore(p, q)
    BY <1>1 DEF SortsBefore, Precedes, At
  <2>2. \A p, e : Passed(p, e)' <=> Passed(p, e)
    BY <1>1 DEF Passed, Precedes, At
  <2> QED
    BY <2>1, <2>2
<1>9. ReadSoFar'
  BY <1>1, <1>8 DEF ReadingInv, ReadSoFar, Reading
<1> QED
  BY <1>4, <1>6, <1>7, <1>9 DEF ReadingInv

(* Every step keeps it.                                                    *)
LEMMA NextReads ==
  ASSUME ReadingInv, [Next]_vars
  PROVE  ReadingInv'
<1>1. CASE UNCHANGED vars
  <2>1. UNCHANGED <<query, lines, mark, cursor, asked, remarked>>
        /\ UNCHANGED <<returned, state>> /\ page' = page
        /\ unended' \subseteq File
    BY <1>1 DEF vars, query, ReadingInv, TypeOK
  <2> QED
    BY <2>1, ReadingStays
<1>2. CASE Next
  <2>1. state # "answered"
    BY <1>2 DEF Next
  <2>2. ASSUME NEW call \in Call, Refused(call)
        PROVE  ReadingInv'
    <3>1. UNCHANGED <<query, lines, mark, cursor, asked, remarked>>
          /\ UNCHANGED <<returned, state>> /\ page' = Refusal
          /\ unended' \subseteq File
      BY <2>2 DEF Refused, ReadingInv, TypeOK
    <3> QED
      BY <3>1, ReadingStays
  <2>3. ASSUME NEW call \in Call, GetPage(call)
        PROVE  ReadingInv'
    BY <2>1, <2>3, PageKeeps
  <2>4. ASSUME NEW call \in Call, GetNewest(call) \/ GetCounts(call)
        PROVE  ReadingInv'
    <3>1. UNCHANGED <<query, lines, mark, cursor, asked, remarked>>
          /\ state' = "answered" /\ page' = page
          /\ unended' \subseteq File
      BY <2>4 DEF GetNewest, GetCounts, ReadingInv, TypeOK
    <3> QED
      BY <3>1, ReadingStays
  <2>5. ASSUME NEW f \in File, NEW l \in LineOf(kind), Appended(f, l)
        PROVE  ReadingInv'
    BY <2>1, <2>5, AppendedKeeps
  <2>6. CASE SetMark
    BY <2>1, <2>6, SetMarkKeeps
  <2>7. ASSUME NEW f \in File, Newline(f)
        PROVE  ReadingInv'
    <3>1. UNCHANGED <<query, lines, mark, cursor, asked, remarked>>
          /\ UNCHANGED <<returned, state>> /\ page' = page
          /\ unended' \subseteq File
      BY <2>7 DEF Newline, ReadingInv, TypeOK
    <3> QED
      BY <3>1, ReadingStays
  <2> QED
    BY <1>2, <2>2, <2>3, <2>4, <2>5, <2>6, <2>7 DEF Next
<1> QED
  BY <1>1, <1>2

(* At any time, what a reading has passed by is what it has returned: the  *)
(* cursors of searchLogs, iterateLocal and runSortPath say no less.        *)
THEOREM ReadingInvariant == Spec => []ReadingInv
<1>1. Init => ReadingInv
  BY InitReads
<1>2. ReadingInv /\ [Next]_vars => ReadingInv'
  BY NextReads
<1> QED
  BY <1>1, <1>2, PTL DEF Spec

(* Reading page by page (searchLogs, runStreamPath, runSortPath) loses     *)
(* nothing and repeats nothing.                                            *)
THEOREM ReadingLosesNothing == Spec => []PagesLoseNothing
<1>1. ReadingInv => PagesLoseNothing
  BY DEF ReadingInv, ReadSoFar, Reading, PagesLoseNothing
<1> QED
  BY <1>1, ReadingInvariant, PTL

(* Every page keeps to its limit and searchLogs' budget, and goes on.      *)
THEOREM EveryPageFits == Spec => []PagesFit
<1>1. ReadingInv => PagesFit
  BY DEF ReadingInv
<1> QED
  BY <1>1, ReadingInvariant, PTL

-----------------------------------------------------------------------------
(* The newest records.                                                     *)

Descending ==
  {e \in Wanted \X Wanted :
     \/ At(e[1]).key > At(e[2]).key
     \/ At(e[1]).key = At(e[2]).key /\ Precedes(e[1], e[2])}

(* Of a sorted source, the newest are those of the greatest keys.          *)
LEMMA NewestOfSorted ==
  ASSUME Typed, kind = "sort"
  PROVE  LET n == Min({limit, Cardinality(Wanted)})
         IN  /\ NewestFirst \in Seq(Wanted) /\ Len(NewestFirst) = n
             /\ \A i, j \in DOMAIN NewestFirst :
                   i < j => At(NewestFirst[i]).key >= At(NewestFirst[j]).key
             /\ \A p \in Wanted \ Range(NewestFirst) : \A i \in DOMAIN NewestFirst :
                   At(p).key <= At(NewestFirst[i]).key
<1> DEFINE s == Sorted(Wanted, Descending)
           N == Cardinality(Wanted)
           n == Min({limit, N})
           new == NewestFirst
<1>1. Wanted \in SUBSET Position
  BY DEF Wanted
<1>2. \A p \in Wanted : /\ p = <<p[1], p[2]>> /\ p[1] \in Int /\ p[2] \in Int
                        /\ At(p).key \in Int
  BY <1>1, PositionsAre
<1>3. \A p, q \in Wanted : <<p, q>> \in Descending
         <=> \/ At(p).key > At(q).key
             \/ At(p).key = At(q).key /\ Precedes(p, q)
  BY DEF Descending
<1>4. Orders(Wanted, Descending)
  <2>1. \A p \in Wanted : <<p, p>> \notin Descending
    BY <1>2, <1>3 DEF Precedes
  <2>2. ASSUME NEW p \in Wanted, NEW q \in Wanted, NEW r \in Wanted,
               <<p, q>> \in Descending, <<q, r>> \in Descending
        PROVE  <<p, r>> \in Descending
    <3>1. /\ p[1] \in Int /\ p[2] \in Int /\ q[1] \in Int /\ q[2] \in Int
          /\ r[1] \in Int /\ r[2] \in Int
          /\ At(p).key \in Int /\ At(q).key \in Int /\ At(r).key \in Int
      BY <1>2
    <3>2. Precedes(p, q) /\ Precedes(q, r) => Precedes(p, r)
      BY <3>1 DEF Precedes
    <3> QED
      BY <1>3, <2>2, <3>1, <3>2
  <2>3. \A p, q \in Wanted : p # q => <<p, q>> \in Descending \/ <<q, p>> \in Descending
    <3>1. \A p, q \in Wanted : p # q => Precedes(p, q) \/ Precedes(q, p)
      BY <1>2 DEF Precedes
    <3> QED
      BY <1>2, <1>3, <3>1
  <2> QED
    BY <2>1, <2>2, <2>3 DEF Orders
<1>5. IsFiniteSet(Wanted)
  BY <1>1, PositionsAreFinite
<1>6. /\ N \in Nat /\ s \in [1 .. N -> Wanted] /\ Len(s) = N
      /\ \A i, j \in 1 .. N : i < j <=> <<s[i], s[j]>> \in Descending
      /\ \A p \in Wanted : \E i \in 1 .. N : s[i] = p
  BY <1>4, <1>5, SortedEnumerates
<1>7. new = SubSeq(s, 1, Min({limit, Len(s)}))
  BY Zenon DEF NewestFirst, Descending
<1>8. new = SubSeq(s, 1, n)
  BY <1>6, <1>7
<1> HIDE DEF s, new
<1>9. limit \in Nat
  BY DEF Typed
<1>10. n \in 0 .. N
  <2>1. n = IF limit <= N THEN limit ELSE N
    <3> HIDE DEF N
    <3> QED
      BY <1>6, <1>9, MinOfTwo
  <2> HIDE DEF n
  <2> QED
    BY <1>6, <1>9, <2>1
<1> HIDE DEF N, n
<1>11. /\ new \in Seq(Wanted) /\ Len(new) = n /\ DOMAIN new = 1 .. n
       /\ \A i \in 1 .. n : new[i] = s[i]
  <2>1. s \in Seq(Wanted)
    BY <1>6
  <2> QED
    BY <1>6, <1>8, <1>10, <2>1
<1>12. \A i, j \in 1 .. N : i < j => At(s[i]).key >= At(s[j]).key
  <2> SUFFICES ASSUME NEW i \in 1 .. N, NEW j \in 1 .. N, i < j
               PROVE  At(s[i]).key >= At(s[j]).key
    OBVIOUS
  <2>1. s[i] \in Wanted /\ s[j] \in Wanted /\ <<s[i], s[j]>> \in Descending
    BY <1>6
  <2>2. At(s[i]).key \in Int /\ At(s[j]).key \in Int
    BY <1>2, <2>1
  <2> QED
    BY <1>3, <2>1, <2>2
<1>13. \A i \in 1 .. n : i \in 1 .. N
  BY <1>6, <1>10
<1>14. ASSUME NEW p \in Wanted \ Range(new), NEW i \in 1 .. n
       PROVE  At(p).key <= At(new[i]).key
  <2>1. PICK j \in 1 .. N : s[j] = p
    BY <1>6
  <2>2. j \notin 1 .. n
    BY <1>11, <1>14, <2>1 DEF Range
  <2>3. i < j
    BY <1>6, <1>10, <2>2
  <2>4. At(s[i]).key >= At(p).key
    BY <1>12, <1>13, <2>1, <2>3
  <2>5. s[i] \in Wanted /\ At(s[i]).key \in Int /\ At(p).key \in Int
    BY <1>2, <1>6, <1>13
  <2> QED
    BY <1>11, <2>4, <2>5
<1>15. \A i, j \in DOMAIN new : i < j => At(new[i]).key >= At(new[j]).key
  BY <1>11, <1>12, <1>13
<1>16. \A p \in Wanted \ Range(new) : \A i \in DOMAIN new :
          At(p).key <= At(new[i]).key
  BY <1>11, <1>14
<1> QED
  BY <1>11, <1>15, <1>16, Zenon DEF new, n, N

(* The ring of iterateLocalDesc.                                           *)
LEMMA Wraps ==
  ASSUME NEW m \in Nat, m > 0, NEW a \in 0 .. 2 * m - 1
  PROVE  /\ a < m => a % m = a
         /\ ~(a < m) => a % m = a - m
OBVIOUS

(* After k records the ring holds the latest of them, oldest first from its*)
(* start on.                                                               *)
Holds(ring, found, k) ==
  /\ ring.slot \in [0 .. limit - 1 -> Position \union {None}]
  /\ ring.count = IF k <= limit THEN k ELSE limit
  /\ ring.start \in 0 .. limit - 1
  /\ k <= limit => ring.start = 0
  /\ ring = [slot |-> ring.slot, start |-> ring.start, count |-> ring.count]
  /\ \A i \in 1 .. ring.count :
        ring.slot[(ring.start + i - 1) % limit] = found[k - ring.count + i]

(* A record put into the ring takes the place of the oldest once it is     *)
(* full.                                                                   *)
LEMMA PutHolds ==
  ASSUME limit \in Nat, limit > 0, NEW n \in Nat, NEW found \in [1 .. n -> Position],
         NEW k \in 1 .. n, NEW ring, Holds(ring, found, k - 1)
  PROVE  Holds(Put(ring, found[k]), found, k)
<1> DEFINE m == limit
           p == found[k]
           slot == ring.slot
           start == ring.start
           count == ring.count
           new == Put(ring, p)
<1>1. /\ slot \in [0 .. m - 1 -> Position \union {None}]
      /\ count = IF k - 1 <= m THEN k - 1 ELSE m
      /\ start \in 0 .. m - 1
      /\ k - 1 <= m => start = 0
      /\ ring = [slot |-> slot, start |-> start, count |-> count]
      /\ \A i \in 1 .. count : slot[(start + i - 1) % m] = found[k - 1 - count + i]
  BY DEF Holds
<1>2. p \in Position /\ k \in Nat /\ k >= 1 /\ m \in Nat /\ m > 0
  OBVIOUS
<1>3. \A a \in 0 .. 2 * m - 1 : (a < m => a % m = a) /\ (~(a < m) => a % m = a - m)
  BY Wraps
<1>4. CASE count < m
  <2>1. count = k - 1 /\ start = 0 /\ k <= m
    BY <1>1, <1>2, <1>4
  <2>2. (start + count) % m = k - 1
    BY <1>2, <1>3, <2>1
  <2>3. new = [slot |-> [slot EXCEPT ![k - 1] = p], start |-> 0, count |-> k]
    <3>1. new = [ring EXCEPT !.slot[(start + count) % m] = p, !.count = @ + 1]
      BY <1>4, Zenon DEF Put
    <3>2. new = [ring EXCEPT !.slot[k - 1] = p, !.count = @ + 1]
      BY <2>2, <3>1
    <3>3. count + 1 = k
      BY <1>2, <2>1
    <3> QED
      BY <1>1, <2>1, <3>2, <3>3
  <2> DEFINE slots == [slot EXCEPT ![k - 1] = p]
  <2>4. slots \in [0 .. m - 1 -> Position \union {None}]
        /\ slots[k - 1] = p /\ \A i \in (0 .. m - 1) \ {k - 1} : slots[i] = slot[i]
    BY <1>1, <1>2, <2>1
  <2> HIDE DEF slots
  <2>5. ASSUME NEW i \in 1 .. k
        PROVE  slots[(0 + i - 1) % m] = found[k - k + i]
    <3>1. (0 + i - 1) % m = i - 1 /\ i - 1 \in 0 .. m - 1 /\ k - k + i = i
      BY <1>2, <1>3, <2>1
    <3>2. CASE i = k
      BY <2>4, <3>1, <3>2
    <3>3. CASE i # k
      <4>1. i \in 1 .. count /\ (start + i - 1) = (0 + i - 1) /\ k - 1 - count + i = i
            /\ i - 1 # k - 1
        BY <1>2, <2>1, <3>3
      <4>2. slot[(0 + i - 1) % m] = found[i]
        BY <1>1, <4>1
      <4> QED
        BY <2>4, <3>1, <4>1, <4>2
    <3> QED
      BY <3>2, <3>3
  <2>6. new.slot = slots /\ new.start = 0 /\ new.count = k
        /\ new = [slot |-> new.slot, start |-> new.start, count |-> new.count]
    BY <2>3 DEF slots
  <2> HIDE DEF new
  <2>7. Holds(new, found, k)
    BY <1>2, <2>1, <2>4, <2>5, <2>6 DEF Holds
  <2> QED
    BY <2>7 DEF new
<1>5. CASE ~(count < m)
  <2>1. count = m /\ k > m
    BY <1>1, <1>2, <1>5
  <2>2. new = [slot |-> [slot EXCEPT ![start] = p], start |-> (start + 1) % m,
               count |-> m]
    BY <1>1, <1>2, <1>5, <2>1 DEF Put
  <2> DEFINE slots == [slot EXCEPT ![start] = p]
             next == (start + 1) % m
  <2>3. slots \in [0 .. m - 1 -> Position \union {None}]
        /\ slots[start] = p /\ \A i \in (0 .. m - 1) \ {start} : slots[i] = slot[i]
    BY <1>1
  <2>4. next = (IF start + 1 < m THEN start + 1 ELSE start + 1 - m)
        /\ next \in 0 .. m - 1
    <3>1. PICK a \in 0 .. 2 * m - 1 : a = start + 1
      BY <1>1, <1>2
    <3>2. (a < m => a % m = a) /\ (~(a < m) => a % m = a - m)
      BY <1>3
    <3>3. next = a % m
      BY <3>1
    <3> HIDE DEF next
    <3> QED
      BY <1>1, <1>2, <3>1, <3>2, <3>3
  <2>5. new.slot = slots /\ new.start = next /\ new.count = m
        /\ new = [slot |-> new.slot, start |-> new.start, count |-> new.count]
    BY <2>2
  <2> HIDE DEF slots, next, new
  <2>6. ASSUME NEW i \in 1 .. m
        PROVE  slots[(next + i - 1) % m] = found[k - m + i]
    <3> DEFINE at == (next + i - 1) % m
    <3>1. /\ next + i - 1 < m => at = next + i - 1
          /\ ~(next + i - 1 < m) => at = next + i - 1 - m
      <4>1. PICK a \in 0 .. 2 * m - 1 : a = next + i - 1
        BY <1>2, <2>4
      <4>2. (a < m => a % m = a) /\ (~(a < m) => a % m = a - m)
        BY <1>3
      <4>3. at = a % m
        BY <4>1
      <4> HIDE DEF at
      <4> QED
        BY <1>2, <2>4, <4>1, <4>2, <4>3
    <3>2. CASE i = m
      <4>2. /\ next + i - 1 < m => at = next + i - 1
            /\ ~(next + i - 1 < m) => at = next + i - 1 - m
        BY <3>1
      <4> HIDE DEF at
      <4>3. at = start
        BY <1>1, <1>2, <2>4, <3>2, <4>2
      <4>1. (next + i - 1) % m = start /\ k - m + i = k
        BY <1>2, <3>2, <4>3 DEF at
      <4> QED
        BY <2>3, <4>1
    <3>3. CASE i # m
      <4>1. i + 1 \in 1 .. m
        BY <1>2, <3>3
      <4> DEFINE was == (start + (i + 1) - 1) % m
      <4>2. /\ start + i < m => was = start + i
            /\ ~(start + i < m) => was = start + i - m
        <5>1. PICK a \in 0 .. 2 * m - 1 : a = start + (i + 1) - 1 /\ a = start + i
          BY <1>1, <1>2, <3>3
        <5>2. (a < m => a % m = a) /\ (~(a < m) => a % m = a - m)
          BY <1>3
        <5>3. was = a % m
          BY <5>1
        <5>4. start \in Int /\ i \in Int /\ m \in Int /\ a \in Int
          BY <1>1, <1>2
        <5> HIDE DEF was, start, m
        <5> QED
          BY <5>1, <5>2, <5>3, <5>4
      <4>3. (next + i - 1) % m = (start + (i + 1) - 1) % m
            /\ (next + i - 1) % m \in (0 .. m - 1) \ {start}
        <5>1. /\ next + i - 1 < m => at = next + i - 1
              /\ ~(next + i - 1 < m) => at = next + i - 1 - m
              /\ start + i < m => was = start + i
              /\ ~(start + i < m) => was = start + i - m
          BY <3>1, <4>2
        <5> HIDE DEF at, was
        <5>2. at = was /\ at \in (0 .. m - 1) \ {start}
          <6>1. /\ start \in Nat /\ start <= m - 1 /\ m \in Nat
                /\ i \in Nat /\ 1 <= i /\ i < m
            BY <1>1, <1>2, <3>3
          <6> HIDE DEF start, m
          <6> QED
            BY <2>4, <5>1, <6>1
        <5> QED
          BY <5>2 DEF at, was
      <4>4. slot[(start + (i + 1) - 1) % m] = found[k - 1 - m + (i + 1)]
        BY <1>1, <2>1, <4>1
      <4>5. k - 1 - m + (i + 1) = k - m + i
        BY <1>2
      <4> QED
        BY <2>3, <4>3, <4>4, <4>5
    <3> QED
      BY <3>2, <3>3
  <2>7. Holds(new, found, k)
    BY <1>2, <2>1, <2>3, <2>4, <2>5, <2>6 DEF Holds
  <2> QED
    BY <2>7 DEF new
<1> QED
  BY <1>1, <1>2, <1>4, <1>5

(* So the ring holds the latest when all records have gone through it.     *)
LEMMA RingIs ==
  ASSUME limit \in Nat, limit > 0, NEW n \in Nat, NEW found \in [1 .. n -> Position]
  PROVE  Holds(FoldLeft(Put, [slot  |-> [i \in 0 .. limit - 1 |-> None],
                              start |-> 0, count |-> 0], found), found, n)
<1> DEFINE base == [slot  |-> [i \in 0 .. limit - 1 |-> None],
                    start |-> 0, count |-> 0]
           V == {ring \in [slot : [0 .. limit - 1 -> Position \union {None}],
                           start : 0 .. limit - 1, count : 0 .. limit] : TRUE}
           step == [k \in 1 .. n |-> [ring \in V |-> Put(ring, found[k])]]
           Iter(g) == g = [t \in SUBSET (DOMAIN found) |->
                             IF t = {} THEN base
                             ELSE Put(g[t \ {Max(t)}], found[Max(t)])]
<1>1. n \in Nat /\ DOMAIN found = 1 .. n /\ \A k \in 1 .. n : found[k] \in Position
  OBVIOUS
<1>2. step \in [1 .. n -> [V -> V]] /\ base \in V
  <2>1. base \in V
    OBVIOUS
  <2>2. ASSUME NEW ring \in V, NEW p \in Position
        PROVE  Put(ring, p) \in V
    <3>1. (ring.start + ring.count) % limit \in 0 .. limit - 1
          /\ (ring.start + 1) % limit \in 0 .. limit - 1
      OBVIOUS
    <3>2. CASE ring.count < limit
      <4>1. Put(ring, p) = [ring EXCEPT !.slot[(ring.start + ring.count) % limit] = p,
                                        !.count = @ + 1]
        BY <3>2, Zenon DEF Put
      <4>2. ring.count + 1 \in 0 .. limit
        BY <3>2
      <4> QED
        BY <3>1, <4>1, <4>2
    <3>3. CASE ~(ring.count < limit)
      <4>1. Put(ring, p) = [ring EXCEPT !.slot[ring.start] = p,
                                        !.start = (@ + 1) % limit]
        BY <3>3, Zenon DEF Put
      <4> QED
        BY <3>1, <4>1
    <3> QED
      BY <3>2, <3>3
  <2> HIDE DEF V
  <2> QED
    BY <1>1, <2>1, <2>2
<1> HIDE DEF V
<1>3. PICK some : Iterates(some, n, V, base, step)
  <2> HIDE DEF step, base
  <2> QED
    BY <1>1, <1>2, IterExists
<1>4. \E g : Iter(g)
  <2>1. \A t \in SUBSET (1 .. n) : t # {} => Max(t) \in 1 .. n
    BY <1>1, MaxOf
  <2> HIDE DEF base
  <2>2. Iter(some)
    BY <1>1, <1>3, <2>1 DEF Iterates
  <2> QED
    BY <2>2
<1> HIDE DEF base
<1>5. PICK g : Iter(g) /\ FoldLeft(Put, base, found) = g[DOMAIN found]
  BY <1>4, Zenon DEF FoldLeft, MapThenFoldSet
<1> DEFINE f == [k \in 0 .. n |-> g[1 .. k]]
<1>6. f[0] = base
  <2>1. 1 .. 0 = {} /\ {} \in SUBSET (DOMAIN found) /\ 0 \in 0 .. n
    BY <1>1
  <2> QED
    BY <1>5, <2>1
<1>7. ASSUME NEW k \in 1 .. n
      PROVE  f[k] = Put(f[k - 1], found[k])
  <2>1. /\ 1 .. k \in SUBSET (DOMAIN found) /\ 1 .. k # {}
        /\ Max(1 .. k) = k /\ (1 .. k) \ {k} = 1 .. (k - 1)
    BY <1>1, Beginnings
  <2>2. g[1 .. k] = Put(g[1 .. (k - 1)], found[k])
    BY <1>5, <2>1
  <2>3. k \in 0 .. n /\ k - 1 \in 0 .. n
    BY <1>1
  <2> QED
    BY <2>2, <2>3
<1>8. FoldLeft(Put, base, found) = f[n]
  <2>1. n \in 0 .. n
    BY <1>1
  <2> QED
    BY <1>1, <1>5, <2>1
<1> HIDE DEF f
<1> DEFINE T == {k \in 0 .. n : Holds(f[k], found, k)}
<1>9. 0 \in T
  <2>1. Holds(base, found, 0)
    BY DEF Holds, base
  <2> QED
    BY <1>1, <1>6, <2>1
<1>10. ASSUME NEW k \in 1 .. n, k - 1 \in T
       PROVE  k \in T
  <2>1. k \in 0 .. n /\ Holds(f[k - 1], found, k - 1)
    BY <1>10
  <2>2. Holds(Put(f[k - 1], found[k]), found, k)
    BY <2>1, PutHolds
  <2> QED
    BY <1>7, <2>1, <2>2
<1>11. \A k \in 0 .. n : k \in T
  <2> HIDE DEF T
  <2> QED
    BY <1>1, <1>9, <1>10, UpTo
<1>12. Holds(f[n], found, n)
  <2>1. n \in 0 .. n
    BY <1>1
  <2> QED
    BY <1>11, <2>1
<1> QED
  BY <1>8, <1>12 DEF base

(* Of a stream, the newest are the end of what pages return, backwards.    *)
LEMMA NewestOfStream ==
  ASSUME Typed, kind = "stream"
  PROVE  LET n == Min({limit, Cardinality(Ended)})
         IN  /\ NewestFirst \in Seq(Ended) /\ Len(NewestFirst) = n
             /\ NewestFirst = Reverse(SubSeq(InOrder(Ended),
                                             Cardinality(Ended) - n + 1,
                                             Cardinality(Ended)))
<1> DEFINE found == InOrder(Ended)
           N == Cardinality(Ended)
           n == Min({limit, N})
           ring == FoldLeft(Put, [slot  |-> [i \in 0 .. limit - 1 |-> None],
                                  start |-> 0, count |-> 0], found)
           late == [i \in 1 .. ring.count |-> ring.slot[(ring.start + i - 1) % limit]]
           last == SubSeq(found, N - n + 1, N)
<1>1. Ended \in SUBSET Position
  BY DEF Ended, Wanted
<1>2. N \in Nat /\ found \in [1 .. N -> Ended] /\ Len(found) = N
  BY <1>1, InOrderEnumerates, Zenon
<1>3. limit \in Nat /\ limit > 0
  BY DEF Typed
<1>4. NewestFirst = Reverse(late)
  BY Zenon DEF NewestFirst
<1> HIDE DEF found
<1>5. found \in [1 .. N -> Position]
  BY <1>1, <1>2
<1>6. Holds(ring, found, N)
  <2> HIDE DEF N
  <2> QED
    BY <1>2, <1>3, <1>5, RingIs
<1> HIDE DEF ring
<1>7. n = (IF limit <= N THEN limit ELSE N) /\ n \in 0 .. N
  <2>1. n = IF limit <= N THEN limit ELSE N
    <3> HIDE DEF N
    <3> QED
      BY <1>2, <1>3, MinOfTwo
  <2> HIDE DEF n
  <2> QED
    BY <1>2, <1>3, <2>1
<1> HIDE DEF n, N
<1>8. ring.count = n
  BY <1>2, <1>3, <1>6, <1>7 DEF Holds
<1>9. \A i \in 1 .. n : ring.slot[(ring.start + i - 1) % limit] = found[N - n + i]
  BY <1>6, <1>8 DEF Holds
<1>10. late = [i \in 1 .. n |-> found[N - n + i]]
  BY <1>8, <1>9
<1> HIDE DEF late
<1>11. /\ last \in Seq(Ended) /\ Len(last) = n
       /\ last \in [1 .. n -> Ended]
       /\ last = [i \in 1 .. n |-> found[N - n + i]]
  <2>1. found \in Seq(Ended)
    BY <1>2
  <2>2. N - n + 1 \in Int /\ N - n + 1 >= 1 /\ N - (N - n + 1) + 1 = n
    BY <1>2, <1>7
  <2>3. last = [i \in 1 .. n |-> found[i + (N - n + 1) - 1]]
    BY <1>2, <1>7, <2>1, <2>2
  <2>4. \A i \in 1 .. n : i + (N - n + 1) - 1 = N - n + i /\ N - n + i \in 1 .. N
    BY <1>2, <1>7
  <2>5. last = [i \in 1 .. n |-> found[N - n + i]]
    BY <2>3, <2>4
  <2> HIDE DEF last
  <2>6. last \in [1 .. n -> Ended]
    BY <1>2, <2>4, <2>5
  <2> QED
    BY <1>7, <2>5, <2>6
<1> HIDE DEF last
<1>12. late = last
  BY <1>10, <1>11, Zenon
<1>13. Reverse(last) = [i \in 1 .. n |-> last[n - i + 1]]
  BY <1>11 DEF Reverse
<1>14. Reverse(last) \in Seq(Ended) /\ Len(Reverse(last)) = n
  <2>1. \A i \in 1 .. n : n - i + 1 \in 1 .. n
    BY <1>7
  <2>3. \A j \in 1 .. n : last[j] \in Ended
    BY <1>11
  <2>2. [i \in 1 .. n |-> last[n - i + 1]] \in [1 .. n -> Ended]
    BY <2>1, <2>3
  <2> QED
    BY <1>7, <1>13, <2>2
<1>15. NewestFirst = Reverse(last)
  BY <1>4, <1>12
<1> QED
  BY <1>14, <1>15, Zenon DEF last, n, N, found

-----------------------------------------------------------------------------
(* The counts of an aggregation.                                           *)

Keyed(found, key, g)          == {p \in found : key[p] = g}
KeyedAny(found, key, m, shown) == {p \in found : \E i \in 1 .. m : key[p] = shown[i]}

(* The totals of the groups shown are the number of lines in them.         *)
LEMMA ShownCount ==
  ASSUME NEW found, IsFiniteSet(found), NEW key,
         NEW m \in Nat, NEW shown, NEW sizes \in Seq(Nat), Len(sizes) = m,
         \A i, j \in 1 .. m : shown[i] = shown[j] => i = j,
         \A i \in 1 .. m : sizes[i] = Cardinality(Keyed(found, key, shown[i]))
  PROVE  Total(sizes) = Cardinality(KeyedAny(found, key, m, shown))
<1> DEFINE in(k) == KeyedAny(found, key, k, shown)
           of(k) == Keyed(found, key, shown[k])
<1>1. PICK f \in [0 .. m -> Nat] :
         /\ f[0] = 0
         /\ \A k \in 1 .. m : f[k] = f[k - 1] + sizes[k]
         /\ Total(sizes) = f[m]
  BY TotalIs
<1> DEFINE T == {k \in 0 .. m : f[k] = Cardinality(in(k))}
<1>2. 0 \in T
  <2>1. in(0) = {}
    BY DEF KeyedAny
  <2> HIDE DEF in
  <2>2. Cardinality(in(0)) = 0
    BY <2>1, FS_EmptySet
  <2> QED
    BY <1>1, <2>2
<1>3. ASSUME NEW k \in 1 .. m, k - 1 \in T
      PROVE  k \in T
  <2>1. k \in 0 .. m /\ k - 1 \in 0 .. m
    OBVIOUS
  <2>2. in(k) = in(k - 1) \cup of(k)
    <3>1. 1 .. k = (1 .. k - 1) \cup {k}
      OBVIOUS
    <3> QED
      BY <3>1 DEF KeyedAny, Keyed
  <2>3. in(k - 1) \cap of(k) = {}
    <3>1. \A i \in 1 .. k - 1 : i \in 1 .. m /\ i # k
      OBVIOUS
    <3> QED
      BY <3>1 DEF KeyedAny, Keyed
  <2>4. in(k - 1) \in SUBSET found /\ of(k) \in SUBSET found
    BY DEF KeyedAny, Keyed
  <2>5. sizes[k] = Cardinality(of(k))
    OBVIOUS
  <2>6. f[k - 1] = Cardinality(in(k - 1)) /\ f[k] = f[k - 1] + sizes[k]
    BY <1>1, <1>3
  <2> HIDE DEF in, of
  <2>7. IsFiniteSet(in(k - 1)) /\ IsFiniteSet(of(k))
    BY <2>4, FS_Subset
  <2>8. Cardinality(in(k)) = Cardinality(in(k - 1)) + Cardinality(of(k)) - Cardinality({})
    <3>1. Cardinality(in(k - 1) \cup of(k))
            = Cardinality(in(k - 1)) + Cardinality(of(k))
                - Cardinality(in(k - 1) \cap of(k))
      BY <2>7, FS_Union
    <3> QED
      BY <2>2, <2>3, <3>1, Zenon
  <2>9. Cardinality({}) = 0 /\ Cardinality(in(k - 1)) \in Nat /\ Cardinality(of(k)) \in Nat
    BY <2>7, FS_EmptySet, FS_CardinalityType
  <2>10. f[k] = Cardinality(in(k))
    BY <2>5, <2>6, <2>8, <2>9
  <2> QED
    BY <2>1, <2>10
<1>4. \A k \in 0 .. m : k \in T
  <2> HIDE DEF T
  <2> QED
    BY <1>2, <1>3, UpTo
<1>5. f[m] = Cardinality(in(m))
  BY <1>4
<1> QED
  BY <1>1, <1>5

(* The counts are exact: every line that was found is in a group shown, or *)
(* among the others, which are no larger.                                  *)
Counted(counted, top) ==
  LET found == {p \in Wanted : p[1] = 1}
      of(g) == Cardinality({p \in found : At(p).key = g})
      shown == {s[1] : s \in Range(counted.shown)}
  IN  /\ counted.top = top
      /\ counted.matched = Cardinality(found)
      /\ \A s \in Range(counted.shown) : s[2] = of(s[1])
      /\ counted.other = Cardinality({p \in found : At(p).key \notin shown})
      /\ \A g \in shown, h \in (1 .. MaxKey) \ shown : of(g) >= of(h)
      /\ Len(counted.shown) = Min({top, counted.groups})

(* aggregateLogs counts so.                                                *)
LEMMA AggregatedCounts ==
  ASSUME Typed, NEW top \in Nat
  PROVE  Counted(Aggregated(top), top)
<1> DEFINE found == {p \in Wanted : p[1] = 1}
           keys == {At(p).key : p \in found}
           of(g) == {p \in found : At(p).key = g}
           size == [g \in keys |-> Cardinality(of(g))]
           larger == {e \in (DOMAIN size) \X (DOMAIN size) :
                        \/ size[e[1]] > size[e[2]]
                        \/ size[e[1]] = size[e[2]] /\ e[1] < e[2]}
           groups == Sorted(DOMAIN size, larger)
           m == Min({top, Len(groups)})
           shown == SubSeq(groups, 1, m)
           sizes == [i \in DOMAIN shown |-> size[shown[i]]]
           pairs == [i \in DOMAIN shown |-> <<shown[i], size[shown[i]]>>]
           result == [top |-> top, matched |-> Cardinality(found),
                      groups |-> Len(groups), shown |-> pairs,
                      other |-> Cardinality(found) - Total(sizes)]
<1>1. Aggregated(top) = result
  BY Zenon DEF Aggregated
<1>2. IsFiniteSet(found) /\ found \in SUBSET Position
  <2>1. found \in SUBSET Position
    BY DEF Wanted
  <2> HIDE DEF found
  <2> QED
    BY <2>1, PositionsAreFinite
<1>3. \A p \in found : At(p).key \in 1 .. MaxKey
  BY <1>2, PositionsAre
<1> HIDE DEF found
<1>4. keys \in SUBSET (1 .. MaxKey) /\ IsFiniteSet(keys)
  <2>1. keys \in SUBSET (1 .. MaxKey)
    BY <1>3
  <2>2. IsFiniteSet(1 .. MaxKey)
    BY BoundsAssumption, FS_Interval
  <2> HIDE DEF keys
  <2> QED
    BY <2>1, <2>2, FS_Subset
<1>5. \A g : IsFiniteSet(of(g)) /\ Cardinality(of(g)) \in Nat
  <2> SUFFICES ASSUME NEW g
               PROVE  IsFiniteSet(of(g)) /\ Cardinality(of(g)) \in Nat
    OBVIOUS
  <2>1. of(g) \in SUBSET found
    OBVIOUS
  <2> HIDE DEF of
  <2> QED
    BY <1>2, <2>1, FS_Subset, FS_CardinalityType
<1>6. \A g : g \notin keys => Cardinality(of(g)) = 0
  <2> SUFFICES ASSUME NEW g, g \notin keys
               PROVE  Cardinality(of(g)) = 0
    OBVIOUS
  <2>1. of(g) = {}
    OBVIOUS
  <2> HIDE DEF of
  <2> QED
    BY <2>1, FS_EmptySet
<1>7. DOMAIN size = keys /\ \A g \in keys : size[g] = Cardinality(of(g))
                                            /\ size[g] \in Nat
  <2> HIDE DEF of
  <2> QED
    BY <1>5
<1>8. \A p \in found : At(p).key \in keys
  OBVIOUS
<1> HIDE DEF size, of
<1>9. \A g, h \in keys : <<g, h>> \in larger
         <=> size[g] > size[h] \/ (size[g] = size[h] /\ g < h)
  <2> HIDE DEF keys
  <2> QED
    BY <1>7
<1> HIDE DEF keys, larger
<1>10. \A g \in keys : g \in Int
  BY <1>4
<1>11. Orders(keys, larger)
  BY <1>7, <1>9, <1>10 DEF Orders
<1> DEFINE N == Cardinality(keys)
<1>12. groups = Sorted(keys, larger)
  BY <1>7
<1> HIDE DEF groups
<1>13. /\ N \in Nat /\ groups \in [1 .. N -> keys] /\ Len(groups) = N
       /\ \A i, j \in 1 .. N : i < j <=> <<groups[i], groups[j]>> \in larger
       /\ \A g \in keys : \E i \in 1 .. N : groups[i] = g
  BY <1>4, <1>11, <1>12, SortedEnumerates
<1> HIDE DEF N
<1>14. m \in 0 .. N
  <2>1. m = IF top <= N THEN top ELSE N
    BY <1>13, MinOfTwo
  <2> HIDE DEF m
  <2> QED
    BY <1>13, <2>1
<1>15. m = Min({top, Len(groups)})
  OBVIOUS
<1> HIDE DEF m
<1>16. /\ shown \in Seq(keys) /\ Len(shown) = m /\ DOMAIN shown = 1 .. m
       /\ \A i \in 1 .. m : shown[i] = groups[i] /\ shown[i] \in keys
                            /\ i \in 1 .. N
  <2>1. groups \in Seq(keys)
    BY <1>13
  <2> QED
    BY <1>13, <1>14, <2>1
<1> HIDE DEF shown
<1>17. \A i, j \in 1 .. m : shown[i] = shown[j] => i = j
  <2> SUFFICES ASSUME NEW i \in 1 .. m, NEW j \in 1 .. m, i # j
               PROVE  shown[i] # shown[j]
    OBVIOUS
  <2>1. i < j \/ j < i
    OBVIOUS
  <2>2. <<shown[i], shown[j]>> \in larger \/ <<shown[j], shown[i]>> \in larger
    BY <1>13, <1>16, <2>1
  <2> QED
    BY <1>11, <1>16, <2>2 DEF Orders
<1>18. /\ sizes \in Seq(Nat) /\ Len(sizes) = m
       /\ \A i \in 1 .. m : sizes[i] = size[shown[i]]
                            /\ sizes[i] = Cardinality(of(shown[i]))
  <2>1. \A i \in 1 .. m : size[shown[i]] = Cardinality(of(shown[i]))
                           /\ size[shown[i]] \in Nat
    BY <1>7, <1>16
  <2>2. sizes \in [1 .. m -> Nat] /\ \A i \in 1 .. m : sizes[i] = size[shown[i]]
    BY <1>16, <2>1
  <2>3. m \in Nat
    BY <1>14
  <2> HIDE DEF sizes
  <2> QED
    BY <2>1, <2>2, <2>3
<1> HIDE DEF sizes
<1> DEFINE key == [p \in found |-> At(p).key]
           in == {p \in found : \E i \in 1 .. m : At(p).key = shown[i]}
<1>19. Total(sizes) = Cardinality(in)
  <2>1. \A p \in found : key[p] = At(p).key
    OBVIOUS
  <2>2. in = KeyedAny(found, key, m, shown)
    BY <2>1 DEF KeyedAny
  <2>3. \A g : of(g) = Keyed(found, key, g)
    BY <2>1 DEF of, Keyed
  <2>4. m \in Nat
    BY <1>14
  <2>5. \A i \in 1 .. m : sizes[i] = Cardinality(Keyed(found, key, shown[i]))
    BY <1>18, <2>3
  <2> HIDE DEF key, in
  <2> QED
    BY <1>2, <1>17, <1>18, <2>2, <2>4, <2>5, ShownCount
<1> DEFINE names == {s[1] : s \in Range(pairs)}
<1>20. \A s \in Range(pairs) : \E i \in 1 .. m : s = <<shown[i], size[shown[i]]>>
  BY <1>16 DEF Range
<1>21. \A i \in 1 .. m : <<shown[i], size[shown[i]]>> \in Range(pairs)
  BY <1>16 DEF Range
<1>22. Len(pairs) = m
  BY <1>14, <1>16
<1> HIDE DEF pairs
<1>23. \A g : g \in names <=> \E i \in 1 .. m : g = shown[i]
  <2>1. ASSUME NEW g \in names
        PROVE  \E i \in 1 .. m : g = shown[i]
    <3>1. PICK s \in Range(pairs) : g = s[1]
      OBVIOUS
    <3>2. PICK i \in 1 .. m : s = <<shown[i], size[shown[i]]>>
      BY <1>20
    <3> QED
      BY <3>1, <3>2
  <2>2. ASSUME NEW i \in 1 .. m
        PROVE  shown[i] \in names
    <3> DEFINE s == <<shown[i], size[shown[i]]>>
    <3>1. s \in Range(pairs) /\ s[1] = shown[i]
      BY <1>21
    <3> HIDE DEF s
    <3> QED
      BY <3>1, Zenon
  <2> QED
    BY <2>1, <2>2
<1>24. \A s \in Range(pairs) : s[2] = Cardinality(of(s[1]))
  BY <1>7, <1>16, <1>20
<1> HIDE DEF names
<1>25. Cardinality(found) - Total(sizes)
         = Cardinality({p \in found : At(p).key \notin names})
  <2>1. {p \in found : At(p).key \notin names} = found \ in
    BY <1>23
  <2>2. found \cap in = in
    OBVIOUS
  <2> HIDE DEF in
  <2>3. Cardinality(found \ in) = Cardinality(found) - Cardinality(in)
    BY <1>2, <2>2, FS_Difference
  <2> QED
    BY <1>19, <2>1, <2>3
<1>26. ASSUME NEW g \in names, NEW h \in (1 .. MaxKey) \ names
       PROVE  Cardinality(of(g)) >= Cardinality(of(h))
  <2>1. Cardinality(of(g)) \in Nat /\ Cardinality(of(h)) \in Nat
    BY <1>5
  <2>2. PICK i \in 1 .. m : g = shown[i]
    BY <1>23
  <2>3. CASE h \notin keys
    BY <1>6, <2>1, <2>3
  <2>4. CASE h \in keys
    <3>1. PICK j \in 1 .. N : groups[j] = h
      BY <1>13, <2>4
    <3>2. j \notin 1 .. m
      BY <1>16, <1>23, <3>1
    <3>3. i < j /\ i \in 1 .. N
      BY <1>13, <1>14, <3>2
    <3>4. <<g, h>> \in larger /\ g \in keys
      BY <1>13, <1>16, <2>2, <3>1, <3>3
    <3>5. size[g] >= size[h]
      BY <1>7, <1>9, <2>4, <3>4
    <3> QED
      BY <1>7, <2>4, <3>4, <3>5
  <2> QED
    BY <2>3, <2>4
<1>27. /\ result.top = top /\ result.matched = Cardinality(found)
       /\ result.groups = Len(groups) /\ result.shown = pairs
       /\ result.other = Cardinality(found) - Total(sizes)
  OBVIOUS
<1> HIDE DEF result
<1>28. names = {s[1] : s \in Range(result.shown)}
  BY <1>27 DEF names
<1>29. Counted(result, top)
  BY <1>15, <1>22, <1>24, <1>25, <1>26, <1>27, <1>28, Zenon DEF Counted, found, of
<1> QED
  BY <1>1, <1>29

-----------------------------------------------------------------------------
(* The answers without pages.                                              *)

(* What AnswersAreExact says of the newest records: of a stream, but for   *)
(* those whose newline is missing.                                         *)
Tails == {p \in Position : p[1] \in unended /\ p[2] = Len(lines[p[1]])}
HeldNow == Wanted \ Tails

NewestEnded(r) ==
  r = Reverse(SubSeq(InOrder(HeldNow),
                     Cardinality(HeldNow) - Min({limit, Cardinality(HeldNow)}) + 1,
                     Cardinality(HeldNow)))

NewestKeys(r) ==
  /\ Len(r) = Min({limit, Cardinality(Wanted)})
  /\ \A i, j \in DOMAIN r : i < j => At(r[i]).key >= At(r[j]).key
  /\ \A p \in Wanted \ Range(r), i \in DOMAIN r : At(p).key <= At(r[i]).key

Newest(r) ==
  /\ kind = "stream" => NewestEnded(r)
  /\ kind = "sort" => NewestKeys(r)

(* The lines that readLinesFrom yields are all but those tails.            *)
LEMMA EndedAre ==
  ASSUME Typed
  PROVE  Ended = HeldNow
<1>1. \A p \in Wanted : p \in Position /\ p[2] \in Nat /\ Len(lines[p[1]]) \in Nat
                       /\ p[2] <= Len(lines[p[1]])
  <2> SUFFICES ASSUME NEW p \in Wanted
               PROVE  /\ p \in Position /\ p[2] \in Nat
                      /\ Len(lines[p[1]]) \in Nat /\ p[2] <= Len(lines[p[1]])
    OBVIOUS
  <2>1. p \in Position
    BY DEF Wanted
  <2>2. p[1] \in File /\ p[2] \in Nat /\ p[2] <= Len(lines[p[1]])
    BY <2>1, PositionsAre DEF File
  <2> QED
    BY <2>1, <2>2 DEF Typed
<1> QED
  BY <1>1 DEF Ended, HeldNow, Tails

(* iterateLocalDesc and the descending sort return the newest records.     *)
LEMMA NewestAreNewest ==
  ASSUME Typed, kind # "logs"
  PROVE  Newest(NewestFirst)
<1>1. ASSUME kind = "sort"
      PROVE  NewestKeys(NewestFirst)
  <2> DEFINE r == NewestFirst
  <2>1. /\ Len(r) = Min({limit, Cardinality(Wanted)})
        /\ \A i, j \in DOMAIN r : i < j => At(r[i]).key >= At(r[j]).key
        /\ \A p \in Wanted \ Range(r) : \A i \in DOMAIN r :
              At(p).key <= At(r[i]).key
    BY <1>1, NewestOfSorted, Zenon
  <2> HIDE DEF r
  <2>2. NewestKeys(r)
    BY <2>1 DEF NewestKeys
  <2> QED
    BY <2>2 DEF r
<1>2. ASSUME kind = "stream"
      PROVE  NewestEnded(NewestFirst)
  <2>1. NewestFirst = Reverse(SubSeq(InOrder(Ended),
                         Cardinality(Ended) - Min({limit, Cardinality(Ended)}) + 1,
                         Cardinality(Ended)))
    BY <1>2, NewestOfStream, Zenon
  <2> QED
    BY <2>1, EndedAre, Zenon DEF NewestEnded
<1> QED
  BY <1>1, <1>2, Zenon DEF Newest

AnswersInv == ReadingInv /\ AnswersAreExact

(* Every step keeps the answers exact, as only the last step gives one.    *)
LEMMA NextAnswers ==
  ASSUME AnswersInv, [Next]_vars
  PROVE  AnswersInv'
<1>1. ReadingInv' /\ Typed
  BY NextReads, InvTyped DEF AnswersInv
<1> DEFINE World == UNCHANGED <<query, lines, unended, mark>>
<1>2. ASSUME World
      PROVE  /\ Wanted' = Wanted
             /\ \A e, top : Counted(e, top)' <=> Counted(e, top)
             /\ \A r : Newest(r)' <=> Newest(r)
  <2>1. kind' = kind /\ lines' = lines /\ limit' = limit /\ window' = window
        /\ mark' = mark /\ unended' = unended
    BY <1>2 DEF query
  <2>2. Wanted' = Wanted
    BY <1>2, SameWindowsAreKept
  <2>3. \A p : At(p)' = At(p)
    BY <2>1 DEF At
  <2>4. \A e, top : Counted(e, top)' <=> Counted(e, top)
    <3> SUFFICES ASSUME NEW e, NEW top
                 PROVE  Counted(e, top)' <=> Counted(e, top)
      OBVIOUS
    <3> QED
      BY <2>1, <2>2 DEF Counted, At
  <2>5. HeldNow' = HeldNow
    BY <2>1, <2>2 DEF HeldNow, Tails, Position
  <2>6. InOrder(HeldNow)' = InOrder(HeldNow)
    BY <2>1, <2>5 DEF InOrder, SortsBefore, Precedes, At
  <2>7. \A r : Newest(r)' <=> Newest(r)
    <3> SUFFICES ASSUME NEW r
                 PROVE  Newest(r)' <=> Newest(r)
      OBVIOUS
    <3>1. NewestEnded(r)' <=> NewestEnded(r)
      BY <2>1, <2>5, <2>6, Zenon DEF NewestEnded
    <3>2. NewestKeys(r)' <=> NewestKeys(r)
      BY <2>1, <2>2, <2>3, Zenon DEF NewestKeys
    <3> QED
      BY <2>1, <3>1, <3>2, Zenon DEF Newest
  <2> QED
    BY <2>2, <2>4, <2>7
<1>3. AnswersAreExact <=>
        (state = "answered" => /\ kind = "logs" => Counted(counts, counts.top)
                               /\ Newest(returned))
  BY Zenon DEF AnswersAreExact, Counted, Newest, NewestEnded, NewestKeys,
                HeldNow, Tails
<1>4. AnswersAreExact' <=>
        (state' = "answered" => /\ kind' = "logs" => Counted(counts, counts.top)'
                                /\ Newest(returned)')
  BY Zenon DEF AnswersAreExact, Counted, Newest, NewestEnded, NewestKeys,
                HeldNow, Tails
<1>5. CASE UNCHANGED vars
  <2>1. World /\ kind' = kind /\ state' = state /\ counts' = counts
        /\ returned' = returned
    BY <1>5 DEF vars, query
  <2>2. Counted(counts, counts.top)' <=> Counted(counts, counts.top)
    BY <1>2, <2>1
  <2>3. Newest(returned)' <=> Newest(returned)
    BY <1>2, <2>1
  <2> QED
    BY <1>1, <1>3, <1>4, <2>1, <2>2, <2>3 DEF AnswersInv
<1>6. ASSUME NEW call \in Call, GetNewest(call)
      PROVE  AnswersInv'
  <2>1. World /\ kind' = kind /\ kind # "logs" /\ returned' = NewestFirst
    BY <1>6 DEF GetNewest, query
  <2>2. PICK r : r = NewestFirst
    OBVIOUS
  <2>3. Newest(r)
    BY <1>1, <2>1, <2>2, NewestAreNewest DEF AnswersInv
  <2>4. Newest(r)' /\ returned' = r
    BY <1>2, <2>1, <2>2, <2>3
  <2>5. Newest(returned)'
    BY <2>4
  <2> QED
    BY <1>1, <1>4, <2>1, <2>5 DEF AnswersInv
<1>7. ASSUME NEW call \in Call, GetCounts(call)
      PROVE  AnswersInv'
  <2>1. World /\ kind' = kind /\ kind = "logs" /\ counts' = Aggregated(call.top)
    BY <1>7 DEF GetCounts, query
  <2>2. call.top \in Nat
    BY <1>7, BoundsAssumption DEF GetCounts, Call
  <2>3. PICK e : e = Aggregated(call.top)
    OBVIOUS
  <2>4. PICK top \in Nat : top = call.top
    BY <2>2
  <2>5. Counted(e, top)
    BY <1>1, <2>3, <2>4, AggregatedCounts
  <2>6. e.top = top
    BY <2>5 DEF Counted
  <2>7. Counted(e, e.top)' /\ counts' = e
    BY <1>2, <2>1, <2>3, <2>5, <2>6
  <2>8. Counted(counts, counts.top)'
    BY <2>7
  <2>9. Newest(returned)'
    BY <2>1 DEF Newest
  <2> QED
    BY <1>1, <1>4, <2>1, <2>8, <2>9 DEF AnswersInv
<1>8. CASE Next /\ state' # "answered"
  BY <1>1, <1>4, <1>8 DEF AnswersInv
<1>9. CASE Next /\ state' = "answered"
  <2>1. state # "answered"
    BY <1>9 DEF Next
  <2>2. \E call \in Call : GetNewest(call) \/ GetCounts(call)
    BY <1>9, <2>1 DEF Next, Refused, GetPage, Appended, Newline, SetMark
  <2> QED
    BY <1>6, <1>7, <2>2
<1> QED
  BY <1>5, <1>8, <1>9

(* The newest records and the counts are exact.                            *)
THEOREM AnswersWithoutPages == Spec => []AnswersAreExact
<1>1. Init => AnswersInv
  <2> SUFFICES ASSUME Init
               PROVE  AnswersInv
    OBVIOUS
  <2>1. lines = [f \in File |-> <<>>] /\ state = "new"
    BY DEF Init
  <2>3. AnswersAreExact
    BY <2>1 DEF AnswersAreExact
  <2> QED
    BY <2>3, InitReads DEF AnswersInv
<1>2. AnswersInv /\ [Next]_vars => AnswersInv'
  BY NextAnswers
<1>3. AnswersInv => AnswersAreExact
  BY DEF AnswersInv
<1> QED
  BY <1>1, <1>2, <1>3, PTL DEF Spec

=============================================================================
