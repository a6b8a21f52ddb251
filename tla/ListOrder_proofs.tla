--------------------------- MODULE ListOrder_proofs ---------------------------
(***************************************************************************)
(* What the sorts, limits and table scans of ListPagination compute, for   *)
(* tables of any size.                                                     *)
(***************************************************************************)
EXTENDS ListPagination, TLAPS, WellFoundedInduction, FiniteSetTheorems, SequenceTheorems

Directions == {"asc", "desc"}

-----------------------------------------------------------------------------
(* Every set of numbers has a least one: what stands in for induction over *)
(* the size of a table.                                                    *)
LEMMA Least ==
    ASSUME NEW T, T \subseteq Nat, T # {}
    PROVE  \E x \in T : \A y \in T : x <= y
<1> DEFINE R == OpToRel(<, Nat)
<1>1. IsWellFoundedOn(R, Nat)
  BY NatLessThanWellFounded
<1>2. \A x, y \in Nat : x < y => <<x, y>> \in R
  BY DEF OpToRel
<1> HIDE DEF R
<1>3. PICK x \in T : \A y \in T : ~ (<<y, x>> \in R)
  BY <1>1, WFMin
<1>4. ASSUME NEW y \in T PROVE x <= y
  <2>1. x \in Nat /\ y \in Nat
    OBVIOUS
  <2>2. ~(y < x)
    BY <2>1, <1>2, <1>3
  <2> QED
    BY <2>1, <2>2
<1> QED
  BY <1>4

(* ORDER BY compares any two rows, one way.                                *)
LEMMA OrderedByIsStrict ==
    ASSUME NEW d \in Directions, NEW a \in TempRow, NEW b \in TempRow
    PROVE  /\ OrderedBy(d, a, b) => ~OrderedBy(d, b, a) /\ a # b
           /\ a # b => OrderedBy(d, a, b) \/ OrderedBy(d, b, a)
<1>1. a.id \in Nat /\ b.id \in Nat /\ a.time \in Nat /\ b.time \in Nat
  BY IdsAssumption, TimesAssumption DEF TempRow
<1>2. a = b <=> a.id = b.id /\ a.time = b.time
  BY DEF TempRow
<1> QED
  BY <1>1, <1>2 DEF OrderedBy, Directions

(* and a comparison follows from two.                                      *)
LEMMA OrderedByIsTransitive ==
    ASSUME NEW d \in Directions, NEW a \in TempRow, NEW b \in TempRow, NEW c \in TempRow,
           OrderedBy(d, a, b), OrderedBy(d, b, c)
    PROVE  OrderedBy(d, a, c)
<1>1. /\ a.id \in Nat /\ b.id \in Nat /\ c.id \in Nat
      /\ a.time \in Nat /\ b.time \in Nat /\ c.time \in Nat
  BY IdsAssumption, TimesAssumption DEF TempRow
<1> QED
  BY <1>1 DEF OrderedBy, Directions

(* Of finitely many rows one comes last.                                   *)
LEMMA SomeRowIsLast ==
    ASSUME NEW d \in Directions, NEW rows, rows \subseteq TempRow, IsFiniteSet(rows), rows # {}
    PROVE  \E m \in rows : \A r \in rows : r = m \/ OrderedBy(d, r, m)
<1> DEFINE HasLast(R) == \E m \in R : \A r \in R : r = m \/ OrderedBy(d, r, m)
           Sets == {R \in SUBSET TempRow : IsFiniteSet(R) /\ R # {} /\ ~HasLast(R)}
           Sizes == {n \in Nat : \E R \in Sets : Cardinality(R) = n}
<1> SUFFICES ASSUME ~HasLast(rows) PROVE FALSE
  OBVIOUS
<1>1. Cardinality(rows) \in Sizes
  BY FS_CardinalityType
<1>2. PICK n \in Sizes : \A k \in Sizes : n <= k
  BY <1>1, Least
<1>3. PICK R \in Sets : Cardinality(R) = n
  BY <1>2
<1>4. PICK x \in R : TRUE
  BY <1>3
<1> DEFINE S == R \ {x}
<1>5. IsFiniteSet(S) /\ Cardinality(S) = n - 1 /\ n \in Nat /\ n - 1 \in Nat
  <2>1. IsFiniteSet(R)
    BY <1>3
  <2>2. IsFiniteSet(S) /\ Cardinality(S) = Cardinality(R) - 1
    BY <2>1, <1>4, FS_RemoveElement
  <2>3. Cardinality(R) \in Nat /\ Cardinality(S) \in Nat
    BY <2>1, <2>2, FS_CardinalityType
  <2> QED
    BY <2>2, <2>3, <1>3
<1>6. S \notin Sets
  <2> SUFFICES ASSUME S \in Sets PROVE FALSE
    OBVIOUS
  <2>1. n - 1 \in Sizes
    BY <1>5
  <2>2. n <= n - 1
    BY <2>1, <1>2
  <2> QED
    BY <2>2, <1>5
<1>7. S # {}
  <2> SUFFICES ASSUME S = {} PROVE FALSE
    OBVIOUS
  <2>1. \A r \in R : r = x
    OBVIOUS
  <2> QED
    BY <2>1, <1>3, <1>4
<1>8. PICK m \in S : \A r \in S : r = m \/ OrderedBy(d, r, m)
  BY <1>3, <1>5, <1>6, <1>7
<1>9. x \in TempRow /\ m \in TempRow /\ x # m /\ R \subseteq TempRow
  BY <1>3, <1>4, <1>8
<1>10. CASE OrderedBy(d, x, m)
  BY <1>3, <1>8, <1>10
<1>11. CASE OrderedBy(d, m, x)
  <2>1. ASSUME NEW r \in R, r # x PROVE OrderedBy(d, r, x)
    BY <1>8, <1>9, <1>11, <2>1, OrderedByIsTransitive
  <2> QED
    BY <2>1, <1>3, <1>4
<1> QED
  BY <1>9, <1>10, <1>11, OrderedByIsStrict

(* The rows of a finite set in order                                       *)
LEMMA SomeOrder ==
    ASSUME NEW d \in Directions, NEW rows, rows \subseteq TempRow, IsFiniteSet(rows)
    PROVE  \E seq \in [1..Cardinality(rows) -> rows] :
               \A i, j \in 1..Cardinality(rows) : i < j => OrderedBy(d, seq[i], seq[j])
<1> DEFINE Sorted(seq, n) == \A i, j \in 1..n : i < j => OrderedBy(d, seq[i], seq[j])
           HasOrder(R) == \E seq \in [1..Cardinality(R) -> R] : Sorted(seq, Cardinality(R))
           Sets == {R \in SUBSET TempRow : IsFiniteSet(R) /\ ~HasOrder(R)}
           Sizes == {n \in Nat : \E R \in Sets : Cardinality(R) = n}
<1> SUFFICES ASSUME ~HasOrder(rows) PROVE FALSE
  OBVIOUS
<1>1. Cardinality(rows) \in Sizes
  BY FS_CardinalityType
<1>2. PICK n \in Sizes : \A k \in Sizes : n <= k
  BY <1>1, Least
<1>3. PICK R \in Sets : Cardinality(R) = n
  BY <1>2
<1>4. R # {}
  <2> SUFFICES ASSUME R = {} PROVE FALSE
    OBVIOUS
  <2>1. n = 0
    BY <1>3, FS_EmptySet
  <2>2. 1..n = {}
    BY <2>1
  <2>3. [k \in 1..n |-> k] \in [1..n -> R]
    BY <2>2
  <2>4. Sorted([k \in 1..n |-> k], n)
    BY <2>2
  <2> QED
    BY <1>3, <2>3, <2>4
<1>5. PICK m \in R : \A r \in R : r = m \/ OrderedBy(d, r, m)
  BY <1>3, <1>4, SomeRowIsLast
<1> DEFINE S == R \ {m}
<1>6. IsFiniteSet(S) /\ Cardinality(S) = n - 1 /\ n \in Nat /\ n - 1 \in Nat
  <2>1. IsFiniteSet(R)
    BY <1>3
  <2>2. IsFiniteSet(S) /\ Cardinality(S) = Cardinality(R) - 1
    BY <2>1, <1>5, FS_RemoveElement
  <2>3. Cardinality(R) \in Nat /\ Cardinality(S) \in Nat
    BY <2>1, <2>2, FS_CardinalityType
  <2> QED
    BY <2>2, <2>3, <1>3
<1>7. S \notin Sets
  <2> SUFFICES ASSUME S \in Sets PROVE FALSE
    OBVIOUS
  <2>1. n - 1 \in Sizes
    BY <1>6
  <2>2. n <= n - 1
    BY <2>1, <1>2
  <2> QED
    BY <2>2, <1>6
<1>8. PICK seq \in [1..(n - 1) -> S] : Sorted(seq, n - 1)
  BY <1>3, <1>6, <1>7
<1> DEFINE longer == [k \in 1..n |-> IF k = n THEN m ELSE seq[k]]
<1>9. longer \in [1..n -> R]
  <2> SUFFICES ASSUME NEW k \in 1..n, k # n PROVE seq[k] \in R
    BY <1>5
  <2>1. k \in 1..(n - 1)
    BY <1>6
  <2> QED
    BY <2>1, <1>8
<1>10. ASSUME NEW i \in 1..n, NEW j \in 1..n, i < j
       PROVE  OrderedBy(d, longer[i], longer[j])
  <2>1. i \in 1..(n - 1) /\ longer[i] = seq[i]
    BY <1>6, <1>10
  <2>2. seq[i] \in R /\ seq[i] # m
    BY <2>1, <1>8
  <2>3. CASE j = n
    BY <2>1, <2>2, <2>3, <1>5
  <2>4. CASE j # n
    <3>1. j \in 1..(n - 1) /\ longer[j] = seq[j]
      BY <1>6, <2>4
    <3> QED
      BY <2>1, <3>1, <1>8, <1>10
  <2> QED
    BY <2>3, <2>4
<1>11. Sorted(longer, n)
  BY <1>10
<1> QED
  BY <1>3, <1>9, <1>11

(* No row is twice in an order.                                            *)
LEMMA OrderedRowsDiffer ==
    ASSUME NEW d \in Directions, NEW rows, rows \subseteq TempRow, NEW s \in Seq(rows),
           \A i, j \in 1..Len(s) : i < j => OrderedBy(d, s[i], s[j])
    PROVE  IsFiniteSet(ToSet(s)) /\ Cardinality(ToSet(s)) = Len(s)
<1> DEFINE n == Len(s)
<1>1. n \in Nat /\ s \in [1..n -> rows]
  OBVIOUS
<1> HIDE DEF n
<1>2. ASSUME NEW i \in 1..n, NEW j \in 1..n, s[i] = s[j] PROVE i = j
  <2>1. s[i] \in TempRow /\ s[j] \in TempRow
    BY <1>1
  <2> SUFFICES ASSUME i # j PROVE FALSE
    OBVIOUS
  <2>2. CASE i < j
    BY <1>2, <2>1, <2>2, OrderedByIsStrict DEF n
  <2>3. CASE j < i
    BY <1>2, <2>1, <2>3, OrderedByIsStrict DEF n
  <2> QED
    BY <1>1, <2>2, <2>3
<1>3. s \in Bijection(1..n, ToSet(s))
  <2>1. s \in [1..n -> ToSet(s)] /\ \A t \in ToSet(s) : \E i \in 1..n : s[i] = t
    BY <1>1 DEF ToSet
  <2> QED
    BY <1>2, <2>1 DEF Bijection, Injection, Surjection, IsInjective
<1>4. IsFiniteSet(1..n) /\ Cardinality(1..n) = n
  BY <1>1, FS_Interval
<1> QED
  BY <1>3, <1>4, FS_Bijection DEF ExistsBijection, n

(* A sequence of rows in order, all of them                                *)
Sorts(d, rows, seq) ==
    /\ seq \in Seq(rows)
    /\ \A i, j \in 1..Len(seq) : i < j => OrderedBy(d, seq[i], seq[j])
    /\ \A r \in rows : \E i \in 1..Len(seq) : seq[i] = r

(* ORDER BY sorts any rows.                                                *)
LEMMA OrderBySorts ==
    ASSUME NEW d \in Directions, NEW rows, rows \subseteq TempRow, IsFiniteSet(rows)
    PROVE  Sorts(d, rows, OrderBy(rows, d)) /\ Len(OrderBy(rows, d)) = Cardinality(rows)
<1> DEFINE n == Cardinality(rows)
           s == OrderBy(rows, d)
<1>1. n \in Nat
  BY FS_CardinalityType
<1>2. s \in [1..n -> rows] /\ \A i, j \in 1..n : i < j => OrderedBy(d, s[i], s[j])
  BY SomeOrder DEF OrderBy
<1> HIDE DEF s, n
<1>3. s \in Seq(rows) /\ Len(s) = n
  BY <1>1, <1>2
<1> DEFINE image == ToSet(s)
<1>5. image \subseteq rows
  BY <1>2 DEF ToSet
<1>8. Cardinality(image) = n
  BY <1>2, <1>3, OrderedRowsDiffer
<1>9. image = rows
  BY <1>5, <1>8, FS_Subset DEF n
<1> HIDE DEF image
<1>10. \A r \in rows : \E i \in 1..n : s[i] = r
  BY <1>3, <1>9 DEF image, ToSet
<1> QED
  BY <1>2, <1>3, <1>10 DEF Sorts, s, n

-----------------------------------------------------------------------------
(* The smaller of two numbers                                              *)
LEMMA MinOfTwo ==
    ASSUME NEW a \in Int, NEW b \in Int
    PROVE  Min({a, b}) = IF a <= b THEN a ELSE b
<1>1. \E x \in {a, b} : \A y \in {a, b} : x <= y
  OBVIOUS
<1>2. Min({a, b}) \in {a, b} /\ \A y \in {a, b} : Min({a, b}) <= y
  BY <1>1 DEF Min
<1> QED
  BY <1>2

(* and the greater                                                         *)
LEMMA MaxOfTwo ==
    ASSUME NEW a \in Int, NEW b \in Int
    PROVE  Max({a, b}) = IF a >= b THEN a ELSE b
<1>1. \E x \in {a, b} : \A y \in {a, b} : x >= y
  OBVIOUS
<1>2. Max({a, b}) \in {a, b} /\ \A y \in {a, b} : Max({a, b}) >= y
  BY <1>1 DEF Max
<1> QED
  BY <1>2

(* LIMIT takes the first rows, as many as there are.                       *)
LEMMA LimitIsPrefix ==
    ASSUME NEW S, NEW s \in Seq(S), NEW n \in Nat
    PROVE  /\ Limit(s, n) \in Seq(S)
           /\ Len(Limit(s, n)) = IF n <= Len(s) THEN n ELSE Len(s)
           /\ \A i \in 1..Len(Limit(s, n)) : i \in 1..Len(s) /\ Limit(s, n)[i] = s[i]
<1> DEFINE m == Min({n, Len(s)})
<1>1. Len(s) \in Nat
  OBVIOUS
<1>2. m = IF n <= Len(s) THEN n ELSE Len(s)
  BY <1>1, MinOfTwo
<1>3. m \in Nat /\ m <= Len(s)
  BY <1>1, <1>2
<1> HIDE DEF m
<1>4. SubSeq(s, 1, m) \in Seq(S) /\ Len(SubSeq(s, 1, m)) = m
  BY <1>1, <1>3
<1>5. \A i \in 1..m : i \in 1..Len(s) /\ SubSeq(s, 1, m)[i] = s[i]
  BY <1>1, <1>3
<1> QED
  BY <1>2, <1>4, <1>5 DEF Limit, m

(* The first rows of an order, as far as it goes                           *)
Leads(d, rows, seq) ==
    /\ seq \in Seq(rows)
    /\ \A i, j \in 1..Len(seq) : i < j => OrderedBy(d, seq[i], seq[j])
    /\ \A r \in rows, i \in 1..Len(seq) :
          OrderedBy(d, r, seq[i]) => \E j \in 1..Len(seq) : seq[j] = r

(* The first of the rows in order, and all if the LIMIT is not reached     *)
LEMMA LimitLeads ==
    ASSUME NEW d \in Directions, NEW rows, rows \subseteq TempRow, NEW s, Sorts(d, rows, s),
           NEW n \in Nat
    PROVE  /\ Leads(d, rows, Limit(s, n))
           /\ Len(Limit(s, n)) <= n
           /\ Len(Limit(s, n)) < n => Sorts(d, rows, Limit(s, n))
<1> DEFINE p == Limit(s, n)
<1>1. s \in Seq(rows) /\ Len(s) \in Nat
  BY DEF Sorts
<1>2. /\ p \in Seq(rows)
      /\ Len(p) = IF n <= Len(s) THEN n ELSE Len(s)
      /\ \A i \in 1..Len(p) : i \in 1..Len(s) /\ p[i] = s[i]
  BY <1>1, LimitIsPrefix
<1> HIDE DEF p
<1>3. \A i, j \in 1..Len(p) : i < j => OrderedBy(d, p[i], p[j])
  BY <1>2 DEF Sorts
<1>4. ASSUME NEW r \in rows, NEW i \in 1..Len(p), OrderedBy(d, r, p[i])
      PROVE  \E j \in 1..Len(p) : p[j] = r
  <2>1. PICK j \in 1..Len(s) : s[j] = r
    BY DEF Sorts
  <2>2. i \in 1..Len(s) /\ OrderedBy(d, s[j], s[i]) /\ s[i] \in TempRow /\ s[j] \in TempRow
    BY <1>1, <1>2, <1>4, <2>1
  <2>3. ~(i < j) /\ i # j
    BY <2>1, <2>2, OrderedByIsStrict DEF Sorts
  <2>4. j \in 1..Len(p)
    BY <1>1, <1>2, <2>1, <2>3
  <2> QED
    BY <1>2, <2>1, <2>4
<1>5. Len(p) <= n
  BY <1>1, <1>2
<1>6. ASSUME Len(p) < n, NEW r \in rows PROVE \E j \in 1..Len(p) : p[j] = r
  <2>1. PICK j \in 1..Len(s) : s[j] = r
    BY DEF Sorts
  <2>2. Len(p) = Len(s)
    BY <1>1, <1>2, <1>6
  <2> QED
    BY <1>2, <2>1, <2>2
<1> QED
  BY <1>2, <1>3, <1>4, <1>5, <1>6 DEF Leads, Sorts, p

-----------------------------------------------------------------------------
(* A deleted slot is told from a row.                                      *)
LEMMA FreeIsNoRow == Free \notin TempRow
<1>1. TempRow \subseteq [id: Ids, time: Optional(Times)]
  BY DEF TempRow, Optional
<1> QED
  BY <1>1, NullAssumption DEF Free

(* The MEMORY engine.  Deleted slots are the first of a table.             *)
FreeFirst(slots) == \E n \in 0..Len(slots) : \A i \in 1..Len(slots) : slots[i] = Free <=> i <= n

(* The rows in a table *)
Used(slots) == ToSet(slots) \ {Free}

(* Deleted is the number of the last of them.                              *)
LEMMA DeletedCounts ==
    ASSUME NEW slots \in Seq(TempRow \cup {Free}),
           NEW n \in 0..Len(slots), \A i \in 1..Len(slots) : slots[i] = Free <=> i <= n
    PROVE  Deleted(slots) = n
<1>1. {i \in DOMAIN slots : slots[i] = Free} = 1..n
  <2>1. DOMAIN slots = 1..Len(slots) /\ Len(slots) \in Nat
    OBVIOUS
  <2> QED
    BY <2>1
<1>2. Cardinality(1..n) = n
  BY FS_Interval
<1> QED
  BY <1>1, <1>2 DEF Deleted

(* A scan reads all the rows of a table.                                   *)
LEMMA ScanReads ==
    ASSUME NEW slots \in Seq(TempRow \cup {Free}), FreeFirst(slots)
    PROVE  /\ Scan(slots) \in Seq(Used(slots))
           /\ Used(slots) \subseteq TempRow
           /\ ToSet(Scan(slots)) = Used(slots)
<1>1. PICK n \in 0..Len(slots) : \A i \in 1..Len(slots) : slots[i] = Free <=> i <= n
  BY DEF FreeFirst
<1>2. Deleted(slots) = n
  BY <1>1, DeletedCounts
<1>3. DOMAIN slots = 1..Len(slots) /\ Len(slots) \in Nat
  OBVIOUS
<1> DEFINE s == Scan(slots)
<1>4. s = SubSeq(slots, n + 1, Len(slots))
  BY <1>2 DEF Scan
<1>5. s \in Seq(TempRow \cup {Free}) /\ Len(s) = Len(slots) - n /\ \A i \in 1..Len(s) : s[i] = slots[n + i]
  <2>1. \A i \in (n + 1)..Len(slots) : slots[i] \in TempRow \cup {Free}
    BY <1>3
  <2> DEFINE S == TempRow \cup {Free}
  <2> HIDE DEF S
  <2>2. /\ s \in Seq(S)
        /\ Len(s) = Len(slots) - n
        /\ \A i \in 1..Len(s) : s[i] = slots[n + 1 + i - 1]
    <3>1. n + 1 \in Int /\ Len(slots) \in Int /\ \A i \in (n + 1)..Len(slots) : slots[i] \in S
      BY <1>3, <2>1 DEF S
    <3>2. /\ s \in Seq(S)
          /\ Len(s) = IF n + 1 <= Len(slots) THEN Len(slots) - (n + 1) + 1 ELSE 0
          /\ \A i \in 1..(Len(slots) - (n + 1) + 1) : s[i] = slots[n + 1 + i - 1]
      BY <3>1, <1>4, SubSeqProperties
    <3> QED
      BY <3>2, <1>3
  <2> QED
    BY <2>2, <1>3 DEF S
<1> HIDE DEF s
<1>6. Used(slots) \subseteq TempRow
  BY DEF Used, ToSet
<1>7. ASSUME NEW i \in 1..Len(s) PROVE s[i] \in Used(slots)
  <2>1. n + i \in 1..Len(slots) /\ ~(n + i <= n)
    BY <1>3, <1>5
  <2> QED
    BY <1>1, <1>3, <1>5, <2>1 DEF Used, ToSet
<1>8. s \in Seq(Used(slots))
  BY <1>5, <1>7, IsASeq, LenProperties
<1>9. ASSUME NEW r \in Used(slots) PROVE \E i \in 1..Len(s) : s[i] = r
  <2>1. PICK j \in 1..Len(slots) : slots[j] = r /\ r # Free
    BY <1>3 DEF Used, ToSet
  <2>2. j - n \in 1..Len(s) /\ n + (j - n) = j
    BY <1>1, <1>3, <1>5, <2>1
  <2>3. s[j - n] = slots[n + (j - n)]
    BY <1>5, <2>2
  <2> QED
    BY <2>1, <2>2, <2>3
<1>10. ToSet(s) = Used(slots)
  BY <1>5, <1>7, <1>9 DEF ToSet
<1> QED
  BY <1>6, <1>8, <1>10 DEF s

(* DELETE takes the first rows of a table.                                 *)
LEMMA DeleteCuts ==
    ASSUME NEW rows \in Seq(TempRow), NEW n \in 0..Len(rows)
    PROVE  /\ DeleteUpTo(rows, n) \in Seq(TempRow \cup {Free})
           /\ Len(DeleteUpTo(rows, n)) = Len(rows)
           /\ \A i \in 1..Len(rows) : DeleteUpTo(rows, n)[i] = Free <=> i <= n
           /\ FreeFirst(DeleteUpTo(rows, n))
           /\ Used(DeleteUpTo(rows, n)) \subseteq ToSet(rows)
<1> DEFINE s == DeleteUpTo(rows, n)
<1>1. DOMAIN rows = 1..Len(rows) /\ Len(rows) \in Nat
  OBVIOUS
<1>2. s = [i \in 1..Len(rows) |-> IF i <= n THEN Free ELSE rows[i]]
  BY <1>1 DEF DeleteUpTo
<1>3. s \in Seq(TempRow \cup {Free}) /\ Len(s) = Len(rows)
  BY <1>1, <1>2
<1>4. \A i \in 1..Len(rows) : rows[i] \in TempRow /\ rows[i] # Free
  BY FreeIsNoRow
<1>5. \A i \in 1..Len(rows) : s[i] = Free <=> i <= n
  BY <1>2, <1>4
<1>6. Used(s) \subseteq ToSet(rows)
  BY <1>1, <1>2 DEF Used, ToSet
<1> QED
  BY <1>3, <1>5, <1>6 DEF FreeFirst, s

(* INSERT adds no rows but those it is given.                              *)
LEMMA InsertAdds ==
    ASSUME NEW slots \in Seq(TempRow \cup {Free}), FreeFirst(slots), NEW rows \in Seq(TempRow)
    PROVE  /\ Insert(slots, rows) \in Seq(TempRow \cup {Free})
           /\ FreeFirst(Insert(slots, rows))
           /\ Used(Insert(slots, rows)) \subseteq Used(slots) \cup ToSet(rows)
<1>1. PICK n \in 0..Len(slots) : \A i \in 1..Len(slots) : slots[i] = Free <=> i <= n
  BY DEF FreeFirst
<1>2. Deleted(slots) = n
  BY <1>1, DeletedCounts
<1> DEFINE m == Len(rows)
           l == Len(slots)
           more == IF m > n THEN m - n ELSE 0
           left == IF m > n THEN 0 ELSE n - m
           s == Insert(slots, rows)
<1>3. DOMAIN slots = 1..l /\ l \in Nat /\ m \in Nat /\ DOMAIN rows = 1..m /\ n \in Nat /\ n <= l
  OBVIOUS
<1>4. Max({0, m - n}) = more
  BY <1>3, MaxOfTwo
<1>5. \A i \in 1..m : rows[i] \in TempRow /\ rows[i] # Free
  BY FreeIsNoRow
<1>6. s = [i \in 1..l + more |->
             CASE i <= n -> IF n - i + 1 <= m THEN rows[n - i + 1] ELSE Free
               [] i > l  -> rows[n + i - l]
               [] OTHER  -> slots[i]]
  BY <1>2, <1>4 DEF Insert
<1> HIDE DEF m, l, s
<1>7. \A i \in 1..l + more :
        /\ i <= left => s[i] = Free
        /\ i <= n /\ ~(i <= left) => n - i + 1 \in 1..m /\ s[i] = rows[n - i + 1]
        /\ i > l => n + i - l \in 1..m /\ s[i] = rows[n + i - l]
        /\ i > n /\ ~(i > l) => i \in 1..l /\ s[i] = slots[i]
  BY <1>3, <1>6
<1>8. ASSUME NEW i \in 1..l + more
      PROVE  /\ s[i] \in TempRow \cup {Free}
             /\ s[i] = Free <=> i <= left
             /\ s[i] # Free => s[i] \in Used(slots) \cup ToSet(rows)
  <2>1. CASE i <= left
    BY <1>7, <2>1
  <2>2. CASE i <= n /\ ~(i <= left)
    BY <1>3, <1>5, <1>7, <2>2 DEF ToSet
  <2>3. CASE i > l
    BY <1>3, <1>5, <1>7, <2>3 DEF ToSet
  <2>4. CASE i > n /\ ~(i > l)
    <3>1. i \in 1..l /\ s[i] = slots[i] /\ slots[i] # Free /\ slots[i] \in TempRow \cup {Free}
      BY <1>1, <1>3, <1>7, <2>4 DEF l
    <3> QED
      BY <1>3, <2>4, <3>1 DEF ToSet, Used
  <2> QED
    BY <1>3, <2>1, <2>2, <2>3, <2>4
<1>9. s \in [1..l + more -> TempRow \cup {Free}] /\ l + more \in Nat
  BY <1>3, <1>6, <1>8
<1>10. s \in Seq(TempRow \cup {Free}) /\ Len(s) = l + more /\ DOMAIN s = 1..l + more
  BY <1>9
<1>11. FreeFirst(s)
  <2>1. left \in 0..Len(s)
    BY <1>3, <1>10
  <2> QED
    BY <1>8, <1>10, <2>1 DEF FreeFirst
<1>12. Used(s) \subseteq Used(slots) \cup ToSet(rows)
  BY <1>8, <1>10 DEF Used, ToSet
<1> QED
  BY <1>10, <1>11, <1>12 DEF s

(* What comes into a table without rows, with one deleted slot at most, is *)
(* read in the order in which it came.                                     *)
LEMMA InsertKeepsOrder ==
    ASSUME NEW slots \in Seq({Free}), Len(slots) <= 1, NEW rows \in Seq(TempRow)
    PROVE  Scan(Insert(slots, rows)) = rows
<1> DEFINE l == Len(slots)
           m == Len(rows)
           s == Insert(slots, rows)
<1>1. l \in 0..1 /\ m \in Nat /\ DOMAIN slots = 1..l /\ DOMAIN rows = 1..m
  <2>1. l \in Nat /\ DOMAIN slots = 1..l
    BY LenProperties
  <2>2. m \in Nat /\ DOMAIN rows = 1..m
    OBVIOUS
  <2>3. l \in 0..1
    BY <2>1
  <2> QED
    BY <2>1, <2>2, <2>3
<1>2. slots \in Seq(TempRow \cup {Free}) /\ \A i \in 1..l : slots[i] = Free
  <2>1. \A i \in 1..l : slots[i] \in {Free}
    OBVIOUS
  <2> QED
    BY <1>1, <2>1
<1>3. Deleted(slots) = l
  <2>1. l \in 0..l /\ \A i \in 1..l : slots[i] = Free <=> i <= l
    BY <1>1, <1>2
  <2> QED
    BY <1>2, <2>1, DeletedCounts
<1>4. \A i \in 1..m : rows[i] \in TempRow /\ rows[i] # Free
  BY FreeIsNoRow
<1> DEFINE more == IF m > l THEN m - l ELSE 0
<1>5. Max({0, m - l}) = more
  BY <1>1, MaxOfTwo
<1>6. s = [i \in 1..l + more |->
             CASE i <= l -> IF l - i + 1 <= m THEN rows[l - i + 1] ELSE Free
               [] i > l  -> rows[l + i - l]
               [] OTHER  -> slots[i]]
  BY <1>3, <1>5 DEF Insert
<1> HIDE DEF l, m, s
<1>7. rows \in Seq(TempRow \cup {Free})
  BY <1>1, <1>4
<1>8. CASE m = 0
  <2>1. s = [i \in 1..l |-> Free]
    BY <1>1, <1>6, <1>8
  <2>2. s = slots
    <3>1. slots = [i \in 1..l |-> slots[i]]
      BY <1>1
    <3> QED
      BY <1>2, <2>1, <3>1
  <2>3. Scan(s) = SubSeq(slots, l + 1, l)
    BY <1>3, <2>2 DEF Scan, l
  <2>4. SubSeq(slots, l + 1, l) = <<>>
    BY <1>1
  <2>5. rows = <<>>
    BY <1>8 DEF m
  <2> QED
    BY <2>3, <2>4, <2>5 DEF s
<1>9. CASE m # 0
  <2>1. l + more = m
    BY <1>1, <1>9
  <2>2. \A i \in 1..m : s[i] = rows[i]
    <3> SUFFICES ASSUME NEW i \in 1..m PROVE s[i] = rows[i]
      OBVIOUS
    <3>1. CASE i <= l
      <4>1. l = 1 /\ i = 1
        BY <1>1, <3>1
      <4>2. s[1] = rows[1 - 1 + 1]
        BY <1>1, <1>6, <1>9, <2>1, <4>1
      <4> QED
        BY <4>1, <4>2
    <3>2. CASE ~(i <= l)
      <4>1. s[i] = rows[l + i - l] /\ l + i - l = i
        BY <1>1, <1>6, <2>1, <3>2
      <4> QED
        BY <4>1
    <3> QED
      BY <3>1, <3>2
  <2>3. s = rows
    <3>1. s = [i \in 1..m |-> s[i]] /\ rows = [i \in 1..m |-> rows[i]]
      BY <1>1, <1>6, <2>1
    <3> QED
      BY <2>2, <3>1
  <2>4. Deleted(rows) = 0
    <3>1. 0 \in 0..Len(rows) /\ \A i \in 1..Len(rows) : rows[i] = Free <=> i <= 0
      BY <1>1, <1>4 DEF m
    <3> QED
      BY <1>7, <3>1, DeletedCounts
  <2>5. Scan(s) = SubSeq(rows, 1, Len(rows))
    BY <2>3, <2>4 DEF Scan
  <2>6. SubSeq(rows, 1, Len(rows)) = rows
    BY SubSeqFull
  <2> QED
    BY <2>5, <2>6 DEF s
<1> QED
  BY <1>8, <1>9

-----------------------------------------------------------------------------
(* Pages                                                                   *)
LEMMA WalkTypes ==
    ASSUME NEW w \in Walk
    PROVE  /\ w.sortOrder \in Directions /\ order(w) \in Directions
           /\ w.from \in {"first", "last"} /\ w.size \in Nat /\ w.size >= 1
           /\ w.from = "first" => order(w) = w.sortOrder
           /\ w.from # "first" => order(w) # w.sortOrder
BY DEF Walk, Directions, order, opposite

(* The other direction, if times differ                                    *)
LEMMA OppositeOrder ==
    ASSUME NEW d \in Directions, NEW e \in Directions, d # e,
           NEW a \in TempRow, NEW b \in TempRow, a.time # b.time, OrderedBy(d, a, b)
    PROVE  OrderedBy(e, b, a)
<1>1. a.time \in Nat /\ b.time \in Nat
  BY TimesAssumption DEF TempRow
<1> QED
  BY <1>1 DEF Directions, OrderedBy

(* Onward is the same rows, turned if the walk goes to the front.          *)
LEMMA OnwardTurns ==
    ASSUME NEW w \in Walk, NEW S, NEW s \in Seq(S)
    PROVE  /\ Onward(w, s) \in Seq(S)
           /\ Len(Onward(w, s)) = Len(s)
           /\ \A i \in 1..Len(s) :
                 Onward(w, s)[i] = IF w.from = "first" THEN s[i] ELSE s[Len(s) - i + 1]
<1>1. CASE w.from = "first"
  BY <1>1 DEF Onward
<1>2. CASE w.from # "first"
  <2>1. Len(s) \in Nat
    OBVIOUS
  <2>2. Onward(w, s) = [i \in 1..Len(s) |-> s[(Len(s) - i) + 1]]
    BY <1>2 DEF Onward, Reverse
  <2>3. \A i \in 1..Len(s) : s[(Len(s) - i) + 1] \in S
    BY <2>1
  <2>4. Onward(w, s) \in [1..Len(s) -> S]
    BY <2>2, <2>3
  <2>5. Onward(w, s) \in Seq(S) /\ Len(Onward(w, s)) = Len(s)
    BY <2>1, <2>4
  <2> QED
    BY <1>2, <2>2, <2>5
<1> QED
  BY <1>1, <1>2

(* A page without its sentinel row, which is the first one from the end    *)
LEMMA NodesAreRows ==
    ASSUME NEW w \in Walk, NEW S, NEW page \in Seq(S)
    PROVE  LET nodes == Nodes(w, page)
               cut   == IF w.from = "last" /\ Len(page) > w.size THEN 1 ELSE 0
           IN /\ nodes \in Seq(S)
              /\ Len(page) <= w.size => Len(nodes) = Len(page)
              /\ Len(page) = w.size + 1 => Len(nodes) = w.size
              /\ \A i \in 1..Len(nodes) : i + cut \in 1..Len(page) /\ nodes[i] = page[i + cut]
<1> DEFINE nodes == Nodes(w, page)
<1>1. Len(page) \in Nat /\ w.size \in Nat /\ w.size >= 1
  BY WalkTypes
<1>2. CASE w.from = "last" /\ Len(page) > w.size
  <2>1. nodes = Tail(page) /\ page # <<>>
    BY <1>1, <1>2 DEF Nodes
  <2>2. nodes \in Seq(S) /\ Len(nodes) = Len(page) - 1 /\ \A i \in 1..Len(nodes) : nodes[i] = page[i + 1]
    BY <2>1
  <2> HIDE DEF nodes
  <2> QED
    BY <1>1, <1>2, <2>2 DEF nodes
<1>3. CASE ~(w.from = "last" /\ Len(page) > w.size)
  <2>1. nodes = Limit(page, w.size)
    BY <1>3 DEF Nodes
  <2>2. /\ nodes \in Seq(S)
        /\ Len(nodes) = IF w.size <= Len(page) THEN w.size ELSE Len(page)
        /\ \A i \in 1..Len(nodes) : i \in 1..Len(page) /\ nodes[i] = page[i]
    BY <1>1, <2>1, LimitIsPrefix
  <2> HIDE DEF nodes
  <2>3. \A i \in 1..Len(nodes) : i + 0 = i
    BY <1>1, <2>2
  <2> QED
    BY <1>1, <1>3, <2>2, <2>3 DEF nodes
<1> QED
  BY <1>2, <1>3

(* What a page and its nodes are made of, however the list is ordered      *)
LEMMA PageIsOfTable ==
    ASSUME NEW w \in Walk, NEW slots \in Seq(TempRow \cup {Free}), FreeFirst(slots)
    PROVE  Page(w, slots) \in Seq(Used(slots))
<1>1. /\ Scan(slots) \in Seq(Used(slots)) /\ Used(slots) \subseteq TempRow
      /\ ToSet(Scan(slots)) = Used(slots)
  BY ScanReads
<1>2. w.size + 1 \in Nat /\ w.sortOrder \in Directions
  BY WalkTypes
<1>3. IsFiniteSet(Used(slots))
  <2> DEFINE f == slots
             D == 1..Len(slots)
  <2>1. IsFiniteSet(D)
    BY FS_Interval
  <2>2. {slots[i] : i \in D} = ToSet(slots)
    BY DEF ToSet
  <2>3. slots \in Surjection(D, ToSet(slots))
    BY <2>2 DEF Surjection
  <2>4. IsFiniteSet(ToSet(slots))
    BY <2>1, <2>3, FS_Surjection
  <2> QED
    BY <2>4, FS_Subset DEF Used
<1>4. OrderBy(Used(slots), w.sortOrder) \in Seq(Used(slots))
  BY <1>1, <1>2, <1>3, OrderBySorts DEF Sorts
<1> QED
  BY <1>1, <1>2, <1>4, LimitIsPrefix DEF Page

(* If the times of the rows differ, a page in the order of the list has    *)
(* the first rows of the order in which the walk goes.                     *)
LEMMA PageLeads ==
    ASSUME NEW w \in Walk, NEW Q, Q \subseteq TempRow, IsFiniteSet(Q),
           \A a, b \in Q : a.time = b.time => a = b,
           NEW slots, Scan(slots) = Limit(OrderBy(Q, order(w)), w.size + 1)
    PROVE  LET page  == Page(w, slots)
               nodes == Onward(w, Nodes(w, page))
           IN /\ page \in Seq(Q)
              /\ Leads(order(w), Q, nodes)
              /\ Len(page) <= w.size => Sorts(order(w), Q, nodes)
<1> DEFINE n == w.size + 1
           o == order(w)
           rows == Scan(slots)
           page == Page(w, slots)
           cut == IF w.from = "last" /\ Len(page) > w.size THEN 1 ELSE 0
           nodes == Nodes(w, page)
           D == Onward(w, nodes)
<1>1. o \in Directions /\ w.sortOrder \in Directions /\ n \in Nat /\ w.size \in Nat /\ w.size >= 1
  BY WalkTypes
<1>2. /\ Leads(o, Q, rows) /\ Len(rows) <= n
      /\ Len(rows) < n => Sorts(o, Q, rows)
  BY <1>1, OrderBySorts, LimitLeads
<1> HIDE DEF rows, o
<1>3. rows \in Seq(Q) /\ Len(rows) \in Nat
  BY <1>2 DEF Leads
<1>4. SUFFICES ASSUME /\ page \in Seq(Q) /\ Len(page) = Len(rows)
                      /\ IF w.from = "first" THEN page = rows ELSE Sorts(w.sortOrder, ToSet(rows), page)
               PROVE  Leads(o, Q, D) /\ (Len(page) <= w.size => Sorts(o, Q, D))
  <2>1. CASE w.from = "first"
    <3>1. page = Limit(rows, n)
      BY <2>1 DEF Page, rows
    <3>2. page \in Seq(Q) /\ Len(page) = Len(rows) /\ \A i \in 1..Len(page) : page[i] = rows[i]
      BY <1>1, <1>2, <1>3, <3>1, LimitIsPrefix
    <3>3. page = rows
      BY <1>3, <3>2, SeqEqual
    <3> QED
      BY <2>1, <3>2, <3>3, <1>4 DEF o
  <2>2. CASE w.from # "first"
    <3> DEFINE P == OrderBy(ToSet(rows), w.sortOrder)
    <3>1. page = Limit(P, n)
      BY <2>2 DEF Page, rows
    <3>2. ToSet(rows) \subseteq Q
      BY <1>3 DEF ToSet
    <3>3. IsFiniteSet(ToSet(rows)) /\ Cardinality(ToSet(rows)) = Len(rows)
      BY <1>1, <1>2, <1>3, OrderedRowsDiffer DEF Leads
    <3>4. Sorts(w.sortOrder, ToSet(rows), P) /\ Len(P) = Len(rows)
      BY <1>1, <3>2, <3>3, OrderBySorts
    <3> HIDE DEF P
    <3>5. P \in Seq(ToSet(rows))
      BY <3>4 DEF Sorts
    <3>6. page \in Seq(ToSet(rows)) /\ Len(page) = Len(P) /\ \A i \in 1..Len(page) : page[i] = P[i]
      BY <1>1, <1>2, <1>3, <3>1, <3>4, <3>5, LimitIsPrefix
    <3>7. page = P
      BY <3>5, <3>6, SeqEqual
    <3>8. page \in Seq(Q)
      BY <3>2, <3>6, SeqMonotonic
    <3> QED
      BY <2>2, <3>4, <3>7, <3>8, <1>4 DEF o
  <2> QED
    BY <2>1, <2>2
<1> HIDE DEF page
<1>5. /\ nodes \in Seq(Q)
      /\ Len(page) <= w.size => Len(nodes) = Len(page)
      /\ Len(page) = w.size + 1 => Len(nodes) = w.size
      /\ \A i \in 1..Len(nodes) : i + cut \in 1..Len(page) /\ nodes[i] = page[i + cut]
  BY <1>4, NodesAreRows
<1> HIDE DEF nodes
<1>6. /\ D \in Seq(Q) /\ Len(D) = Len(nodes)
      /\ \A i \in 1..Len(nodes) : D[i] = IF w.from = "first" THEN nodes[i] ELSE nodes[Len(nodes) - i + 1]
  BY <1>5, OnwardTurns
<1>7. Len(nodes) \in Nat /\ Len(page) \in Nat /\ Len(page) <= w.size + 1
  BY <1>1, <1>2, <1>3, <1>4, <1>5
<1> HIDE DEF D
<1>8. CASE w.from = "first"
  <2>1. Len(D) <= Len(rows) /\ Len(D) \in Nat /\ \A i \in 1..Len(D) : D[i] = rows[i]
    BY <1>1, <1>4, <1>5, <1>6, <1>7, <1>8
  <2>2. \A i, j \in 1..Len(D) : i < j => OrderedBy(o, D[i], D[j])
    BY <1>2, <1>3, <2>1 DEF Leads
  <2>3. ASSUME NEW r \in Q, NEW i \in 1..Len(D), OrderedBy(o, r, D[i])
        PROVE  \E j \in 1..Len(D) : D[j] = r
    <3>1. i \in 1..Len(rows) /\ D[i] = rows[i]
      BY <1>3, <2>1
    <3>2. PICK j \in 1..Len(rows) : rows[j] = r
      BY <1>2, <2>3, <3>1 DEF Leads
    <3>3. rows[i] \in TempRow /\ rows[j] \in TempRow /\ OrderedBy(o, rows[j], rows[i])
      BY <1>3, <2>3, <3>1, <3>2
    <3>4. ~(i < j) /\ i # j
      BY <1>1, <1>2, <3>1, <3>2, <3>3, OrderedByIsStrict DEF Leads
    <3>5. j \in 1..Len(D)
      BY <1>3, <2>1, <3>2, <3>4
    <3> QED
      BY <2>1, <3>2, <3>5
  <2>4. ASSUME Len(page) <= w.size, NEW r \in Q
        PROVE  \E j \in 1..Len(D) : D[j] = r
    <3>1. Len(D) = Len(rows) /\ Len(rows) < n
      BY <1>1, <1>3, <1>4, <1>5, <1>6, <2>4
    <3>2. PICK j \in 1..Len(rows) : rows[j] = r
      BY <1>2, <3>1 DEF Sorts
    <3> QED
      BY <2>1, <3>1, <3>2
  <2> QED
    BY <1>6, <2>2, <2>3, <2>4 DEF Leads, Sorts
<1>9. CASE w.from # "first"
  <2>1. Sorts(w.sortOrder, ToSet(rows), page) /\ ToSet(rows) \subseteq Q /\ w.from = "last"
    BY <1>3, <1>4, <1>9, WalkTypes DEF ToSet
  <2>2. cut \in 0..1 /\ cut + Len(nodes) = Len(page) /\ (Len(page) <= w.size => cut = 0)
    BY <1>1, <1>5, <1>7, <2>1
  <2> DEFINE at(i) == cut + (Len(nodes) - i + 1)
  <2> HIDE DEF cut
  <2>3. \A i \in 1..Len(D) : at(i) \in 1..Len(page) /\ at(i) > cut /\ D[i] = page[at(i)]
    <3> SUFFICES ASSUME NEW i \in 1..Len(D)
                 PROVE  at(i) \in 1..Len(page) /\ at(i) > cut /\ D[i] = page[at(i)]
      OBVIOUS
    <3>1. Len(nodes) - i + 1 \in 1..Len(nodes)
      BY <1>6, <1>7
    <3>2. D[i] = nodes[Len(nodes) - i + 1]
      BY <1>6, <1>9
    <3>3. nodes[Len(nodes) - i + 1] = page[(Len(nodes) - i + 1) + cut]
      BY <1>5, <3>1
    <3>4. (Len(nodes) - i + 1) + cut = at(i)
      BY <1>7, <2>2, <3>1
    <3> QED
      BY <1>7, <2>2, <3>1, <3>2, <3>3, <3>4
  <2>4. \A a \in 1..Len(page) : a > cut => \E i \in 1..Len(D) : at(i) = a
    <3> SUFFICES ASSUME NEW a \in 1..Len(page), a > cut PROVE \E i \in 1..Len(D) : at(i) = a
      OBVIOUS
    <3>1. cut + Len(nodes) + 1 - a \in 1..Len(D)
      BY <1>6, <1>7, <2>2
    <3>2. at(cut + Len(nodes) + 1 - a) = a
      BY <1>7, <2>2
    <3> QED
      BY <3>1, <3>2
  <2>5. \A a, b \in 1..Len(page) : b < a => OrderedBy(o, page[a], page[b])
    <3> SUFFICES ASSUME NEW a \in 1..Len(page), NEW b \in 1..Len(page), b < a
                 PROVE  OrderedBy(o, page[a], page[b])
      OBVIOUS
    <3>1. page[a] \in Q /\ page[b] \in Q /\ page[a] \in TempRow /\ page[b] \in TempRow
      BY <1>4
    <3>2. OrderedBy(w.sortOrder, page[b], page[a])
      BY <2>1 DEF Sorts
    <3>3. page[a] # page[b]
      BY <1>1, <3>1, <3>2, OrderedByIsStrict
    <3>4. page[a].time # page[b].time
      BY <3>1, <3>3
    <3>5. w.sortOrder # o
      BY <1>9, WalkTypes DEF o
    <3> QED
      BY <1>1, <3>1, <3>2, <3>4, <3>5, OppositeOrder
  <2>6. ASSUME NEW i \in 1..Len(D), NEW j \in 1..Len(D), i < j PROVE OrderedBy(o, D[i], D[j])
    <3>1. at(j) < at(i)
      BY <1>6, <1>7, <2>2, <2>6
    <3> QED
      BY <2>3, <2>5, <3>1
  <2>7. ASSUME NEW r \in Q, NEW i \in 1..Len(D), OrderedBy(o, r, D[i])
        PROVE  \E j \in 1..Len(D) : D[j] = r
    <3>1. at(i) \in 1..Len(page) /\ at(i) > cut /\ D[i] = page[at(i)]
      BY <2>3
    <3>2. PICK k \in 1..Len(rows) : rows[k] = page[at(i)]
      <4>1. page \in Seq(ToSet(rows))
        BY <2>1 DEF Sorts
      <4>2. page[at(i)] \in ToSet(rows)
        BY <3>1, <4>1
      <4> QED
        BY <1>3, <4>2 DEF ToSet
    <3>3. r \in ToSet(rows)
      <4>1. \E j \in 1..Len(rows) : rows[j] = r
        BY <1>2, <2>7, <3>1, <3>2 DEF Leads
      <4> QED
        BY <1>3, <4>1 DEF ToSet
    <3>4. PICK b \in 1..Len(page) : page[b] = r
      BY <2>1, <3>3 DEF Sorts
    <3>5. page[at(i)] \in TempRow /\ r \in TempRow
      BY <1>4, <3>1
    <3>6. ~(b < at(i)) /\ b # at(i)
      BY <1>1, <2>5, <2>7, <3>1, <3>4, <3>5, OrderedByIsStrict
    <3>7. b > cut
      BY <1>7, <2>2, <3>1, <3>4, <3>6
    <3> QED
      BY <2>3, <2>4, <3>4, <3>7
  <2>8. ASSUME Len(page) <= w.size, NEW r \in Q
        PROVE  \E j \in 1..Len(D) : D[j] = r
    <3>1. Len(rows) < n
      BY <1>1, <1>3, <1>4, <2>8
    <3>2. r \in ToSet(rows)
      BY <1>2, <1>3, <3>1 DEF Sorts, ToSet
    <3>3. PICK b \in 1..Len(page) : page[b] = r
      BY <2>1, <3>2 DEF Sorts
    <3>4. b > cut
      BY <2>2, <2>8, <3>3
    <3> QED
      BY <2>3, <2>4, <3>3, <3>4
  <2> HIDE DEF at
  <2> QED
    BY <1>6, <2>6, <2>7, <2>8 DEF Leads, Sorts
<1> QED
  BY <1>8, <1>9
=============================================================================
