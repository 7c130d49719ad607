---------------------------- MODULE MemoryProofs ----------------------------
(***************************************************************************)
(* The memory of the kernel at any size: the page allocator with any       *)
(* number of orders, pages and references and from any reservation, the    *)
(* pages that any number of tasks share, and the slab allocator on top of  *)
(* them.                                                                   *)
(***************************************************************************)
EXTENDS Buddy, PageRef, Slab, SequenceTheorems, FiniteSetTheorems, TLAPS

(***************************************************************************)
(* Numbers.                                                                *)
(***************************************************************************)
LEMMA LeastExists ==
  ASSUME NEW S \in SUBSET Nat, S # {}
  PROVE  \E x \in S : \A y \in S : x <= y
<1> DEFINE T == {0..x : x \in S}
           R == StrictSubsetOrdering(Nat)
<1>1. T \subseteq FiniteSubsetsOf(Nat) /\ T # {}
  <2>1. \A x \in S : 0..x \in SUBSET Nat /\ IsFiniteSet(0..x)
    BY FS_Interval
  <2> QED
    BY <2>1 DEF FiniteSubsetsOf
<1>2. PICK X \in T : \A Y \in T : <<Y, X>> \notin R
  <2> HIDE DEF T, R
  <2> QED
    BY <1>1, FS_StrictSubsetOrderingWellFounded, WFMin DEF R
<1>3. PICK x \in S : X = 0..x
  OBVIOUS
<1>4. ASSUME NEW y \in S, ~(x <= y) PROVE FALSE
  <2>1. 0..y \subseteq 0..x /\ 0..y # 0..x
    BY <1>4
  <2>2. <<0..y, 0..x>> \in R
    BY <2>1 DEF StrictSubsetOrdering
  <2> QED
    BY <2>2, <1>2, <1>3
<1> QED
  BY <1>4

\* The minimum of a set of numbers, and the maximum of one with a bound.
LEMMA MinIs ==
  ASSUME NEW S \in SUBSET Nat, S # {}
  PROVE  Min(S) \in S /\ \A x \in S : Min(S) <= x
<1>1. \E x \in S : \A y \in S : x <= y
  BY LeastExists
<1> QED
  BY <1>1 DEF Min

LEMMA MaxIs ==
  ASSUME NEW n \in Nat, NEW S \in SUBSET (0..n), S # {}
  PROVE  Max(S) \in S /\ \A x \in S : x <= Max(S)
<1> DEFINE T == {n - x : x \in S}
<1>1. T \in SUBSET Nat /\ T # {}
  <2>1. \A x \in S : n - x \in Nat
    OBVIOUS
  <2> QED
    BY <2>1
<1>2. PICK t \in T : \A u \in T : t <= u
  BY <1>1, LeastExists
<1>3. PICK m \in S : t = n - m
  OBVIOUS
<1>4. \A x \in S : x <= m
  <2> TAKE x \in S
  <2>1. n - x \in T
    OBVIOUS
  <2>2. n - m <= n - x
    BY <1>2, <1>3, <2>1
  <2> QED
    BY <2>2
<1>5. \E y \in S : \A x \in S : y >= x
  BY <1>4
<1>6. Max(S) \in S /\ \A x \in S : Max(S) >= x
  BY <1>5 DEF Max
<1> QED
  BY <1>6

\* What holds of the first number and is passed on holds of all.
LEMMA UpTo ==
  ASSUME NEW a \in Nat, NEW b \in Nat, NEW G \in SUBSET Nat, a \in G,
         \A n \in a..(b - 1) : n \in G => n + 1 \in G
  PROVE  \A n \in a..b : n \in G
<1> SUFFICES ASSUME NEW m \in a..b, m \notin G PROVE FALSE
  OBVIOUS
<1> DEFINE S == {n \in a..b : n \notin G}
<1>1. S \in SUBSET Nat /\ S # {}
  OBVIOUS
<1>2. PICK n \in S : \A k \in S : n <= k
  BY <1>1, LeastExists
<1>3. n # a /\ n - 1 \in a..(b - 1) /\ n - 1 + 1 = n
  BY <1>2
<1>4. n - 1 \in G
  BY <1>2, <1>3
<1> QED
  BY <1>3, <1>4

(***************************************************************************)
(* Powers of two, by the sets that have so many subsets.                   *)
(***************************************************************************)
LEMMA SizeIsSubsets ==
  ASSUME NEW o \in Nat
  PROVE  /\ IsFiniteSet(SUBSET (1..o)) /\ Cardinality(SUBSET (1..o)) = Size(o)
<1>1. IsFiniteSet(1..o) /\ Cardinality(1..o) = o
  BY FS_Interval
<1> QED
  BY <1>1, FS_SUBSET DEF Size

LEMMA SizeSucc ==
  ASSUME NEW o \in Nat
  PROVE  Size(o) \in Nat \ {0} /\ Size(o + 1) = Size(o) + Size(o)
<1> DEFINE A == SUBSET (1..o)
           B == {X \cup {o + 1} : X \in A}
           f == [X \in A |-> X \cup {o + 1}]
<1>1. IsFiniteSet(A) /\ Cardinality(A) = Size(o) /\ Cardinality(A) \in Nat
  BY SizeIsSubsets, FS_CardinalityType
<1>2. Cardinality(A) # 0
  BY <1>1, FS_EmptySet
<1>3. f \in Bijection(A, B)
  <2>1. \A X \in A : o + 1 \notin X
    OBVIOUS
  <2>2. ASSUME NEW X \in A, NEW Y \in A, f[X] = f[Y] PROVE X = Y
    BY <2>1, <2>2
  <2>3. f \in [A -> B]
    <3>1. \A X \in A : X \cup {o + 1} \in B
      OBVIOUS
    <3> HIDE DEF A, B
    <3> QED
      BY <3>1
  <2>4. \A Z \in B : \E X \in A : f[X] = Z
    OBVIOUS
  <2> HIDE DEF f, A, B
  <2> QED
    BY <2>2, <2>3, <2>4 DEF Bijection, Injection, Surjection, IsInjective
<1>4. IsFiniteSet(B) /\ Cardinality(B) = Size(o)
  <2>1. ExistsBijection(A, B)
    BY <1>3 DEF ExistsBijection
  <2> QED
    BY <1>1, <2>1, FS_Bijection
<1>5. A \cap B = {} /\ A \cup B = SUBSET (1..(o + 1))
  <2>1. \A X \in A : o + 1 \notin X
    OBVIOUS
  <2>2. ASSUME NEW Z \in B PROVE o + 1 \in Z /\ Z \in SUBSET (1..(o + 1))
    <3>1. PICK X \in A : Z = X \cup {o + 1}
      OBVIOUS
    <3> QED
      BY <3>1
  <2>3. ASSUME NEW Z \in SUBSET (1..(o + 1)) PROVE Z \in A \cup B
    <3>1. CASE o + 1 \in Z
      <4>1. Z \ {o + 1} \in A /\ (Z \ {o + 1}) \cup {o + 1} = Z
        BY <3>1
      <4> QED
        BY <4>1
    <3>2. CASE o + 1 \notin Z
      BY <3>2
    <3> QED
      BY <3>1, <3>2
  <2>4. A \subseteq SUBSET (1..(o + 1))
    OBVIOUS
  <2> QED
    BY <2>1, <2>2, <2>3, <2>4
<1> HIDE DEF A, B, f
<1>6. Cardinality(A \cup B) = Cardinality(A) + Cardinality(B) - 0
  <2>1. Cardinality(A \cap B) = 0
    BY <1>5, FS_EmptySet
  <2>2. Cardinality(A \cup B) = Cardinality(A) + Cardinality(B) - Cardinality(A \cap B)
    BY <1>1, <1>4, FS_Union
  <2> QED
    BY <2>1, <2>2
<1>7. Cardinality(A \cup B) = Size(o + 1)
  <2>1. o + 1 \in Nat
    OBVIOUS
  <2>2. Cardinality(SUBSET (1..(o + 1))) = Size(o + 1)
    BY <2>1, SizeIsSubsets
  <2> QED
    BY <1>5, <2>2
<1> QED
  BY <1>1, <1>2, <1>4, <1>6, <1>7

LEMMA SizeZero == Size(0) = 1
BY DEF Size

(***************************************************************************)
(* Division.                                                               *)
(***************************************************************************)
LEMMA NextMultiple ==
  ASSUME NEW s \in Nat \ {0}, NEW a \in Int, NEW b \in Int, a < b
  PROVE  s * a + s <= s * b
<1>1. b - a - 1 \in Nat /\ b = a + 1 + (b - a - 1)
  OBVIOUS
<1>2. PICK d \in Nat : b = a + 1 + d
  BY <1>1
<1>3. s * b = s * a + s + s * d
  BY <1>2
<1>4. s * d >= 0
  OBVIOUS
<1>5. s * a \in Int /\ s * b \in Int /\ s * d \in Int
  OBVIOUS
<1> QED
  BY <1>3, <1>4, <1>5

LEMMA DivMod ==
  ASSUME NEW s \in Nat \ {0}, NEW p \in Int
  PROVE  p \div s \in Int /\ p % s \in 0..(s - 1) /\ p = s * (p \div s) + (p % s)
<1>1. s > 0
  OBVIOUS
<1>2. p \div s \in Int /\ p % s \in 0..(s - 1)
  OBVIOUS
<1>3. PICK q \in Int : q = p \div s
  BY <1>2
<1>4. PICK r \in 0..(s - 1) : r = p % s
  BY <1>2
<1>5. p = s * q + r
  BY <1>1, <1>3, <1>4
<1> QED
  BY <1>2, <1>3, <1>4, <1>5

LEMMA DivModUnique ==
  ASSUME NEW s \in Nat \ {0}, NEW q \in Int, NEW r \in 0..(s - 1), NEW p \in Int,
         p = s * q + r
  PROVE  p \div s = q /\ p % s = r
<1>1. p \div s \in Int /\ p % s \in 0..(s - 1) /\ p = s * (p \div s) + (p % s)
  BY DivMod
<1>2. PICK t \in Int : t = p \div s
  BY <1>1
<1>3. PICK u \in 0..(s - 1) : u = p % s
  BY <1>1
<1>4. p = s * t + u
  BY <1>1, <1>2, <1>3
<1>5. s * q \in Int /\ s * t \in Int
  OBVIOUS
<1>6. ~(t < q)
  <2> SUFFICES ASSUME t < q PROVE FALSE
    OBVIOUS
  <2>1. s * t + s <= s * q
    BY NextMultiple
  <2> QED
    BY <2>1, <1>4, <1>5
<1>7. ~(q < t)
  <2> SUFFICES ASSUME q < t PROVE FALSE
    OBVIOUS
  <2>1. s * q + s <= s * t
    BY NextMultiple
  <2> QED
    BY <2>1, <1>4, <1>5
<1>8. t = q
  BY <1>6, <1>7
<1>9. u = r
  BY <1>4, <1>8, <1>5
<1> QED
  BY <1>2, <1>3, <1>8, <1>9

(***************************************************************************)
(* Aligned page numbers of one order.                                      *)
(***************************************************************************)
\* A page number is aligned exactly when it is a multiple of the block size, and its
\* index is the factor.
LEMMA AlignedIsMultiple ==
  ASSUME NEW o \in Nat, NEW p \in Int
  PROVE  /\ Index(o, p) \in Int
         /\ ~BlockInvalid(p, o) <=> p = Size(o) * Index(o, p)
         /\ \A q \in Int : p = Size(o) * q => ~BlockInvalid(p, o) /\ Index(o, p) = q
<1>1. PICK s \in Nat \ {0} : s = Size(o)
  BY SizeSucc
<1>2. p \div s \in Int /\ p % s \in 0..(s - 1) /\ p = s * (p \div s) + (p % s)
  BY DivMod
<1>3. PICK t \in Int : t = p \div s
  BY <1>2
<1>4. p % s = 0 <=> p = s * t
  <2>1. s * t \in Int
    OBVIOUS
  <2> QED
    BY <1>2, <1>3, <2>1
<1>5. ASSUME NEW q \in Int, p = s * q PROVE p % s = 0 /\ p \div s = q
  <2>1. p = s * q + 0 /\ 0 \in 0..(s - 1)
    <3>1. s * q \in Int
      OBVIOUS
    <3> QED
      BY <3>1, <1>5
  <2> QED
    BY <2>1, DivModUnique
<1>6. Index(o, p) = p \div s /\ (BlockInvalid(p, o) <=> p % s # 0)
  BY <1>1 DEF Index, BlockInvalid
<1> QED
  BY <1>1, <1>2, <1>3, <1>4, <1>5, <1>6

\* Two aligned page numbers are a block apart.
LEMMA AlignedApart ==
  ASSUME NEW o \in Nat, NEW a \in Int, NEW b \in Int,
         ~BlockInvalid(a, o), ~BlockInvalid(b, o), a < b
  PROVE  a + Size(o) <= b
<1>1. PICK s \in Nat \ {0} : s = Size(o)
  BY SizeSucc
<1>2. PICK t \in Int : a = s * t
  BY <1>1, AlignedIsMultiple
<1>3. PICK u \in Int : b = s * u
  BY <1>1, AlignedIsMultiple
<1>4. s * t \in Int /\ s * u \in Int
  OBVIOUS
<1>5. t < u
  <2> SUFFICES ASSUME u < t \/ u = t PROVE FALSE
    OBVIOUS
  <2>1. CASE u = t
    BY <2>1, <1>2, <1>3, <1>4
  <2>2. CASE u < t
    <3>1. s * u + s <= s * t
      BY <2>2, NextMultiple
    <3> QED
      BY <3>1, <1>2, <1>3, <1>4
  <2> QED
    BY <2>1, <2>2
<1>6. s * t + s <= s * u
  BY <1>5, NextMultiple
<1> QED
  BY <1>1, <1>2, <1>3, <1>6

LEMMA AlignDownIs ==
  ASSUME NEW o \in Nat, NEW p \in Nat
  PROVE  /\ AlignDown(p, o) \in Nat /\ ~BlockInvalid(AlignDown(p, o), o)
         /\ AlignDown(p, o) <= p /\ p < AlignDown(p, o) + Size(o)
<1>1. PICK s \in Nat \ {0} : s = Size(o)
  BY SizeSucc
<1>2. p \div s \in Int /\ p % s \in 0..(s - 1) /\ p = s * (p \div s) + (p % s)
  BY DivMod
<1>3. PICK t \in Int : t = p \div s
  BY <1>2
<1>4. PICK r \in 0..(s - 1) : r = p % s
  BY <1>2
<1>5. AlignDown(p, o) = p - r /\ p = s * t + r /\ s * t \in Int
  BY <1>1, <1>2, <1>3, <1>4 DEF AlignDown
<1>6. AlignDown(p, o) = s * t
  BY <1>5
<1>7. AlignDown(p, o) \in Int /\ AlignDown(p, o) <= p /\ p < AlignDown(p, o) + s
  BY <1>5
<1>8. ~BlockInvalid(AlignDown(p, o), o)
  BY <1>1, <1>6, <1>7, AlignedIsMultiple
<1>9. AlignDown(p, o) >= 0
  <2> SUFFICES ASSUME t < 0 PROVE FALSE
    <3>1. t >= 0 => s * t >= 0
      OBVIOUS
    <3> QED
      BY <3>1, <1>6
  <2>1. s * t + s <= s * 0
    BY NextMultiple
  <2> QED
    BY <2>1, <1>5
<1> QED
  BY <1>1, <1>7, <1>8, <1>9

\* The aligned number at most p and less than a block below it is AlignDown(p, o).
LEMMA AlignDownUnique ==
  ASSUME NEW o \in Nat, NEW p \in Nat, NEW a \in Int,
         ~BlockInvalid(a, o), a <= p, p < a + Size(o)
  PROVE  AlignDown(p, o) = a
<1>1. Size(o) \in Nat \ {0}
  BY SizeSucc
<1>2. PICK d \in Nat : /\ d = AlignDown(p, o) /\ ~BlockInvalid(d, o)
                       /\ d <= p /\ p < d + Size(o)
  BY AlignDownIs
<1>3. d < a => d + Size(o) <= a
  BY <1>2, AlignedApart
<1>4. a < d => a + Size(o) <= d
  BY <1>2, AlignedApart
<1> QED
  BY <1>1, <1>2, <1>3, <1>4

LEMMA IndexOneToOne ==
  ASSUME NEW o \in Nat, NEW a \in Int, NEW b \in Int,
         ~BlockInvalid(a, o), ~BlockInvalid(b, o), Index(o, a) = Index(o, b)
  PROVE  a = b
BY AlignedIsMultiple

LEMMA IndexInPages ==
  ASSUME NEW o \in Nat, NEW p \in Pages, MaxPages \in Nat
  PROVE  Index(o, p) \in Pages
<1>1. PICK s \in Nat \ {0} : s = Size(o)
  BY SizeSucc
<1>2. p \in Nat /\ p < MaxPages
  BY DEF Pages
<1>3. p \div s \in Int /\ p % s \in 0..(s - 1) /\ p = s * (p \div s) + (p % s)
  BY <1>2, DivMod
<1>4. PICK t \in Int : t = p \div s
  BY <1>3
<1>5. PICK r \in 0..(s - 1) : r = p % s
  BY <1>3
<1>6. p = s * t + r /\ s * t \in Int
  BY <1>3, <1>4, <1>5
<1>7. t >= 0
  <2> SUFFICES ASSUME t < 0 PROVE FALSE
    OBVIOUS
  <2>1. s * t + s <= s * 0
    BY NextMultiple
  <2> QED
    BY <2>1, <1>6, <1>2
<1>8. t <= s * t
  <2>1. CASE t = 0
    BY <2>1
  <2>2. CASE t > 0
    <3>1. PICK u \in Nat : s = u + 1
      <4>1. s - 1 \in Nat /\ s = (s - 1) + 1
        OBVIOUS
      <4> QED
        BY <4>1
    <3>2. s * t = u * t + t /\ u * t \in Int
      BY <3>1
    <3>3. u * t >= 0
      BY <2>2
    <3> QED
      BY <3>2, <3>3
  <2> QED
    BY <1>7, <2>1, <2>2
<1>9. Index(o, p) = t
  BY <1>1, <1>4 DEF Index
<1> QED
  BY <1>2, <1>6, <1>7, <1>8, <1>9 DEF Pages

(***************************************************************************)
(* Blocks of different orders.                                             *)
(***************************************************************************)
LEMMA SizeGrows ==
  ASSUME NEW i \in Nat, NEW j \in Nat, i < j
  PROVE  Size(i) < Size(j)
<1> DEFINE G == {n \in Nat : Size(i) < Size(n)}
<1>1. i + 1 \in G
  BY SizeSucc
<1>2. ASSUME NEW n \in (i + 1)..(j - 1), n \in G PROVE n + 1 \in G
  <2>1. n \in Nat /\ Size(n + 1) = Size(n) + Size(n) /\ Size(n) \in Nat
    BY SizeSucc
  <2>2. Size(i) \in Nat
    BY SizeSucc
  <2> QED
    BY <1>2, <2>1, <2>2
<1>3. i + 1 \in Nat /\ G \in SUBSET Nat
  OBVIOUS
<1> HIDE DEF G
<1>4. \A n \in (i + 1)..j : n \in G
  BY <1>1, <1>2, <1>3, UpTo
<1>5. j \in G
  BY <1>4
<1> QED
  BY <1>5 DEF G

\* A block of the next order is two blocks, which are each other's buddies.
LEMMA TwoHalves ==
  ASSUME NEW o \in Nat, NEW p \in Int, ~BlockInvalid(p, o + 1)
  PROVE  /\ ~BlockInvalid(p, o) /\ ~BlockInvalid(p + Size(o), o)
         /\ Buddy(p, o) = p + Size(o) /\ Buddy(p + Size(o), o) = p
<1>1. PICK s \in Nat \ {0} : s = Size(o) /\ Size(o + 1) = s + s
  BY SizeSucc
<1>2. PICK t \in Int : p = (s + s) * t
  <2>1. o + 1 \in Nat
    OBVIOUS
  <2> QED
    BY <1>1, <2>1, AlignedIsMultiple
<1>3. p = s * (t + t) /\ p + s = s * (t + t + 1)
  BY <1>2
<1>4. t + t \in Int /\ t + t + 1 \in Int /\ p + s \in Int
  OBVIOUS
<1>5. ~BlockInvalid(p, o) /\ Index(o, p) = t + t
  BY <1>1, <1>3, <1>4, AlignedIsMultiple
<1>6. ~BlockInvalid(p + s, o) /\ Index(o, p + s) = t + t + 1
  BY <1>1, <1>3, <1>4, AlignedIsMultiple
<1>7. (t + t) % 2 = 0 /\ (t + t + 1) % 2 = 1
  OBVIOUS
<1>8. Buddy(p, o) = p + s
  BY <1>1, <1>5, <1>7 DEF Buddy
<1>9. Buddy(p + s, o) = p
  <2>1. Buddy(p + s, o) = (p + s) - s
    BY <1>1, <1>6, <1>7 DEF Buddy
  <2> QED
    BY <2>1
<1> QED
  BY <1>1, <1>5, <1>6, <1>8, <1>9

\* The block that a page lies in and its buddy are the halves of the block of the next
\* order that the page lies in.
LEMMA AlignDownHalves ==
  ASSUME NEW o \in Nat, NEW p \in Nat
  PROVE  LET a == AlignDown(p, o)
             d == AlignDown(p, o + 1)
         IN  \/ a = d /\ Buddy(a, o) = d + Size(o)
             \/ a = d + Size(o) /\ Buddy(a, o) = d
<1>1. o + 1 \in Nat
  OBVIOUS
<1>2. PICK d \in Nat : /\ d = AlignDown(p, o + 1) /\ ~BlockInvalid(d, o + 1)
                       /\ d <= p /\ p < d + Size(o + 1)
  BY <1>1, AlignDownIs
<1>3. PICK s \in Nat \ {0} : s = Size(o) /\ Size(o + 1) = s + s
  BY SizeSucc
<1>4. /\ ~BlockInvalid(d, o) /\ ~BlockInvalid(d + s, o)
      /\ Buddy(d, o) = d + s /\ Buddy(d + s, o) = d
  BY <1>2, <1>3, TwoHalves
<1>5. CASE p < d + s
  <2>1. AlignDown(p, o) = d
    BY <1>2, <1>3, <1>4, <1>5, AlignDownUnique
  <2> QED
    BY <1>2, <1>3, <1>4, <2>1
<1>6. CASE ~(p < d + s)
  <2>1. AlignDown(p, o) = d + s
    <3>1. d + s \in Int /\ d + s <= p /\ p < d + s + s
      BY <1>2, <1>3, <1>6
    <3> QED
      BY <1>3, <1>4, <3>1, AlignDownUnique
  <2> QED
    BY <1>2, <1>3, <1>4, <2>1
<1> QED
  BY <1>5, <1>6

LEMMA BuddyIs ==
  ASSUME NEW o \in Nat, NEW p \in Nat, ~BlockInvalid(p, o)
  PROVE  /\ AlignDown(p, o) = p
         /\ Buddy(p, o) \in Nat /\ ~BlockInvalid(Buddy(p, o), o)
         /\ Buddy(Buddy(p, o), o) = p /\ Buddy(p, o) # p
<1>1. PICK s \in Nat \ {0} : s = Size(o)
  BY SizeSucc
<1>2. AlignDown(p, o) = p
  BY <1>1, AlignDownUnique
<1>3. PICK d \in Nat : d = AlignDown(p, o + 1) /\ ~BlockInvalid(d, o + 1)
  <2>1. o + 1 \in Nat
    OBVIOUS
  <2> QED
    BY <2>1, AlignDownIs
<1>4. \/ p = d /\ Buddy(p, o) = d + s
      \/ p = d + s /\ Buddy(p, o) = d
  BY <1>1, <1>2, <1>3, AlignDownHalves
<1>5. /\ ~BlockInvalid(d, o) /\ ~BlockInvalid(d + s, o)
      /\ Buddy(d, o) = d + s /\ Buddy(d + s, o) = d
  BY <1>1, <1>3, TwoHalves
<1> QED
  BY <1>2, <1>4, <1>5

LEMMA AlignedBelow ==
  ASSUME NEW i \in Nat, NEW j \in Nat, i <= j, NEW p \in Int, ~BlockInvalid(p, j)
  PROVE  ~BlockInvalid(p, i)
<1> DEFINE G == {n \in 0..j : ~BlockInvalid(p, j - n)}
<1>1. 0 \in G
  OBVIOUS
<1>2. ASSUME NEW n \in 0..(j - 1), n \in G PROVE n + 1 \in G
  <2>1. j - (n + 1) \in Nat /\ (j - (n + 1)) + 1 = j - n /\ n + 1 \in 0..j
    OBVIOUS
  <2>2. ~BlockInvalid(p, (j - (n + 1)) + 1)
    BY <1>2, <2>1
  <2>3. ~BlockInvalid(p, j - (n + 1))
    BY <2>1, <2>2, TwoHalves
  <2> QED
    BY <2>1, <2>3
<1>3. 0 \in Nat /\ G \in SUBSET Nat
  OBVIOUS
<1> HIDE DEF G
<1>4. \A n \in 0..j : n \in G
  BY <1>1, <1>2, <1>3, UpTo
<1>5. j - i \in G /\ j - (j - i) = i
  BY <1>4
<1> QED
  BY <1>5 DEF G

\* Blocks that share a page are nested.
LEMMA BlocksNested ==
  ASSUME NEW i \in Nat, NEW j \in Nat, i <= j, NEW a \in Int, NEW b \in Int,
         ~BlockInvalid(a, i), ~BlockInvalid(b, j), Block(a, i) \cap Block(b, j) # {}
  PROVE  Block(a, i) \subseteq Block(b, j)
<1>1. PICK s \in Nat \ {0} : s = Size(i)
  BY SizeSucc
<1>2. PICK u \in Nat \ {0} : u = Size(j)
  BY SizeSucc
<1>3. PICK x \in Int : a <= x /\ x < a + s /\ b <= x /\ x < b + u
  BY <1>1, <1>2 DEF Block
<1>4. ~BlockInvalid(b, i)
  BY AlignedBelow
<1>5. ~BlockInvalid(b + u, i)
  <2>1. PICK t \in Int : b = u * t
    BY <1>2, AlignedIsMultiple
  <2>2. b + u = u * (t + 1) /\ t + 1 \in Int /\ b + u \in Int
    BY <2>1
  <2>3. ~BlockInvalid(b + u, j)
    BY <1>2, <2>2, AlignedIsMultiple
  <2> QED
    BY <2>2, <2>3, AlignedBelow
<1>6. ~(a < b)
  <2>1. a < b => a + s <= b
    BY <1>1, <1>4, AlignedApart
  <2> QED
    BY <2>1, <1>3
<1>7. a + s <= b + u
  <2>1. b + u \in Int /\ a < b + u
    BY <1>3
  <2> QED
    BY <1>1, <1>5, <2>1, AlignedApart
<1> QED
  BY <1>1, <1>2, <1>6, <1>7 DEF Block

\* The memory is a whole number of blocks of every order.
LEMMA BlockInPages ==
  ASSUME NEW o \in Orders, NEW p \in Pages, ~BlockInvalid(p, o)
  PROVE  Block(p, o) \subseteq Pages
<1>1. MaxOrder - 1 \in Nat /\ MaxPages \in Nat /\ o \in Nat /\ o <= MaxOrder - 1
  BY BuddyAssumption DEF Orders
<1>2. ~BlockInvalid(MaxPages, MaxOrder - 1)
  BY BuddyAssumption DEF BlockInvalid, Size
<1>3. ~BlockInvalid(MaxPages, o)
  BY <1>1, <1>2, AlignedBelow
<1>4. p \in Nat /\ p < MaxPages
  BY <1>1 DEF Pages
<1>5. p + Size(o) <= MaxPages
  BY <1>1, <1>3, <1>4, AlignedApart
<1>6. Size(o) \in Nat
  BY <1>1, SizeSucc
<1> QED
  BY <1>1, <1>4, <1>5, <1>6 DEF Block, Pages

(***************************************************************************)
(* What a merge puts together and a split takes apart: the block of order  *)
(* m around the page p is the block of order o around p and the buddies at *)
(* o, ..., m - 1.                                                          *)
(***************************************************************************)
BuddyAt(p, j) == Buddy(AlignDown(p, j), j)

Around(p, j) == Block(AlignDown(p, j), j)

BuddyBlock(p, j) == Block(BuddyAt(p, j), j)

LEMMA AroundNext ==
  ASSUME NEW p \in Nat, NEW j \in Nat
  PROVE  /\ p \in Around(p, j) /\ BuddyAt(p, j) \in BuddyBlock(p, j)
         /\ BuddyAt(p, j) \in Nat /\ ~BlockInvalid(BuddyAt(p, j), j)
         /\ Around(p, j + 1) = Around(p, j) \cup BuddyBlock(p, j)
         /\ Around(p, j) \cap BuddyBlock(p, j) = {}
<1>1. PICK a \in Nat : /\ a = AlignDown(p, j) /\ ~BlockInvalid(a, j)
                       /\ a <= p /\ p < a + Size(j)
  BY AlignDownIs
<1>2. PICK d \in Nat : d = AlignDown(p, j + 1)
  <2>1. j + 1 \in Nat
    OBVIOUS
  <2> QED
    BY <2>1, AlignDownIs
<1>3. PICK s \in Nat \ {0} : s = Size(j) /\ Size(j + 1) = s + s
  BY SizeSucc
<1>4. \/ a = d /\ Buddy(a, j) = d + s
      \/ a = d + s /\ Buddy(a, j) = d
  BY <1>1, <1>2, <1>3, AlignDownHalves
<1>5. PICK b \in Nat : b = Buddy(a, j) /\ ~BlockInvalid(b, j)
  BY <1>1, BuddyIs
<1>6. Around(p, j) = a..(a + s - 1) /\ Around(p, j + 1) = d..(d + (s + s) - 1)
  BY <1>1, <1>2, <1>3 DEF Around, Block
<1>7. BuddyAt(p, j) = b /\ BuddyBlock(p, j) = b..(b + s - 1)
  BY <1>1, <1>3, <1>5 DEF BuddyAt, BuddyBlock, Block
<1>8. \/ a = d /\ b = d + s
      \/ a = d + s /\ b = d
  BY <1>4, <1>5
<1>9. a..(a + s - 1) \cap b..(b + s - 1) = {}
  BY <1>8
<1>10. d..(d + (s + s) - 1) = a..(a + s - 1) \cup b..(b + s - 1)
  BY <1>8
<1>11. p \in a..(a + s - 1) /\ b \in b..(b + s - 1)
  BY <1>1, <1>3
<1> QED
  BY <1>5, <1>6, <1>7, <1>9, <1>10, <1>11

LEMMA AroundGrows ==
  ASSUME NEW p \in Nat, NEW i \in Nat, NEW j \in Nat, i <= j
  PROVE  Around(p, i) \subseteq Around(p, j)
<1> DEFINE G == {n \in Nat : Around(p, i) \subseteq Around(p, n)}
<1>1. i \in G
  OBVIOUS
<1>2. ASSUME NEW n \in i..(j - 1), n \in G PROVE n + 1 \in G
  <2>1. n \in Nat /\ n + 1 \in Nat
    OBVIOUS
  <2> QED
    BY <1>2, <2>1, AroundNext
<1>3. G \in SUBSET Nat
  OBVIOUS
<1> HIDE DEF G
<1>4. \A n \in i..j : n \in G
  BY <1>1, <1>2, <1>3, UpTo
<1>5. j \in G
  BY <1>4
<1> QED
  BY <1>5 DEF G

LEMMA Pieces ==
  ASSUME NEW p \in Nat, NEW o \in Nat, NEW m \in Nat, o <= m
  PROVE  /\ Around(p, o) \subseteq Around(p, m)
         /\ \A j \in o..(m - 1) : /\ BuddyBlock(p, j) \subseteq Around(p, m)
                                  /\ BuddyBlock(p, j) \cap Around(p, o) = {}
         /\ \A i, j \in o..(m - 1) : i # j => BuddyBlock(p, i) \cap BuddyBlock(p, j) = {}
         /\ \A x \in Around(p, m) :
              x \in Around(p, o) \/ \E j \in o..(m - 1) : x \in BuddyBlock(p, j)
<1>1. \A j \in Nat : /\ Around(p, j + 1) = Around(p, j) \cup BuddyBlock(p, j)
                     /\ Around(p, j) \cap BuddyBlock(p, j) = {}
  BY AroundNext
<1>2. \A i, j \in Nat : i <= j => Around(p, i) \subseteq Around(p, j)
  BY AroundGrows
<1>3. ASSUME NEW j \in o..(m - 1)
      PROVE  BuddyBlock(p, j) \subseteq Around(p, m) /\ BuddyBlock(p, j) \cap Around(p, o) = {}
  <2>1. j \in Nat /\ j + 1 \in Nat /\ o <= j /\ j + 1 <= m
    OBVIOUS
  <2> QED
    BY <1>1, <1>2, <2>1
<1>4. ASSUME NEW i \in o..(m - 1), NEW j \in o..(m - 1), i < j
      PROVE  BuddyBlock(p, i) \cap BuddyBlock(p, j) = {}
  <2>1. i \in Nat /\ i + 1 \in Nat /\ j \in Nat /\ i + 1 <= j
    BY <1>4
  <2> QED
    BY <1>1, <1>2, <2>1
<1>5. ASSUME NEW i \in o..(m - 1), NEW j \in o..(m - 1), i # j
      PROVE  BuddyBlock(p, i) \cap BuddyBlock(p, j) = {}
  <2>1. i < j \/ j < i
    BY <1>5
  <2> QED
    BY <1>4, <2>1
<1>6. ASSUME NEW x, x \notin Around(p, o), \A j \in o..(m - 1) : x \notin BuddyBlock(p, j)
      PROVE  x \notin Around(p, m)
  <2> DEFINE G == {n \in Nat : x \notin Around(p, n)}
  <2>1. o \in G
    BY <1>6
  <2>2. ASSUME NEW n \in o..(m - 1), n \in G PROVE n + 1 \in G
    <3>1. n \in Nat /\ n + 1 \in Nat
      OBVIOUS
    <3> QED
      BY <1>1, <1>6, <2>2, <3>1
  <2>3. G \in SUBSET Nat
    OBVIOUS
  <2> HIDE DEF G
  <2>4. \A n \in o..m : n \in G
    BY <2>1, <2>2, <2>3, UpTo
  <2>5. m \in G
    BY <2>4
  <2> QED
    BY <2>5 DEF G
<1>7. Around(p, o) \subseteq Around(p, m)
  BY <1>2
<1> QED
  BY <1>3, <1>5, <1>6, <1>7

(***************************************************************************)
(* Free lists.                                                             *)
(***************************************************************************)
LEMMA ListElems ==
  ASSUME NEW S, NEW q \in Seq(S)
  PROVE  /\ Len(q) \in Nat /\ DOMAIN q = 1..Len(q)
         /\ \A x : x \in ToSet(q) <=> \E i \in 1..Len(q) : q[i] = x
         /\ ToSet(q) \subseteq S
         /\ q = <<>> <=> ToSet(q) = {}
<1>1. Len(q) \in Nat /\ DOMAIN q = 1..Len(q)
  BY LenProperties
<1>2. \A x : x \in ToSet(q) <=> \E i \in 1..Len(q) : q[i] = x
  BY <1>1 DEF ToSet
<1>3. ToSet(q) \subseteq S
  BY <1>2, ElementOfSeq
<1>4. q = <<>> => ToSet(q) = {}
  BY <1>2, EmptySeq
<1>5. q # <<>> => q[1] \in ToSet(q)
  BY <1>1, <1>2, EmptySeq
<1> QED
  BY <1>1, <1>2, <1>3, <1>4, <1>5

LEMMA SingleElems ==
  ASSUME NEW S, NEW x \in S
  PROVE  <<x>> \in Seq(S) /\ ToSet(<<x>>) = {x} /\ IsInjective(<<x>>)
<1>1. <<x>> \in Seq(S) /\ Len(<<x>>) = 1 /\ <<x>>[1] = x /\ DOMAIN <<x>> = {1}
  OBVIOUS
<1>2. ToSet(<<x>>) = {x}
  BY <1>1 DEF ToSet
<1>3. IsInjective(<<x>>)
  BY <1>1 DEF IsInjective
<1> QED
  BY <1>1, <1>2, <1>3

LEMMA TailElems ==
  ASSUME NEW S, NEW q \in Seq(S), q # <<>>, IsInjective(q)
  PROVE  /\ Head(q) \in ToSet(q) /\ Tail(q) \in Seq(S) /\ IsInjective(Tail(q))
         /\ ToSet(Tail(q)) = ToSet(q) \ {Head(q)}
<1>1. PICK n \in Nat : n = Len(q) /\ n # 0 /\ DOMAIN q = 1..n
  BY LenProperties, EmptySeq
<1>2. /\ Tail(q) \in Seq(S) /\ Head(q) = q[1] /\ Len(Tail(q)) = n - 1
      /\ \A i \in 1..(n - 1) : Tail(q)[i] = q[i + 1]
  BY <1>1, HeadTailProperties
<1>3. PICK t \in Seq(S) : t = Tail(q)
  BY <1>2
<1>4. Len(t) = n - 1 /\ DOMAIN t = 1..(n - 1) /\ \A i \in 1..(n - 1) : t[i] = q[i + 1]
  BY <1>2, <1>3, LenProperties
<1>5. \A i, j \in 1..n : q[i] = q[j] => i = j
  BY <1>1 DEF IsInjective
<1>6. IsInjective(t)
  <2>1. \A i, j \in 1..(n - 1) : t[i] = t[j] => i = j
    BY <1>1, <1>4, <1>5
  <2> QED
    BY <1>4, <2>1 DEF IsInjective
<1>7. \A x : x \in ToSet(q) <=> \E i \in 1..n : q[i] = x
  BY <1>1, ListElems
<1>8. \A x : x \in ToSet(t) <=> \E i \in 1..(n - 1) : t[i] = x
  BY <1>4, ListElems
<1>9. ASSUME NEW x \in ToSet(t) PROVE x \in ToSet(q) \ {q[1]}
  <2>1. PICK i \in 1..(n - 1) : t[i] = x
    BY <1>8
  <2>2. i + 1 \in 1..n /\ i + 1 # 1 /\ 1 \in 1..n /\ q[i + 1] = x
    BY <1>1, <1>4, <2>1
  <2> QED
    BY <1>5, <1>7, <2>2
<1>10. ASSUME NEW x \in ToSet(q) \ {q[1]} PROVE x \in ToSet(t)
  <2>1. PICK i \in 1..n : q[i] = x
    BY <1>7
  <2>2. i # 1 /\ i - 1 \in 1..(n - 1) /\ (i - 1) + 1 = i
    BY <1>1, <2>1
  <2> QED
    BY <1>4, <1>8, <2>1, <2>2
<1>11. q[1] \in ToSet(q)
  BY <1>1, <1>7
<1> QED
  BY <1>2, <1>3, <1>6, <1>9, <1>10, <1>11

LEMMA AppendElems ==
  ASSUME NEW S, NEW q \in Seq(S), NEW x \in S, IsInjective(q), x \notin ToSet(q)
  PROVE  /\ Append(q, x) \in Seq(S) /\ IsInjective(Append(q, x))
         /\ ToSet(Append(q, x)) = ToSet(q) \cup {x}
<1>1. PICK n \in Nat : n = Len(q) /\ DOMAIN q = 1..n
  BY LenProperties
<1>2. PICK t \in Seq(S) : /\ t = Append(q, x) /\ Len(t) = n + 1 /\ t[n + 1] = x
                          /\ \A i \in 1..n : t[i] = q[i]
  <2>1. /\ Append(q, x) \in Seq(S) /\ Len(Append(q, x)) = n + 1 /\ Append(q, x)[n + 1] = x
        /\ \A i \in 1..n : Append(q, x)[i] = q[i]
    BY <1>1, AppendProperties
  <2> QED
    BY <2>1
<1>3. DOMAIN t = 1..(n + 1)
  BY <1>2, LenProperties
<1>4. \A i, j \in 1..n : q[i] = q[j] => i = j
  BY <1>1 DEF IsInjective
<1>5. \A y : y \in ToSet(q) <=> \E i \in 1..n : q[i] = y
  BY <1>1, ListElems
<1>6. \A y : y \in ToSet(t) <=> \E i \in 1..(n + 1) : t[i] = y
  BY <1>2, ListElems
<1>7. IsInjective(t)
  <2>1. \A i, j \in 1..(n + 1) : t[i] = t[j] => i = j
    BY <1>1, <1>2, <1>4, <1>5
  <2> QED
    BY <1>3, <2>1 DEF IsInjective
<1>8. ASSUME NEW y \in ToSet(t) PROVE y \in ToSet(q) \cup {x}
  <2>1. PICK i \in 1..(n + 1) : t[i] = y
    BY <1>6
  <2>2. i \in 1..n \/ i = n + 1
    OBVIOUS
  <2> QED
    BY <1>2, <1>5, <2>1, <2>2
<1>9. ASSUME NEW y \in ToSet(q) PROVE y \in ToSet(t)
  <2>1. PICK i \in 1..n : q[i] = y
    BY <1>5
  <2>2. i \in 1..(n + 1)
    OBVIOUS
  <2> QED
    BY <1>2, <1>6, <2>1, <2>2
<1>10. x \in ToSet(t)
  BY <1>2, <1>6
<1> QED
  BY <1>2, <1>7, <1>8, <1>9, <1>10

LEMMA ConsElems ==
  ASSUME NEW S, NEW q \in Seq(S), NEW x \in S, IsInjective(q), x \notin ToSet(q)
  PROVE  /\ <<x>> \o q \in Seq(S) /\ IsInjective(<<x>> \o q)
         /\ ToSet(<<x>> \o q) = {x} \cup ToSet(q)
<1>1. PICK n \in Nat : n = Len(q) /\ DOMAIN q = 1..n
  BY LenProperties
<1>2. PICK t \in Seq(S) : /\ t = <<x>> \o q /\ Len(t) = n + 1 /\ t[1] = x
                          /\ \A i \in 1..n : t[i + 1] = q[i]
  <2>1. <<x>> \in Seq(S) /\ Len(<<x>>) = 1 /\ <<x>>[1] = x
    OBVIOUS
  <2>2. <<x>> \o q \in Seq(S) /\ Len(<<x>> \o q) = 1 + n
    BY <1>1, <2>1, ConcatProperties
  <2>3. \A i \in 1..(1 + n) : (<<x>> \o q)[i] = IF i <= 1 THEN <<x>>[i] ELSE q[i - 1]
    BY <1>1, <2>1, ConcatProperties
  <2>4. (<<x>> \o q)[1] = x
    BY <2>1, <2>3
  <2>5. ASSUME NEW i \in 1..n PROVE (<<x>> \o q)[i + 1] = q[i]
    <3>1. i + 1 \in 1..(1 + n) /\ ~(i + 1 <= 1) /\ (i + 1) - 1 = i
      OBVIOUS
    <3> QED
      BY <2>3, <3>1
  <2>6. Len(<<x>> \o q) = n + 1
    BY <2>2
  <2> HIDE <2>3
  <2> QED
    BY <2>2, <2>4, <2>5, <2>6, Zenon
<1>3. DOMAIN t = 1..(n + 1)
  BY <1>2, LenProperties
<1>4. \A i, j \in 1..n : q[i] = q[j] => i = j
  BY <1>1 DEF IsInjective
<1>5. \A y : y \in ToSet(q) <=> \E i \in 1..n : q[i] = y
  BY <1>1, ListElems
<1>6. \A y : y \in ToSet(t) <=> \E i \in 1..(n + 1) : t[i] = y
  BY <1>2, ListElems
<1>7. ASSUME NEW i \in 1..(n + 1) PROVE \/ i = 1 /\ t[i] = x
                                        \/ i - 1 \in 1..n /\ t[i] = q[i - 1]
  <2>1. i = 1 \/ (i - 1 \in 1..n /\ (i - 1) + 1 = i)
    OBVIOUS
  <2> QED
    BY <1>2, <2>1
<1>8. IsInjective(t)
  <2>1. ASSUME NEW i \in 1..(n + 1), NEW j \in 1..(n + 1), t[i] = t[j] PROVE i = j
    <3>1. \A k \in 1..n : q[k] # x
      BY <1>5
    <3>2. CASE i = 1
      <4>1. ~(j - 1 \in 1..n /\ t[j] = q[j - 1])
        BY <1>2, <2>1, <3>1, <3>2
      <4> QED
        BY <1>7, <3>2, <4>1
    <3>3. CASE i # 1
      <4>1. i - 1 \in 1..n /\ t[i] = q[i - 1]
        BY <1>7, <3>3
      <4>2. j # 1
        BY <1>2, <2>1, <3>1, <4>1
      <4>3. j - 1 \in 1..n /\ t[j] = q[j - 1]
        BY <1>7, <4>2
      <4>4. i - 1 = j - 1
        BY <1>4, <2>1, <4>1, <4>3
      <4> QED
        BY <4>4
    <3> QED
      BY <3>2, <3>3
  <2> QED
    BY <1>3, <2>1 DEF IsInjective
<1>9. ASSUME NEW y \in ToSet(t) PROVE y \in ToSet(q) \cup {x}
  BY <1>5, <1>6, <1>7
<1>10. ASSUME NEW y \in ToSet(q) PROVE y \in ToSet(t)
  <2>1. PICK i \in 1..n : q[i] = y
    BY <1>5
  <2>2. i + 1 \in 1..(n + 1)
    OBVIOUS
  <2> QED
    BY <1>2, <1>6, <2>1, <2>2
<1>11. x \in ToSet(t)
  BY <1>1, <1>2, <1>6
<1> QED
  BY <1>2, <1>8, <1>9, <1>10, <1>11

LEMMA RemoveElems ==
  ASSUME NEW S, NEW q \in Seq(S), NEW x \in ToSet(q), IsInjective(q)
  PROVE  /\ RemoveFirst(q, x) \in Seq(S) /\ IsInjective(RemoveFirst(q, x))
         /\ ToSet(RemoveFirst(q, x)) = ToSet(q) \ {x}
<1>1. PICK n \in Nat : n = Len(q) /\ DOMAIN q = 1..n
  BY LenProperties
<1>2. \A y : y \in ToSet(q) <=> \E i \in 1..n : q[i] = y
  BY <1>1, ListElems
<1>3. PICK k \in 1..n : q[k] = x
  BY <1>2
<1>4. \A i, j \in 1..n : q[i] = q[j] => i = j
  BY <1>1 DEF IsInjective
<1>5. SelectInSeq(q, LAMBDA v : v = x) = k
  <2> DEFINE I == {i \in 1..Len(q) : q[i] = x}
  <2>1. I = {k}
    BY <1>1, <1>3, <1>4
  <2> HIDE DEF I
  <2>2. Min(I) = k
    <3>1. I \in SUBSET Nat /\ I # {}
      BY <2>1
    <3> QED
      BY <2>1, <3>1, MinIs
  <2> QED
    BY <2>1, <2>2 DEF SelectInSeq, I
<1>6. RemoveFirst(q, x) = SubSeq(q, 1, k - 1) \o SubSeq(q, k + 1, n)
  <2>1. \E i \in 1..Len(q) : q[i] = x
    BY <1>1, <1>3
  <2> QED
    BY <1>1, <1>5, <2>1 DEF RemoveFirst, RemoveAt
<1>7. PICK t \in Seq(S) : /\ t = RemoveFirst(q, x) /\ Len(t) = n - 1
                          /\ \A i \in 1..(n - 1) : t[i] = IF i < k THEN q[i] ELSE q[i + 1]
  <2> DEFINE u == SubSeq(q, 1, k - 1)
             v == SubSeq(q, k + 1, n)
  <2>1. u \in Seq(S) /\ Len(u) = k - 1 /\ \A i \in 1..(k - 1) : u[i] = q[i]
    <3>1. k - 1 <= n /\ 1 \in Nat \ {0} /\ k - 1 \in Nat
      OBVIOUS
    <3> QED
      BY <1>1, <3>1
  <2>2. v \in Seq(S) /\ Len(v) = n - k /\ \A i \in 1..(n - k) : v[i] = q[k + i]
    BY <1>1
  <2> HIDE DEF u, v
  <2>3. u \o v \in Seq(S) /\ Len(u \o v) = n - 1
    <3>1. u \o v \in Seq(S) /\ Len(u \o v) = Len(u) + Len(v)
      BY <2>1, <2>2, ConcatProperties
    <3> QED
      BY <2>1, <2>2, <3>1
  <2>4. ASSUME NEW i \in 1..(n - 1) PROVE (u \o v)[i] = IF i < k THEN q[i] ELSE q[i + 1]
    <3>1. CASE i < k
      BY <3>1, <2>1, <2>2
    <3>2. CASE ~(i < k)
      <4>1. i - (k - 1) \in 1..(n - k) /\ k + (i - (k - 1)) = i + 1
        BY <3>2
      <4>2. (u \o v)[i] = v[i - (k - 1)]
        BY <3>2, <2>1, <2>2
      <4> QED
        BY <3>2, <4>1, <4>2, <2>2
    <3> QED
      BY <3>1, <3>2
  <2> QED
    BY <1>6, <2>3, <2>4 DEF u, v
<1>8. DOMAIN t = 1..(n - 1)
  BY <1>7, LenProperties
<1>9. \A y : y \in ToSet(t) <=> \E i \in 1..(n - 1) : t[i] = y
  BY <1>7, ListElems
<1>10. IsInjective(t)
  <2>1. ASSUME NEW i \in 1..(n - 1), NEW j \in 1..(n - 1), t[i] = t[j] PROVE i = j
    <3>1. t[i] = q[IF i < k THEN i ELSE i + 1] /\ t[j] = q[IF j < k THEN j ELSE j + 1]
      BY <1>7
    <3>2. (IF i < k THEN i ELSE i + 1) \in 1..n /\ (IF j < k THEN j ELSE j + 1) \in 1..n
      OBVIOUS
    <3>3. (IF i < k THEN i ELSE i + 1) = (IF j < k THEN j ELSE j + 1)
      BY <1>4, <2>1, <3>1, <3>2
    <3> QED
      BY <3>3
  <2> QED
    BY <1>8, <2>1 DEF IsInjective
<1>11. ASSUME NEW y \in ToSet(t) PROVE y \in ToSet(q) \ {x}
  <2>1. PICK i \in 1..(n - 1) : t[i] = y
    BY <1>9
  <2>2. PICK j \in 1..n : j # k /\ q[j] = y
    BY <1>7, <2>1
  <2> QED
    BY <1>2, <1>3, <1>4, <2>2
<1>12. ASSUME NEW y \in ToSet(q) \ {x} PROVE y \in ToSet(t)
  <2>1. PICK i \in 1..n : q[i] = y /\ i # k
    BY <1>2, <1>3
  <2>2. CASE i < k
    <3>1. i \in 1..(n - 1) /\ t[i] = y
      BY <1>7, <2>1, <2>2
    <3> QED
      BY <1>9, <3>1
  <2>3. CASE i > k
    <3>1. i - 1 \in 1..(n - 1) /\ t[i - 1] = y
      BY <1>7, <2>1, <2>3
    <3> QED
      BY <1>9, <3>1
  <2> QED
    BY <2>1, <2>2, <2>3
<1> QED
  BY <1>7, <1>10, <1>11, <1>12

(***************************************************************************)
(* The allocator's state: its free blocks, and what its lists and bitmaps  *)
(* keep.                                                                   *)
(***************************************************************************)
BlockIds == [pfn : Pages, order : Orders]

FreeOf(M) == {b \in BlockIds : b.pfn \in ToSet(M.lists[b.order])}

Buddies(p, o, m) == {[pfn |-> BuddyAt(p, j), order |-> j] : j \in o..(m - 1)}

Whole(p, m) == [pfn |-> AlignDown(p, m), order |-> m]

Apart(B) == \A b, c \in B : b # c => PagesOf(b) \cap PagesOf(c) = {}

PagesIn(B) == UNION {PagesOf(b) : b \in B}

Aligned(B) == \A b \in B : ~BlockInvalid(b.pfn, b.order)

ListsMatch(M) ==
  \A o \in Orders : /\ IsInjective(M.lists[o])
                    /\ M.masks[o] = {Index(o, p) : p \in ToSet(M.lists[o])}

\* Two free buddies below the last order would have been merged.
Merged(M) ==
  \A o \in 0..(MaxOrder - 2) : \A p \in ToSet(M.lists[o]) :
    Buddy(p, o) \notin ToSet(M.lists[o])

LEMMA NumbersAre ==
  /\ MaxOrder \in Nat /\ MaxOrder - 1 \in Nat /\ MaxOrder - 1 \in Orders /\ 0 \in Orders
  /\ MaxPages \in Nat /\ 0 \in Pages
  /\ Orders \subseteq Nat /\ Pages \subseteq Nat
  /\ \A o \in Orders : o <= MaxOrder - 1
  /\ RefMod \in Nat /\ RefMod > 1
BY BuddyAssumption DEF Orders, Pages

LEMMA BlockHasFirst ==
  ASSUME NEW b \in BlockIds
  PROVE  b.pfn \in PagesOf(b)
<1>1. b.pfn \in Nat /\ b.order \in Nat
  BY NumbersAre DEF BlockIds
<1>2. Size(b.order) \in Nat \ {0}
  BY <1>1, SizeSucc
<1> QED
  BY <1>1, <1>2 DEF PagesOf, Block

\* A page of the memory lies, with its buddies, in blocks of the memory.
LEMMA AroundInPages ==
  ASSUME NEW p \in Pages, NEW j \in Orders
  PROVE  /\ Whole(p, j) \in BlockIds /\ ~BlockInvalid(AlignDown(p, j), j)
         /\ PagesOf(Whole(p, j)) = Around(p, j) /\ p \in Around(p, j)
         /\ Around(p, j) \subseteq Pages
<1>1. p \in Nat /\ j \in Nat
  BY NumbersAre
<1>2. /\ AlignDown(p, j) \in Nat /\ AlignDown(p, j) <= p
      /\ ~BlockInvalid(AlignDown(p, j), j)
  BY <1>1, AlignDownIs
<1>3. AlignDown(p, j) \in Pages
  BY <1>1, <1>2, NumbersAre DEF Pages
<1>4. Block(AlignDown(p, j), j) \subseteq Pages
  BY <1>2, <1>3, BlockInPages
<1>5. p \in Around(p, j)
  BY <1>1, AroundNext
<1> QED
  BY <1>2, <1>3, <1>4, <1>5 DEF Whole, BlockIds, PagesOf, Around

LEMMA BuddyAtInPages ==
  ASSUME NEW p \in Pages, NEW j \in 0..(MaxOrder - 2)
  PROVE  /\ [pfn |-> BuddyAt(p, j), order |-> j] \in BlockIds
         /\ ~BlockInvalid(BuddyAt(p, j), j)
         /\ PagesOf([pfn |-> BuddyAt(p, j), order |-> j]) = BuddyBlock(p, j)
<1>1. p \in Nat /\ j \in Nat /\ j \in Orders /\ j + 1 \in Orders
  BY NumbersAre DEF Orders
<1>2. /\ BuddyAt(p, j) \in BuddyBlock(p, j) /\ ~BlockInvalid(BuddyAt(p, j), j)
      /\ Around(p, j + 1) = Around(p, j) \cup BuddyBlock(p, j)
  BY <1>1, AroundNext
<1>3. BuddyAt(p, j) \in Pages
  BY <1>1, <1>2, AroundInPages
<1> QED
  BY <1>1, <1>2, <1>3 DEF BlockIds, PagesOf, BuddyBlock

\* The parts of a block: one of its aligned blocks and the buddies around it.
LEMMA PartsOfWhole ==
  ASSUME NEW p \in Pages, NEW o \in Orders, NEW m \in Orders, o <= m, ~BlockInvalid(p, o)
  PROVE  LET b == [pfn |-> p, order |-> o]
             Parts == {b} \cup Buddies(p, o, m)
         IN  /\ Parts \subseteq BlockIds /\ Aligned(Parts) /\ b \notin Buddies(p, o, m)
             /\ Apart(Parts)
             /\ PagesIn(Parts) = PagesOf(Whole(p, m))
<1> DEFINE b == [pfn |-> p, order |-> o]
           B == Buddies(p, o, m)
           C(j) == [pfn |-> BuddyAt(p, j), order |-> j]
<1>1. p \in Nat /\ o \in Nat /\ m \in Nat /\ m <= MaxOrder - 1
  BY NumbersAre
<1>2. AlignDown(p, o) = p
  BY <1>1, BuddyIs
<1>3. b \in BlockIds /\ PagesOf(b) = Around(p, o)
  BY <1>2, AroundInPages DEF Whole
<1>4. PagesOf(Whole(p, m)) = Around(p, m)
  BY AroundInPages
<1>5. ASSUME NEW j \in o..(m - 1)
      PROVE  C(j) \in BlockIds /\ ~BlockInvalid(BuddyAt(p, j), j) /\ PagesOf(C(j)) = BuddyBlock(p, j)
  <2>1. j \in 0..(MaxOrder - 2)
    BY <1>1, NumbersAre
  <2> QED
    BY <2>1, BuddyAtInPages
<1>6. /\ Around(p, o) \subseteq Around(p, m)
      /\ \A j \in o..(m - 1) : /\ BuddyBlock(p, j) \subseteq Around(p, m)
                               /\ BuddyBlock(p, j) \cap Around(p, o) = {}
      /\ \A i, j \in o..(m - 1) : i # j => BuddyBlock(p, i) \cap BuddyBlock(p, j) = {}
      /\ \A x \in Around(p, m) :
           x \in Around(p, o) \/ \E j \in o..(m - 1) : x \in BuddyBlock(p, j)
  BY <1>1, Pieces
<1>7. \A c \in B : \E j \in o..(m - 1) : c = C(j)
  BY DEF Buddies
<1>8. \A j \in o..(m - 1) : C(j) \in B
  BY DEF Buddies
<1>9. B \subseteq BlockIds /\ \A c \in B : ~BlockInvalid(c.pfn, c.order)
  BY <1>5, <1>7
<1>10. \A c \in B : PagesOf(c) \cap PagesOf(b) = {}
  BY <1>3, <1>5, <1>6, <1>7
<1>11. ASSUME NEW c \in B, NEW d \in B, c # d PROVE PagesOf(c) \cap PagesOf(d) = {}
  <2>1. PICK i \in o..(m - 1) : c = C(i)
    BY <1>7
  <2>2. PICK j \in o..(m - 1) : d = C(j)
    BY <1>7
  <2>3. i # j
    BY <2>1, <2>2, <1>11
  <2> QED
    BY <2>1, <2>2, <2>3, <1>5, <1>6
<1>12. b \notin B
  <2>1. PagesOf(b) # {}
    BY <1>3, BlockHasFirst
  <2> QED
    BY <2>1, <1>10
<1>13. PagesIn({b} \cup B) = Around(p, m)
  <2>1. ASSUME NEW c \in {b} \cup B PROVE PagesOf(c) \subseteq Around(p, m)
    <3>1. CASE c = b
      BY <3>1, <1>3, <1>6
    <3>2. CASE c \in B
      BY <3>2, <1>5, <1>6, <1>7
    <3> QED
      BY <3>1, <3>2
  <2>2. ASSUME NEW x \in Around(p, m) PROVE \E c \in {b} \cup B : x \in PagesOf(c)
    <3>1. CASE x \in Around(p, o)
      BY <3>1, <1>3
    <3>2. CASE \E j \in o..(m - 1) : x \in BuddyBlock(p, j)
      BY <3>2, <1>5, <1>8
    <3> QED
      BY <3>1, <3>2, <1>6
  <2> HIDE DEF b, B
  <2> QED
    BY <2>1, <2>2 DEF PagesIn
<1>14. Aligned({b} \cup B)
  BY <1>9 DEF Aligned
<1>15. Apart({b} \cup B)
  <2> HIDE DEF b, B
  <2> QED
    BY <1>10, <1>11 DEF Apart
<1> QED
  BY <1>3, <1>4, <1>9, <1>12, <1>13, <1>14, <1>15

\* Blocks that are replaced by others of the same pages leave a partition.
LEMMA Exchange ==
  ASSUME NEW B, NEW Old \in SUBSET B, NEW New \in SUBSET BlockIds,
         Apart(B),
         Apart(New),
         PagesIn(Old) = PagesIn(New)
  PROVE  /\ Apart((B \ Old) \cup New)
         /\ PagesIn((B \ Old) \cup New) = PagesIn(B)
         /\ New \cap (B \ Old) = {}
<1>1. \A b \in Old : \A x \in PagesOf(b) : \E c \in New : x \in PagesOf(c)
  BY DEF PagesIn
<1>2. \A b \in New : \A x \in PagesOf(b) : \E c \in Old : x \in PagesOf(c)
  BY DEF PagesIn
<1>3. \A b \in New : \A c \in B \ Old : PagesOf(b) \cap PagesOf(c) = {}
  BY <1>2 DEF Apart
<1>4. New \cap (B \ Old) = {}
  <2>1. \A b \in New : PagesOf(b) # {}
    BY BlockHasFirst
  <2> QED
    BY <1>3, <2>1
<1>5. PagesIn((B \ Old) \cup New) = PagesIn(B)
  <2>1. ASSUME NEW b \in (B \ Old) \cup New, NEW x \in PagesOf(b)
        PROVE  \E c \in B : x \in PagesOf(c)
    BY <1>2
  <2>2. ASSUME NEW b \in B, NEW x \in PagesOf(b)
        PROVE  \E c \in (B \ Old) \cup New : x \in PagesOf(c)
    BY <1>1
  <2> QED
    BY <2>1, <2>2 DEF PagesIn
<1>6. Apart((B \ Old) \cup New)
  BY <1>3 DEF Apart
<1> QED
  BY <1>4, <1>5, <1>6

(***************************************************************************)
(* page_alloc and page_free on the lists and the bitmaps.                  *)
(***************************************************************************)
LEMMA IndicesWithout ==
  ASSUME NEW o \in Nat, NEW L \in SUBSET Pages, NEW x \in L, \A q \in L : ~BlockInvalid(q, o)
  PROVE  {Index(o, q) : q \in L} \ {Index(o, x)} = {Index(o, q) : q \in L \ {x}}
<1>1. \A q \in L : Index(o, q) = Index(o, x) => q = x
  BY NumbersAre, IndexOneToOne
<1> QED
  BY <1>1

LEMMA FreeOfIs ==
  ASSUME NEW M \in Mems
  PROVE  /\ \A b : b \in FreeOf(M) <=> b \in BlockIds /\ b.pfn \in ToSet(M.lists[b.order])
         /\ \A o \in Orders : \A p : p \in ToSet(M.lists[o])
              <=> [pfn |-> p, order |-> o] \in FreeOf(M)
         /\ \A o \in Orders : M.lists[o] \in Seq(Pages) /\ ToSet(M.lists[o]) \subseteq Pages
<1>1. \A o \in Orders : M.lists[o] \in Seq(Pages)
  BY DEF Mems
<1>2. \A o \in Orders : ToSet(M.lists[o]) \subseteq Pages
  BY <1>1, ListElems
<1> QED
  BY <1>1, <1>2 DEF FreeOf, BlockIds

LEMMA SourceOrderIs ==
  ASSUME NEW M \in Mems, NEW o \in Orders, CanAlloc(M, o)
  PROVE  /\ SourceOrder(M, o) \in o..(MaxOrder - 1)
         /\ M.lists[SourceOrder(M, o)] # <<>>
         /\ \A j \in o..(SourceOrder(M, o) - 1) : M.lists[j] = <<>>
<1> DEFINE S == {k \in o..(MaxOrder - 1) : M.lists[k] # <<>>}
<1>1. S \in SUBSET Nat /\ S # {}
  BY NumbersAre DEF CanAlloc
<1>2. Min(S) \in S /\ \A k \in S : Min(S) <= k
  BY <1>1, MinIs
<1>3. Min(S) = SourceOrder(M, o)
  BY DEF SourceOrder
<1> HIDE DEF SourceOrder
<1>4. PICK k \in o..(MaxOrder - 1) : k = SourceOrder(M, o) /\ M.lists[k] # <<>> /\ \A i \in S : k <= i
  BY <1>2, <1>3
<1>5. ASSUME NEW j \in o..(k - 1) PROVE M.lists[j] = <<>>
  <2>1. j \in o..(MaxOrder - 1) /\ ~(k <= j)
    BY NumbersAre
  <2> QED
    BY <1>4, <2>1
<1> QED
  BY <1>4, <1>5

\* page_alloc takes a free block apart and leaves its buddies free.
LEMMA AllocEffect ==
  ASSUME NEW M \in Mems, ListsMatch(M), Merged(M), Aligned(FreeOf(M)),
         NEW o \in Orders, CanAlloc(M, o)
  PROVE  LET k == SourceOrder(M, o)
             p == AllocPfn(M, o)
             N == AfterAlloc(M, o)
         IN  /\ k \in o..(MaxOrder - 1) /\ p \in Pages /\ ~BlockInvalid(p, o)
             /\ Whole(p, k) \in FreeOf(M)
             /\ N \in Mems /\ ListsMatch(N) /\ Merged(N)
             /\ FreeOf(N) = (FreeOf(M) \ {Whole(p, k)}) \cup Buddies(p, o, k)
             /\ N.order = [M.order EXCEPT ![p] = o] /\ N.refs = [M.refs EXCEPT ![p] = 1]
<1>1. PICK k \in o..(MaxOrder - 1) : /\ k = SourceOrder(M, o) /\ M.lists[k] # <<>>
                                     /\ \A j \in o..(k - 1) : M.lists[j] = <<>>
  BY SourceOrderIs
<1>2. PICK p : p = AllocPfn(M, o)
  OBVIOUS
<1>3. /\ o \in Nat /\ k \in Nat /\ k \in Orders /\ k <= MaxOrder - 1
      /\ \A j \in o..(k - 1) :
           j \in Nat /\ j \in 0..(MaxOrder - 2) /\ j \in Orders /\ j <= k /\ j # k
      /\ 0..(MaxOrder - 2) \subseteq Orders
  BY NumbersAre DEF Orders
<1>4. \A j \in Orders : /\ M.lists[j] \in Seq(Pages) /\ ToSet(M.lists[j]) \subseteq Pages
                        /\ \A q \in ToSet(M.lists[j]) : ~BlockInvalid(q, j)
  <2> TAKE j \in Orders
  <2>1. ASSUME NEW q \in ToSet(M.lists[j]) PROVE ~BlockInvalid(q, j)
    <3>1. [pfn |-> q, order |-> j] \in FreeOf(M)
      BY FreeOfIs
    <3> QED
      BY <3>1 DEF Aligned
  <2> QED
    BY <2>1, FreeOfIs
<1>5. \A j \in Orders : /\ IsInjective(M.lists[j])
                        /\ M.masks[j] = {Index(j, q) : q \in ToSet(M.lists[j])}
  BY DEF ListsMatch
<1>6. p = Head(M.lists[k])
  BY <1>1, <1>2 DEF AllocPfn
<1>7. /\ p \in ToSet(M.lists[k]) /\ Tail(M.lists[k]) \in Seq(Pages)
      /\ IsInjective(Tail(M.lists[k])) /\ ToSet(Tail(M.lists[k])) = ToSet(M.lists[k]) \ {p}
  BY <1>1, <1>3, <1>4, <1>5, <1>6, TailElems
<1>8. p \in Pages /\ p \in Nat /\ ~BlockInvalid(p, k)
  BY <1>3, <1>4, <1>7, NumbersAre
<1>9. \A j \in Nat : j <= k => ~BlockInvalid(p, j) /\ AlignDown(p, j) = p
  <2> TAKE j \in Nat
  <2> HAVE j <= k
  <2>1. ~BlockInvalid(p, j)
    BY <1>3, <1>8, AlignedBelow
  <2> QED
    BY <1>8, <2>1, BuddyIs
<1>10. Whole(p, k) = [pfn |-> p, order |-> k]
  BY <1>3, <1>9 DEF Whole
<1>11. \A j \in o..(k - 1) : /\ BuddyAt(p, j) = Buddy(p, j) /\ BuddyAt(p, j) \in Pages
                             /\ Index(j, BuddyAt(p, j)) \in Pages
                             /\ Buddy(BuddyAt(p, j), j) # BuddyAt(p, j)
  <2> TAKE j \in o..(k - 1)
  <2>1. BuddyAt(p, j) = Buddy(p, j)
    BY <1>3, <1>9 DEF BuddyAt
  <2>2. BuddyAt(p, j) \in Pages /\ ~BlockInvalid(BuddyAt(p, j), j)
    BY <1>3, <1>8, BuddyAtInPages DEF BlockIds
  <2>3. Index(j, BuddyAt(p, j)) \in Pages
    BY <1>3, <2>2, NumbersAre, IndexInPages
  <2>4. Buddy(BuddyAt(p, j), j) # BuddyAt(p, j)
    BY <1>3, <2>2, NumbersAre, BuddyIs
  <2> QED
    BY <2>1, <2>2, <2>3, <2>4
<1>12. PICK N : N = AfterAlloc(M, o)
  OBVIOUS
<1>13. N = [lists |-> [j \in Orders |-> IF j = k THEN Tail(M.lists[k])
                                        ELSE IF o <= j /\ j < k THEN <<Buddy(p, j)>>
                                        ELSE M.lists[j]],
            masks |-> [j \in Orders |-> IF j = k THEN M.masks[k] \ {Index(k, p)}
                                        ELSE IF o <= j /\ j < k
                                        THEN (M.masks[j] \ {Index(j, p)}) \cup {Index(j, Buddy(p, j))}
                                        ELSE M.masks[j]],
            order |-> [M.order EXCEPT ![p] = o],
            refs  |-> [M.refs EXCEPT ![p] = 1]]
  BY <1>1, <1>2, <1>12 DEF AfterAlloc
<1>14. N.lists[k] = Tail(M.lists[k]) /\ N.masks[k] = M.masks[k] \ {Index(k, p)}
  BY <1>3, <1>13
<1>15. ASSUME NEW j \in o..(k - 1)
       PROVE  N.lists[j] = <<BuddyAt(p, j)>> /\ N.masks[j] = {Index(j, BuddyAt(p, j))}
  <2>1. j \in Orders /\ j # k /\ o <= j /\ j < k
    BY <1>3
  <2>2. /\ N.lists[j] = <<Buddy(p, j)>>
        /\ N.masks[j] = (M.masks[j] \ {Index(j, p)}) \cup {Index(j, Buddy(p, j))}
    BY <1>13, <2>1
  <2>3. ToSet(M.lists[j]) = {}
    BY <1>1, <1>4, <2>1, ListElems
  <2>4. M.masks[j] = {}
    BY <1>5, <2>1, <2>3
  <2> QED
    BY <1>11, <2>2, <2>4
<1>16. ASSUME NEW j \in Orders, j # k, j \notin o..(k - 1)
       PROVE  N.lists[j] = M.lists[j] /\ N.masks[j] = M.masks[j]
  <2>1. ~(o <= j /\ j < k)
    <3>1. o \in Nat /\ k \in Nat /\ j \in Nat
      BY <1>3, NumbersAre
    <3> QED
      BY <1>16, <3>1
  <2> QED
    BY <1>13, <1>16, <2>1
<1>17. N.order = [M.order EXCEPT ![p] = o] /\ N.refs = [M.refs EXCEPT ![p] = 1]
  BY <1>13
<1>18. ASSUME NEW j \in Orders
       PROVE  /\ N.lists[j] \in Seq(Pages) /\ N.masks[j] \subseteq Pages
              /\ IsInjective(N.lists[j])
              /\ N.masks[j] = {Index(j, q) : q \in ToSet(N.lists[j])}
  <2>1. CASE j = k
    <3>1. N.masks[k] = {Index(k, q) : q \in ToSet(M.lists[k]) \ {p}}
      <4>1. PICK L \in SUBSET Pages : L = ToSet(M.lists[k]) /\ \A q \in L : ~BlockInvalid(q, k)
        BY <1>3, <1>4
      <4>2. {Index(k, q) : q \in L} \ {Index(k, p)} = {Index(k, q) : q \in L \ {p}}
        <5>1. p \in L /\ k \in Nat
          BY <1>3, <1>7, <4>1
        <5>2. \A q \in L : ~BlockInvalid(q, k)
          BY <4>1
        <5> QED
          BY <5>1, <5>2, IndicesWithout, Zenon
      <4> QED
        BY <1>3, <1>5, <1>14, <4>1, <4>2
    <3>2. N.masks[k] \subseteq Pages
      BY <1>3, <1>14 DEF Mems
    <3> QED
      BY <2>1, <3>1, <3>2, <1>7, <1>14
  <2>2. CASE j \in o..(k - 1)
    <3>1. /\ N.lists[j] \in Seq(Pages) /\ IsInjective(N.lists[j])
          /\ ToSet(N.lists[j]) = {BuddyAt(p, j)}
      BY <2>2, <1>11, <1>15, SingleElems
    <3> QED
      BY <2>2, <3>1, <1>11, <1>15
  <2>3. CASE j # k /\ j \notin o..(k - 1)
    BY <2>3, <1>4, <1>5, <1>16 DEF Mems
  <2> QED
    BY <2>1, <2>2, <2>3
<1>19. N \in Mems
  <2>1. N.lists \in [Orders -> Seq(Pages)] /\ N.masks \in [Orders -> SUBSET Pages]
    BY <1>13, <1>18
  <2>2. N.order \in [Pages -> Orders] /\ N.refs \in [Pages -> 0..(RefMod - 1)]
    <3>1. M.order \in [Pages -> Orders] /\ M.refs \in [Pages -> 0..(RefMod - 1)]
      BY DEF Mems
    <3>2. 1 \in 0..(RefMod - 1)
      BY NumbersAre
    <3> QED
      BY <1>8, <1>17, <3>1, <3>2
  <2>3. N = [lists |-> N.lists, masks |-> N.masks, order |-> N.order, refs |-> N.refs]
    BY <1>13
  <2> QED
    BY <2>1, <2>2, <2>3 DEF Mems
<1>20. ListsMatch(N)
  BY <1>18 DEF ListsMatch
<1>21. ASSUME NEW j \in Orders
       PROVE  ToSet(N.lists[j]) = IF j = k THEN ToSet(M.lists[k]) \ {p}
                                  ELSE IF j \in o..(k - 1) THEN {BuddyAt(p, j)}
                                  ELSE ToSet(M.lists[j])
  <2>1. CASE j = k
    BY <2>1, <1>7, <1>14
  <2>2. CASE j \in o..(k - 1)
    <3>1. ToSet(N.lists[j]) = {BuddyAt(p, j)} /\ j # k
      BY <2>2, <1>3, <1>11, <1>15, SingleElems
    <3> QED
      BY <2>2, <3>1
  <2>3. CASE j # k /\ j \notin o..(k - 1)
    BY <2>3, <1>16
  <2> QED
    BY <2>1, <2>2, <2>3
<1>22. Merged(N)
  <2> SUFFICES ASSUME NEW j \in 0..(MaxOrder - 2), NEW q \in ToSet(N.lists[j]),
                      Buddy(q, j) \in ToSet(N.lists[j])
               PROVE  FALSE
    BY DEF Merged
  <2>1. j \in Orders
    BY <1>3
  <2>2. \A x \in ToSet(M.lists[j]) : Buddy(x, j) \notin ToSet(M.lists[j])
    BY DEF Merged
  <2>3. CASE j = k
    BY <2>1, <2>2, <2>3, <1>21
  <2>4. CASE j \in o..(k - 1)
    <3>1. ToSet(N.lists[j]) = {BuddyAt(p, j)}
      BY <2>1, <2>4, <1>3, <1>21
    <3> QED
      BY <2>4, <3>1, <1>11
  <2>5. CASE j # k /\ j \notin o..(k - 1)
    BY <2>1, <2>2, <2>5, <1>21
  <2> QED
    BY <2>3, <2>4, <2>5
<1>23. FreeOf(N) = (FreeOf(M) \ {Whole(p, k)}) \cup Buddies(p, o, k)
  <2> DEFINE B == Buddies(p, o, k)
  <2>1. \A c : c \in B <=> \E j \in o..(k - 1) : c = [pfn |-> BuddyAt(p, j), order |-> j]
    BY DEF Buddies
  <2>2. \A c : c \in FreeOf(M) <=> c \in BlockIds /\ c.pfn \in ToSet(M.lists[c.order])
    BY FreeOfIs
  <2>3. \A c : c \in FreeOf(N) <=> c \in BlockIds /\ c.pfn \in ToSet(N.lists[c.order])
    BY <1>19, FreeOfIs
  <2>4. \A c \in BlockIds : /\ c.pfn \in Pages /\ c.order \in Orders
                            /\ c = [pfn |-> c.pfn, order |-> c.order]
    BY DEF BlockIds
  <2>5. B \subseteq BlockIds
    <3>1. \A j \in o..(k - 1) : [pfn |-> BuddyAt(p, j), order |-> j] \in BlockIds
      BY <1>3, <1>11 DEF BlockIds
    <3> QED
      BY <2>1, <3>1
  <2>6. \A c \in B : c.order \in o..(k - 1) /\ c.order # k /\ c.pfn = BuddyAt(p, c.order)
    <3>1. \A j \in o..(k - 1) : j # k
      BY <1>3
    <3> QED
      BY <2>1, <3>1
  <2>7. ASSUME NEW c \in BlockIds
        PROVE  c \in FreeOf(N) <=> c \in (FreeOf(M) \ {Whole(p, k)}) \cup B
    <3>1. PICK q \in Pages, j \in Orders : c = [pfn |-> q, order |-> j]
      BY <2>4
    <3>2. c \in FreeOf(N) <=> q \in ToSet(N.lists[j])
      BY <2>3, <3>1
    <3>3. c \in FreeOf(M) <=> q \in ToSet(M.lists[j])
      BY <2>2, <3>1
    <3>4. c = Whole(p, k) <=> q = p /\ j = k
      BY <1>10, <3>1
    <3>5. c \in B <=> j \in o..(k - 1) /\ q = BuddyAt(p, j)
      BY <2>1, <2>6, <3>1
    <3>6. j \in o..(k - 1) => j # k /\ ToSet(M.lists[j]) = {}
      <4>1. j \in o..(k - 1) => j # k
        BY <1>3
      <4>2. M.lists[j] = <<>> => ToSet(M.lists[j]) = {}
        BY <1>4, ListElems
      <4> QED
        BY <1>1, <4>1, <4>2
    <3>7. q \in ToSet(N.lists[j])
            <=> \/ q \in ToSet(M.lists[j]) /\ ~(q = p /\ j = k)
                \/ j \in o..(k - 1) /\ q = BuddyAt(p, j)
      BY <1>21, <3>6
    <3> HIDE DEF B
    <3> QED
      BY <3>2, <3>3, <3>4, <3>5, <3>7
  <2> HIDE DEF B
  <2> QED
    BY <2>2, <2>3, <2>5, <2>7 DEF B
<1>24. Whole(p, k) \in FreeOf(M)
  BY <1>3, <1>7, <1>10, FreeOfIs
<1>25. ~BlockInvalid(p, o)
  BY <1>3, <1>9
<1> QED
  BY <1>1, <1>2, <1>8, <1>12, <1>17, <1>19, <1>20, <1>22, <1>23, <1>24, <1>25

LEMMA FreeListsAligned ==
  ASSUME NEW M \in Mems, Aligned(FreeOf(M))
  PROVE  \A j \in Orders : \A q \in ToSet(M.lists[j]) : q \in Pages /\ ~BlockInvalid(q, j)
<1> TAKE j \in Orders
<1> TAKE q \in ToSet(M.lists[j])
<1>1. [pfn |-> q, order |-> j] \in FreeOf(M) /\ q \in Pages
  BY FreeOfIs
<1> QED
  BY <1>1 DEF Aligned

\* The bitmap answers whether an aligned block is in the list.
LEMMA MaskIs ==
  ASSUME NEW M \in Mems, ListsMatch(M), Aligned(FreeOf(M)),
         NEW j \in Orders, NEW q \in Pages, ~BlockInvalid(q, j)
  PROVE  MaskIsFree(M, j, q) <=> q \in ToSet(M.lists[j])
<1>1. ~(q >= MaxPages)
  BY NumbersAre DEF Pages
<1>2. MaskIsFree(M, j, q) <=> Index(j, q) \in M.masks[j]
  BY <1>1 DEF MaskIsFree
<1>3. M.masks[j] = {Index(j, x) : x \in ToSet(M.lists[j])}
  BY DEF ListsMatch
<1>4. ASSUME NEW x \in ToSet(M.lists[j]), Index(j, q) = Index(j, x) PROVE x = q
  <2>1. x \in Pages /\ ~BlockInvalid(x, j)
    BY FreeListsAligned
  <2> QED
    BY <1>4, <2>1, NumbersAre, IndexOneToOne
<1> QED
  BY <1>2, <1>3, <1>4

LEMMA StopOrderIs ==
  ASSUME NEW M \in Mems, NEW p \in Pages, NEW o \in Orders, o = M.order[p], ~BlockInvalid(p, o)
  PROVE  /\ StopOrder(M, p) \in o..(MaxOrder - 1)
         /\ \A j \in o..(StopOrder(M, p) - 1) : MaskIsFree(M, j, BuddyAt(p, j))
         /\ StopOrder(M, p) = MaxOrder - 1
              \/ ~MaskIsFree(M, StopOrder(M, p), BuddyAt(p, StopOrder(M, p)))
<1> DEFINE S == {m \in o..(MaxOrder - 1) :
                   \/ m = MaxOrder - 1
                   \/ ~MaskIsFree(M, m, BuddyAt(p, m))}
<1>1. S \in SUBSET Nat /\ S # {}
  <2>1. MaxOrder - 1 \in S
    BY NumbersAre
  <2> QED
    BY <2>1, NumbersAre
<1>2. Min(S) \in S /\ \A m \in S : Min(S) <= m
  BY <1>1, MinIs
<1>3. Min(S) = StopOrder(M, p)
  BY DEF StopOrder, BuddyAt
<1> HIDE DEF StopOrder
<1>4. PICK m \in o..(MaxOrder - 1) : /\ m = StopOrder(M, p) /\ m \in S /\ \A i \in S : m <= i
  BY <1>2, <1>3
<1>5. ASSUME NEW j \in o..(m - 1) PROVE MaskIsFree(M, j, BuddyAt(p, j))
  <2>1. j \in o..(MaxOrder - 1) /\ ~(m <= j)
    BY NumbersAre
  <2> QED
    BY <1>4, <2>1
<1> QED
  BY <1>4, <1>5

\* page_free merges a block with its free buddies and adds the block they make.
LEMMA FreeEffect ==
  ASSUME NEW M \in Mems, ListsMatch(M), Merged(M), Aligned(FreeOf(M)),
         NEW p \in Pages, ~BlockInvalid(p, M.order[p]), ~RefusesFree(M, p),
         \A b \in FreeOf(M) : p \notin PagesOf(b)
  PROVE  LET o == M.order[p]
             m == StopOrder(M, p)
             N == AfterFree(M, p)
         IN  /\ m \in o..(MaxOrder - 1)
             /\ Buddies(p, o, m) \subseteq FreeOf(M)
             /\ N \in Mems /\ ListsMatch(N) /\ Merged(N)
             /\ FreeOf(N) = (FreeOf(M) \ Buddies(p, o, m)) \cup {Whole(p, m)}
             /\ N.order = M.order /\ N.refs = [M.refs EXCEPT ![p] = 0]
<1>1. PICK o \in Orders : o = M.order[p] /\ ~BlockInvalid(p, o)
  BY DEF Mems
<1>2. PICK m \in o..(MaxOrder - 1) :
        /\ m = StopOrder(M, p)
        /\ \A j \in o..(m - 1) : MaskIsFree(M, j, BuddyAt(p, j))
        /\ m = MaxOrder - 1 \/ ~MaskIsFree(M, m, BuddyAt(p, m))
  BY <1>1, StopOrderIs
<1>3. /\ o \in Nat /\ m \in Nat /\ m \in Orders /\ m <= MaxOrder - 1
      /\ \A j \in o..(m - 1) :
           j \in Nat /\ j \in 0..(MaxOrder - 2) /\ j \in Orders /\ j < m /\ j # m
      /\ 0..(MaxOrder - 2) \subseteq Orders
      /\ m # MaxOrder - 1 => m \in 0..(MaxOrder - 2)
  BY NumbersAre DEF Orders
<1>4. \A j \in Orders : /\ M.lists[j] \in Seq(Pages) /\ ToSet(M.lists[j]) \subseteq Pages
                        /\ \A q \in ToSet(M.lists[j]) : ~BlockInvalid(q, j)
  BY FreeOfIs, FreeListsAligned
<1>5. \A j \in Orders : /\ IsInjective(M.lists[j])
                        /\ M.masks[j] = {Index(j, q) : q \in ToSet(M.lists[j])}
  BY DEF ListsMatch
<1>6. PICK q \in Pages : /\ q = AlignDown(p, m) /\ ~BlockInvalid(q, m) /\ p \in Around(p, m)
                         /\ Whole(p, m) = [pfn |-> q, order |-> m]
                         /\ Whole(p, m) \in BlockIds /\ PagesOf(Whole(p, m)) = Around(p, m)
  <2>1. /\ Whole(p, m) \in BlockIds /\ ~BlockInvalid(AlignDown(p, m), m)
        /\ PagesOf(Whole(p, m)) = Around(p, m) /\ p \in Around(p, m)
    BY <1>3, AroundInPages
  <2>2. AlignDown(p, m) \in Pages /\ Whole(p, m) = [pfn |-> AlignDown(p, m), order |-> m]
    BY <2>1 DEF Whole, BlockIds
  <2> QED
    BY <2>1, <2>2
<1>7. (IF m = o THEN p ELSE AlignDown(p, m)) = q
  <2>1. AlignDown(p, o) = p
    BY <1>1, <1>3, NumbersAre, BuddyIs
  <2> QED
    BY <2>1, <1>6
<1>8. \A j \in 0..(MaxOrder - 2) : BuddyAt(p, j) \in Pages /\ ~BlockInvalid(BuddyAt(p, j), j)
  BY BuddyAtInPages DEF BlockIds
<1>9. \A j \in o..(m - 1) : BuddyAt(p, j) \in ToSet(M.lists[j])
  BY <1>2, <1>3, <1>8, MaskIs
<1>10. q \notin ToSet(M.lists[m])
  <2>1. Whole(p, m) \notin FreeOf(M)
    BY <1>6
  <2> QED
    BY <2>1, <1>3, <1>6, FreeOfIs
<1>11. m # MaxOrder - 1 => Buddy(q, m) \notin ToSet(M.lists[m])
  <2>1. Buddy(q, m) = BuddyAt(p, m)
    BY <1>6 DEF BuddyAt
  <2> QED
    BY <1>2, <1>3, <1>8, <2>1, MaskIs
<1>12. PICK N : N = AfterFree(M, p)
  OBVIOUS
<1>13. N = [lists |-> [j \in Orders |-> IF j = m THEN Append(M.lists[m], q)
                                        ELSE IF o <= j /\ j < m
                                        THEN RemoveFirst(M.lists[j], BuddyAt(p, j))
                                        ELSE M.lists[j]],
            masks |-> [j \in Orders |-> IF j = m THEN M.masks[m] \cup {Index(m, q)}
                                        ELSE IF o <= j /\ j < m
                                        THEN M.masks[j] \ {Index(j, BuddyAt(p, j))}
                                        ELSE M.masks[j]],
            order |-> M.order,
            refs  |-> [M.refs EXCEPT ![p] = 0]]
  BY <1>1, <1>2, <1>7, <1>12 DEF AfterFree, BuddyAt
<1>14. /\ N.lists[m] = Append(M.lists[m], q) /\ N.masks[m] = M.masks[m] \cup {Index(m, q)}
       /\ N.lists[m] \in Seq(Pages) /\ IsInjective(N.lists[m])
       /\ ToSet(N.lists[m]) = ToSet(M.lists[m]) \cup {q}
  <2>1. N.lists[m] = Append(M.lists[m], q) /\ N.masks[m] = M.masks[m] \cup {Index(m, q)}
    BY <1>3, <1>13
  <2>2. /\ Append(M.lists[m], q) \in Seq(Pages) /\ IsInjective(Append(M.lists[m], q))
        /\ ToSet(Append(M.lists[m], q)) = ToSet(M.lists[m]) \cup {q}
    BY <1>3, <1>4, <1>5, <1>10, AppendElems
  <2> QED
    BY <2>1, <2>2
<1>15. ASSUME NEW j \in o..(m - 1)
       PROVE  /\ N.masks[j] = M.masks[j] \ {Index(j, BuddyAt(p, j))}
              /\ N.lists[j] \in Seq(Pages) /\ IsInjective(N.lists[j])
              /\ ToSet(N.lists[j]) = ToSet(M.lists[j]) \ {BuddyAt(p, j)}
  <2>1. j \in Orders /\ j # m /\ o <= j /\ j < m
    BY <1>3
  <2>2. /\ N.lists[j] = RemoveFirst(M.lists[j], BuddyAt(p, j))
        /\ N.masks[j] = M.masks[j] \ {Index(j, BuddyAt(p, j))}
    BY <1>13, <2>1
  <2>3. PICK L \in Seq(Pages) : L = M.lists[j] /\ IsInjective(L) /\ BuddyAt(p, j) \in ToSet(L)
    BY <2>1, <1>4, <1>5, <1>9
  <2>4. /\ RemoveFirst(L, BuddyAt(p, j)) \in Seq(Pages)
        /\ IsInjective(RemoveFirst(L, BuddyAt(p, j)))
        /\ ToSet(RemoveFirst(L, BuddyAt(p, j))) = ToSet(L) \ {BuddyAt(p, j)}
    BY <2>3, RemoveElems
  <2> QED
    BY <2>2, <2>3, <2>4
<1>16. ASSUME NEW j \in Orders, j # m, j \notin o..(m - 1)
       PROVE  N.lists[j] = M.lists[j] /\ N.masks[j] = M.masks[j]
  <2>1. ~(o <= j /\ j < m)
    <3>1. o \in Nat /\ m \in Nat /\ j \in Nat
      BY <1>3, NumbersAre
    <3> QED
      BY <1>16, <3>1
  <2> QED
    BY <1>13, <1>16, <2>1
<1>17. N.order = M.order /\ N.refs = [M.refs EXCEPT ![p] = 0]
  BY <1>13
<1>18. ASSUME NEW j \in Orders
       PROVE  /\ N.lists[j] \in Seq(Pages) /\ N.masks[j] \subseteq Pages
              /\ IsInjective(N.lists[j])
              /\ N.masks[j] = {Index(j, x) : x \in ToSet(N.lists[j])}
  <2>1. CASE j = m
    <3>1. N.masks[m] = {Index(m, x) : x \in ToSet(M.lists[m]) \cup {q}}
      BY <1>3, <1>5, <1>14
    <3>2. N.masks[m] \subseteq Pages
      <4>1. Index(m, q) \in Pages
        BY <1>3, NumbersAre, IndexInPages
      <4> QED
        BY <1>3, <1>14, <4>1 DEF Mems
    <3> QED
      BY <2>1, <3>1, <3>2, <1>14
  <2>2. CASE j \in o..(m - 1)
    <3>1. PICK L \in SUBSET Pages : L = ToSet(M.lists[j])
      BY <1>4
    <3>2. {Index(j, x) : x \in L} \ {Index(j, BuddyAt(p, j))}
            = {Index(j, x) : x \in L \ {BuddyAt(p, j)}}
      <4>1. BuddyAt(p, j) \in L /\ j \in Nat
        BY <2>2, <1>3, <1>9, <3>1
      <4>2. \A x \in L : ~BlockInvalid(x, j)
        BY <1>4, <3>1
      <4> QED
        BY <4>1, <4>2, IndicesWithout, Zenon
    <3>3. N.masks[j] \subseteq Pages
      BY <2>2, <1>15 DEF Mems
    <3> QED
      BY <2>2, <3>1, <3>2, <3>3, <1>5, <1>15
  <2>3. CASE j # m /\ j \notin o..(m - 1)
    BY <2>3, <1>4, <1>5, <1>16 DEF Mems
  <2> QED
    BY <2>1, <2>2, <2>3
<1>19. N \in Mems
  <2>1. N.lists \in [Orders -> Seq(Pages)] /\ N.masks \in [Orders -> SUBSET Pages]
    BY <1>13, <1>18
  <2>2. N.order \in [Pages -> Orders] /\ N.refs \in [Pages -> 0..(RefMod - 1)]
    <3>1. M.order \in [Pages -> Orders] /\ M.refs \in [Pages -> 0..(RefMod - 1)]
      BY DEF Mems
    <3>2. 0 \in 0..(RefMod - 1)
      BY NumbersAre
    <3> QED
      BY <1>17, <3>1, <3>2
  <2>3. N = [lists |-> N.lists, masks |-> N.masks, order |-> N.order, refs |-> N.refs]
    BY <1>13
  <2> QED
    BY <2>1, <2>2, <2>3 DEF Mems
<1>20. ListsMatch(N)
  BY <1>18 DEF ListsMatch
<1>21. Merged(N)
  <2> SUFFICES ASSUME NEW j \in 0..(MaxOrder - 2), NEW x \in ToSet(N.lists[j]),
                      Buddy(x, j) \in ToSet(N.lists[j])
               PROVE  FALSE
    BY DEF Merged
  <2>1. j \in Orders
    BY <1>3
  <2>2. \A y \in ToSet(M.lists[j]) : Buddy(y, j) \notin ToSet(M.lists[j])
    BY DEF Merged
  <2>3. CASE j = m
    <3>1. m # MaxOrder - 1
      BY <2>3, NumbersAre
    <3>2. x \in ToSet(M.lists[m]) \cup {q} /\ Buddy(x, m) \in ToSet(M.lists[m]) \cup {q}
      BY <2>3, <1>14
    <3>3. Buddy(q, m) # q /\ Buddy(q, m) \notin ToSet(M.lists[m])
      BY <3>1, <1>3, <1>6, <1>11, NumbersAre, BuddyIs
    <3>4. x # q
      BY <3>2, <3>3
    <3>5. Buddy(x, m) = q
      BY <2>2, <2>3, <3>2, <3>4
    <3>6. Buddy(Buddy(x, m), m) = x
      <4>1. x \in Nat /\ ~BlockInvalid(x, m)
        BY <3>2, <3>4, <1>3, <1>4, NumbersAre
      <4> QED
        BY <4>1, <1>3, BuddyIs
    <3> QED
      BY <3>2, <3>3, <3>4, <3>5, <3>6
  <2>4. CASE j \in o..(m - 1)
    BY <2>2, <2>4, <1>15
  <2>5. CASE j # m /\ j \notin o..(m - 1)
    BY <2>1, <2>2, <2>5, <1>16
  <2> QED
    BY <2>3, <2>4, <2>5
<1>22. Buddies(p, o, m) \subseteq FreeOf(M)
  <2>1. \A j \in o..(m - 1) : [pfn |-> BuddyAt(p, j), order |-> j] \in FreeOf(M)
    BY <1>3, <1>9, FreeOfIs
  <2> QED
    BY <2>1 DEF Buddies
<1>23. FreeOf(N) = (FreeOf(M) \ Buddies(p, o, m)) \cup {Whole(p, m)}
  <2> DEFINE B == Buddies(p, o, m)
  <2>1. \A c : c \in B <=> \E j \in o..(m - 1) : c = [pfn |-> BuddyAt(p, j), order |-> j]
    BY DEF Buddies
  <2>2. \A c : c \in FreeOf(M) <=> c \in BlockIds /\ c.pfn \in ToSet(M.lists[c.order])
    BY FreeOfIs
  <2>3. \A c : c \in FreeOf(N) <=> c \in BlockIds /\ c.pfn \in ToSet(N.lists[c.order])
    BY <1>19, FreeOfIs
  <2>4. \A c \in BlockIds : /\ c.pfn \in Pages /\ c.order \in Orders
                            /\ c = [pfn |-> c.pfn, order |-> c.order]
    BY DEF BlockIds
  <2>5. \A c \in B : c.order \in o..(m - 1) /\ c.pfn = BuddyAt(p, c.order)
    BY <2>1
  <2>6. ASSUME NEW c \in BlockIds
        PROVE  c \in FreeOf(N) <=> c \in (FreeOf(M) \ B) \cup {Whole(p, m)}
    <3>1. PICK x \in Pages, j \in Orders : c = [pfn |-> x, order |-> j]
      BY <2>4
    <3>2. c \in FreeOf(N) <=> x \in ToSet(N.lists[j])
      BY <2>3, <3>1
    <3>3. c \in FreeOf(M) <=> x \in ToSet(M.lists[j])
      BY <2>2, <3>1
    <3>4. c = Whole(p, m) <=> x = q /\ j = m
      BY <1>6, <3>1
    <3>5. c \in B <=> j \in o..(m - 1) /\ x = BuddyAt(p, j)
      BY <2>1, <2>5, <3>1
    <3>6. j \in o..(m - 1) => j # m
      BY <1>3
    <3>7. x \in ToSet(N.lists[j])
            <=> \/ x \in ToSet(M.lists[j]) /\ ~(j \in o..(m - 1) /\ x = BuddyAt(p, j))
                \/ x = q /\ j = m
      <4>1. CASE j = m
        BY <4>1, <3>6, <1>14
      <4>2. CASE j \in o..(m - 1)
        BY <4>2, <3>6, <1>15
      <4>3. CASE j # m /\ j \notin o..(m - 1)
        BY <4>3, <1>16
      <4> QED
        BY <4>1, <4>2, <4>3
    <3> HIDE DEF B
    <3> QED
      BY <3>2, <3>3, <3>4, <3>5, <3>7
  <2> HIDE DEF B
  <2> QED
    BY <2>2, <2>3, <2>6, <1>6 DEF B
<1> QED
  BY <1>1, <1>2, <1>12, <1>17, <1>19, <1>20, <1>21, <1>22, <1>23

(***************************************************************************)
(* buddy_init.                                                             *)
(***************************************************************************)
\* What the scan does at page p, given what it makes of the pages above.
ScanStep(R, f, p) ==
  IF p = MaxPages THEN [o \in Orders |-> <<>>]
  ELSE IF p \in R THEN f[p + 1]
  ELSE [f[p + Size(LargestOrder(R, p))] EXCEPT ![LargestOrder(R, p)] = <<p>> \o @]

FreeIn(L) == {b \in BlockIds : b.pfn \in ToSet(L[b.order])}

\* The lists hold the largest blocks that the scan from page n on takes.
Scanned(R, n, L) ==
  /\ L \in [Orders -> Seq(Pages)]
  /\ \A o \in Orders : IsInjective(L[o])
  /\ \A b \in FreeIn(L) : b.pfn >= n /\ b.pfn \notin R /\ b.order = LargestOrder(R, b.pfn)
  /\ Apart(FreeIn(L))
  /\ \A x \in Pages : x >= n /\ x \notin R => \E b \in FreeIn(L) : x \in PagesOf(b)

LEMMA LargestOrderIs ==
  ASSUME NEW R \in SUBSET Pages, NEW p \in Pages, p \notin R
  PROVE  /\ LargestOrder(R, p) \in Orders /\ FitsUnreserved(R, p, LargestOrder(R, p))
         /\ \A o \in Orders : FitsUnreserved(R, p, o) => o <= LargestOrder(R, p)
         /\ p + Size(LargestOrder(R, p)) \in (p + 1)..MaxPages
<1> DEFINE S == {o \in Orders : FitsUnreserved(R, p, o)}
<1>1. 0 \in S
  <2>1. Size(0) = 1 /\ p \in Int
    BY SizeZero, NumbersAre
  <2>2. ~BlockInvalid(p, 0)
    BY <2>1 DEF BlockInvalid
  <2>3. Block(p, 0) = {p}
    BY <2>1 DEF Block
  <2> QED
    BY <2>2, <2>3, NumbersAre DEF FitsUnreserved
<1>2. S \in SUBSET (0..(MaxOrder - 1)) /\ S # {}
  BY <1>1 DEF Orders
<1>3. Max(S) \in S /\ \A o \in S : o <= Max(S)
  <2> HIDE DEF S
  <2> QED
    BY <1>2, NumbersAre, MaxIs
<1>4. Max(S) = LargestOrder(R, p)
  BY DEF LargestOrder
<1> HIDE DEF LargestOrder
<1>5. PICK k \in Orders : k = LargestOrder(R, p) /\ FitsUnreserved(R, p, k)
  BY <1>3, <1>4
<1>6. p + Size(k) \in (p + 1)..MaxPages
  <2>1. PICK s \in Nat \ {0} : s = Size(k)
    BY NumbersAre, SizeSucc
  <2>2. p + s - 1 \in Block(p, k)
    BY <2>1, NumbersAre DEF Block
  <2>3. p + s - 1 \in Pages
    BY <1>5, <2>2 DEF FitsUnreserved
  <2> QED
    BY <2>1, <2>3, NumbersAre DEF Pages
<1> QED
  BY <1>3, <1>4, <1>5, <1>6

\* The scan is defined: at each page it reads what it makes of the pages above.
LEMMA ScanExists ==
  ASSUME NEW R \in SUBSET Pages
  PROVE  \E f : f = [p \in 0..MaxPages |-> ScanStep(R, f, p)]
<1> DEFINE Dom(n) == (MaxPages - n)..MaxPages
           G == {n \in 0..MaxPages : \E f : f = [p \in Dom(n) |-> ScanStep(R, f, p)]}
<1>1. 0 \in G
  <2> DEFINE f == [p \in Dom(0) |-> [o \in Orders |-> <<>>]]
  <2>1. \A p \in Dom(0) : p = MaxPages
    BY NumbersAre
  <2>2. \A p \in Dom(0) : ScanStep(R, f, p) = [o \in Orders |-> <<>>]
    BY <2>1 DEF ScanStep
  <2>3. f = [p \in Dom(0) |-> ScanStep(R, f, p)]
    BY <2>2
  <2>4. 0 \in 0..MaxPages
    BY NumbersAre
  <2> QED
    BY <2>3, <2>4
<1>2. ASSUME NEW n \in 0..(MaxPages - 1), n \in G PROVE n + 1 \in G
  <2>1. PICK f : f = [p \in Dom(n) |-> ScanStep(R, f, p)]
    BY <1>2
  <2> DEFINE k == MaxPages - (n + 1)
             g == [p \in Dom(n + 1) |-> IF p = k THEN ScanStep(R, f, p) ELSE f[p]]
  <2>2. /\ k \in Pages /\ k + 1 = MaxPages - n /\ n + 1 \in 0..MaxPages
        /\ \A p \in Dom(n + 1) : p = k \/ p \in Dom(n)
        /\ \A p \in Dom(n) : p # k /\ p \in Dom(n + 1)
        /\ \A p \in Dom(n + 1) : p = MaxPages \/ p \in Pages
    BY NumbersAre DEF Pages
  <2>3. \A p \in Dom(n) : g[p] = f[p]
    BY <2>2
  <2>4. ASSUME NEW p \in Dom(n + 1) PROVE ScanStep(R, g, p) = ScanStep(R, f, p)
    <3>1. CASE p = MaxPages
      BY <3>1 DEF ScanStep
    <3>2. CASE p \in Pages /\ p \in R
      <4>1. p + 1 \in Dom(n)
        BY <3>2, NumbersAre DEF Pages
      <4> HIDE DEF g, Dom
      <4> QED
        BY <3>2, <4>1, <2>3 DEF ScanStep
    <3>3. CASE p \in Pages /\ p \notin R
      <4>1. PICK q \in (p + 1)..MaxPages : q = p + Size(LargestOrder(R, p))
        BY <3>3, LargestOrderIs
      <4>2. q \in Dom(n)
        BY NumbersAre
      <4> HIDE DEF g, Dom
      <4>3. g[p + Size(LargestOrder(R, p))] = f[p + Size(LargestOrder(R, p))]
        BY <4>1, <4>2, <2>3
      <4> QED
        BY <3>3, <4>3 DEF ScanStep
    <3> QED
      BY <2>2, <3>1, <3>2, <3>3
  <2>5. \A p \in Dom(n + 1) : g[p] = ScanStep(R, f, p)
    BY <2>1, <2>2
  <2>6. g = [p \in Dom(n + 1) |-> ScanStep(R, g, p)]
    <3>1. g = [p \in Dom(n + 1) |-> g[p]]
      OBVIOUS
    <3> HIDE DEF g, Dom
    <3> QED
      BY <2>4, <2>5, <3>1
  <2> QED
    BY <2>2, <2>6
<1>3. G \in SUBSET Nat /\ 0 \in Nat
  BY NumbersAre
<1>4. \A n \in 0..MaxPages : n \in G
  <2> HIDE DEF G
  <2> QED
    BY <1>1, <1>2, <1>3, NumbersAre, UpTo
<1>5. MaxPages \in 0..MaxPages /\ MaxPages - MaxPages = 0
  BY NumbersAre
<1> QED
  BY <1>4, <1>5

LEMMA ScanFromReserved ==
  ASSUME NEW R \in SUBSET Pages, NEW n \in Pages, n \in R, NEW L, Scanned(R, n + 1, L)
  PROVE  Scanned(R, n, L)
<1>1. n \in Nat /\ \A b \in BlockIds : b.pfn \in Nat
  BY NumbersAre DEF BlockIds
<1>2. \A b \in FreeIn(L) : b.pfn >= n
  BY <1>1 DEF Scanned, FreeIn
<1>3. \A x \in Pages : x >= n /\ x \notin R => x >= n + 1
  BY <1>1, NumbersAre
<1> QED
  BY <1>2, <1>3 DEF Scanned

LEMMA ScanFromFree ==
  ASSUME NEW R \in SUBSET Pages, NEW n \in Pages, n \notin R, NEW k, k = LargestOrder(R, n),
         NEW L, Scanned(R, n + Size(k), L)
  PROVE  Scanned(R, n, [L EXCEPT ![k] = <<n>> \o @])
<1> DEFINE K == [L EXCEPT ![k] = <<n>> \o @]
           b0 == [pfn |-> n, order |-> k]
<1>1. k \in Orders /\ FitsUnreserved(R, n, k)
  BY LargestOrderIs
<1>2. PICK s \in Nat \ {0} : s = Size(k)
  BY <1>1, NumbersAre, SizeSucc
<1>3. /\ L \in [Orders -> Seq(Pages)] /\ \A o \in Orders : IsInjective(L[o])
      /\ \A b \in FreeIn(L) : b.pfn >= n + s /\ b.pfn \notin R /\ b.order = LargestOrder(R, b.pfn)
      /\ Apart(FreeIn(L))
      /\ \A x \in Pages : x >= n + s /\ x \notin R => \E b \in FreeIn(L) : x \in PagesOf(b)
  BY <1>2 DEF Scanned
<1>4. n \in Nat /\ b0 \in BlockIds /\ PagesOf(b0) = n..(n + s - 1)
  BY <1>1, <1>2, NumbersAre DEF BlockIds, PagesOf, Block
<1>5. n \notin ToSet(L[k])
  <2> SUFFICES ASSUME n \in ToSet(L[k]) PROVE FALSE
    OBVIOUS
  <2>1. b0 \in FreeIn(L)
    BY <1>4 DEF FreeIn
  <2> QED
    BY <1>3, <1>4, <2>1
<1>6. /\ <<n>> \o L[k] \in Seq(Pages) /\ IsInjective(<<n>> \o L[k])
      /\ ToSet(<<n>> \o L[k]) = {n} \cup ToSet(L[k])
  <2>1. L[k] \in Seq(Pages) /\ IsInjective(L[k])
    BY <1>1, <1>3
  <2> QED
    BY <1>5, <2>1, ConsElems
<1>7. K \in [Orders -> Seq(Pages)] /\ K[k] = <<n>> \o L[k] /\ \A o \in Orders : o # k => K[o] = L[o]
  BY <1>1, <1>3, <1>6
<1> HIDE DEF K
<1>8. FreeIn(K) = FreeIn(L) \cup {b0}
  <2>1. \A b \in BlockIds : b.order \in Orders /\ b = [pfn |-> b.pfn, order |-> b.order]
    BY DEF BlockIds
  <2>2. ASSUME NEW b \in BlockIds PROVE b \in FreeIn(K) <=> b \in FreeIn(L) \cup {b0}
    <3>1. CASE b.order = k
      <4>1. b = b0 <=> b.pfn = n
        BY <2>1, <3>1
      <4> HIDE DEF b0
      <4> QED
        BY <3>1, <4>1, <1>6, <1>7 DEF FreeIn
    <3>2. CASE b.order # k
      <4>1. b # b0
        BY <3>2
      <4> HIDE DEF b0
      <4> QED
        BY <2>1, <3>2, <4>1, <1>7 DEF FreeIn
    <3> QED
      BY <3>1, <3>2
  <2> HIDE DEF b0
  <2> QED
    BY <2>2, <1>4 DEF FreeIn
<1>9. \A b \in FreeIn(L) : PagesOf(b) \cap PagesOf(b0) = {}
  <2> TAKE b \in FreeIn(L)
  <2>1. b.pfn \in Nat /\ b.pfn >= n + s
    BY <1>3, NumbersAre DEF FreeIn, BlockIds
  <2>2. \A x \in PagesOf(b) : x \in Int /\ x >= b.pfn
    BY <2>1 DEF PagesOf, Block
  <2> QED
    BY <1>2, <1>4, <2>1, <2>2
<1>10. ASSUME NEW b \in FreeIn(K)
       PROVE  b.pfn >= n /\ b.pfn \notin R /\ b.order = LargestOrder(R, b.pfn)
  <2>1. CASE b \in FreeIn(L)
    <3>1. b.pfn \in Nat
      BY <2>1, NumbersAre DEF FreeIn, BlockIds
    <3> QED
      BY <2>1, <3>1, <1>2, <1>3, <1>4
  <2>2. CASE b = b0
    BY <2>2, <1>4
  <2> QED
    BY <2>1, <2>2, <1>8
<1>11. Apart(FreeIn(K))
  <2> HIDE DEF b0
  <2> QED
    BY <1>3, <1>8, <1>9 DEF Apart
<1>12. ASSUME NEW x \in Pages, x >= n, x \notin R PROVE \E b \in FreeIn(K) : x \in PagesOf(b)
  <2>1. x >= n + s \/ x \in n..(n + s - 1)
    BY <1>2, <1>4, <1>12, NumbersAre
  <2> HIDE DEF b0
  <2> QED
    BY <2>1, <1>3, <1>4, <1>8, <1>12
<1>13. \A o \in Orders : IsInjective(K[o])
  BY <1>3, <1>6, <1>7
<1> QED
  BY <1>7, <1>10, <1>11, <1>12, <1>13 DEF Scanned, K

LEMMA InitialListsScanned ==
  ASSUME NEW R \in SUBSET Pages
  PROVE  Scanned(R, 0, InitialLists(R))
<1> DEFINE Scan == CHOOSE f : f = [p \in 0..MaxPages |-> ScanStep(R, f, p)]
<1>1. InitialLists(R) = Scan[0]
  BY DEF InitialLists, ScanStep
<1>2. Scan = [p \in 0..MaxPages |-> ScanStep(R, Scan, p)]
  BY ScanExists
<1>3. PICK f : f = Scan /\ \A p \in 0..MaxPages : f[p] = ScanStep(R, f, p)
  <2> HIDE DEF Scan
  <2> QED
    BY <1>2
<1> HIDE DEF Scan
<1> DEFINE G == {n \in 0..MaxPages : \A p \in (MaxPages - n)..MaxPages : Scanned(R, p, f[p])}
<1>4. 0 \in G
  <2>1. f[MaxPages] = [o \in Orders |-> <<>>]
    BY <1>3, NumbersAre DEF ScanStep
  <2>2. <<>> \in Seq(Pages) /\ ToSet(<<>>) = {} /\ IsInjective(<<>>)
    <3>1. <<>> \in Seq(Pages) /\ DOMAIN <<>> = {}
      OBVIOUS
    <3> QED
      BY <3>1 DEF ToSet, IsInjective
  <2>3. FreeIn(f[MaxPages]) = {}
    <3>1. \A b \in BlockIds : b.order \in Orders
      BY DEF BlockIds
    <3> QED
      BY <2>1, <2>2, <3>1 DEF FreeIn
  <2>4. \A x \in Pages : ~(x >= MaxPages)
    BY NumbersAre DEF Pages
  <2>5. Scanned(R, MaxPages, f[MaxPages])
    BY <2>1, <2>2, <2>3, <2>4 DEF Scanned, Apart
  <2>6. 0 \in 0..MaxPages /\ \A p \in (MaxPages - 0)..MaxPages : p = MaxPages
    BY NumbersAre
  <2> QED
    BY <2>5, <2>6
<1>5. ASSUME NEW n \in 0..(MaxPages - 1), n \in G PROVE n + 1 \in G
  <2> DEFINE k == MaxPages - (n + 1)
  <2>1. /\ k \in Pages /\ k # MaxPages /\ k \in 0..MaxPages /\ n + 1 \in 0..MaxPages
        /\ \A p \in (MaxPages - (n + 1))..MaxPages : p = k \/ p \in (MaxPages - n)..MaxPages
        /\ \A p \in (k + 1)..MaxPages : p \in (MaxPages - n)..MaxPages
        /\ k + 1 \in (k + 1)..MaxPages
    BY NumbersAre DEF Pages
  <2>2. \A p \in (k + 1)..MaxPages : Scanned(R, p, f[p])
    BY <1>5, <2>1
  <2>3. Scanned(R, k, f[k])
    <3> HIDE DEF k, G
    <3>1. f[k] = ScanStep(R, f, k)
      BY <1>3, <2>1
    <3>2. CASE k \in R
      <4>1. f[k] = f[k + 1]
        BY <2>1, <3>1, <3>2 DEF ScanStep
      <4> QED
        BY <2>1, <2>2, <3>2, <4>1, ScanFromReserved
    <3>3. CASE k \notin R
      <4>1. PICK j : j = LargestOrder(R, k) /\ k + Size(j) \in (k + 1)..MaxPages
        BY <2>1, <3>3, LargestOrderIs
      <4>2. f[k] = [f[k + Size(j)] EXCEPT ![j] = <<k>> \o @]
        BY <2>1, <3>1, <3>3, <4>1 DEF ScanStep
      <4>3. Scanned(R, k + Size(j), f[k + Size(j)])
        BY <2>2, <4>1
      <4>4. PICK L : L = f[k + Size(j)] /\ Scanned(R, k + Size(j), L)
        BY <4>3
      <4>5. Scanned(R, k, [L EXCEPT ![j] = <<k>> \o @])
        BY <2>1, <3>3, <4>1, <4>4, ScanFromFree
      <4> QED
        BY <4>2, <4>4, <4>5
    <3> QED
      BY <3>2, <3>3
  <2>4. \A p \in (MaxPages - n)..MaxPages : Scanned(R, p, f[p])
    BY <1>5
  <2> QED
    BY <2>1, <2>3, <2>4
<1>6. G \in SUBSET Nat /\ 0 \in Nat
  BY NumbersAre
<1>7. \A n \in 0..MaxPages : n \in G
  <2> HIDE DEF G
  <2> QED
    BY <1>4, <1>5, <1>6, NumbersAre, UpTo
<1>8. MaxPages \in 0..MaxPages /\ 0 \in (MaxPages - MaxPages)..MaxPages
  BY NumbersAre
<1> QED
  BY <1>1, <1>3, <1>7, <1>8

(***************************************************************************)
(* The memory as a partition into free and held blocks.                    *)
(***************************************************************************)
PartitionOf(F, H, R) ==
  /\ F \cap H = {}
  /\ Aligned(F \cup H)
  /\ Apart(F \cup H)
  /\ PagesIn(F \cup H) = Pages \ R

LEMMA AllocPartition ==
  ASSUME NEW F \in SUBSET BlockIds, NEW H \in SUBSET BlockIds, NEW R, PartitionOf(F, H, R),
         NEW p \in Pages, NEW o \in Orders, NEW k \in Orders, o <= k, ~BlockInvalid(p, o),
         Whole(p, k) \in F
  PROVE  PartitionOf((F \ {Whole(p, k)}) \cup Buddies(p, o, k),
                     H \cup {[pfn |-> p, order |-> o]}, R)
<1> DEFINE b == [pfn |-> p, order |-> o]
           B == Buddies(p, o, k)
           W == {Whole(p, k)}
           C == ((F \cup H) \ W) \cup ({b} \cup B)
<1>1. /\ {b} \cup B \subseteq BlockIds /\ Aligned({b} \cup B) /\ b \notin B
      /\ Apart({b} \cup B)
      /\ PagesIn({b} \cup B) = PagesOf(Whole(p, k))
  BY PartsOfWhole
<1>2. PagesIn(W) = PagesOf(Whole(p, k))
  BY DEF PagesIn
<1> HIDE DEF b, B, W
<1>3. W \subseteq F /\ W \cap H = {}
  BY DEF PartitionOf, W
<1>4. /\ Apart(F \cup H)
      /\ Aligned(F \cup H) /\ F \cap H = {}
      /\ PagesIn(F \cup H) = Pages \ R
  BY DEF PartitionOf
<1>5. /\ Apart(C)
      /\ PagesIn(C) = PagesIn(F \cup H)
      /\ ({b} \cup B) \cap ((F \cup H) \ W) = {}
  <2>0. PICK All : All = F \cup H
    OBVIOUS
  <2>1. PICK Old \in SUBSET All : Old = W
    BY <1>3, <2>0
  <2>2. PICK New \in SUBSET BlockIds : New = {b} \cup B
    BY <1>1
  <2>3. PagesIn(Old) = PagesIn(New)
    BY <1>1, <1>2, <2>1, <2>2
  <2>4. Apart(New)
    BY <1>1, <2>2
  <2>5. Apart(All)
    BY <1>4, <2>0
  <2>6. /\ Apart((All \ Old) \cup New)
        /\ PagesIn((All \ Old) \cup New) = PagesIn(All)
        /\ New \cap (All \ Old) = {}
    BY <2>3, <2>4, <2>5, Exchange, Zenon
  <2> QED
    BY <2>0, <2>1, <2>2, <2>6
<1>6. ((F \ W) \cup B) \cup (H \cup {b}) = C
  BY <1>3
<1>7. ((F \ W) \cup B) \cap (H \cup {b}) = {}
  BY <1>1, <1>3, <1>4, <1>5
<1>8. Aligned(C)
  BY <1>1, <1>4 DEF Aligned
<1> HIDE DEF C
<1>9. PartitionOf((F \ W) \cup B, H \cup {b}, R)
  BY <1>4, <1>5, <1>6, <1>7, <1>8 DEF PartitionOf
<1> QED
  BY <1>9 DEF W, B, b

LEMMA FreePartition ==
  ASSUME NEW F \in SUBSET BlockIds, NEW H \in SUBSET BlockIds, NEW R, PartitionOf(F, H, R),
         NEW p \in Pages, NEW o \in Orders, NEW m \in Orders, o <= m, ~BlockInvalid(p, o),
         [pfn |-> p, order |-> o] \in H, Buddies(p, o, m) \subseteq F
  PROVE  PartitionOf((F \ Buddies(p, o, m)) \cup {Whole(p, m)},
                     H \ {[pfn |-> p, order |-> o]}, R)
<1> DEFINE b == [pfn |-> p, order |-> o]
           B == Buddies(p, o, m)
           W == {Whole(p, m)}
           C == ((F \cup H) \ ({b} \cup B)) \cup W
<1>1. PagesIn({b} \cup B) = PagesOf(Whole(p, m))
  BY PartsOfWhole
<1>2. PagesIn(W) = PagesOf(Whole(p, m))
  BY DEF PagesIn
<1>3. W \subseteq BlockIds /\ Aligned(W) /\ \A c, d \in W : c = d
  <2>1. Whole(p, m) \in BlockIds /\ ~BlockInvalid(AlignDown(p, m), m)
    BY AroundInPages
  <2> QED
    BY <2>1 DEF Aligned, Whole
<1> HIDE DEF b, B, W
<1>4. /\ Apart(F \cup H)
      /\ Aligned(F \cup H) /\ F \cap H = {}
      /\ PagesIn(F \cup H) = Pages \ R
  BY DEF PartitionOf
<1>5. b \in H /\ B \subseteq F
  BY DEF b, B
<1>6. /\ Apart(C)
      /\ PagesIn(C) = PagesIn(F \cup H)
      /\ W \cap ((F \cup H) \ ({b} \cup B)) = {}
  <2>0. PICK All : All = F \cup H
    OBVIOUS
  <2>1. PICK Old \in SUBSET All : Old = {b} \cup B
    BY <1>5, <2>0
  <2>2. PICK New \in SUBSET BlockIds : New = W
    BY <1>3
  <2>3. PagesIn(Old) = PagesIn(New)
    BY <1>1, <1>2, <2>1, <2>2
  <2>4. Apart(New)
    BY <1>3, <2>2 DEF Apart
  <2>5. Apart(All)
    BY <1>4, <2>0
  <2>6. /\ Apart((All \ Old) \cup New)
        /\ PagesIn((All \ Old) \cup New) = PagesIn(All)
        /\ New \cap (All \ Old) = {}
    BY <2>3, <2>4, <2>5, Exchange, Zenon
  <2> QED
    BY <2>0, <2>1, <2>2, <2>6
<1>7. ((F \ B) \cup W) \cup (H \ {b}) = C
  BY <1>4, <1>5
<1>8. ((F \ B) \cup W) \cap (H \ {b}) = {}
  BY <1>4, <1>5, <1>6
<1>9. Aligned(C)
  BY <1>3, <1>4 DEF Aligned
<1> HIDE DEF C
<1>10. PartitionOf((F \ B) \cup W, H \ {b}, R)
  BY <1>4, <1>6, <1>7, <1>8, <1>9 DEF PartitionOf
<1> QED
  BY <1>10 DEF W, B, b

\* The free pages are those that are neither reserved nor held.
LEMMA FreeAreTheRest ==
  ASSUME NEW F, NEW H, NEW R, PartitionOf(F, H, R)
  PROVE  PagesIn(F) = (Pages \ R) \ PagesIn(H)
<1>1. \A b \in F : \A c \in H : PagesOf(b) \cap PagesOf(c) = {}
  BY DEF PartitionOf, Apart
<1>2. PagesIn(F \cup H) = Pages \ R
  BY DEF PartitionOf
<1> QED
  BY <1>1, <1>2 DEF PagesIn

(***************************************************************************)
(* The operations on the whole state.                                      *)
(***************************************************************************)
Counted(M, H) == \A b \in H : M.refs[b.pfn] > 0 /\ M.order[b.pfn] = b.order

Traced(M, H) == \A p \in Pages : M.refs[p] > 0 => \E b \in H : b.pfn = p

\* What holds of the allocator's state M when its callers hold the blocks H.
Sound(M, H, R) ==
  /\ M \in Mems /\ H \subseteq BlockIds
  /\ ListsMatch(M) /\ Merged(M)
  /\ PartitionOf(FreeOf(M), H, R)
  /\ \A b \in H : M.refs[b.pfn] > 0 /\ M.order[b.pfn] = b.order
  /\ \A p \in Pages : M.refs[p] > 0 => \E b \in H : b.pfn = p

LEMMA AllocSound ==
  ASSUME NEW M, NEW H, NEW R, Sound(M, H, R), NEW o \in Orders, CanAlloc(M, o)
  PROVE  LET b == [pfn |-> AllocPfn(M, o), order |-> o]
         IN  /\ Sound(AfterAlloc(M, o), H \cup {b}, R)
             /\ b \in BlockIds /\ ~BlockInvalid(b.pfn, b.order)
             /\ PagesOf(b) \subseteq PagesIn(FreeOf(M))
<1>1. /\ M \in Mems /\ H \subseteq BlockIds /\ ListsMatch(M) /\ Merged(M)
      /\ PartitionOf(FreeOf(M), H, R)
      /\ \A b \in H : M.refs[b.pfn] > 0 /\ M.order[b.pfn] = b.order
      /\ \A p \in Pages : M.refs[p] > 0 => \E b \in H : b.pfn = p
  BY DEF Sound
<1>2. Aligned(FreeOf(M)) /\ FreeOf(M) \subseteq BlockIds
  BY <1>1 DEF PartitionOf, Aligned, FreeOf
<1>3. PICK k, p, N : k = SourceOrder(M, o) /\ p = AllocPfn(M, o) /\ N = AfterAlloc(M, o)
  OBVIOUS
<1>4. /\ k \in o..(MaxOrder - 1) /\ p \in Pages /\ ~BlockInvalid(p, o)
      /\ Whole(p, k) \in FreeOf(M)
      /\ N \in Mems /\ ListsMatch(N) /\ Merged(N)
      /\ FreeOf(N) = (FreeOf(M) \ {Whole(p, k)}) \cup Buddies(p, o, k)
      /\ N.order = [M.order EXCEPT ![p] = o] /\ N.refs = [M.refs EXCEPT ![p] = 1]
  BY <1>1, <1>2, <1>3, AllocEffect
<1>5. k \in Orders /\ o <= k /\ o \in Nat
  BY <1>4, NumbersAre DEF Orders
<1> DEFINE b == [pfn |-> p, order |-> o]
<1>6. b \in BlockIds /\ PagesOf(b) \subseteq PagesOf(Whole(p, k))
  <2>1. /\ {b} \cup Buddies(p, o, k) \subseteq BlockIds
        /\ PagesIn({b} \cup Buddies(p, o, k)) = PagesOf(Whole(p, k))
    BY <1>4, <1>5, PartsOfWhole
  <2> HIDE DEF b
  <2> QED
    BY <2>1 DEF PagesIn
<1>7. PartitionOf(FreeOf(N), H \cup {b}, R)
  <2>1. PICK F \in SUBSET BlockIds : F = FreeOf(M)
    BY <1>2
  <2>2. PartitionOf((F \ {Whole(p, k)}) \cup Buddies(p, o, k), H \cup {b}, R)
    BY <1>1, <1>4, <1>5, <2>1, AllocPartition
  <2> QED
    BY <1>4, <2>1, <2>2
<1>8. \A c \in H : c.pfn \in Pages /\ c.pfn # p
  <2> TAKE c \in H
  <2>1. c.pfn \in PagesOf(c) /\ c.pfn \in Pages
    BY <1>1, BlockHasFirst DEF BlockIds
  <2>2. p \in PagesOf(Whole(p, k))
    <3>1. b.pfn \in PagesOf(b)
      BY <1>6, BlockHasFirst
    <3> QED
      BY <3>1, <1>6
  <2>3. Whole(p, k) # c /\ PagesOf(Whole(p, k)) \cap PagesOf(c) = {}
    BY <1>1, <1>4 DEF PartitionOf, Apart
  <2> QED
    BY <2>1, <2>2, <2>3
<1>9. M.order \in [Pages -> Orders] /\ M.refs \in [Pages -> 0..(RefMod - 1)]
  BY <1>1 DEF Mems
<1>10. \A c \in H \cup {b} : N.refs[c.pfn] > 0 /\ N.order[c.pfn] = c.order
  <2>1. \A c \in H : N.refs[c.pfn] = M.refs[c.pfn] /\ N.order[c.pfn] = M.order[c.pfn]
    BY <1>4, <1>8, <1>9
  <2>2. N.refs[b.pfn] > 0 /\ N.order[b.pfn] = b.order
    BY <1>4, <1>9
  <2> HIDE DEF b
  <2> QED
    BY <1>1, <2>1, <2>2
<1>11. \A q \in Pages : N.refs[q] > 0 => \E c \in H \cup {b} : c.pfn = q
  <2> TAKE q \in Pages
  <2> HAVE N.refs[q] > 0
  <2>1. CASE q = p
    <3>1. b \in H \cup {b} /\ b.pfn = q
      BY <2>1
    <3> QED
      BY <3>1
  <2>2. CASE q # p
    <3>1. M.refs[q] > 0
      BY <2>2, <1>4, <1>9
    <3> QED
      BY <3>1, <1>1
  <2> QED
    BY <2>1, <2>2
<1>12. H \cup {b} \subseteq BlockIds
  BY <1>1, <1>6
<1>13. PagesOf(b) \subseteq PagesIn(FreeOf(M))
  BY <1>4, <1>6 DEF PagesIn
<1>14. Sound(N, H \cup {b}, R)
  BY <1>4, <1>7, <1>10, <1>11, <1>12 DEF Sound
<1> QED
  BY <1>3, <1>4, <1>6, <1>13, <1>14

\* A held block is not taken for a free one.
LEMMA HeldIsNotFree ==
  ASSUME NEW M, NEW H, NEW R, M \in Mems, H \subseteq BlockIds, ListsMatch(M),
         PartitionOf(FreeOf(M), H, R), NEW b \in H, M.order[b.pfn] = b.order
  PROVE  /\ ~RefusesFree(M, b.pfn) /\ ~BlockInvalid(b.pfn, b.order)
         /\ b.pfn \in Pages /\ b.order \in Orders
         /\ \A c \in FreeOf(M) : b.pfn \notin PagesOf(c)
<1>1. b \in BlockIds /\ b.pfn \in Pages /\ b.order \in Orders
  BY DEF BlockIds
<1>2. ~BlockInvalid(b.pfn, b.order) /\ Aligned(FreeOf(M)) /\ b \notin FreeOf(M)
  BY DEF PartitionOf, Aligned
<1>3. b.pfn \notin ToSet(M.lists[b.order])
  BY <1>1, <1>2, FreeOfIs
<1>4. ~MaskIsFree(M, b.order, b.pfn)
  BY <1>1, <1>2, <1>3, MaskIs
<1>5. \A c \in FreeOf(M) : b.pfn \notin PagesOf(c)
  <2>1. b.pfn \in PagesOf(b)
    BY <1>1, BlockHasFirst
  <2>2. \A c \in FreeOf(M) : PagesOf(c) \cap PagesOf(b) = {}
    BY <1>2 DEF PartitionOf, Apart
  <2> QED
    BY <2>1, <2>2
<1> QED
  BY <1>1, <1>2, <1>4, <1>5 DEF RefusesFree

\* A free is sound whatever count the freed block still has.
LEMMA FreeSound ==
  ASSUME NEW M, NEW H, NEW R, M \in Mems, H \subseteq BlockIds, ListsMatch(M), Merged(M),
         PartitionOf(FreeOf(M), H, R), NEW b \in H, M.order[b.pfn] = b.order,
         Counted(M, H \ {b}), Traced(M, H)
  PROVE  Sound(AfterFree(M, b.pfn), H \ {b}, R)
<1>1. /\ ~RefusesFree(M, b.pfn) /\ ~BlockInvalid(b.pfn, b.order)
      /\ b.pfn \in Pages /\ b.order \in Orders
      /\ \A c \in FreeOf(M) : b.pfn \notin PagesOf(c)
  BY HeldIsNotFree
<1>2. Aligned(FreeOf(M)) /\ FreeOf(M) \subseteq BlockIds
  BY DEF PartitionOf, Aligned, FreeOf
<1>3. PICK p \in Pages, o \in Orders : p = b.pfn /\ o = b.order /\ b = [pfn |-> p, order |-> o]
  BY <1>1 DEF BlockIds
<1>4. PICK m, N : m = StopOrder(M, p) /\ N = AfterFree(M, p)
  OBVIOUS
<1>5. o = M.order[p] /\ ~BlockInvalid(p, o) /\ ~RefusesFree(M, p)
      /\ \A c \in FreeOf(M) : p \notin PagesOf(c)
  BY <1>1, <1>3
<1>6. /\ m \in o..(MaxOrder - 1)
      /\ Buddies(p, o, m) \subseteq FreeOf(M)
      /\ N \in Mems /\ ListsMatch(N) /\ Merged(N)
      /\ FreeOf(N) = (FreeOf(M) \ Buddies(p, o, m)) \cup {Whole(p, m)}
      /\ N.order = M.order /\ N.refs = [M.refs EXCEPT ![p] = 0]
  BY <1>2, <1>4, <1>5, FreeEffect
<1>7. m \in Orders /\ o <= m
  BY <1>6, NumbersAre DEF Orders
<1>8. PartitionOf(FreeOf(N), H \ {b}, R)
  <2>1. PICK F \in SUBSET BlockIds, K \in SUBSET BlockIds : F = FreeOf(M) /\ K = H
    BY <1>2
  <2>2. [pfn |-> p, order |-> o] \in K /\ Buddies(p, o, m) \subseteq F /\ PartitionOf(F, K, R)
    BY <1>3, <1>6, <2>1
  <2>3. PartitionOf((F \ Buddies(p, o, m)) \cup {Whole(p, m)},
                    K \ {[pfn |-> p, order |-> o]}, R)
    BY <1>5, <1>7, <2>2, FreePartition
  <2> QED
    BY <1>3, <1>6, <2>1, <2>3
<1>9. \A c \in H \ {b} : c.pfn \in Pages /\ c.pfn # p
  <2> TAKE c \in H \ {b}
  <2>1. c.pfn \in PagesOf(c) /\ b.pfn \in PagesOf(b) /\ c.pfn \in Pages
    BY BlockHasFirst DEF BlockIds
  <2>2. PagesOf(c) \cap PagesOf(b) = {}
    BY DEF PartitionOf, Apart
  <2> QED
    BY <2>1, <2>2, <1>3
<1>10. M.refs \in [Pages -> 0..(RefMod - 1)]
  BY DEF Mems
<1>11. \A c \in H \ {b} : N.refs[c.pfn] > 0 /\ N.order[c.pfn] = c.order
  BY <1>6, <1>9, <1>10 DEF Counted
<1>12. \A q \in Pages : N.refs[q] > 0 => \E c \in H \ {b} : c.pfn = q
  <2> TAKE q \in Pages
  <2> HAVE N.refs[q] > 0
  <2>1. q # p /\ M.refs[q] > 0
    BY <1>6, <1>10
  <2> QED
    BY <2>1, <1>3 DEF Traced
<1> QED
  BY <1>3, <1>4, <1>6, <1>8, <1>11, <1>12 DEF Sound

\* The state N is M but for the count n of the block b, and sound if n is positive.
Recounted(M, N, H, R, b, n) ==
  /\ N \in Mems /\ N.lists = M.lists /\ N.order = M.order
  /\ FreeOf(N) = FreeOf(M) /\ ListsMatch(N) /\ Merged(N)
  /\ Traced(N, H) /\ Counted(N, H \ {b})
  /\ N.order[b.pfn] = b.order /\ N.refs[b.pfn] = n
  /\ n > 0 => Sound(N, H, R)

LEMMA RefSound ==
  ASSUME NEW M, NEW H, NEW R, Sound(M, H, R), NEW b \in H, NEW n \in 0..(RefMod - 1),
         NEW N, N = [M EXCEPT !.refs[b.pfn] = n]
  PROVE  Recounted(M, N, H, R, b, n)
<1>1. /\ M \in Mems /\ H \subseteq BlockIds /\ ListsMatch(M) /\ Merged(M)
      /\ PartitionOf(FreeOf(M), H, R)
      /\ \A c \in H : M.refs[c.pfn] > 0 /\ M.order[c.pfn] = c.order
      /\ \A p \in Pages : M.refs[p] > 0 => \E c \in H : c.pfn = p
  BY DEF Sound
<1>2. b.pfn \in Pages
  BY <1>1 DEF BlockIds
<1>3. M.refs \in [Pages -> 0..(RefMod - 1)]
  BY <1>1 DEF Mems
<1>4. /\ N \in Mems /\ N.lists = M.lists /\ N.masks = M.masks /\ N.order = M.order
      /\ N.refs = [M.refs EXCEPT ![b.pfn] = n]
  BY <1>1, <1>2 DEF Mems
<1>5. FreeOf(N) = FreeOf(M) /\ ListsMatch(N) /\ Merged(N)
  BY <1>1, <1>4 DEF FreeOf, ListsMatch, Merged
<1>6. \A p \in Pages : N.refs[p] > 0 => \E c \in H : c.pfn = p
  BY <1>1, <1>3, <1>4
<1>7. \A c \in H \ {b} : N.refs[c.pfn] > 0 /\ N.order[c.pfn] = c.order
  <2> TAKE c \in H \ {b}
  <2>1. c.pfn # b.pfn /\ c.pfn \in Pages
    <3>1. c.pfn \in PagesOf(c) /\ b.pfn \in PagesOf(b) /\ c.pfn \in Pages
      BY <1>1, BlockHasFirst DEF BlockIds
    <3>2. PagesOf(c) \cap PagesOf(b) = {}
      BY <1>1 DEF PartitionOf, Apart
    <3> QED
      BY <3>1, <3>2
  <2> QED
    BY <2>1, <1>1, <1>3, <1>4
<1>8. N.order[b.pfn] = b.order /\ N.refs[b.pfn] = n
  BY <1>1, <1>2, <1>3, <1>4
<1>9. ASSUME n > 0 PROVE Sound(N, H, R)
  <2>1. \A c \in H : N.refs[c.pfn] > 0 /\ N.order[c.pfn] = c.order
    BY <1>7, <1>8, <1>9
  <2> QED
    BY <1>1, <1>4, <1>5, <1>6, <2>1 DEF Sound
<1> QED
  BY <1>4, <1>5, <1>6, <1>7, <1>8, <1>9 DEF Recounted, Traced, Counted

(***************************************************************************)
(* Free memory is fully merged.                                            *)
(***************************************************************************)
\* A free block that covers an aligned block is that block or one of a higher order.
LEMMA CoverIsLarger ==
  ASSUME NEW b \in BlockIds, ~BlockInvalid(b.pfn, b.order),
         NEW n \in Nat, NEW p \in Nat, ~BlockInvalid(p, n), Block(p, n) \subseteq PagesOf(b)
  PROVE  b.order > n \/ b = [pfn |-> p, order |-> n]
<1> SUFFICES ASSUME ~(b.order > n) PROVE b = [pfn |-> p, order |-> n]
  OBVIOUS
<1>1. PICK q \in Nat, i \in Nat : q = b.pfn /\ i = b.order /\ b = [pfn |-> q, order |-> i]
  BY NumbersAre DEF BlockIds
<1>2. PICK s \in Nat \ {0} : s = Size(n)
  BY SizeSucc
<1>3. PICK t \in Nat \ {0} : t = Size(i)
  BY <1>1, SizeSucc
<1>4. Block(p, n) = p..(p + s - 1) /\ PagesOf(b) = q..(q + t - 1) /\ PagesOf(b) = Block(q, i)
  BY <1>1, <1>2, <1>3 DEF PagesOf, Block
<1>5. q <= p /\ p + s <= q + t
  <2>1. p \in p..(p + s - 1) /\ p + s - 1 \in p..(p + s - 1)
    BY <1>2
  <2>2. p \in q..(q + t - 1) /\ p + s - 1 \in q..(q + t - 1)
    BY <1>4, <2>1
  <2> QED
    BY <2>2
<1>6. i = n
  <2> SUFFICES ASSUME i < n PROVE FALSE
    BY <1>1
  <2>1. t < s
    BY <1>2, <1>3, SizeGrows
  <2> QED
    BY <2>1, <1>5
<1>7. q = p
  BY <1>2, <1>3, <1>5, <1>6
<1> QED
  BY <1>1, <1>6, <1>7

LEMMA MergedCovers ==
  ASSUME NEW M \in Mems, Merged(M), Aligned(FreeOf(M)), NEW o \in Orders, NEW p \in Pages,
         ~BlockInvalid(p, o), Block(p, o) \subseteq PagesIn(FreeOf(M))
  PROVE  \E b \in FreeOf(M) : Block(p, o) \subseteq PagesOf(b)
<1> DEFINE F == FreeOf(M)
           Covered(q, n) == \E b \in F : Block(q, n) \subseteq PagesOf(b)
           G == {n \in Orders : \A q \in Pages :
                   ~BlockInvalid(q, n) /\ Block(q, n) \subseteq PagesIn(F) => Covered(q, n)}
<1>1. F \subseteq BlockIds /\ \A b \in F : ~BlockInvalid(b.pfn, b.order)
  BY DEF Aligned, FreeOf
<1>2. 0 \in G
  <2> SUFFICES ASSUME NEW q \in Pages, Block(q, 0) \subseteq PagesIn(F) PROVE Covered(q, 0)
    BY NumbersAre
  <2>1. Block(q, 0) = {q}
    <3>1. Size(0) = 1 /\ q \in Int
      BY SizeZero, NumbersAre
    <3> QED
      BY <3>1 DEF Block
  <2> QED
    BY <2>1 DEF PagesIn
<1>3. ASSUME NEW n \in 0..(MaxOrder - 1 - 1), n \in G PROVE n + 1 \in G
  <2>1. n \in Nat /\ n \in Orders /\ n + 1 \in Orders /\ n \in 0..(MaxOrder - 2) /\ n + 1 \in Nat
    BY NumbersAre DEF Orders
  <2> SUFFICES ASSUME NEW q \in Pages, ~BlockInvalid(q, n + 1),
                      Block(q, n + 1) \subseteq PagesIn(F)
               PROVE  Covered(q, n + 1)
    BY <2>1
  <2>2. PICK s \in Nat \ {0} : s = Size(n) /\ Size(n + 1) = s + s
    BY <2>1, SizeSucc
  <2>3. q \in Nat
    BY NumbersAre
  <2>4. ~BlockInvalid(q, n) /\ ~BlockInvalid(q + s, n) /\ Buddy(q, n) = q + s
    BY <2>1, <2>2, <2>3, TwoHalves
  <2>5. Block(q, n + 1) = q..(q + (s + s) - 1)
    BY <2>2 DEF Block
  <2>6. Block(q, n) = q..(q + s - 1) /\ Block(q + s, n) = (q + s)..(q + s + s - 1)
    BY <2>2 DEF Block
  <2>7. /\ Block(q, n) \subseteq Block(q, n + 1) /\ Block(q + s, n) \subseteq Block(q, n + 1)
        /\ q \in Block(q, n) /\ q + s \in Block(q + s, n)
    <3>1. q..(q + s - 1) \subseteq q..(q + (s + s) - 1)
      BY <2>2, <2>3
    <3>2. (q + s)..(q + s + s - 1) \subseteq q..(q + (s + s) - 1)
      BY <2>2, <2>3
    <3>3. q \in q..(q + s - 1) /\ q + s \in (q + s)..(q + s + s - 1)
      BY <2>2, <2>3
    <3> QED
      BY <2>5, <2>6, <3>1, <3>2, <3>3
  <2>8. q + s \in Pages
    <3>1. Block(q, n + 1) \subseteq Pages
      BY <2>1, BlockInPages
    <3> QED
      BY <2>7, <3>1
  <2>9. PICK b \in F : Block(q, n) \subseteq PagesOf(b)
    BY <1>3, <2>4, <2>7
  <2>10. PICK c \in F : Block(q + s, n) \subseteq PagesOf(c)
    BY <1>3, <2>4, <2>7, <2>8
  <2> HIDE DEF G
  <2>11. ASSUME NEW d \in F, d.order > n, NEW x \in Block(q, n + 1), x \in PagesOf(d)
         PROVE  Covered(q, n + 1)
    <3>1. d.order \in Nat /\ d.pfn \in Int /\ n + 1 <= d.order
      <4>1. d.order \in Orders /\ d.pfn \in Pages
        BY <1>1 DEF BlockIds
      <4>2. d.order \in Nat /\ d.pfn \in Nat
        BY <4>1, NumbersAre
      <4> QED
        BY <4>2, <2>1, <2>11
    <3>2. ~BlockInvalid(d.pfn, d.order)
      BY <1>1
    <3>3. Block(q, n + 1) \cap Block(d.pfn, d.order) # {}
      BY <2>11 DEF PagesOf
    <3>4. Block(q, n + 1) \subseteq Block(d.pfn, d.order)
      BY <2>1, <2>3, <3>1, <3>2, <3>3, BlocksNested
    <3> QED
      BY <3>4 DEF PagesOf
  <2>12. CASE b.order > n
    <3>1. q \in Block(q, n + 1) /\ q \in PagesOf(b)
      BY <2>7, <2>9
    <3> QED
      BY <2>11, <2>12, <3>1
  <2>13. CASE c.order > n
    <3>1. q + s \in Block(q, n + 1) /\ q + s \in PagesOf(c)
      BY <2>7, <2>10
    <3> QED
      BY <2>11, <2>13, <3>1
  <2>14. CASE ~(b.order > n) /\ ~(c.order > n)
    <3>1. b = [pfn |-> q, order |-> n]
      BY <1>1, <2>1, <2>3, <2>4, <2>9, <2>14, CoverIsLarger
    <3>2. c = [pfn |-> q + s, order |-> n]
      <4>1. q + s \in Nat
        BY <2>3
      <4> QED
        BY <1>1, <2>1, <2>4, <2>10, <2>14, <4>1, CoverIsLarger
    <3>3. q \in ToSet(M.lists[n]) /\ q + s \in ToSet(M.lists[n])
      BY <2>1, <3>1, <3>2 DEF FreeOf
    <3> QED
      BY <2>1, <2>4, <3>3 DEF Merged
  <2> QED
    BY <2>12, <2>13, <2>14
<1>4. G \in SUBSET Nat /\ 0 \in Nat /\ MaxOrder - 1 \in Nat
  BY NumbersAre
<1>5. \A n \in 0..(MaxOrder - 1) : n \in G
  <2> HIDE DEF G
  <2> QED
    BY <1>2, <1>3, <1>4, UpTo
<1>6. o \in G
  BY <1>5 DEF Orders
<1> QED
  BY <1>6

(***************************************************************************)
(* The inductive invariant.                                                *)
(***************************************************************************)
IInv == reserved \subseteq Pages /\ Sound(mem, held, reserved)

LEMMA FreeBlocksAre ==
  ASSUME NEW M \in Mems
  PROVE  UNION {{[pfn |-> p, order |-> o] : p \in ToSet(M.lists[o])} : o \in Orders} = FreeOf(M)
<1> DEFINE U == UNION {{[pfn |-> p, order |-> o] : p \in ToSet(M.lists[o])} : o \in Orders}
<1>1. \A b : b \in U <=> \E o \in Orders : \E p \in ToSet(M.lists[o]) : b = [pfn |-> p, order |-> o]
  OBVIOUS
<1>2. \A o \in Orders : \A p : p \in ToSet(M.lists[o])
                                 <=> [pfn |-> p, order |-> o] \in FreeOf(M)
  BY FreeOfIs
<1>3. \A b \in FreeOf(M) : /\ b.order \in Orders /\ b.pfn \in ToSet(M.lists[b.order])
                           /\ b = [pfn |-> b.pfn, order |-> b.order]
  BY DEF FreeOf, BlockIds
<1> HIDE DEF U
<1>4. U = FreeOf(M)
  BY <1>1, <1>2, <1>3
<1> QED
  BY <1>4 DEF U

LEMMA InvImplies ==
  ASSUME IInv
  PROVE  /\ TypeOK /\ Partition /\ MasksMatchLists /\ FullyMerged /\ CountsFollowHolders
         /\ FreeBlocks = FreeOf(mem) /\ FreePages = PagesIn(FreeOf(mem))
<1>1. /\ reserved \subseteq Pages /\ mem \in Mems /\ held \subseteq BlockIds
      /\ ListsMatch(mem) /\ Merged(mem) /\ PartitionOf(FreeOf(mem), held, reserved)
      /\ \A b \in held : mem.refs[b.pfn] > 0 /\ mem.order[b.pfn] = b.order
      /\ \A p \in Pages : mem.refs[p] > 0 => \E b \in held : b.pfn = p
  BY DEF IInv, Sound
<1>2. FreeBlocks = FreeOf(mem)
  BY <1>1, FreeBlocksAre DEF FreeBlocks
<1>3. FreePages = PagesIn(FreeOf(mem))
  BY <1>2 DEF FreePages, PagesIn
<1>4. TypeOK
  BY <1>1 DEF TypeOK, BlockIds
<1>5. Partition
  BY <1>1, <1>2 DEF Partition, PartitionOf, Aligned, Apart, PagesIn
<1>6. MasksMatchLists
  BY <1>1 DEF MasksMatchLists, ListsMatch
<1>7. CountsFollowHolders
  BY <1>1 DEF CountsFollowHolders
<1>8. Aligned(FreeOf(mem))
  BY <1>1 DEF PartitionOf, Aligned
<1>9. FullyMerged
  <2>1. ASSUME NEW o \in Orders, NEW p \in Pages, ~BlockInvalid(p, o),
               Block(p, o) \subseteq FreePages
        PROVE  \E b \in FreeBlocks : Block(p, o) \subseteq PagesOf(b)
    BY <1>1, <1>2, <1>3, <1>8, <2>1, MergedCovers
  <2> QED
    BY <2>1 DEF FullyMerged
<1> QED
  BY <1>2, <1>3, <1>4, <1>5, <1>6, <1>7, <1>9

\* The scan leaves no two free buddies: it would have taken both as one block.
LEMMA InitSound ==
  ASSUME NEW R \in SUBSET Pages
  PROVE  Sound(InitialMem(R), {}, R)
<1>1. PICK L : L = InitialLists(R) /\ Scanned(R, 0, L)
  BY InitialListsScanned
<1>2. PICK M : M = InitialMem(R)
  OBVIOUS
<1>3. M = [lists |-> L,
           masks |-> [o \in Orders |-> {Index(o, L[o][i]) : i \in DOMAIN L[o]}],
           order |-> [p \in Pages |-> 0],
           refs  |-> [p \in Pages |-> 0]]
  BY <1>1, <1>2 DEF InitialMem
<1>4. /\ L \in [Orders -> Seq(Pages)] /\ \A o \in Orders : IsInjective(L[o])
      /\ \A b \in FreeIn(L) : b.pfn >= 0 /\ b.pfn \notin R /\ b.order = LargestOrder(R, b.pfn)
      /\ Apart(FreeIn(L))
      /\ \A x \in Pages : x >= 0 /\ x \notin R => \E b \in FreeIn(L) : x \in PagesOf(b)
  BY <1>1 DEF Scanned
<1>5. \A o \in Orders : M.masks[o] = {Index(o, p) : p \in ToSet(L[o])}
  <2> TAKE o \in Orders
  <2>1. M.masks[o] = {Index(o, L[o][i]) : i \in DOMAIN L[o]}
    BY <1>3
  <2>2. \A p : p \in ToSet(L[o]) <=> \E i \in DOMAIN L[o] : p = L[o][i]
    BY DEF ToSet
  <2> QED
    BY <2>1, <2>2
<1>6. \A o \in Orders : ToSet(L[o]) \subseteq Pages
  BY <1>4, ListElems
<1>7. M \in Mems
  <2>1. M.masks \in [Orders -> SUBSET Pages]
    <3>1. \A o \in Orders : M.masks[o] \subseteq Pages
      <4> TAKE o \in Orders
      <4>1. \A p \in ToSet(L[o]) : Index(o, p) \in Pages
        BY <1>6, NumbersAre, IndexInPages
      <4> QED
        BY <1>5, <4>1
    <3> QED
      BY <1>3, <3>1
  <2>2. 0 \in Orders /\ 0 \in 0..(RefMod - 1)
    BY NumbersAre
  <2>3. /\ M = [lists |-> M.lists, masks |-> M.masks, order |-> M.order, refs |-> M.refs]
        /\ M.lists = L /\ M.order = [p \in Pages |-> 0] /\ M.refs = [p \in Pages |-> 0]
    BY <1>3
  <2> QED
    BY <1>4, <2>1, <2>2, <2>3 DEF Mems
<1>8. M.lists = L /\ M.refs = [p \in Pages |-> 0]
  BY <1>3
<1>9. FreeOf(M) = FreeIn(L)
  BY <1>8 DEF FreeOf, FreeIn
<1>10. ListsMatch(M)
  BY <1>4, <1>5, <1>8 DEF ListsMatch
<1>11. ASSUME NEW b \in FreeIn(L)
       PROVE  /\ b \in BlockIds /\ FitsUnreserved(R, b.pfn, b.order)
              /\ \A o \in Orders : FitsUnreserved(R, b.pfn, o) => o <= b.order
              /\ ~BlockInvalid(b.pfn, b.order) /\ PagesOf(b) \subseteq Pages \ R
  <2>1. b \in BlockIds /\ b.pfn \in Pages /\ b.pfn \notin R /\ b.order = LargestOrder(R, b.pfn)
    BY <1>4 DEF FreeIn, BlockIds
  <2>2. /\ FitsUnreserved(R, b.pfn, b.order)
        /\ \A o \in Orders : FitsUnreserved(R, b.pfn, o) => o <= b.order
    BY <2>1, LargestOrderIs
  <2> QED
    BY <2>1, <2>2 DEF FitsUnreserved, PagesOf
<1>12. PartitionOf(FreeOf(M), {}, R)
  <2>1. Aligned(FreeIn(L))
    BY <1>11 DEF Aligned
  <2>2. PagesIn(FreeIn(L)) = Pages \ R
    <3>1. \A x \in Pages : x >= 0
      BY NumbersAre
    <3>2. \A x \in Pages \ R : \E b \in FreeIn(L) : x \in PagesOf(b)
      BY <1>4, <3>1
    <3> QED
      BY <1>11, <3>2 DEF PagesIn
  <2> QED
    BY <1>4, <1>9, <2>1, <2>2 DEF PartitionOf
<1>13. Merged(M)
  <2> SUFFICES ASSUME NEW j \in 0..(MaxOrder - 2), NEW p \in ToSet(M.lists[j]),
                      Buddy(p, j) \in ToSet(M.lists[j])
               PROVE  FALSE
    BY DEF Merged
  <2>1. j \in Nat /\ j \in Orders /\ j + 1 \in Orders /\ j + 1 \in Nat /\ ~(j + 1 <= j)
    BY NumbersAre DEF Orders
  <2>2. PICK b \in FreeIn(L) : b = [pfn |-> p, order |-> j]
    BY <1>7, <1>9, <2>1, FreeOfIs
  <2>3. PICK c \in FreeIn(L) : c = [pfn |-> Buddy(p, j), order |-> j]
    BY <1>7, <1>9, <2>1, FreeOfIs
  <2>4. p \in Nat /\ p \in Pages /\ ~BlockInvalid(p, j)
    BY <1>11, <2>2, NumbersAre DEF BlockIds
  <2>5. AlignDown(p, j) = p
    BY <2>1, <2>4, BuddyIs
  <2>6. Around(p, j + 1) \subseteq Pages \ R
    <3>1. Around(p, j) = PagesOf(b) /\ BuddyBlock(p, j) = PagesOf(c)
      BY <2>2, <2>3, <2>5 DEF Around, BuddyBlock, BuddyAt, PagesOf
    <3>2. Around(p, j + 1) = Around(p, j) \cup BuddyBlock(p, j)
      BY <2>1, <2>4, AroundNext
    <3> QED
      BY <1>11, <3>1, <3>2
  <2>7. PICK d : d = AlignDown(p, j + 1) /\ (d = p \/ d = Buddy(p, j))
    <3>1. LET a == AlignDown(p, j)
              e == AlignDown(p, j + 1)
          IN  \/ a = e /\ Buddy(a, j) = e + Size(j)
              \/ a = e + Size(j) /\ Buddy(a, j) = e
      BY <2>1, <2>4, AlignDownHalves
    <3> QED
      BY <2>5, <3>1
  <2>8. FitsUnreserved(R, d, j + 1)
    <3>1. ~BlockInvalid(d, j + 1)
      BY <2>1, <2>4, <2>7, AlignDownIs
    <3> QED
      BY <2>6, <2>7, <3>1 DEF FitsUnreserved, Around
  <2>9. \A e \in FreeIn(L) : e.pfn = d => j + 1 <= e.order
    BY <1>11, <2>1, <2>8
  <2>10. CASE d = p
    <3>1. b.pfn = d /\ b.order = j
      BY <2>2, <2>10
    <3> QED
      BY <2>1, <2>9, <3>1
  <2>11. CASE d = Buddy(p, j)
    <3>1. c.pfn = d /\ c.order = j
      BY <2>3, <2>11
    <3> QED
      BY <2>1, <2>9, <3>1
  <2> QED
    BY <2>7, <2>10, <2>11
<1>14. \A p \in Pages : ~(M.refs[p] > 0)
  BY <1>8
<1> QED
  BY <1>2, <1>7, <1>10, <1>12, <1>13, <1>14 DEF Sound

(***************************************************************************)
(* The steps.                                                              *)
(***************************************************************************)
\* What a step does to the callers' blocks and to the free pages.
Hands(b) ==
  /\ b \in BlockIds /\ ~BlockInvalid(b.pfn, b.order) /\ held' = held \cup {b}
  /\ PagesOf(b) \subseteq PagesIn(FreeOf(mem))

TakesBack(b) == b \in held /\ held' = held \ {b}

LEMMA AllocStep ==
  ASSUME IInv, NEW o \in Orders, PageAlloc(o)
  PROVE  IInv' /\ \E b : Hands(b)
<1>1. PICK b : b = [pfn |-> AllocPfn(mem, o), order |-> o]
  OBVIOUS
<1>2. /\ CanAlloc(mem, o) /\ mem' = AfterAlloc(mem, o)
      /\ held' = held \cup {b} /\ reserved' = reserved
  BY <1>1 DEF PageAlloc
<1>3. /\ Sound(AfterAlloc(mem, o), held \cup {b}, reserved)
      /\ b \in BlockIds /\ ~BlockInvalid(b.pfn, b.order)
      /\ PagesOf(b) \subseteq PagesIn(FreeOf(mem))
  BY <1>1, <1>2, AllocSound DEF IInv
<1> QED
  BY <1>2, <1>3 DEF IInv, Hands

LEMMA FreeStep ==
  ASSUME IInv, NEW b \in held, PageFree(b)
  PROVE  IInv' /\ TakesBack(b)
<1>1. mem' = AfterFree(mem, b.pfn) /\ held' = held \ {b} /\ reserved' = reserved
  BY DEF PageFree
<1>2. Sound(AfterFree(mem, b.pfn), held \ {b}, reserved)
  <2>1. /\ mem \in Mems /\ held \subseteq BlockIds /\ ListsMatch(mem) /\ Merged(mem)
        /\ PartitionOf(FreeOf(mem), held, reserved) /\ mem.order[b.pfn] = b.order
        /\ Counted(mem, held \ {b}) /\ Traced(mem, held)
    BY DEF IInv, Sound, Counted, Traced
  <2> QED
    BY <2>1, FreeSound
<1> QED
  BY <1>1, <1>2 DEF IInv, TakesBack

LEMMA HeldFacts ==
  ASSUME IInv, NEW b \in held
  PROVE  /\ mem.refs[b.pfn] \in 1..(RefMod - 1) /\ ~RefusesFree(mem, b.pfn)
         /\ mem \in Mems /\ b.pfn \in Pages
<1>1. /\ mem \in Mems /\ held \subseteq BlockIds /\ ListsMatch(mem)
      /\ PartitionOf(FreeOf(mem), held, reserved)
      /\ mem.refs[b.pfn] > 0 /\ mem.order[b.pfn] = b.order
  BY DEF IInv, Sound
<1>2. b.pfn \in Pages /\ ~RefusesFree(mem, b.pfn)
  BY <1>1, HeldIsNotFree
<1>3. mem.refs[b.pfn] \in 0..(RefMod - 1)
  BY <1>1, <1>2 DEF Mems
<1>4. mem.refs[b.pfn] \in 1..(RefMod - 1)
  BY <1>1, <1>3, NumbersAre
<1> QED
  BY <1>1, <1>2, <1>4

LEMMA IncStep ==
  ASSUME IInv, NEW b \in held, RefInc(b)
  PROVE  IInv' /\ held' = held
<1>1. PICK r \in 1..(RefMod - 1) : r = mem.refs[b.pfn]
  BY HeldFacts
<1>2. r < MaxRefs /\ mem' = AfterRefInc(mem, b.pfn) /\ held' = held /\ reserved' = reserved
  BY <1>1 DEF RefInc
<1>3. (r + 1) % RefMod = r + 1 /\ r + 1 \in 0..(RefMod - 1) /\ r + 1 > 0
  BY <1>2, NumbersAre, BuddyRefsAssumption
<1>4. mem' = [mem EXCEPT !.refs[b.pfn] = r + 1]
  BY <1>1, <1>2, <1>3, HeldFacts DEF AfterRefInc
<1>5. Sound(mem, held, reserved) /\ reserved \subseteq Pages
  BY DEF IInv
<1>6. PICK n \in 0..(RefMod - 1) : n = r + 1 /\ n > 0
  BY <1>3
<1>7. PICK N : N = [mem EXCEPT !.refs[b.pfn] = n]
  OBVIOUS
<1>8. Sound(N, held, reserved)
  BY <1>5, <1>6, <1>7, RefSound DEF Recounted
<1> QED
  BY <1>2, <1>4, <1>5, <1>6, <1>7, <1>8 DEF IInv

LEMMA DecStep ==
  ASSUME IInv, NEW b \in held, RefDec(b)
  PROVE  IInv' /\ (held' = held \/ TakesBack(b))
<1>1. PICK r \in 1..(RefMod - 1) : r = mem.refs[b.pfn]
  BY HeldFacts
<1>2. /\ mem' = AfterRefDec(mem, b.pfn) /\ reserved' = reserved
      /\ held' = IF r = 1 THEN held \ {b} ELSE held
  BY <1>1 DEF RefDec
<1>3. (r - 1) % RefMod = r - 1 /\ r - 1 \in 0..(RefMod - 1)
  BY NumbersAre
<1>4. PICK n \in 0..(RefMod - 1) : n = r - 1
  BY <1>3
<1>5. PICK N : N = [mem EXCEPT !.refs[b.pfn] = n]
  OBVIOUS
<1>6. Sound(mem, held, reserved) /\ reserved \subseteq Pages
  BY DEF IInv
<1>7. /\ N \in Mems /\ FreeOf(N) = FreeOf(mem) /\ ListsMatch(N) /\ Merged(N)
      /\ Traced(N, held) /\ Counted(N, held \ {b})
      /\ N.order[b.pfn] = b.order /\ N.refs[b.pfn] = n
      /\ n > 0 => Sound(N, held, reserved)
  <2>1. Recounted(mem, N, held, reserved, b, n)
    BY <1>5, <1>6, RefSound
  <2> QED
    BY <2>1 DEF Recounted
<1>8. mem' = IF n = 0 THEN AfterFree(N, b.pfn) ELSE N
  <2>1. ~RefusesFree(mem, b.pfn)
    BY HeldFacts
  <2>2. N = [mem EXCEPT !.refs[b.pfn] = (@ - 1) % RefMod]
    BY <1>1, <1>3, <1>4, <1>5
  <2> QED
    BY <1>2, <1>7, <2>1, <2>2 DEF AfterRefDec
<1>9. CASE r = 1
  <2>1. mem' = AfterFree(N, b.pfn) /\ held' = held \ {b}
    BY <1>2, <1>4, <1>8, <1>9
  <2>2. held \subseteq BlockIds /\ PartitionOf(FreeOf(N), held, reserved)
    BY <1>6, <1>7 DEF Sound
  <2>3. Sound(AfterFree(N, b.pfn), held \ {b}, reserved)
    BY <1>7, <2>2, FreeSound
  <2> QED
    BY <1>2, <1>6, <2>1, <2>3 DEF IInv, TakesBack
<1>10. CASE r # 1
  <2>1. mem' = N /\ held' = held /\ n > 0
    BY <1>2, <1>4, <1>8, <1>10
  <2> QED
    BY <1>2, <1>6, <1>7, <2>1 DEF IInv
<1> QED
  BY <1>9, <1>10

LEMMA InitInv == Init => IInv
BY InitSound DEF Init, IInv

LEMMA StepInv ==
  ASSUME IInv, [Next]_vars
  PROVE  /\ IInv'
         /\ \/ UNCHANGED <<held, reserved>>
            \/ reserved' = reserved /\ \E b : Hands(b) \/ TakesBack(b)
<1>1. ASSUME NEW o \in Orders, PageAlloc(o)
      PROVE  IInv' /\ reserved' = reserved /\ \E b : Hands(b)
  BY <1>1, AllocStep DEF PageAlloc
<1>2. ASSUME NEW b \in held, PageFree(b)
      PROVE  IInv' /\ reserved' = reserved /\ TakesBack(b)
  BY <1>2, FreeStep DEF PageFree
<1>3. ASSUME NEW b \in held, RefInc(b) PROVE IInv' /\ UNCHANGED <<held, reserved>>
  BY <1>3, IncStep DEF RefInc
<1>4. ASSUME NEW b \in held, RefDec(b)
      PROVE  IInv' /\ reserved' = reserved /\ (held' = held \/ TakesBack(b))
  BY <1>4, DecStep DEF RefDec
<1>5. CASE UNCHANGED vars
  BY <1>5 DEF IInv, vars
<1> QED
  BY <1>1, <1>2, <1>3, <1>4, <1>5 DEF Next

LEMMA Invariance == Spec => []IInv
<1>1. IInv /\ [Next]_vars => IInv'
  BY StepInv
<1> QED
  BY InitInv, <1>1, PTL DEF Spec

(***************************************************************************)
(* The theorems.                                                           *)
(***************************************************************************)
\* Every variable keeps its type, from every reservation and after any sequence of
\* page_alloc, page_free and page_refcount_update.
THEOREM BuddyTypeCorrect == Spec => []TypeOK
<1>1. IInv => TypeOK
  BY InvImplies
<1> QED
  BY Invariance, <1>1, PTL

\* No page is handed out twice and none is lost (page_alloc, page_free): the free and the
\* held blocks are aligned, disjoint, and together the unreserved memory.
THEOREM BuddyPartition == Spec => []Partition
<1>1. IInv => Partition
  BY InvImplies
<1> QED
  BY Invariance, <1>1, PTL

\* The bitmap that page_free consults and the lists that page_alloc takes from agree.
THEOREM BuddyMasksMatchLists == Spec => []MasksMatchLists
<1>1. IInv => MasksMatchLists
  BY InvImplies
<1> QED
  BY Invariance, <1>1, PTL

\* Free memory is fully merged, from the scan of buddy_init on: page_alloc returns NULL
\* only when no aligned block of the order is free.
THEOREM BuddyFullyMerged == Spec => []FullyMerged
<1>1. IInv => FullyMerged
  BY InvImplies
<1> QED
  BY Invariance, <1>1, PTL

\* The counts of page_refcount_update and the orders of pfn_order are those of the held
\* blocks.
THEOREM BuddyCountsFollowHolders == Spec => []CountsFollowHolders
<1>1. IInv => CountsFollowHolders
  BY InvImplies
<1> QED
  BY Invariance, <1>1, PTL

(***************************************************************************)
(* The allocator implements PagePool.                                      *)
(***************************************************************************)
LEMMA SoundFree ==
  ASSUME NEW M, NEW H, NEW R, Sound(M, H, R)
  PROVE  /\ PagesIn(FreeOf(M)) = (Pages \ R) \ PagesIn(H)
         /\ M \in Mems /\ H \subseteq BlockIds /\ Apart(H) /\ Aligned(H)
         /\ PagesIn(H) \subseteq Pages \ R
<1>1. M \in Mems /\ H \subseteq BlockIds /\ PartitionOf(FreeOf(M), H, R)
  BY DEF Sound
<1>2. PagesIn(FreeOf(M)) = (Pages \ R) \ PagesIn(H)
  BY <1>1, FreeAreTheRest
<1>3. Apart(H) /\ Aligned(H) /\ PagesIn(H) \subseteq Pages \ R
  BY <1>1 DEF PartitionOf, Apart, Aligned, PagesIn
<1> QED
  BY <1>1, <1>2, <1>3

LEMMA PoolWords ==
  /\ \A b : Pool!Extent(b) = PagesOf(b)
  /\ \A b \in BlockIds : ~BlockInvalid(b.pfn, b.order) => b \in Pool!Blocks
BY DEF Pool!Extent, Pool!Blocks, Pool!Pages, Pool!Orders, Pages, Orders, PagesOf, Block, Size,
       BlockIds, BlockInvalid

LEMMA PoolStep ==
  ASSUME IInv, [Next]_vars
  PROVE  [Pool!Next]_<<FreePages, held>>
<1>1. /\ IInv'
      /\ \/ UNCHANGED <<held, reserved>>
         \/ reserved' = reserved /\ \E b : Hands(b) \/ TakesBack(b)
  BY StepInv
<1>2. Sound(mem, held, reserved) /\ Sound(mem', held', reserved')
  BY <1>1 DEF IInv
<1>3. PICK U, U2, R : /\ U = FreePages /\ U2 = FreePages' /\ R = reserved /\ reserved' = R
                      /\ U = (Pages \ R) \ PagesIn(held)
                      /\ U2 = (Pages \ R) \ PagesIn(held')
  <2>1. reserved' = reserved
    BY <1>1
  <2>2. FreePages = PagesIn(FreeOf(mem))
    BY InvImplies
  <2>3. FreePages' = PagesIn(FreeOf(mem'))
    <3>1. mem' \in Mems
      BY <1>2, SoundFree
    <3>2. FreeBlocks' = FreeOf(mem')
      BY <3>1, FreeBlocksAre DEF FreeBlocks
    <3> QED
      BY <3>2 DEF FreePages, PagesIn
  <2>4. PagesIn(FreeOf(mem)) = (Pages \ reserved) \ PagesIn(held)
    BY <1>2, SoundFree
  <2>5. PagesIn(FreeOf(mem')) = (Pages \ reserved') \ PagesIn(held')
    BY <1>2, SoundFree
  <2> QED
    BY <2>1, <2>2, <2>3, <2>4, <2>5
<1>4. /\ held \subseteq BlockIds /\ Apart(held) /\ Aligned(held)
      /\ PagesIn(held) \subseteq Pages \ R
  BY <1>2, <1>3, SoundFree
<1>5. CASE UNCHANGED <<held, reserved>>
  BY <1>3, <1>5
<1>6. ASSUME NEW b, Hands(b) PROVE Pool!Next
  <2>1. b \in Pool!Blocks /\ Pool!Extent(b) = PagesOf(b)
    BY <1>6, PoolWords DEF Hands
  <2>2. held' = held \cup {b} /\ PagesOf(b) \subseteq U
    BY <1>3, <1>6, InvImplies DEF Hands
  <2>3. U2 = U \ PagesOf(b)
    BY <1>3, <2>2 DEF PagesIn
  <2>4. Pool!Hand(b)
    BY <1>3, <2>1, <2>2, <2>3 DEF Pool!Hand
  <2> QED
    BY <2>1, <2>4 DEF Pool!Next
<1>7. ASSUME NEW b, TakesBack(b) PROVE Pool!Next
  <2>1. b \in held /\ held' = held \ {b}
    BY <1>7 DEF TakesBack
  <2>2. b \in Pool!Blocks /\ Pool!Extent(b) = PagesOf(b)
    BY <1>4, <2>1, PoolWords DEF Aligned
  <2>3. U2 = U \cup PagesOf(b)
    BY <1>3, <1>4, <2>1 DEF PagesIn, Apart
  <2>4. Pool!TakeBack(b)
    BY <1>3, <2>1, <2>2, <2>3 DEF Pool!TakeBack
  <2> QED
    BY <2>2, <2>4 DEF Pool!Next
<1> QED
  BY <1>1, <1>5, <1>6, <1>7

\* To its callers the allocator is a set of free pages, out of which aligned blocks are
\* handed out and given back whole: every step of the buddy system is a step of PagePool
\* or changes nothing that they can see.
THEOREM BuddyImplementsPagePool == Spec => ImplementsPagePool
<1>1. Init => Pool!Init
  <2> SUFFICES ASSUME Init PROVE Pool!Init
    OBVIOUS
  <2>1. IInv /\ held = {}
    BY InitInv DEF Init
  <2>2. FreePages = PagesIn(FreeOf(mem)) /\ Sound(mem, held, reserved)
    BY <2>1, InvImplies DEF IInv
  <2>3. FreePages \subseteq Pages
    BY <2>2, SoundFree
  <2> QED
    BY <2>1, <2>3 DEF Pool!Init, Pool!Pages, Pages
<1>2. IInv /\ [Next]_vars => [Pool!Next]_<<FreePages, held>>
  BY PoolStep
<1> QED
  BY Invariance, <1>1, <1>2, PTL DEF Spec, ImplementsPagePool, Pool!Spec

(***************************************************************************)
(* What the free lists hold.                                               *)
(***************************************************************************)
LEMMA FreePagesAre ==
  ASSUME NEW M \in Mems
  PROVE  FreePagesOf(M) = PagesIn(FreeOf(M))
<1>1. \A o \in Orders : \A p : p \in ToSet(M.lists[o]) <=> [pfn |-> p, order |-> o] \in FreeOf(M)
  BY FreeOfIs
<1>2. \A b \in FreeOf(M) : /\ b.order \in Orders /\ b.pfn \in ToSet(M.lists[b.order])
                           /\ PagesOf(b) = Block(b.pfn, b.order)
  BY DEF FreeOf, BlockIds, PagesOf
<1>3. ASSUME NEW x \in FreePagesOf(M) PROVE x \in PagesIn(FreeOf(M))
  <2>1. PICK o \in Orders : \E p \in ToSet(M.lists[o]) : x \in Block(p, o)
    BY <1>3 DEF FreePagesOf
  <2>2. PICK p \in ToSet(M.lists[o]) : x \in Block(p, o)
    BY <2>1
  <2>3. x \in PagesOf([pfn |-> p, order |-> o])
    BY <2>2 DEF PagesOf
  <2> QED
    BY <1>1, <2>2, <2>3 DEF PagesIn
<1>4. ASSUME NEW x \in PagesIn(FreeOf(M)) PROVE x \in FreePagesOf(M)
  <2>1. PICK b \in FreeOf(M) : x \in PagesOf(b)
    BY <1>4 DEF PagesIn
  <2> QED
    BY <1>2, <2>1 DEF FreePagesOf
<1> QED
  BY <1>3, <1>4

(***************************************************************************)
(* The allocator while all its blocks are single pages.                    *)
(***************************************************************************)
Single(p) == [pfn |-> p, order |-> 0]

Singles(K) == {Single(p) : p \in K}

\* The free blocks of M and the pages K are the memory, as lists and bitmaps say.
Books(M, K) ==
  /\ M \in Mems /\ K \subseteq Pages
  /\ ListsMatch(M) /\ Merged(M)
  /\ PartitionOf(FreeOf(M), Singles(K), {})
  /\ \A p \in K : M.order[p] = 0

LEMMA SinglesAre ==
  ASSUME NEW K \in SUBSET Pages
  PROVE  /\ Singles(K) \subseteq BlockIds
         /\ \A p : Single(p) \in Singles(K) <=> p \in K
         /\ \A p \in Pages : PagesOf(Single(p)) = {p}
         /\ PagesIn(Singles(K)) = K
<1>1. \A p, q : Single(p) = Single(q) => p = q
  BY DEF Single
<1>2. Singles(K) \subseteq BlockIds
  BY NumbersAre DEF Singles, Single, BlockIds
<1>3. \A p : Single(p) \in Singles(K) <=> p \in K
  BY <1>1 DEF Singles
<1>4. ASSUME NEW p \in Pages PROVE PagesOf(Single(p)) = {p}
  <2>1. Size(0) = 1 /\ p \in Int
    BY SizeZero, NumbersAre
  <2> QED
    BY <2>1 DEF PagesOf, Single, Block
<1>5. PagesIn(Singles(K)) = K
  BY <1>4 DEF PagesIn, Singles
<1> QED
  BY <1>2, <1>3, <1>4, <1>5

LEMMA BooksAlloc ==
  ASSUME NEW M, NEW K, Books(M, K), CanAlloc(M, 0)
  PROVE  LET p == AllocPfn(M, 0)
             N == AfterAlloc(M, 0)
         IN  /\ p \in Pages \ K /\ Books(N, K \cup {p})
             /\ N.refs = [M.refs EXCEPT ![p] = 1]
<1>1. /\ M \in Mems /\ K \subseteq Pages /\ ListsMatch(M) /\ Merged(M)
      /\ PartitionOf(FreeOf(M), Singles(K), {})
      /\ \A q \in K : M.order[q] = 0
  BY DEF Books
<1>2. Aligned(FreeOf(M)) /\ FreeOf(M) \subseteq BlockIds
  BY <1>1 DEF PartitionOf, Aligned, FreeOf
<1>3. PICK k, p, N : k = SourceOrder(M, 0) /\ p = AllocPfn(M, 0) /\ N = AfterAlloc(M, 0)
  OBVIOUS
<1>4. /\ k \in 0..(MaxOrder - 1) /\ p \in Pages /\ ~BlockInvalid(p, 0)
      /\ Whole(p, k) \in FreeOf(M)
      /\ N \in Mems /\ ListsMatch(N) /\ Merged(N)
      /\ FreeOf(N) = (FreeOf(M) \ {Whole(p, k)}) \cup Buddies(p, 0, k)
      /\ N.order = [M.order EXCEPT ![p] = 0] /\ N.refs = [M.refs EXCEPT ![p] = 1]
  BY <1>1, <1>2, <1>3, NumbersAre, AllocEffect
<1>5. k \in Orders /\ 0 <= k /\ 0 \in Orders
  BY <1>4, NumbersAre DEF Orders
<1>6. Singles(K) \subseteq BlockIds /\ PagesOf(Single(p)) = {p} /\ PagesIn(Singles(K)) = K
  BY <1>1, <1>4, SinglesAre
<1>7. PartitionOf(FreeOf(N), Singles(K) \cup {Single(p)}, {})
  <2>1. PICK F \in SUBSET BlockIds, H \in SUBSET BlockIds : F = FreeOf(M) /\ H = Singles(K)
    BY <1>2, <1>6
  <2>2. PartitionOf((F \ {Whole(p, k)}) \cup Buddies(p, 0, k), H \cup {[pfn |-> p, order |-> 0]}, {})
    BY <1>1, <1>4, <1>5, <2>1, AllocPartition
  <2> QED
    BY <1>4, <2>1, <2>2 DEF Single
<1>8. p \notin K
  <2>1. p \in PagesOf(Whole(p, k))
    <3>1. PagesIn({[pfn |-> p, order |-> 0]} \cup Buddies(p, 0, k)) = PagesOf(Whole(p, k))
      BY <1>4, <1>5, PartsOfWhole
    <3>2. p \in PagesOf(Single(p))
      BY <1>6
    <3> QED
      BY <3>1, <3>2 DEF PagesIn, Single
  <2>2. PagesIn(FreeOf(M)) = Pages \ K
    BY <1>1, <1>6, FreeAreTheRest
  <2> QED
    BY <1>4, <2>1, <2>2 DEF PagesIn
<1>9. Singles(K \cup {p}) = Singles(K) \cup {Single(p)}
  BY DEF Singles
<1>10. \A q \in K \cup {p} : N.order[q] = 0
  <2>1. M.order \in [Pages -> Orders]
    BY <1>1 DEF Mems
  <2> QED
    BY <1>1, <1>4, <2>1
<1>11. Books(N, K \cup {p})
  BY <1>1, <1>4, <1>7, <1>9, <1>10 DEF Books
<1> QED
  BY <1>3, <1>4, <1>8, <1>11

LEMMA BooksKept ==
  ASSUME NEW M, NEW K, Books(M, K), NEW p \in K
  PROVE  /\ ~RefusesFree(M, p) /\ ~BlockInvalid(p, 0) /\ p \in Pages /\ 0 \in Orders
         /\ \A c \in FreeOf(M) : p \notin PagesOf(c)
<1>1. Singles(K) \subseteq BlockIds /\ Single(p) \in Singles(K) /\ p \in Pages
  BY SinglesAre DEF Books
<1>2. PICK b \in Singles(K) : b = Single(p) /\ b.pfn = p /\ b.order = 0
  BY <1>1 DEF Single
<1>3. /\ M \in Mems /\ ListsMatch(M) /\ PartitionOf(FreeOf(M), Singles(K), {})
      /\ M.order[b.pfn] = b.order
  BY <1>2 DEF Books
<1> QED
  BY <1>1, <1>2, <1>3, HeldIsNotFree

LEMMA BooksFree ==
  ASSUME NEW M, NEW K, Books(M, K), NEW p \in K
  PROVE  LET N == AfterFree(M, p)
         IN  Books(N, K \ {p}) /\ N.refs = [M.refs EXCEPT ![p] = 0]
<1>1. /\ M \in Mems /\ K \subseteq Pages /\ ListsMatch(M) /\ Merged(M)
      /\ PartitionOf(FreeOf(M), Singles(K), {})
      /\ \A q \in K : M.order[q] = 0
  BY DEF Books
<1>2. Aligned(FreeOf(M)) /\ FreeOf(M) \subseteq BlockIds
  BY <1>1 DEF PartitionOf, Aligned, FreeOf
<1>3. PICK m, N : m = StopOrder(M, p) /\ N = AfterFree(M, p)
  OBVIOUS
<1>4. /\ ~RefusesFree(M, p) /\ ~BlockInvalid(p, 0) /\ p \in Pages /\ 0 \in Orders
      /\ M.order[p] = 0 /\ \A c \in FreeOf(M) : p \notin PagesOf(c)
  BY <1>1, BooksKept
<1>5. /\ m \in 0..(MaxOrder - 1)
      /\ Buddies(p, 0, m) \subseteq FreeOf(M)
      /\ N \in Mems /\ ListsMatch(N) /\ Merged(N)
      /\ FreeOf(N) = (FreeOf(M) \ Buddies(p, 0, m)) \cup {Whole(p, m)}
      /\ N.order = M.order /\ N.refs = [M.refs EXCEPT ![p] = 0]
  BY <1>1, <1>2, <1>3, <1>4, FreeEffect
<1>6. m \in Orders /\ 0 <= m
  BY <1>5, NumbersAre DEF Orders
<1>7. PartitionOf(FreeOf(N), Singles(K) \ {Single(p)}, {})
  <2>1. PICK F \in SUBSET BlockIds, H \in SUBSET BlockIds : F = FreeOf(M) /\ H = Singles(K)
    BY <1>1, <1>2, SinglesAre
  <2>2. [pfn |-> p, order |-> 0] \in H
    BY <2>1, <1>1, SinglesAre DEF Single
  <2>3. PartitionOf((F \ Buddies(p, 0, m)) \cup {Whole(p, m)},
                    H \ {[pfn |-> p, order |-> 0]}, {})
    BY <1>1, <1>4, <1>5, <1>6, <2>1, <2>2, FreePartition
  <2> QED
    BY <1>5, <2>1, <2>3 DEF Single
<1>8. Singles(K \ {p}) = Singles(K) \ {Single(p)}
  BY <1>1, SinglesAre DEF Singles, Single
<1>9. Books(N, K \ {p})
  BY <1>1, <1>5, <1>7, <1>8 DEF Books
<1> QED
  BY <1>3, <1>5, <1>9

LEMMA BooksCount ==
  ASSUME NEW M, NEW K, Books(M, K), NEW r \in [Pages -> 0..(RefMod - 1)]
  PROVE  Books([M EXCEPT !.refs = r], K)
<1>1. PICK N : N = [M EXCEPT !.refs = r]
  OBVIOUS
<1>2. /\ N \in Mems /\ N.lists = M.lists /\ N.masks = M.masks /\ N.order = M.order
  BY <1>1 DEF Books, Mems
<1>3. FreeOf(N) = FreeOf(M) /\ ListsMatch(N) /\ Merged(N)
  BY <1>2 DEF Books, FreeOf, ListsMatch, Merged
<1> QED
  BY <1>1, <1>2, <1>3 DEF Books

\* A set listed by SetToSeq is listed completely and without repetition.
LEMMA ListedOnce ==
  ASSUME NEW P, IsFiniteSet(P)
  PROVE  /\ SetToSeq(P) \in [1..Cardinality(P) -> P] /\ IsInjective(SetToSeq(P))
         /\ \A p \in P : \E i \in 1..Cardinality(P) : SetToSeq(P)[i] = p
         /\ Cardinality(P) \in Nat
<1> DEFINE n == Cardinality(P)
           D == 1..n
<1>1. n \in Nat /\ ExistsBijection(D, P)
  BY FS_CardinalityType
<1>2. PICK g \in Bijection(D, P) : TRUE
  BY <1>1 DEF ExistsBijection
<1>3. g \in [D -> P] /\ IsInjective(g)
  BY <1>2 DEF Bijection, Injection, IsInjective
<1>4. \E f \in [D -> P] : IsInjective(f)
  BY <1>3
<1>5. PICK s \in [D -> P] : s = SetToSeq(P) /\ IsInjective(s)
  <2>1. SetToSeq(P) \in [D -> P] /\ IsInjective(SetToSeq(P))
    BY <1>4 DEF SetToSeq
  <2> QED
    BY <2>1
<1>6. s \in Injection(D, P)
  BY <1>5 DEF IsInjective, Injection
<1>7. Cardinality(D) = n
  BY <1>1, FS_Interval
<1>8. s \in Surjection(D, P)
  BY <1>6, <1>7, FS_Injection
<1>9. \A p \in P : \E i \in D : s[i] = p
  BY <1>8 DEF Surjection
<1> QED
  BY <1>1, <1>5, <1>9

\* page_refcount_update(p, 1) for each page of a set counts each of them once.
LEMMA SharedCounts ==
  ASSUME NEW M, NEW K, Books(M, K), NEW P \in SUBSET K,
         \A p \in P : M.refs[p] + 1 < RefMod
  PROVE  FoldLeft(AfterRefInc, M, SetToSeq(P)) =
           [M EXCEPT !.refs = [q \in Pages |-> IF q \in P THEN M.refs[q] + 1 ELSE M.refs[q]]]
<1> DEFINE n == Cardinality(P)
           D == 1..n
           Bumped(Q) == [M EXCEPT !.refs =
                           [q \in Pages |-> IF q \in Q THEN M.refs[q] + 1 ELSE M.refs[q]]]
<1>1. IsFiniteSet(P) /\ P \subseteq Pages
  <2>1. IsFiniteSet(Pages)
    BY NumbersAre, FS_Interval DEF Pages
  <2> QED
    BY <2>1, FS_Subset DEF Books
<1>2. PICK s \in [D -> P] : /\ s = SetToSeq(P) /\ IsInjective(s) /\ n \in Nat
                            /\ \A p \in P : \E i \in D : s[i] = p
  BY <1>1, ListedOnce
<1> DEFINE Next1(f, S) ==
             IF S = {} THEN M ELSE AfterRefInc(f[S \ {Max(S)}], s[Max(S)])
           Fold == CHOOSE f : f = [S \in SUBSET (DOMAIN s) |-> Next1(f, S)]
<1>3. FoldLeft(AfterRefInc, M, SetToSeq(P)) = Fold[DOMAIN s]
  <2>1. SetToSeq(P) = s
    BY <1>2
  <2>2. FoldLeft(AfterRefInc, M, s) = Fold[DOMAIN s]
    BY DEF FoldLeft, MapThenFoldSet
  <2> QED
    BY <2>1, <2>2
<1> HIDE DEF Bumped
<1>4. ASSUME NEW Q \in SUBSET P, NEW p \in P \ Q
      PROVE  AfterRefInc(Bumped(Q), p) = Bumped(Q \cup {p})
  <2>1. M \in Mems /\ p \in Pages /\ p \in K /\ M.refs[p] \in 0..(RefMod - 1)
    BY <1>1 DEF Books, Mems
  <2>2. Books(Bumped(Q), K)
    <3>1. [q \in Pages |-> IF q \in Q THEN M.refs[q] + 1 ELSE M.refs[q]]
            \in [Pages -> 0..(RefMod - 1)]
      <4>1. \A q \in Pages : M.refs[q] \in 0..(RefMod - 1)
        BY <2>1 DEF Mems
      <4>2. \A q \in Q : M.refs[q] + 1 \in 0..(RefMod - 1)
        BY <1>1, <4>1, NumbersAre
      <4> QED
        BY <4>1, <4>2
    <3> QED
      BY <3>1, BooksCount DEF Bumped
  <2>3. ~RefusesFree(Bumped(Q), p)
    BY <2>1, <2>2, BooksKept
  <2>4. (M.refs[p] + 1) % RefMod = M.refs[p] + 1
    BY <2>1, NumbersAre
  <2>5. Bumped(Q).refs = [q \in Pages |-> IF q \in Q THEN M.refs[q] + 1 ELSE M.refs[q]]
    BY <2>1 DEF Bumped, Mems
  <2>6. AfterRefInc(Bumped(Q), p) = [Bumped(Q) EXCEPT !.refs[p] = M.refs[p] + 1]
    BY <2>1, <2>3, <2>4, <2>5 DEF AfterRefInc
  <2>7. [Bumped(Q).refs EXCEPT ![p] = M.refs[p] + 1] =
          [q \in Pages |-> IF q \in Q \cup {p} THEN M.refs[q] + 1 ELSE M.refs[q]]
    BY <2>5
  <2>8. [Bumped(Q) EXCEPT !.refs[p] = M.refs[p] + 1] = Bumped(Q \cup {p})
    BY <2>1, <2>5, <2>7 DEF Bumped, Mems
  <2> QED
    BY <2>6, <2>8
<1> DEFINE Image(S) == {s[i] : i \in S}
           g == [S \in SUBSET (DOMAIN s) |-> Bumped(Image(S))]
<1>5. DOMAIN s = D
  OBVIOUS
<1>6. ASSUME NEW S \in SUBSET D, S # {}
      PROVE  /\ Max(S) \in S
             /\ Bumped(Image(S)) =
                  AfterRefInc(Bumped(Image(S \ {Max(S)})), s[Max(S)])
  <2>2. Max(S) \in S
    <3>1. S \in SUBSET (0..n)
      BY <1>2
    <3> QED
      BY <1>2, <1>6, <3>1, MaxIs
  <2>3. PICK i \in S : i = Max(S) /\ i \in D
    BY <2>2
  <2>4. s[i] \notin Image(S \ {i}) /\ s[i] \in P /\ Image(S \ {i}) \subseteq P
    BY <1>2, <2>3 DEF IsInjective
  <2>5. Image(S) = Image(S \ {i}) \cup {s[i]}
    BY <2>3
  <2> HIDE DEF Image
  <2> QED
    BY <1>4, <2>3, <2>4, <2>5
<1>7. g = [S \in SUBSET (DOMAIN s) |-> Next1(g, S)]
  <2>1. ASSUME NEW S \in SUBSET (DOMAIN s) PROVE g[S] = Next1(g, S)
    <3>1. CASE S = {}
      <4>1. M \in Mems /\ M.refs = [q \in Pages |-> M.refs[q]]
        BY DEF Books, Mems
      <4>2. Image({}) = {}
        OBVIOUS
      <4>3. Bumped({}) = M
        BY <4>1 DEF Bumped, Mems
      <4> QED
        BY <3>1, <4>2, <4>3
    <3>2. CASE S # {}
      <4>1. S \ {Max(S)} \in SUBSET (DOMAIN s)
        OBVIOUS
      <4> HIDE DEF Image, D
      <4> QED
        BY <1>5, <1>6, <3>2, <4>1
    <3> QED
      BY <3>1, <3>2
  <2> HIDE DEF Next1, Image
  <2> QED
    BY <2>1
<1>8. PICK f : f = Fold /\ f = [S \in SUBSET (DOMAIN s) |-> Next1(f, S)]
  <2> HIDE DEF g, Next1
  <2> QED
    BY <1>7
<1> HIDE DEF Fold
<1>9. \A S \in SUBSET D : f[S] = Bumped(Image(S))
  <2> DEFINE Bad == {S \in SUBSET D : f[S] # Bumped(Image(S))}
             Counts == {Cardinality(S) : S \in Bad}
  <2> SUFFICES ASSUME Bad # {} PROVE FALSE
    OBVIOUS
  <2>1. \A S \in SUBSET D : IsFiniteSet(S) /\ Cardinality(S) \in Nat
    <3>1. IsFiniteSet(D)
      BY <1>2, FS_Interval
    <3>2. TAKE S \in SUBSET D
    <3>3. IsFiniteSet(S)
      BY <3>1, FS_Subset
    <3> QED
      BY <3>3, FS_CardinalityType
  <2>2. Counts \in SUBSET Nat /\ Counts # {}
    BY <2>1
  <2>3. PICK c \in Counts : \A d \in Counts : c <= d
    <3> HIDE DEF Counts
    <3> QED
      BY <2>2, LeastExists
  <2>4. PICK S \in Bad : \A T \in Bad : Cardinality(S) <= Cardinality(T)
    BY <2>3
  <2>5. S # {}
    <3>1. f[{}] = M /\ Bumped(Image({})) = M
      <4>1. {} \in SUBSET (DOMAIN s)
        OBVIOUS
      <4>2. f[{}] = Next1(f, {}) /\ g[{}] = Next1(g, {})
        <5> HIDE DEF g, Next1
        <5> QED
          BY <1>7, <1>8, <4>1
      <4> HIDE DEF Image
      <4> QED
        BY <4>1, <4>2
    <3> QED
      BY <3>1
  <2>6. S \in SUBSET D /\ Max(S) \in S
    BY <1>6, <2>5
  <2>7. PICK T \in SUBSET D : T = S \ {Max(S)}
    BY <2>6
  <2>8. Cardinality(T) = Cardinality(S) - 1
    BY <2>1, <2>6, <2>7, FS_RemoveElement
  <2>9. T \notin Bad
    BY <2>1, <2>4, <2>6, <2>8
  <2>10. f[T] = Bumped(Image(T))
    BY <2>9
  <2>11. f[S] = Next1(f, S)
    <3> HIDE DEF Next1
    <3> QED
      BY <1>5, <1>8, <2>6
  <2>12. f[S] = AfterRefInc(f[T], s[Max(S)])
    BY <2>5, <2>7, <2>11
  <2>13. f[S] = Bumped(Image(S))
    <3> HIDE DEF Image, D, Bad
    <3> QED
      BY <1>6, <2>5, <2>6, <2>7, <2>10, <2>12
  <2> QED
    BY <2>13
<1>10. Image(D) = P
  BY <1>2
<1>11. Fold[DOMAIN s] = Bumped(P)
  <2> HIDE DEF Image, Bumped
  <2> QED
    BY <1>5, <1>8, <1>9, <1>10
<1> QED
  BY <1>3, <1>11 DEF Bumped

(***************************************************************************)
(* Tasks that share pages.                                                 *)
(***************************************************************************)
\* A task may be preempted before it copies a page, and between seeing a count of zero and
\* freeing the page, but not between decrementing a count and reading it again.
ReadAtOnce == Windows \subseteq {"copy", "decided"}

Used == {p \in Pages : Holders(p) # {}}

\* t is going to free its page
Gone(t) == \/ act[t].pc = "decided"
           \/ act[t].pc = "unlocked" /\ Holders(act[t].page) = {}

Kept == Used \cup {act[t].page : t \in {u \in Tasks : Gone(u)}}

RInv ==
  /\ holds \in [Tasks -> SUBSET Pages]
  /\ act \in [Tasks -> [pc : {"user", "copy", "dec", "unlocked", "decided"}, page : Pages]]
  /\ Books(mem, Kept)
  /\ \A p \in Pages : mem.refs[p] = Cardinality(Holders(p))
  /\ \A t \in Tasks : act[t].pc \in {"copy", "dec"} => act[t].page \in holds[t]
  /\ \A t \in Tasks : act[t].pc = "decided" => Holders(act[t].page) = {}
  /\ \A t, u \in Tasks : t # u /\ Gone(t) /\ Gone(u) => act[t].page # act[u].page

LEMMA HoldersFinite ==
  ASSUME ReadAtOnce, NEW p
  PROVE  /\ IsFiniteSet(Holders(p)) /\ Cardinality(Holders(p)) \in Nat
         /\ Cardinality(Holders(p)) <= Cardinality(Tasks) /\ Cardinality(Tasks) \in Nat
         /\ Cardinality(Tasks) < RefMod
         /\ Cardinality(Holders(p)) = 0 <=> Holders(p) = {}
<1>1. IsFiniteSet(Tasks) /\ Cardinality(Tasks) < RefMod
  BY PageRefAssumption
<1>2. Holders(p) \in SUBSET Tasks
  BY DEF Holders
<1>3. IsFiniteSet(Holders(p)) /\ Cardinality(Holders(p)) <= Cardinality(Tasks)
  BY <1>1, <1>2, FS_Subset
<1> QED
  BY <1>1, <1>3, FS_CardinalityType, FS_EmptySet

\* One core: the others are in user mode or in a window.
Others(t) == \A u \in Tasks \ {t} : act[u].pc \in {"user", "copy", "decided"}

LEMMA RunsAlone ==
  ASSUME ReadAtOnce, NEW t, MayRun(t)
  PROVE  Others(t)
BY DEF ReadAtOnce, MayRun, Others

\* A page taken from the allocator has one holder.
LEMMA TakeStep ==
  ASSUME ReadAtOnce, RInv, NEW t \in Tasks, Others(t), CanAlloc(mem, 0),
         mem' = AfterAlloc(mem, 0),
         holds' = [holds EXCEPT ![t] = @ \cup {AllocPfn(mem, 0)}],
         \/ act[t].pc = "user" /\ act' = act
         \/ act[t].pc = "copy" /\ act' = [act EXCEPT ![t] = [pc |-> "dec", page |-> act[t].page]]
  PROVE  RInv'
<1>1. PICK p : p = AllocPfn(mem, 0)
  OBVIOUS
<1>2. /\ p \in Pages \ Kept /\ Books(mem', Kept \cup {p})
      /\ mem'.refs = [mem.refs EXCEPT ![p] = 1]
  BY <1>1, BooksAlloc DEF RInv
<1>3. /\ holds \in [Tasks -> SUBSET Pages] /\ holds' \in [Tasks -> SUBSET Pages]
      /\ holds'[t] = holds[t] \cup {p} /\ \A u \in Tasks \ {t} : holds'[u] = holds[u]
  BY <1>1, <1>2 DEF RInv
<1>4. /\ act' \in [Tasks -> [pc : {"user", "copy", "dec", "unlocked", "decided"}, page : Pages]]
      /\ \A u \in Tasks \ {t} : act'[u] = act[u]
      /\ act'[t].pc \in {"user", "dec"} /\ act[t].pc \in {"user", "copy"}
      /\ act'[t].page = act[t].page /\ act'[t].pc = "dec" => act[t].pc = "copy"
  BY DEF RInv
<1>5. Holders(p) = {} /\ Holders(p)' = {t}
      /\ \A q \in Pages : q # p => Holders(q)' = Holders(q)
  <2>1. Holders(p) = {}
    BY <1>2 DEF Kept, Used
  <2>2. Holders(p)' = {t}
    BY <1>3, <2>1 DEF Holders
  <2>3. \A q \in Pages : q # p => Holders(q)' = Holders(q)
    BY <1>3 DEF Holders
  <2> QED
    BY <2>1, <2>2, <2>3
<1>6. \A u \in Tasks : Gone(u) => u # t /\ act[u].pc = "decided" /\ act[u].page \in Kept
                                  /\ act[u].page # p
  BY <1>2, <1>4 DEF Gone, Others, Kept
<1>7. \A u \in Tasks : Gone(u)' <=> Gone(u)
  BY <1>4, <1>6 DEF Gone, Others
<1>8. Kept' = Kept \cup {p}
  <2>1. Used' = Used \cup {p}
    BY <1>2, <1>5 DEF Used
  <2>2. {act[u].page : u \in {v \in Tasks : Gone(v)}}' = {act[u].page : u \in {v \in Tasks : Gone(v)}}
    <3>1. \A u \in Tasks : act'[u].page = act[u].page
      BY <1>4
    <3> QED
      BY <1>7, <3>1
  <2> QED
    BY <2>1, <2>2 DEF Kept
<1>9. \A q \in Pages : mem'.refs[q] = Cardinality(Holders(q)')
  <2>1. mem.refs \in [Pages -> 0..(RefMod - 1)]
    BY DEF RInv, Books, Mems
  <2>2. Cardinality({t}) = 1
    BY FS_Singleton
  <2>3. \A q \in Pages : mem.refs[q] = Cardinality(Holders(q))
    BY DEF RInv
  <2>4. TAKE q \in Pages
  <2>5. CASE q = p
    BY <1>2, <1>5, <2>1, <2>2, <2>5
  <2>6. CASE q # p
    <3>1. mem'.refs[q] = mem.refs[q]
      BY <1>2, <2>1, <2>6
    <3> QED
      BY <1>5, <2>3, <2>6, <3>1
  <2> QED
    BY <2>5, <2>6
<1>10. \A u \in Tasks : act'[u].pc \in {"copy", "dec"} => act'[u].page \in holds'[u]
  BY <1>3, <1>4 DEF RInv
<1>11. \A u \in Tasks : act'[u].pc = "decided" => Holders(act[u].page)' = {}
  <2> SUFFICES ASSUME NEW u \in Tasks, act'[u].pc = "decided" PROVE Holders(act[u].page)' = {}
    OBVIOUS
  <2>1. u # t /\ act'[u] = act[u] /\ Gone(u) /\ act[u].page \in Pages
    BY <1>4 DEF Gone, RInv
  <2>2. PICK q \in Pages : q = act[u].page /\ Holders(q) = {} /\ q # p
    BY <1>6, <2>1 DEF RInv
  <2>3. q = act'[u].page /\ Holders(q)' = {}
    BY <1>5, <2>1, <2>2
  <2> QED
    BY <2>3
<1>12. \A u, v \in Tasks : u # v /\ Gone(u)' /\ Gone(v)' => act'[u].page # act'[v].page
  BY <1>4, <1>6, <1>7 DEF RInv
<1> QED
  BY <1>2, <1>3, <1>4, <1>8, <1>9, <1>10, <1>11, <1>12 DEF RInv

\* fork counts the child as a holder of each page of the parent.
LEMMA ShareStep ==
  ASSUME ReadAtOnce, RInv, NEW t \in Tasks, NEW c \in Tasks, t # c, Share(t, c)
  PROVE  RInv'
<1>1. /\ Others(t) /\ act[t].pc = "user" /\ act[c].pc = "user" /\ holds[c] = {}
      /\ mem' = FoldLeft(AfterRefInc, mem, SetToSeq(holds[t]))
      /\ holds' = [holds EXCEPT ![c] = holds[t]] /\ act' = act
  BY RunsAlone DEF Share, At
<1>2. /\ holds \in [Tasks -> SUBSET Pages] /\ mem \in Mems /\ Books(mem, Kept)
      /\ \A q \in Pages : mem.refs[q] = Cardinality(Holders(q))
      /\ mem.refs \in [Pages -> 0..(RefMod - 1)]
  BY DEF RInv, Books, Mems
<1>3. PICK P \in SUBSET Kept : P = holds[t] /\ P \subseteq Pages /\ \A q \in P : t \in Holders(q)
  <2>1. \A q \in holds[t] : q \in Pages /\ t \in Holders(q)
    BY <1>2 DEF Holders
  <2> QED
    BY <2>1 DEF Kept, Used
<1>4. /\ holds' \in [Tasks -> SUBSET Pages] /\ holds'[c] = P
      /\ \A u \in Tasks \ {c} : holds'[u] = holds[u]
  BY <1>1, <1>2, <1>3
<1>5. \A q \in Pages : /\ c \notin Holders(q)
                       /\ Holders(q)' = IF q \in P THEN Holders(q) \cup {c} ELSE Holders(q)
  BY <1>1, <1>4 DEF Holders
<1>6. ASSUME NEW q \in P
      PROVE  /\ Cardinality(Holders(q)') = mem.refs[q] + 1 /\ mem.refs[q] + 1 < RefMod
             /\ mem.refs[q] + 1 \in 0..(RefMod - 1)
  <2>1. q \in Pages /\ Holders(q)' = Holders(q) \cup {c} /\ c \notin Holders(q)
    BY <1>3, <1>5
  <2>2. Cardinality(Holders(q) \cup {c}) = mem.refs[q] + 1
    BY <1>2, <2>1, HoldersFinite, FS_AddElement
  <2>3. Holders(q) \cup {c} \in SUBSET Tasks
    BY DEF Holders
  <2>4. Cardinality(Holders(q) \cup {c}) <= Cardinality(Tasks)
    BY <2>3, FS_Subset, PageRefAssumption
  <2>5. mem.refs[q] \in 0..(RefMod - 1)
    BY <1>2, <2>1
  <2>6. Cardinality(Tasks) \in Nat /\ Cardinality(Tasks) < RefMod
    BY HoldersFinite
  <2> QED
    BY <2>1, <2>2, <2>4, <2>5, <2>6, NumbersAre
<1>7. PICK r : r = [q \in Pages |-> IF q \in P THEN mem.refs[q] + 1 ELSE mem.refs[q]]
  OBVIOUS
<1>8. r \in [Pages -> 0..(RefMod - 1)]
  BY <1>2, <1>6, <1>7
<1>9. mem' = [mem EXCEPT !.refs = r]
  BY <1>1, <1>2, <1>3, <1>6, <1>7, SharedCounts
<1>10. Books(mem', Kept)
  BY <1>2, <1>8, <1>9, BooksCount
<1>11. mem'.refs = r
  BY <1>2, <1>9 DEF Mems
<1>12. \A q \in Pages : mem'.refs[q] = Cardinality(Holders(q)')
  <2> TAKE q \in Pages
  <2>1. CASE q \in P
    BY <1>6, <1>7, <1>11, <2>1
  <2>2. CASE q \notin P
    BY <1>2, <1>5, <1>7, <1>11, <2>2
  <2> QED
    BY <2>1, <2>2
<1>13. \A q \in Pages : Holders(q)' = {} <=> Holders(q) = {}
  BY <1>3, <1>5
<1>14. \A u \in Tasks : act'[u] = act[u] /\ act[u].page \in Pages
  BY <1>1 DEF RInv
<1>15. \A u \in Tasks : Holders(act[u].page)' = {} <=> Holders(act[u].page) = {}
  <2> TAKE u \in Tasks
  <2>1. PICK q \in Pages : q = act[u].page /\ q = act'[u].page
    BY <1>14
  <2>2. Holders(q)' = {} <=> Holders(q) = {}
    BY <1>13
  <2> QED
    BY <2>1, <2>2
<1>16. \A u \in Tasks : Gone(u)' <=> Gone(u)
  BY <1>14, <1>15 DEF Gone
<1>17. Kept' = Kept
  <2>1. Used' = Used
    BY <1>13 DEF Used
  <2> QED
    BY <1>14, <1>16, <2>1 DEF Kept
<1>18. \A u \in Tasks : act'[u].pc \in {"copy", "dec"} => act'[u].page \in holds'[u]
  BY <1>1, <1>4, <1>14 DEF RInv
<1>19. \A u \in Tasks : act'[u].pc = "decided" => Holders(act[u].page)' = {}
  BY <1>14, <1>15 DEF RInv
<1>20. \A u, v \in Tasks : u # v /\ Gone(u)' /\ Gone(v)' => act'[u].page # act'[v].page
  BY <1>14, <1>16 DEF RInv
<1> QED
  BY <1>1, <1>4, <1>10, <1>12, <1>17, <1>18, <1>19, <1>20 DEF RInv

\* A page that a task holds is never taken for a free one, so a call for it begins.
LEMMA BeginStep ==
  ASSUME ReadAtOnce, RInv, NEW t \in Tasks, NEW p \in Pages,
         Drop(t, p) \/ WriteFault(t, p)
  PROVE  RInv'
<1>1. act[t].pc = "user" /\ p \in holds[t]
  BY DEF Drop, WriteFault, At
<1>2. p \in Kept
  BY <1>1 DEF Kept, Used, Holders
<1>3. ~RefusesFree(mem, p)
  BY <1>2, BooksKept DEF RInv
<1>4. PICK pc \in {"copy", "dec"} : act' = [act EXCEPT ![t] = [pc |-> pc, page |-> p]]
  BY <1>3 DEF Drop, WriteFault, Goto
<1>5. mem' = mem /\ holds' = holds
  BY <1>3 DEF Drop, WriteFault
<1>6. /\ act' \in [Tasks -> [pc : {"user", "copy", "dec", "unlocked", "decided"}, page : Pages]]
      /\ \A u \in Tasks \ {t} : act'[u] = act[u]
      /\ act'[t].pc \in {"copy", "dec"} /\ act'[t].page = p
  BY <1>4 DEF RInv
<1>7. \A q : Holders(q)' = Holders(q)
  BY <1>5 DEF Holders
<1>8. ~Gone(t) /\ ~Gone(t)' /\ \A u \in Tasks : Gone(u)' <=> Gone(u)
  <2>1. ~Gone(t) /\ ~Gone(t)'
    BY <1>1, <1>6 DEF Gone
  <2>2. \A u \in Tasks \ {t} : Gone(u)' <=> Gone(u)
    BY <1>5, <1>6 DEF Gone, Holders
  <2> QED
    BY <2>1, <2>2
<1>9. Kept' = Kept
  <2>1. Used' = Used
    BY <1>7 DEF Used
  <2> QED
    BY <1>6, <1>8, <2>1 DEF Kept
<1>10. \A u \in Tasks : act'[u].pc \in {"copy", "dec"} => act'[u].page \in holds'[u]
  BY <1>1, <1>5, <1>6 DEF RInv
<1>11. \A u \in Tasks : act'[u].pc = "decided" => Holders(act[u].page)' = {}
  BY <1>5, <1>6 DEF RInv, Holders
<1>12. \A u, v \in Tasks : u # v /\ Gone(u)' /\ Gone(v)' => act'[u].page # act'[v].page
  BY <1>6, <1>8 DEF RInv
<1> QED
  BY <1>5, <1>6, <1>7, <1>9, <1>10, <1>11, <1>12 DEF RInv

\* A decrement takes one holder away; the last one's page is not free yet.
LEMMA DecrementStep ==
  ASSUME ReadAtOnce, RInv, NEW t \in Tasks, Decrement(t)
  PROVE  RInv'
<1>1. PICK p \in Pages : p = act[t].page /\ p \in holds[t]
  BY DEF RInv, Decrement, At
<1>2. /\ Others(t) /\ act[t].pc = "dec"
      /\ mem' = [mem EXCEPT !.refs[p] = (@ - 1) % RefMod]
      /\ holds' = [holds EXCEPT ![t] = @ \ {p}]
      /\ act' = [act EXCEPT ![t] = [pc |-> "unlocked", page |-> p]]
  BY <1>1, RunsAlone DEF Decrement, At, Goto
<1>3. /\ holds \in [Tasks -> SUBSET Pages] /\ mem \in Mems /\ Books(mem, Kept)
      /\ \A q \in Pages : mem.refs[q] = Cardinality(Holders(q))
      /\ mem.refs \in [Pages -> 0..(RefMod - 1)]
  BY DEF RInv, Books, Mems
<1>4. /\ holds' \in [Tasks -> SUBSET Pages] /\ holds'[t] = holds[t] \ {p}
      /\ \A u \in Tasks \ {t} : holds'[u] = holds[u]
  BY <1>2, <1>3
<1>5. /\ act' \in [Tasks -> [pc : {"user", "copy", "dec", "unlocked", "decided"}, page : Pages]]
      /\ \A u \in Tasks \ {t} : act'[u] = act[u]
      /\ act'[t].pc = "unlocked" /\ act'[t].page = p
  BY <1>2 DEF RInv
<1>6. /\ t \in Holders(p) /\ Holders(p)' = Holders(p) \ {t}
      /\ \A q \in Pages : q # p => Holders(q)' = Holders(q)
  BY <1>1, <1>4 DEF Holders
<1>7. /\ Cardinality(Holders(p)') = mem.refs[p] - 1
      /\ mem.refs[p] - 1 \in 0..(RefMod - 1) /\ (mem.refs[p] - 1) % RefMod = mem.refs[p] - 1
  <2>1. Cardinality(Holders(p)') = mem.refs[p] - 1
    BY <1>3, <1>6, HoldersFinite, FS_RemoveElement
  <2>2. mem.refs[p] # 0 /\ mem.refs[p] \in 0..(RefMod - 1)
    BY <1>3, <1>6, HoldersFinite
  <2> QED
    BY <2>1, <2>2, NumbersAre
<1>8. PICK r \in [Pages -> 0..(RefMod - 1)] :
        r = [mem.refs EXCEPT ![p] = mem.refs[p] - 1] /\ mem' = [mem EXCEPT !.refs = r]
  <2>1. [mem.refs EXCEPT ![p] = mem.refs[p] - 1] \in [Pages -> 0..(RefMod - 1)]
    BY <1>3, <1>7
  <2>2. mem' = [mem EXCEPT !.refs[p] = mem.refs[p] - 1]
    BY <1>2, <1>3, <1>7
  <2> QED
    BY <2>1, <2>2
<1>9. Books(mem', Kept) /\ mem'.refs = r
  BY <1>3, <1>8, BooksCount DEF Mems
<1>10. \A q \in Pages : mem'.refs[q] = Cardinality(Holders(q)')
  <2> TAKE q \in Pages
  <2>1. CASE q = p
    BY <1>3, <1>7, <1>8, <1>9, <2>1
  <2>2. CASE q # p
    BY <1>3, <1>6, <1>8, <1>9, <2>2
  <2> QED
    BY <2>1, <2>2
<1>11. \A u \in Tasks : Gone(u) => u # t /\ act[u].pc = "decided" /\ act[u].page \in Pages
                                   /\ Holders(act[u].page) = {} /\ act[u].page # p
  <2> SUFFICES ASSUME NEW u \in Tasks, Gone(u)
               PROVE  u # t /\ act[u].pc = "decided" /\ act[u].page \in Pages
                      /\ Holders(act[u].page) = {} /\ act[u].page # p
    OBVIOUS
  <2>1. u # t /\ act[u].pc = "decided"
    BY <1>2 DEF Gone, Others
  <2>2. Holders(act[u].page) = {} /\ act[u].page \in Pages
    BY <2>1 DEF RInv
  <2> QED
    BY <1>6, <2>1, <2>2
<1>12. \A u \in Tasks \ {t} : Gone(u)' <=> Gone(u)
  BY <1>2, <1>5 DEF Gone, Others
<1>13. Gone(t)' <=> Holders(p)' = {}
  BY <1>5 DEF Gone, Holders
<1>14. Kept' = Kept
  <2>1. p \in Kept /\ p \in Used
    BY <1>6 DEF Kept, Used
  <2>2. \A q \in Pages : q # p => (q \in Used' <=> q \in Used)
    BY <1>6 DEF Used
  <2>3. p \in Used' \/ Gone(t)'
    BY <1>13 DEF Used
  <2>4. p \in Kept'
    BY <1>5, <2>3 DEF Kept
  <2>5. Used' \subseteq Pages /\ Used \subseteq Pages
    BY DEF Used
  <2>6. \A q : q # p => (q \in Kept' <=> q \in Kept)
    <3> TAKE q
    <3> HAVE q # p
    <3>1. q \in Used' <=> q \in Used
      BY <2>2, <2>5
    <3>2. q \in {act'[u].page : u \in {v \in Tasks : Gone(v)'}}
            <=> q \in {act[u].page : u \in {v \in Tasks : Gone(v)}}
      BY <1>5, <1>11, <1>12
    <3> QED
      BY <3>1, <3>2 DEF Kept
  <2> QED
    BY <2>1, <2>4, <2>6
<1>15. \A u \in Tasks : act'[u].pc \in {"copy", "dec"} => act'[u].page \in holds'[u]
  BY <1>4, <1>5 DEF RInv
<1>16. \A u \in Tasks : act'[u].pc = "decided" => Holders(act[u].page)' = {}
  <2> SUFFICES ASSUME NEW u \in Tasks, act'[u].pc = "decided" PROVE Holders(act[u].page)' = {}
    OBVIOUS
  <2>1. u # t /\ act'[u] = act[u] /\ Gone(u)
    BY <1>5 DEF Gone
  <2>2. PICK q \in Pages : q = act[u].page /\ Holders(q) = {} /\ q # p
    BY <1>11, <2>1
  <2>3. q = act'[u].page /\ Holders(q)' = {}
    BY <1>6, <2>1, <2>2
  <2> QED
    BY <2>3
<1>17. \A u, v \in Tasks : u # v /\ Gone(u)' /\ Gone(v)' => act'[u].page # act'[v].page
  <2> SUFFICES ASSUME NEW u \in Tasks, NEW v \in Tasks, u # v, Gone(u)', Gone(v)'
               PROVE  act'[u].page # act'[v].page
    OBVIOUS
  <2>1. CASE u = t
    BY <1>5, <1>11, <1>12, <2>1
  <2>2. CASE v = t
    BY <1>5, <1>11, <1>12, <2>2
  <2>3. CASE u # t /\ v # t
    BY <1>5, <1>12, <2>3 DEF RInv
  <2> QED
    BY <2>1, <2>2, <2>3
<1> QED
  BY <1>4, <1>5, <1>9, <1>10, <1>14, <1>15, <1>16, <1>17 DEF RInv

\* The count that is read back is zero exactly if nobody holds the page.
LEMMA TestStep ==
  ASSUME ReadAtOnce, RInv, NEW t \in Tasks, TestZero(t)
  PROVE  RInv'
<1>1. PICK p \in Pages : p = act[t].page
  BY DEF RInv
<1>2. /\ Others(t) /\ act[t].pc = "unlocked" /\ mem' = mem /\ holds' = holds
      /\ act' = IF mem.refs[p] = 0
                THEN [act EXCEPT ![t] = [pc |-> "decided", page |-> p]]
                ELSE [act EXCEPT ![t] = [pc |-> "user", page |-> 0]]
  BY <1>1, RunsAlone DEF TestZero, At, Goto, Return, Nothing
<1>3. mem.refs[p] = 0 <=> Holders(p) = {}
  BY HoldersFinite DEF RInv
<1>4. /\ act' \in [Tasks -> [pc : {"user", "copy", "dec", "unlocked", "decided"}, page : Pages]]
      /\ \A u \in Tasks \ {t} : act'[u] = act[u]
      /\ IF Holders(p) = {} THEN act'[t].pc = "decided" /\ act'[t].page = p
         ELSE act'[t].pc = "user"
  BY <1>2, <1>3, NumbersAre DEF RInv
<1>5. \A q : Holders(q)' = Holders(q)
  BY <1>2 DEF Holders
<1>6. \A u \in Tasks : Gone(u)' <=> Gone(u)
  <2>1. Gone(t)' <=> Gone(t)
    BY <1>1, <1>2, <1>4 DEF Gone
  <2>2. \A u \in Tasks \ {t} : Gone(u)' <=> Gone(u)
    BY <1>2, <1>4 DEF Gone, Holders
  <2> QED
    BY <2>1, <2>2
<1>7. \A u \in Tasks : Gone(u) => act'[u].page = act[u].page
  BY <1>1, <1>2, <1>4 DEF Gone
<1>8. Kept' = Kept
  <2>1. Used' = Used
    BY <1>5 DEF Used
  <2> QED
    BY <1>6, <1>7, <2>1 DEF Kept
<1>9. \A u \in Tasks : act'[u].pc \in {"copy", "dec"} => act'[u].page \in holds'[u]
  BY <1>2, <1>4 DEF RInv
<1>10. \A u \in Tasks : act'[u].pc = "decided" => Holders(act[u].page)' = {}
  <2> SUFFICES ASSUME NEW u \in Tasks, act'[u].pc = "decided" PROVE Holders(act[u].page)' = {}
    OBVIOUS
  <2>1. CASE u = t
    BY <1>1, <1>2, <1>4, <2>1 DEF Holders
  <2>2. CASE u # t
    BY <1>2, <1>4, <2>2 DEF RInv, Holders
  <2> QED
    BY <2>1, <2>2
<1>11. \A u, v \in Tasks : u # v /\ Gone(u)' /\ Gone(v)' => act'[u].page # act'[v].page
  BY <1>6, <1>7 DEF RInv
<1> QED
  BY <1>2, <1>4, <1>5, <1>8, <1>9, <1>10, <1>11 DEF RInv

LEMMA FreePageStep ==
  ASSUME ReadAtOnce, RInv, NEW t \in Tasks, FreePage(t)
  PROVE  RInv'
<1>1. PICK p \in Pages : p = act[t].page
  BY DEF RInv
<1>2. /\ act[t].pc = "decided" /\ mem' = AfterFree(mem, p) /\ holds' = holds
      /\ act' = [act EXCEPT ![t] = [pc |-> "user", page |-> 0]]
  BY <1>1 DEF FreePage, At, Return, Nothing
<1>3. Gone(t) /\ Holders(p) = {} /\ p \in Kept /\ p \notin Used
  BY <1>1, <1>2 DEF RInv, Gone, Kept, Used
<1>4. Books(mem', Kept \ {p}) /\ mem'.refs = [mem.refs EXCEPT ![p] = 0]
  BY <1>2, <1>3, BooksFree DEF RInv
<1>5. /\ act' \in [Tasks -> [pc : {"user", "copy", "dec", "unlocked", "decided"}, page : Pages]]
      /\ \A u \in Tasks \ {t} : act'[u] = act[u]
      /\ act'[t].pc = "user"
  BY <1>2, NumbersAre DEF RInv
<1>6. \A q : Holders(q)' = Holders(q)
  BY <1>2 DEF Holders
<1>7. ~Gone(t)' /\ \A u \in Tasks \ {t} : Gone(u)' <=> Gone(u)
  BY <1>2, <1>5 DEF Gone, Holders
<1>8. \A u \in Tasks \ {t} : Gone(u) => act[u].page # p
  BY <1>1, <1>3 DEF RInv
<1>9. Kept' = Kept \ {p}
  <2>1. Used' = Used
    BY <1>6 DEF Used
  <2>2. {act'[u].page : u \in {v \in Tasks : Gone(v)'}}
          = {act[u].page : u \in {v \in Tasks : Gone(v)}} \ {p}
    BY <1>1, <1>5, <1>7, <1>8
  <2> QED
    BY <1>3, <2>1, <2>2 DEF Kept
<1>10. \A q \in Pages : mem'.refs[q] = Cardinality(Holders(q)')
  <2>1. mem.refs \in [Pages -> 0..(RefMod - 1)]
    BY DEF RInv, Books, Mems
  <2>2. \A q \in Pages : mem.refs[q] = Cardinality(Holders(q))
    BY DEF RInv
  <2>3. mem.refs[p] = 0
    BY <1>3, <2>2, FS_EmptySet
  <2>4. mem'.refs = mem.refs
    BY <1>4, <2>1, <2>3
  <2> QED
    BY <1>6, <2>2, <2>4
<1>11. \A u \in Tasks : act'[u].pc \in {"copy", "dec"} => act'[u].page \in holds'[u]
  BY <1>2, <1>5 DEF RInv
<1>12. \A u \in Tasks : act'[u].pc = "decided" => Holders(act[u].page)' = {}
  BY <1>2, <1>5 DEF RInv, Holders
<1>13. \A u, v \in Tasks : u # v /\ Gone(u)' /\ Gone(v)' => act'[u].page # act'[v].page
  BY <1>5, <1>7 DEF RInv
<1> QED
  BY <1>2, <1>4, <1>5, <1>9, <1>10, <1>11, <1>12, <1>13 DEF RInv

LEMMA RefsStart ==
  ASSUME RefsInit
  PROVE  RInv
<1>1. /\ mem = InitialMem({}) /\ holds = [t \in Tasks |-> {}]
      /\ act = [t \in Tasks |-> [pc |-> "user", page |-> 0]]
  BY DEF RefsInit, Nothing
<1>2. Sound(mem, {}, {}) /\ mem.refs = [p \in Pages |-> 0]
  BY <1>1, InitSound DEF InitialMem
<1>3. Books(mem, {})
  <2>1. Singles({}) = {}
    BY DEF Singles
  <2> QED
    BY <1>2, <2>1 DEF Books, Sound
<1>4. \A p : Holders(p) = {}
  BY <1>1 DEF Holders
<1>5. \A t \in Tasks : act[t].pc = "user" /\ ~Gone(t)
  BY <1>1 DEF Gone
<1>6. Kept = {}
  BY <1>4, <1>5 DEF Kept, Used
<1>7. \A p \in Pages : mem.refs[p] = Cardinality(Holders(p))
  BY <1>2, <1>4, FS_EmptySet
<1>8. /\ holds \in [Tasks -> SUBSET Pages]
      /\ act \in [Tasks -> [pc : {"user", "copy", "dec", "unlocked", "decided"}, page : Pages]]
  BY <1>1, NumbersAre
<1> QED
  BY <1>3, <1>5, <1>6, <1>7, <1>8 DEF RInv

LEMMA RefsStep ==
  ASSUME ReadAtOnce, RInv, [RefsNext]_(refsVars)
  PROVE  RInv'
<1>1. ASSUME NEW t \in Tasks, Alloc(t) PROVE RInv'
  <2>1. /\ Others(t) /\ CanAlloc(mem, 0) /\ mem' = AfterAlloc(mem, 0)
        /\ holds' = [holds EXCEPT ![t] = @ \cup {AllocPfn(mem, 0)}]
        /\ act[t].pc = "user" /\ act' = act
    BY <1>1, RunsAlone DEF Alloc, At
  <2> QED
    BY <2>1, TakeStep
<1>2. ASSUME NEW t \in Tasks, CopyPage(t) PROVE RInv'
  <2>1. /\ Others(t) /\ CanAlloc(mem, 0) /\ mem' = AfterAlloc(mem, 0)
        /\ holds' = [holds EXCEPT ![t] = @ \cup {AllocPfn(mem, 0)}]
        /\ act[t].pc = "copy" /\ act' = [act EXCEPT ![t] = [pc |-> "dec", page |-> act[t].page]]
    BY <1>2, RunsAlone DEF CopyPage, At, Goto
  <2> QED
    BY <2>1, TakeStep
<1>3. ASSUME NEW t \in Tasks, NEW c \in Tasks \ {t}, Share(t, c) PROVE RInv'
  BY <1>3, ShareStep
<1>4. ASSUME NEW t \in Tasks, NEW p \in Pages, Drop(t, p) \/ WriteFault(t, p)
      PROVE  RInv'
  BY <1>4, BeginStep
<1>5. ASSUME NEW t \in Tasks, Decrement(t) PROVE RInv'
  BY <1>5, DecrementStep
<1>6. ASSUME NEW t \in Tasks, TestZero(t) PROVE RInv'
  BY <1>6, TestStep
<1>7. ASSUME NEW t \in Tasks, FreePage(t) PROVE RInv'
  BY <1>7, FreePageStep
<1>8. CASE UNCHANGED refsVars
  BY <1>8 DEF refsVars, RInv, Kept, Used, Gone, Holders
<1> QED
  BY <1>1, <1>2, <1>3, <1>4, <1>5, <1>6, <1>7, <1>8 DEF RefsNext

LEMMA RefsInvariance ==
  ASSUME ReadAtOnce
  PROVE  RefsSpec => []RInv
<1>1. RefsInit => RInv
  BY RefsStart
<1>2. RInv /\ [RefsNext]_(refsVars) => RInv'
  BY RefsStep
<1> QED
  BY <1>1, <1>2, PTL DEF RefsSpec

LEMMA RefsImplies ==
  ASSUME RInv
  PROVE  RefsTypeOK /\ CountIsHolders /\ FreedExactlyAtZero
<1>1. /\ mem \in Mems /\ Kept \subseteq Pages /\ ListsMatch(mem)
      /\ PartitionOf(FreeOf(mem), Singles(Kept), {})
  BY DEF RInv, Books
<1>3. RefsTypeOK
  BY <1>1 DEF RInv, RefsTypeOK, Mems
<1>4. CountIsHolders
  BY DEF RInv, CountIsHolders
<1>5. PagesIn(FreeOf(mem)) = Pages \ Kept
  BY <1>1, FreeAreTheRest, SinglesAre
<1>6. FreePagesOf(mem) = PagesIn(FreeOf(mem))
  BY <1>1, FreePagesAre
<1>7. \A t \in Tasks : holds[t] \subseteq Used
  BY DEF RInv, Used, Holders
<1>8. \A t \in Tasks : holds[t] \cap FreePagesOf(mem) = {}
  BY <1>5, <1>6, <1>7 DEF Kept
<1>9. ASSUME NEW o \in Orders, NEW k \in Orders,
             NEW i \in DOMAIN mem.lists[o], NEW j \in DOMAIN mem.lists[k], <<o, i>> # <<k, j>>
      PROVE  Block(mem.lists[o][i], o) \cap Block(mem.lists[k][j], k) = {}
  <2>1. PICK b \in FreeOf(mem) : b = [pfn |-> mem.lists[o][i], order |-> o]
    BY <1>1, FreeOfIs DEF ToSet
  <2>2. PICK c \in FreeOf(mem) : c = [pfn |-> mem.lists[k][j], order |-> k]
    BY <1>1, FreeOfIs DEF ToSet
  <2>3. b # c
    <3>1. CASE o = k
      <4>1. i # j /\ IsInjective(mem.lists[o])
        BY <1>1, <1>9, <3>1 DEF ListsMatch
      <4>2. mem.lists[o][i] # mem.lists[o][j]
        BY <3>1, <4>1 DEF IsInjective
      <4> QED
        BY <2>1, <2>2, <3>1, <4>2
    <3>2. CASE o # k
      BY <2>1, <2>2, <3>2
    <3> QED
      BY <3>1, <3>2
  <2>4. PagesOf(b) \cap PagesOf(c) = {}
    BY <1>1, <2>3 DEF PartitionOf, Apart
  <2> QED
    BY <2>1, <2>2, <2>4 DEF PagesOf
<1>10. Kept \subseteq (UNION {holds[t] : t \in Tasks}) \cup Dying
  <2>1. \A p \in Used : \E t \in Tasks : p \in holds[t]
    BY DEF Used, Holders
  <2>2. \A t \in Tasks : Gone(t) => act[t].page \in Dying
    BY DEF Gone, Dying
  <2> QED
    BY <2>1, <2>2 DEF Kept
<1>11. /\ UNION {holds[t] : t \in Tasks} \subseteq Pages
       /\ Dying \subseteq Pages
  BY DEF RInv, Dying
<1>12. (UNION {holds[t] : t \in Tasks}) \cup FreePagesOf(mem) \cup Dying = Pages
  BY <1>5, <1>6, <1>10, <1>11
<1>13. FreedExactlyAtZero
  BY <1>8, <1>9, <1>12 DEF FreedExactlyAtZero
<1> QED
  BY <1>3, <1>4, <1>13

\* Every variable keeps its type, for any number of pages and of tasks that fork, copy and
\* give up pages.
THEOREM PageRefTypeCorrect ==
  ASSUME ReadAtOnce
  PROVE  RefsSpec => []RefsTypeOK
<1>1. RInv => RefsTypeOK
  BY RefsImplies
<1> QED
  BY RefsInvariance, <1>1, PTL

\* The counts of page_refcount_update are the numbers of holders, also while tasks are
\* preempted in the copy of a write fault and before page_free.
THEOREM PageRefCounts ==
  ASSUME ReadAtOnce
  PROVE  RefsSpec => []CountIsHolders
<1>1. RInv => CountIsHolders
  BY RefsImplies
<1> QED
  BY RefsInvariance, <1>1, PTL

\* A page is freed once, and only when its last reference is gone, unless a task may be
\* preempted between the decrement of a count and its being read again (mm/buddy.c:226).
THEOREM PageRefFreedExactlyAtZero ==
  ASSUME ReadAtOnce
  PROVE  RefsSpec => []FreedExactlyAtZero
<1>1. RInv => FreedExactlyAtZero
  BY RefsImplies
<1> QED
  BY RefsInvariance, <1>1, PTL

(***************************************************************************)
(* Slabs: the sizes and places of chunks.                                  *)
(***************************************************************************)
ChunkSizes == {ChunkSize(i) : i \in PoolIds}

Chunk(p, s, n) == Address(p) + HeaderSize + (n - 1) * s

ChunksAt(p, s) == {Chunk(p, s, n) : n \in 1..TotalChunks(s)}

LEMMA SlabNumbers ==
  /\ PageSize \in Nat \ {0} /\ HeaderSize \in 1..PageSize /\ NumPools \in Nat \ {0}
  /\ MaxChunkSize \in Nat \ {0} /\ Reserved \in SUBSET Pages
BY SlabAssumption

\* A chunk size times a power of two is MaxChunkSize.
LEMMA ChunkSizeIs ==
  ASSUME NEW i \in PoolIds
  PROVE  /\ NumPools - i - 1 \in Nat /\ ChunkSize(i) \in Nat \ {0}
         /\ MaxChunkSize = Size(NumPools - i - 1) * ChunkSize(i)
<1>1. PICK k \in Nat, j \in Nat : k = NumPools - i - 1 /\ j = NumPools - 1 /\ k <= j
  <2>1. i \in Int /\ 0 <= i /\ i <= NumPools - 1
    BY SlabNumbers DEF PoolIds
  <2>2. NumPools - i - 1 \in Nat /\ NumPools - 1 \in Nat /\ NumPools - i - 1 <= NumPools - 1
    BY <2>1, SlabNumbers
  <2> QED
    BY <2>2
<1>2. ~BlockInvalid(MaxChunkSize, j)
  BY <1>1, SlabAssumption DEF BlockInvalid, Size
<1>3. ~BlockInvalid(MaxChunkSize, k)
  BY <1>1, <1>2, SlabNumbers, AlignedBelow
<1>4. PICK s \in Int : s = Index(k, MaxChunkSize) /\ MaxChunkSize = Size(k) * s
  BY <1>3, SlabNumbers, AlignedIsMultiple
<1>5. s = ChunkSize(i)
  BY <1>1, <1>4 DEF Index, Size, ChunkSize
<1>6. s > 0
  <2> SUFFICES ASSUME s <= 0 PROVE FALSE
    BY <1>4
  <2>1. PICK z \in Nat \ {0} : z = Size(k)
    BY SizeSucc
  <2>2. z * s <= 0
    BY <2>1, <1>4
  <2> QED
    BY <1>4, <2>1, <2>2, SlabNumbers
<1> QED
  BY <1>1, <1>4, <1>5, <1>6

\* So each pool has a chunk size of its own.
LEMMA ChunkSizesDiffer ==
  ASSUME NEW i \in PoolIds, NEW j \in PoolIds, ChunkSize(i) = ChunkSize(j)
  PROVE  i = j
<1>1. i \in Int /\ j \in Int
  BY DEF PoolIds
<1>2. ASSUME NEW a \in PoolIds, NEW b \in PoolIds, a < b, ChunkSize(a) = ChunkSize(b) PROVE FALSE
  <2>1. PICK k \in Nat, m \in Nat : k = NumPools - b - 1 /\ m = NumPools - a - 1
    BY ChunkSizeIs
  <2>2. k < m
    BY <1>2, <2>1, SlabNumbers DEF PoolIds
  <2>3. PICK y \in Nat, z \in Nat : y = Size(k) /\ z = Size(m) /\ y < z
    BY <2>2, SizeGrows, SizeSucc
  <2>4. PICK s \in Nat \ {0} : s = ChunkSize(a) /\ MaxChunkSize = y * s /\ MaxChunkSize = z * s
    BY <1>2, <2>1, <2>3, ChunkSizeIs
  <2>5. s * y + s <= s * z
    BY <2>3, NextMultiple
  <2>6. s * y = y * s /\ s * z = z * s /\ s * y \in Int
    OBVIOUS
  <2> QED
    BY <2>4, <2>5, <2>6
<1> QED
  BY <1>1, <1>2

LEMMA ChunkSizeFacts ==
  ASSUME NEW s \in ChunkSizes
  PROVE  /\ s \in Nat \ {0} /\ TotalChunks(s) \in Nat /\ TotalChunks(s) >= 2
         /\ s * TotalChunks(s) <= PageSize - HeaderSize
<1>1. PICK i \in PoolIds : s = ChunkSize(i)
  BY DEF ChunkSizes
<1>2. s \in Nat \ {0}
  BY <1>1, ChunkSizeIs
<1>3. TotalChunks(s) >= 2
  BY <1>1, SlabAssumption
<1>4. PageSize - HeaderSize \in Int
  BY SlabNumbers
<1>5. PICK t \in Int, r \in 0..(s - 1) : t = TotalChunks(s) /\ PageSize - HeaderSize = s * t + r
  BY <1>2, <1>4, DivMod DEF TotalChunks
<1>6. s * t \in Int
  BY <1>2, <1>5
<1> QED
  BY <1>2, <1>3, <1>5, <1>6

LEMMA AddressIs ==
  ASSUME NEW p \in Pages
  PROVE  Address(p) \in Nat /\ Address(p) = PageSize * p
<1>1. p \in Nat /\ PageSize \in Nat
  BY NumbersAre, SlabNumbers
<1> QED
  BY <1>1 DEF Address

\* The bytes of a page, and which of them starts it.
LEMMA PageOfIs ==
  ASSUME NEW p \in Nat, NEW x \in Int, p * PageSize <= x, x < p * PageSize + PageSize
  PROVE  PageOf(x) = p /\ (x % PageSize = 0 <=> x = p * PageSize)
<1>1. PICK s \in Nat \ {0} : s = PageSize
  BY SlabNumbers
<1>2. p * s \in Int /\ p * s = s * p
  BY <1>1
<1>3. PICK r \in 0..(s - 1) : x = s * p + r
  <2>1. x - s * p \in 0..(s - 1) /\ x = s * p + (x - s * p)
    BY <1>1, <1>2
  <2> QED
    BY <2>1
<1>4. x \div s = p /\ x % s = r
  BY <1>1, <1>3, DivModUnique
<1> QED
  BY <1>1, <1>2, <1>3, <1>4 DEF PageOf

LEMMA ChunkFits ==
  ASSUME NEW p \in Pages, NEW s \in ChunkSizes, NEW n \in 1..TotalChunks(s)
  PROVE  /\ Chunk(p, s, n) \in Nat /\ Address(p) < Chunk(p, s, n)
         /\ Chunk(p, s, n) + s <= Address(p) + PageSize
<1>1. PICK a \in Nat : a = Address(p)
  BY AddressIs
<1>2. PICK z \in Nat \ {0} : z = s
  BY ChunkSizeFacts
<1>3. PICK t \in Nat : t = TotalChunks(s) /\ z * t <= PageSize - HeaderSize
  BY <1>2, ChunkSizeFacts
<1>4. n - 1 \in Nat /\ n - 1 < t /\ t \in Int
  BY <1>3
<1>5. PICK m \in Nat : m = n - 1
  BY <1>4
<1>6. z * m + z <= z * t
  BY <1>4, <1>5, NextMultiple
<1>7. z * m \in Nat /\ m * z = z * m /\ z * t \in Int
  BY <1>2, <1>3
<1>8. Chunk(p, s, n) = a + HeaderSize + z * m
  BY <1>1, <1>2, <1>5, <1>7 DEF Chunk
<1> QED
  BY <1>1, <1>2, <1>3, <1>6, <1>7, <1>8, SlabNumbers

LEMMA ChunksApart ==
  ASSUME NEW p \in Pages, NEW s \in ChunkSizes,
         NEW n \in 1..TotalChunks(s), NEW m \in 1..TotalChunks(s), n < m
  PROVE  Chunk(p, s, n) + s <= Chunk(p, s, m)
<1>1. PICK z \in Nat \ {0} : z = s
  BY ChunkSizeFacts
<1>2. TotalChunks(s) \in Nat
  BY ChunkSizeFacts
<1>3. PICK a \in Nat, b \in Nat : a = n - 1 /\ b = m - 1 /\ a < b
  <2>1. n - 1 \in Nat /\ m - 1 \in Nat /\ n - 1 < m - 1
    BY <1>2
  <2> QED
    BY <2>1
<1>4. z * a + z <= z * b /\ a * z = z * a /\ b * z = z * b /\ z * a \in Int /\ z * b \in Int
  BY <1>3, NextMultiple
<1>5. PICK c \in Int : c = Address(p) + HeaderSize
  BY AddressIs, SlabNumbers
<1>6. Chunk(p, s, n) = c + z * a /\ Chunk(p, s, m) = c + z * b
  BY <1>1, <1>3, <1>4, <1>5 DEF Chunk
<1> QED
  BY <1>1, <1>4, <1>5, <1>6

\* The bytes of a chunk lie on its page, behind the start.
LEMMA ChunkOnPage ==
  ASSUME NEW p \in Pages, NEW s \in ChunkSizes, NEW c \in ChunksAt(p, s)
  PROVE  /\ c \in Nat /\ c % PageSize # 0 /\ s \in Nat \ {0}
         /\ \A x \in c..(c + s - 1) : PageOf(x) = p
         /\ PageOf(c) = p
<1>1. PICK n \in 1..TotalChunks(s) : c = Chunk(p, s, n)
  BY DEF ChunksAt
<1>2. PICK a \in Nat : a = Address(p)
  BY AddressIs
<1>3. /\ c \in Nat /\ a < c /\ c + s <= a + PageSize /\ s \in Nat \ {0} /\ PageSize \in Nat
  BY <1>1, <1>2, ChunkFits, ChunkSizeFacts, SlabNumbers
<1>4. p \in Nat /\ a = p * PageSize
  BY <1>2, NumbersAre DEF Address
<1>5. ASSUME NEW x \in c..(c + s - 1) PROVE PageOf(x) = p /\ x % PageSize # 0
  <2>1. x \in Int /\ a < x /\ x < a + PageSize
    BY <1>2, <1>3
  <2> QED
    BY <1>2, <1>4, <2>1, PageOfIs
<1>6. c \in c..(c + s - 1)
  BY <1>3
<1> QED
  BY <1>3, <1>5, <1>6

LEMMA ChunksDiffer ==
  ASSUME NEW p \in Pages, NEW s \in ChunkSizes, NEW c \in ChunksAt(p, s), NEW d \in ChunksAt(p, s),
         c # d
  PROVE  (c..(c + s - 1)) \cap (d..(d + s - 1)) = {}
<1>1. PICK n \in 1..TotalChunks(s) : c = Chunk(p, s, n)
  BY DEF ChunksAt
<1>2. PICK m \in 1..TotalChunks(s) : d = Chunk(p, s, m)
  BY DEF ChunksAt
<1>3. n \in Int /\ m \in Int /\ n # m /\ c \in Nat /\ d \in Nat /\ s \in Nat
  BY <1>1, <1>2, ChunkOnPage, ChunkSizeFacts
<1>4. CASE n < m
  <2>1. c + s <= d
    BY <1>1, <1>2, <1>4, ChunksApart
  <2> QED
    BY <1>3, <2>1
<1>5. CASE m < n
  <2>1. d + s <= c
    BY <1>1, <1>2, <1>5, ChunksApart
  <2> QED
    BY <1>3, <2>1
<1> QED
  BY <1>3, <1>4, <1>5

LEMMA ChunksCount ==
  ASSUME NEW p \in Pages, NEW s \in ChunkSizes
  PROVE  IsFiniteSet(ChunksAt(p, s)) /\ Cardinality(ChunksAt(p, s)) = TotalChunks(s)
<1>1. PICK t \in Nat : t = TotalChunks(s)
  BY ChunkSizeFacts
<1> DEFINE f == [n \in 1..t |-> Chunk(p, s, n)]
<1>2. f \in Bijection(1..t, ChunksAt(p, s))
  <2>1. ASSUME NEW n \in 1..t, NEW m \in 1..t, f[n] = f[m] PROVE n = m
    <3>1. Chunk(p, s, n) = Chunk(p, s, m)
      BY <2>1
    <3>2. \A a, b \in 1..t : a < b => Chunk(p, s, a) # Chunk(p, s, b)
      <4> TAKE a, b \in 1..t
      <4> HAVE a < b
      <4>1. Chunk(p, s, a) + s <= Chunk(p, s, b)
        BY <1>1, ChunksApart
      <4>2. Chunk(p, s, a) \in Nat /\ s \in Nat \ {0} /\ Chunk(p, s, b) \in Nat
        BY <1>1, ChunkFits, ChunkSizeFacts
      <4> QED
        BY <4>1, <4>2
    <3>3. ~(n < m) /\ ~(m < n) /\ n \in Int /\ m \in Int
      BY <3>1, <3>2
    <3> QED
      BY <3>3
  <2>2. f \in [1..t -> ChunksAt(p, s)]
    BY <1>1 DEF ChunksAt
  <2>3. \A c \in ChunksAt(p, s) : \E n \in 1..t : f[n] = c
    BY <1>1 DEF ChunksAt
  <2> HIDE DEF f
  <2> QED
    BY <2>1, <2>2, <2>3 DEF Bijection, Injection, Surjection, IsInjective
<1>3. IsFiniteSet(1..t) /\ Cardinality(1..t) = t
  BY FS_Interval
<1>4. ExistsBijection(1..t, ChunksAt(p, s))
  BY <1>2 DEF ExistsBijection
<1> QED
  BY <1>1, <1>3, <1>4, FS_Bijection

\* A list without repetitions is complete when it is as long as the set is large.
LEMMA CompleteList ==
  ASSUME NEW C, IsFiniteSet(C), NEW q \in Seq(Nat), IsInjective(q), ToSet(q) \subseteq C
  PROVE  Len(q) = Cardinality(C) <=> ToSet(q) = C
<1>1. PICK n \in Nat : n = Len(q) /\ DOMAIN q = 1..n /\ \A x : x \in ToSet(q) <=> \E i \in 1..n : q[i] = x
  BY ListElems
<1>2. q \in [1..n -> ToSet(q)]
  BY <1>1
<1>3. q \in Bijection(1..n, ToSet(q))
  BY <1>1, <1>2 DEF Bijection, Injection, Surjection, IsInjective
<1>4. Cardinality(ToSet(q)) = n
  <2>1. IsFiniteSet(1..n) /\ Cardinality(1..n) = n
    BY FS_Interval
  <2>2. ExistsBijection(1..n, ToSet(q))
    BY <1>3 DEF ExistsBijection
  <2> QED
    BY <2>1, <2>2, FS_Bijection
<1>5. Cardinality(C) = Cardinality(ToSet(q)) => C = ToSet(q)
  BY FS_Subset
<1> QED
  BY <1>1, <1>4, <1>5

(***************************************************************************)
(* Large requests.                                                         *)
(***************************************************************************)
LEMMA OrderForIs ==
  ASSUME NEW size \in Sizes
  PROVE  /\ size \in Nat \ {0} /\ OrderFor(size) \in Orders
         /\ size <= PageSize * Size(OrderFor(size))
<1>1. PICK s \in Nat \ {0} : s = PageSize
  BY SlabNumbers
<1>2. PICK m \in Orders : m = MaxOrder - 1
  BY NumbersAre
<1>3. PICK w \in Nat \ {0} : w = Size(m)
  BY <1>2, NumbersAre, SizeSucc
<1>4. size \in Nat \ {0} /\ size <= s * w
  <2>1. size \in 1..(2^(MaxOrder - 1) * PageSize)
    BY SlabAssumption
  <2>2. 2^(MaxOrder - 1) * PageSize = s * w
    BY <1>1, <1>2, <1>3 DEF Size
  <2>3. s * w \in Nat
    OBVIOUS
  <2> QED
    BY <2>1, <2>2, <2>3
<1>5. size + s - 1 \in Int
  BY <1>4
<1>6. PICK k \in Int, r \in 0..(s - 1) : k = PagesFor(size) /\ size + s - 1 = s * k + r
  <2>1. PagesFor(size) = (size + s - 1) \div s
    BY <1>1 DEF PagesFor
  <2>2. PICK x \in Int : x = size + s - 1
    BY <1>5
  <2>3. x \div s \in Int /\ x % s \in 0..(s - 1) /\ x = s * (x \div s) + (x % s)
    BY DivMod
  <2> QED
    BY <2>1, <2>2, <2>3
<1>7. size <= s * k /\ s * k < size + s /\ s * k \in Int
  BY <1>4, <1>6
<1>8. k <= w
  <2> SUFFICES ASSUME w < k PROVE FALSE
    BY <1>3, <1>6
  <2>1. s * w + s <= s * k
    BY NextMultiple
  <2>2. s * w \in Int
    OBVIOUS
  <2> QED
    BY <1>4, <1>7, <2>1, <2>2
<1> DEFINE S == {o \in Orders : 2^o >= PagesFor(size)}
<1>9. S \in SUBSET Nat /\ m \in S
  BY <1>2, <1>3, <1>6, <1>8, NumbersAre DEF Size
<1>10. OrderFor(size) \in S
  <2>1. Min(S) \in S
    BY <1>9, MinIs
  <2> QED
    BY <2>1 DEF OrderFor
<1>11. PICK o \in Orders, v \in Nat : o = OrderFor(size) /\ v = Size(o) /\ k <= v
  <2>1. OrderFor(size) \in Orders /\ Size(OrderFor(size)) >= k
    BY <1>6, <1>10 DEF Size
  <2>2. Size(OrderFor(size)) \in Nat
    BY <2>1, NumbersAre, SizeSucc
  <2> QED
    BY <1>6, <2>1, <2>2
<1>12. s * k <= s * v
  <2>1. CASE k = v
    BY <2>1
  <2>2. CASE k < v
    <3>1. s * k + s <= s * v
      BY <2>2, NextMultiple
    <3>2. s * v \in Int
      OBVIOUS
    <3> QED
      BY <1>7, <3>1, <3>2
  <2> QED
    BY <1>6, <1>11, <2>1, <2>2
<1> QED
  BY <1>1, <1>4, <1>7, <1>11, <1>12

\* The bytes of a large allocation lie in its block.
LEMMA LargeInBlock ==
  ASSUME NEW p \in Pages, NEW size \in Sizes
  PROVE  /\ Address(p) \in Nat /\ PageOf(Address(p)) = p /\ Address(p) % PageSize = 0
         /\ \A x \in Address(p)..(Address(p) + size - 1) : PageOf(x) \in Block(p, OrderFor(size))
<1>1. PICK s \in Nat \ {0} : s = PageSize
  BY SlabNumbers
<1>2. p \in Nat /\ p \in Int /\ s * p = p * s /\ s * p \in Nat /\ Address(p) = s * p
  BY <1>1, NumbersAre DEF Address
<1>3. PageOf(Address(p)) = p /\ Address(p) % PageSize = 0
  BY <1>1, <1>2, PageOfIs
<1>4. PICK o \in Orders : o = OrderFor(size) /\ size \in Nat \ {0} /\ size <= s * Size(o)
  BY <1>1, OrderForIs
<1>5. PICK v \in Nat : v = Size(o)
  BY NumbersAre, SizeSucc
<1>6. ASSUME NEW x \in (s * p)..(s * p + size - 1) PROVE PageOf(x) \in p..(p + v - 1)
  <2>1. x \in Int /\ s * p <= x /\ x < s * p + s * v
    <3>1. s * v \in Int
      BY <1>5
    <3> QED
      BY <1>2, <1>4, <1>5, <3>1
  <2>2. PICK q \in Int, r \in 0..(s - 1) : q = PageOf(x) /\ x = s * q + r
    BY <1>1, <2>1, DivMod DEF PageOf
  <2>3. s * q \in Int
    BY <2>2
  <2>4. p <= q
    <3> SUFFICES ASSUME q < p PROVE FALSE
      BY <1>2, <2>2
    <3>1. s * q + s <= s * p
      BY <1>2, <2>2, NextMultiple
    <3> QED
      BY <1>2, <2>1, <2>2, <2>3, <3>1
  <2>5. q < p + v
    <3> SUFFICES ASSUME p + v <= q PROVE FALSE
      BY <1>2, <2>2
    <3>1. p - 1 \in Int /\ p + v - 1 < q /\ p + v - 1 \in Int
      BY <1>2, <2>2
    <3>2. s * (p + v - 1) + s <= s * q
      BY <2>2, <3>1, NextMultiple
    <3>3. s * (p + v - 1) + s = s * p + s * v /\ s * v \in Int
      BY <1>2
    <3> QED
      BY <1>2, <2>1, <2>2, <2>3, <3>2, <3>3
  <2> QED
    BY <1>2, <2>2, <2>4, <2>5
<1> QED
  BY <1>2, <1>3, <1>4, <1>5, <1>6 DEF Block

(***************************************************************************)
(* The blocks of the page allocator that slabs and large allocations are.  *)
(***************************************************************************)
IsLarge(a) == a.addr % PageSize = 0

LargeOf(A) == {a \in A : IsLarge(a)}

LargeBlock(a) == [pfn |-> PageOf(a.addr), order |-> OrderFor(a.len)]

\* the blocks under the slabs S and the large allocations B
BlocksUnder(S, B) == Singles(DOMAIN S) \cup {LargeBlock(a) : a \in B}

\* Each slab and each large allocation has a block of its own.
Backed(M, S, B) ==
  /\ DOMAIN S \subseteq Pages
  /\ \A a \in B : /\ a \in [addr : Nat, len : Sizes] /\ a.addr = Address(PageOf(a.addr))
                  /\ PageOf(a.addr) \in Pages \ DOMAIN S
  /\ \A a, b \in B : PageOf(a.addr) = PageOf(b.addr) => a = b
  /\ Sound(M, BlocksUnder(S, B), Reserved)

LEMMA SoundGiveBack ==
  ASSUME NEW M, NEW H, NEW R, Sound(M, H, R), NEW b \in H
  PROVE  Sound(AfterFree(M, b.pfn), H \ {b}, R)
<1>1. /\ M \in Mems /\ H \subseteq BlockIds /\ ListsMatch(M) /\ Merged(M)
      /\ PartitionOf(FreeOf(M), H, R) /\ M.order[b.pfn] = b.order
      /\ Counted(M, H \ {b}) /\ Traced(M, H)
  BY DEF Sound, Counted, Traced
<1> QED
  BY <1>1, FreeSound

\* A block is taken from pages that no block has.
LEMMA SoundTake ==
  ASSUME NEW M, NEW H, NEW R, Sound(M, H, R), NEW o \in Orders, CanAlloc(M, o)
  PROVE  LET p == AllocPfn(M, o)
             b == [pfn |-> p, order |-> o]
         IN  /\ Sound(AfterAlloc(M, o), H \cup {b}, R)
             /\ b \in BlockIds /\ p \in Pages
             /\ PagesOf(b) \cap PagesIn(H) = {}
             /\ \A c \in H : c.pfn # p
<1>1. PICK b : b = [pfn |-> AllocPfn(M, o), order |-> o]
  OBVIOUS
<1>2. /\ Sound(AfterAlloc(M, o), H \cup {b}, R)
      /\ b \in BlockIds /\ PagesOf(b) \subseteq PagesIn(FreeOf(M))
  BY <1>1, AllocSound
<1>3. PagesIn(FreeOf(M)) = (Pages \ R) \ PagesIn(H) /\ H \subseteq BlockIds
  BY SoundFree
<1>4. PagesOf(b) \cap PagesIn(H) = {}
  BY <1>2, <1>3
<1>5. b.pfn \in PagesOf(b) /\ b.pfn \in Pages
  BY <1>2, BlockHasFirst DEF BlockIds
<1>6. \A c \in H : c.pfn # b.pfn
  BY <1>3, <1>4, <1>5, BlockHasFirst DEF PagesIn
<1> QED
  BY <1>1, <1>2, <1>4, <1>5, <1>6

LEMMA UnderIs ==
  ASSUME NEW S, NEW B
  PROVE  /\ \A p \in DOMAIN S : Single(p) \in BlocksUnder(S, B)
         /\ \A a \in B : LargeBlock(a) \in BlocksUnder(S, B)
         /\ \A b \in BlocksUnder(S, B) : \/ \E p \in DOMAIN S : b = Single(p)
                                         \/ \E a \in B : b = LargeBlock(a)
         /\ \A p : Single(p).pfn = p /\ Single(p).order = 0
         /\ \A a : LargeBlock(a).pfn = PageOf(a.addr) /\ LargeBlock(a).order = OrderFor(a.len)
BY DEF BlocksUnder, Singles, Single, LargeBlock

LEMMA PageTaken ==
  ASSUME NEW M, NEW S, NEW B, Backed(M, S, B), CanAlloc(M, 0),
         NEW p, p = AllocPfn(M, 0), NEW T, DOMAIN T = DOMAIN S \cup {p}
  PROVE  Backed(AfterAlloc(M, 0), T, B) /\ p \in Pages \ DOMAIN S
<1>1. PICK H : H = BlocksUnder(S, B) /\ Sound(M, H, Reserved)
  BY DEF Backed
<1>2. /\ Sound(AfterAlloc(M, 0), H \cup {Single(p)}, Reserved)
      /\ p \in Pages /\ \A c \in H : c.pfn # p
  BY <1>1, NumbersAre, SoundTake DEF Single
<1>3. BlocksUnder(T, B) = H \cup {Single(p)}
  BY <1>1 DEF BlocksUnder, Singles
<1>4. p \notin DOMAIN S /\ \A a \in B : PageOf(a.addr) # p
  BY <1>1, <1>2, UnderIs
<1> QED
  BY <1>2, <1>3, <1>4 DEF Backed

LEMMA PageReturned ==
  ASSUME NEW M, NEW S, NEW B, Backed(M, S, B), NEW p \in DOMAIN S,
         NEW T, DOMAIN T = DOMAIN S \ {p}
  PROVE  Backed(AfterFree(M, p), T, B)
<1>1. PICK H : H = BlocksUnder(S, B) /\ Sound(M, H, Reserved) /\ Single(p) \in H
  BY UnderIs DEF Backed
<1>2. Sound(AfterFree(M, p), H \ {Single(p)}, Reserved)
  BY <1>1, SoundGiveBack, UnderIs
<1>3. BlocksUnder(T, B) = H \ {Single(p)}
  <2>1. \A q \in DOMAIN T : q # p /\ Single(q) # Single(p)
    BY DEF Single
  <2>2. \A a \in B : LargeBlock(a) # Single(p)
    BY UnderIs DEF Backed
  <2> QED
    BY <1>1, <2>1, <2>2 DEF BlocksUnder, Singles
<1> QED
  BY <1>2, <1>3 DEF Backed

LEMMA LargeTaken ==
  ASSUME NEW M, NEW S, NEW B, Backed(M, S, B), NEW size \in Sizes, CanAlloc(M, OrderFor(size)),
         NEW a, a = [addr |-> Address(AllocPfn(M, OrderFor(size))), len |-> size]
  PROVE  /\ Backed(AfterAlloc(M, OrderFor(size)), S, B \cup {a})
         /\ IsLarge(a) /\ a \notin B
<1>1. PICK H : H = BlocksUnder(S, B) /\ Sound(M, H, Reserved)
  BY DEF Backed
<1>2. PICK o, p : o = OrderFor(size) /\ o \in Orders /\ p = AllocPfn(M, o)
  BY OrderForIs
<1>3. PICK b : b = [pfn |-> p, order |-> o]
  OBVIOUS
<1>4. /\ Sound(AfterAlloc(M, o), H \cup {b}, Reserved)
      /\ p \in Pages /\ \A c \in H : c.pfn # p
  BY <1>1, <1>2, <1>3, SoundTake
<1>5. PageOf(a.addr) = p /\ IsLarge(a) /\ a \in [addr : Nat, len : Sizes] /\ a.addr = Address(p)
  BY <1>2, <1>4, LargeInBlock DEF IsLarge
<1>6. LargeBlock(a) = b
  BY <1>2, <1>3, <1>5 DEF LargeBlock
<1>7. BlocksUnder(S, B \cup {a}) = H \cup {b}
  BY <1>1, <1>6 DEF BlocksUnder
<1>8. p \notin DOMAIN S /\ \A c \in B : PageOf(c.addr) # p
  BY <1>1, <1>4, UnderIs
<1>9. Backed(AfterAlloc(M, OrderFor(size)), S, B \cup {a})
  BY <1>2, <1>4, <1>5, <1>7, <1>8 DEF Backed
<1>10. a \notin B
  BY <1>5, <1>8
<1> QED
  BY <1>5, <1>9, <1>10

LEMMA LargeReturned ==
  ASSUME NEW M, NEW S, NEW B, Backed(M, S, B), NEW a \in B
  PROVE  Backed(AfterFree(M, PageOf(a.addr)), S, B \ {a})
<1>1. PICK H : H = BlocksUnder(S, B) /\ Sound(M, H, Reserved) /\ LargeBlock(a) \in H
  BY UnderIs DEF Backed
<1>2. Sound(AfterFree(M, PageOf(a.addr)), H \ {LargeBlock(a)}, Reserved)
  BY <1>1, SoundGiveBack, UnderIs
<1>3. BlocksUnder(S, B \ {a}) = H \ {LargeBlock(a)}
  <2>1. \A p \in DOMAIN S : Single(p) # LargeBlock(a)
    BY UnderIs DEF Backed
  <2>2. \A c \in B \ {a} : LargeBlock(c) # LargeBlock(a)
    BY UnderIs DEF Backed
  <2> QED
    BY <1>1, <2>1, <2>2 DEF BlocksUnder, Singles
<1> QED
  BY <1>2, <1>3 DEF Backed

(***************************************************************************)
(* Chunks and the pools that link their slabs.                             *)
(***************************************************************************)
\* the chunk size of the slab p, and its free chunks
SizeIn(S, p) == S[p].chunk_size
ChunksFree(S, p) == S[p].free_list

\* Each slab S[p] is cut into chunks of one size, some of which are in its list.
Cut(S) ==
  /\ DOMAIN S \subseteq Pages
  /\ S \in [DOMAIN S -> [chunk_size : ChunkSizes, free_list : Seq(Nat)]]
  /\ \A p \in DOMAIN S : /\ IsInjective(ChunksFree(S, p))
                         /\ ToSet(ChunksFree(S, p)) \subseteq ChunksAt(p, SizeIn(S, p))

\* A pool L[i] links the slabs of its size that have a free chunk.
Linkable(S, i) == {p \in DOMAIN S : SizeIn(S, p) = ChunkSize(i) /\ ChunksFree(S, p) # <<>>}

Linked(S, L) ==
  /\ L \in [PoolIds -> Seq(Pages)]
  /\ \A i \in PoolIds : IsInjective(L[i]) /\ ToSet(L[i]) = Linkable(S, i)

\* the chunks of a slab that are not free
TakenOf(S, p) == ChunksAt(p, SizeIn(S, p)) \ ToSet(ChunksFree(S, p))

ChunkOut(S, p, c) == [addr |-> c, len |-> SizeIn(S, p)]

ChunksOut(S) == UNION {{ChunkOut(S, p, c) : c \in TakenOf(S, p)} : p \in DOMAIN S}

LEMMA CutFacts ==
  ASSUME NEW S, Cut(S), NEW p \in DOMAIN S
  PROVE  /\ p \in Pages /\ SizeIn(S, p) \in ChunkSizes /\ ChunksFree(S, p) \in Seq(Nat)
         /\ IsInjective(ChunksFree(S, p)) /\ ToSet(ChunksFree(S, p)) \subseteq ChunksAt(p, SizeIn(S, p))
<1>1. S[p] \in [chunk_size : ChunkSizes, free_list : Seq(Nat)]
  BY DEF Cut
<1>2. SizeIn(S, p) \in ChunkSizes /\ ChunksFree(S, p) \in Seq(Nat)
  BY <1>1 DEF SizeIn, ChunksFree
<1> QED
  BY <1>2 DEF Cut

LEMMA ChunksOutAre ==
  ASSUME NEW S, Cut(S)
  PROVE  /\ \A a \in ChunksOut(S) :
              /\ PageOf(a.addr) \in DOMAIN S /\ ~IsLarge(a)
              /\ a.addr \in TakenOf(S, PageOf(a.addr))
              /\ a = ChunkOut(S, PageOf(a.addr), a.addr) /\ a.len = SizeIn(S, PageOf(a.addr))
         /\ \A p \in DOMAIN S : \A c \in TakenOf(S, p) : ChunkOut(S, p, c) \in ChunksOut(S)
<1>1. \A p \in DOMAIN S : p \in Pages /\ SizeIn(S, p) \in ChunkSizes
  BY CutFacts
<1>2. ASSUME NEW a \in ChunksOut(S)
      PROVE  /\ PageOf(a.addr) \in DOMAIN S /\ ~IsLarge(a)
             /\ a.addr \in TakenOf(S, PageOf(a.addr))
             /\ a = ChunkOut(S, PageOf(a.addr), a.addr) /\ a.len = SizeIn(S, PageOf(a.addr))
  <2>1. PICK p \in DOMAIN S : \E c \in TakenOf(S, p) : a = ChunkOut(S, p, c)
    BY <1>2 DEF ChunksOut
  <2>2. PICK c \in TakenOf(S, p) : a = ChunkOut(S, p, c)
    BY <2>1
  <2>3. c \in ChunksAt(p, SizeIn(S, p))
    BY DEF TakenOf
  <2>4. PageOf(c) = p /\ c % PageSize # 0
    BY <1>1, <2>3, ChunkOnPage
  <2>5. a.addr = c /\ a.len = SizeIn(S, p)
    BY <2>2 DEF ChunkOut
  <2> QED
    BY <2>2, <2>4, <2>5 DEF IsLarge
<1>3. \A p \in DOMAIN S : \A c \in TakenOf(S, p) : ChunkOut(S, p, c) \in ChunksOut(S)
  BY DEF ChunksOut
<1> QED
  BY <1>2, <1>3

\* the slabs S when the free list of p is q
Relisted(S, p, q) == [S EXCEPT ![p].free_list = q]

\* Two sets of slabs that differ in one free list.
LEMMA ListChanged ==
  ASSUME NEW S, Cut(S), NEW p \in DOMAIN S, NEW q \in Seq(Nat), IsInjective(q),
         ToSet(q) \subseteq ChunksAt(p, SizeIn(S, p))
  PROVE  /\ Cut(Relisted(S, p, q)) /\ DOMAIN Relisted(S, p, q) = DOMAIN S
         /\ ChunksFree(Relisted(S, p, q), p) = q
         /\ \A r \in DOMAIN S \ {p} : Relisted(S, p, q)[r] = S[r]
         /\ \A r \in DOMAIN S : SizeIn(Relisted(S, p, q), r) = SizeIn(S, r)
<1>1. PICK T : T = Relisted(S, p, q)
  OBVIOUS
<1>2. /\ DOMAIN S \subseteq Pages
      /\ S \in [DOMAIN S -> [chunk_size : ChunkSizes, free_list : Seq(Nat)]]
      /\ \A r \in DOMAIN S : /\ IsInjective(ChunksFree(S, r))
                             /\ ToSet(ChunksFree(S, r)) \subseteq ChunksAt(r, SizeIn(S, r))
  BY DEF Cut
<1>3. /\ DOMAIN T = DOMAIN S
      /\ T \in [DOMAIN T -> [chunk_size : ChunkSizes, free_list : Seq(Nat)]]
      /\ T[p] = [chunk_size |-> S[p].chunk_size, free_list |-> q]
      /\ \A r \in DOMAIN S \ {p} : T[r] = S[r]
  BY <1>1, <1>2 DEF Relisted
<1>4. ChunksFree(T, p) = q /\ SizeIn(T, p) = SizeIn(S, p)
  BY <1>3 DEF ChunksFree, SizeIn
<1>5. \A r \in DOMAIN S \ {p} : ChunksFree(T, r) = ChunksFree(S, r) /\ SizeIn(T, r) = SizeIn(S, r)
  BY <1>3 DEF ChunksFree, SizeIn
<1>6. \A r \in DOMAIN T : /\ IsInjective(ChunksFree(T, r))
                          /\ ToSet(ChunksFree(T, r)) \subseteq ChunksAt(r, SizeIn(T, r))
  BY <1>2, <1>3, <1>4, <1>5
<1>7. Cut(T)
  BY <1>2, <1>3, <1>6 DEF Cut
<1> QED
  BY <1>1, <1>3, <1>4, <1>5, <1>7

\* Slabs other than p do not differ: neither does what is in use of them.
LEMMA OutElsewhere ==
  ASSUME NEW S, Cut(S), NEW T, Cut(T), NEW p, DOMAIN T \ {p} = DOMAIN S \ {p},
         \A r \in DOMAIN S \ {p} : T[r] = S[r],
         NEW a \in ChunksOut(T), PageOf(a.addr) # p
  PROVE  a \in ChunksOut(S)
<1>1. PICK r \in DOMAIN T : /\ r = PageOf(a.addr) /\ a.addr \in TakenOf(T, r)
                            /\ a = ChunkOut(T, r, a.addr)
  BY ChunksOutAre
<1>2. r \in DOMAIN S \ {p}
  BY <1>1
<1>3. a.addr \in TakenOf(S, r) /\ a = ChunkOut(S, r, a.addr)
  BY <1>1, <1>2 DEF ChunkOut, TakenOf, SizeIn, ChunksFree
<1> QED
  BY <1>2, <1>3, ChunksOutAre

\* One chunk c of the slab p more is in use in T.
OneMore(S, T, p, c) ==
  /\ p \in DOMAIN S /\ DOMAIN T = DOMAIN S /\ SizeIn(T, p) = SizeIn(S, p)
  /\ \A r \in DOMAIN S \ {p} : T[r] = S[r]
  /\ c \notin TakenOf(S, p) /\ TakenOf(T, p) = TakenOf(S, p) \cup {c}

LEMMA OneMoreOut ==
  ASSUME NEW S, Cut(S), NEW T, Cut(T), NEW p, NEW c, OneMore(S, T, p, c),
         NEW a, a = ChunkOut(S, p, c)
  PROVE  /\ ChunksOut(T) = ChunksOut(S) \cup {a} /\ a \notin ChunksOut(S)
         /\ PageOf(a.addr) = p /\ ~IsLarge(a)
<1> USE DEF OneMore
<1>1. /\ a.addr = c /\ a = ChunkOut(T, p, c)
      /\ \A x : ChunkOut(T, p, x) = ChunkOut(S, p, x) /\ ChunkOut(S, p, x).addr = x
  BY DEF ChunkOut
<1>2. a \in ChunksOut(T)
  BY <1>1, ChunksOutAre
<1>3. PageOf(a.addr) = p /\ ~IsLarge(a)
  <2>1. a.addr \in ChunksAt(p, SizeIn(T, p)) /\ p \in Pages /\ SizeIn(T, p) \in ChunkSizes
    BY <1>1, CutFacts DEF TakenOf
  <2> QED
    BY <1>2, <2>1, ChunkOnPage, ChunksOutAre
<1>4. a \notin ChunksOut(S)
  BY <1>1, <1>3, ChunksOutAre
<1>5. ASSUME NEW b \in ChunksOut(S) PROVE b \in ChunksOut(T)
  <2>1. CASE PageOf(b.addr) # p
    BY <1>5, <2>1, OutElsewhere
  <2>2. CASE PageOf(b.addr) = p
    <3>1. b.addr \in TakenOf(S, p) /\ b = ChunkOut(S, p, b.addr)
      BY <1>5, <2>2, ChunksOutAre
    <3>2. b.addr \in TakenOf(T, p) /\ b = ChunkOut(T, p, b.addr)
      BY <1>1, <3>1
    <3> QED
      BY <3>2, ChunksOutAre
  <2> QED
    BY <2>1, <2>2
<1>6. ASSUME NEW b \in ChunksOut(T), b # a PROVE b \in ChunksOut(S)
  <2>1. CASE PageOf(b.addr) # p
    BY <1>6, <2>1, OutElsewhere
  <2>2. CASE PageOf(b.addr) = p
    <3>1. b.addr \in TakenOf(T, p) /\ b = ChunkOut(T, p, b.addr)
      BY <1>6, <2>2, ChunksOutAre
    <3>2. b = ChunkOut(S, p, b.addr)
      BY <1>1, <3>1
    <3>3. b.addr # c
      BY <1>6, <3>2
    <3>4. b.addr \in TakenOf(S, p)
      BY <3>1, <3>3
    <3> QED
      BY <3>2, <3>4, ChunksOutAre
  <2> QED
    BY <2>1, <2>2
<1> QED
  BY <1>2, <1>3, <1>4, <1>5, <1>6

\* A slab of which nothing is in use makes no difference.
LEMMA UnusedSlab ==
  ASSUME NEW S, Cut(S), NEW T, Cut(T), NEW p \in DOMAIN T, DOMAIN S = DOMAIN T \ {p},
         \A r \in DOMAIN S : T[r] = S[r], TakenOf(T, p) = {}
  PROVE  ChunksOut(T) = ChunksOut(S)
<1>1. ASSUME NEW a \in ChunksOut(T) PROVE a \in ChunksOut(S)
  <2>1. PageOf(a.addr) # p
    BY <1>1, ChunksOutAre
  <2> QED
    BY <1>1, <2>1, OutElsewhere
<1>2. ASSUME NEW a \in ChunksOut(S) PROVE a \in ChunksOut(T)
  <2>1. PageOf(a.addr) # p
    BY <1>2, ChunksOutAre
  <2> QED
    BY <1>2, <2>1, OutElsewhere
<1> QED
  BY <1>1, <1>2

\* The first free chunk of a slab is taken.
LEMMA ChunkTaken ==
  ASSUME NEW S, Cut(S), NEW p \in DOMAIN S, ChunksFree(S, p) # <<>>,
         NEW T, T = Relisted(S, p, Tail(ChunksFree(S, p))),
         NEW a, a = [addr |-> Head(ChunksFree(S, p)), len |-> SizeIn(S, p)]
  PROVE  /\ Cut(T) /\ DOMAIN T = DOMAIN S
         /\ SizeIn(T, p) = SizeIn(S, p) /\ ChunksFree(T, p) = Tail(ChunksFree(S, p))
         /\ \A r \in DOMAIN S \ {p} : T[r] = S[r]
         /\ ChunksOut(T) = ChunksOut(S) \cup {a} /\ a \notin ChunksOut(S)
         /\ ~IsLarge(a) /\ PageOf(a.addr) = p
         /\ TakenOf(T, p) # {}
<1>1. PICK q \in Seq(Nat) : /\ q = ChunksFree(S, p) /\ q # <<>> /\ IsInjective(q)
                            /\ ToSet(q) \subseteq ChunksAt(p, SizeIn(S, p))
  BY CutFacts
<1>2. PICK c \in Nat, u \in Seq(Nat) :
        /\ c = Head(q) /\ u = Tail(q) /\ c \in ToSet(q) /\ IsInjective(u) /\ ToSet(u) = ToSet(q) \ {c}
  <2>1. /\ Head(q) \in ToSet(q) /\ Tail(q) \in Seq(Nat) /\ IsInjective(Tail(q))
        /\ ToSet(Tail(q)) = ToSet(q) \ {Head(q)}
    BY <1>1, TailElems
  <2>2. Head(q) \in Nat
    BY <2>1, ListElems
  <2> QED
    BY <2>1, <2>2
<1>3. T = Relisted(S, p, u) /\ a = ChunkOut(S, p, c)
  BY <1>1, <1>2 DEF ChunkOut
<1>4. ToSet(u) \subseteq ChunksAt(p, SizeIn(S, p))
  BY <1>1, <1>2
<1>5. /\ Cut(T) /\ DOMAIN T = DOMAIN S /\ ChunksFree(T, p) = u
      /\ \A r \in DOMAIN S \ {p} : T[r] = S[r]
      /\ \A r \in DOMAIN S : SizeIn(T, r) = SizeIn(S, r)
  <2>1. IsInjective(u)
    BY <1>2
  <2>2. /\ Cut(Relisted(S, p, u)) /\ DOMAIN Relisted(S, p, u) = DOMAIN S
        /\ ChunksFree(Relisted(S, p, u), p) = u
        /\ \A r \in DOMAIN S \ {p} : Relisted(S, p, u)[r] = S[r]
        /\ \A r \in DOMAIN S : SizeIn(Relisted(S, p, u), r) = SizeIn(S, r)
    BY <1>4, <2>1, ListChanged
  <2> QED
    BY <1>3, <2>2
<1>6. /\ TakenOf(S, p) = ChunksAt(p, SizeIn(S, p)) \ ToSet(q)
      /\ TakenOf(T, p) = ChunksAt(p, SizeIn(S, p)) \ ToSet(u)
  BY <1>1, <1>5 DEF TakenOf
<1>7. TakenOf(T, p) = TakenOf(S, p) \cup {c} /\ c \notin TakenOf(S, p)
  <2> DEFINE C == ChunksAt(p, SizeIn(S, p))
             Q == ToSet(q)
             U == ToSet(u)
  <2>1. Q \subseteq C /\ c \in Q /\ U = Q \ {c}
    BY <1>1, <1>2
  <2>2. TakenOf(T, p) = C \ U /\ TakenOf(S, p) = C \ Q
    BY <1>6
  <2> HIDE DEF C, Q, U
  <2> QED
    BY <2>1, <2>2
<1>8. /\ ChunksOut(T) = ChunksOut(S) \cup {a} /\ a \notin ChunksOut(S)
      /\ PageOf(a.addr) = p /\ ~IsLarge(a)
  <2>1. OneMore(S, T, p, c)
    BY <1>5, <1>7 DEF OneMore
  <2> QED
    BY <1>3, <1>5, <2>1, OneMoreOut
<1>9. TakenOf(T, p) # {} /\ ChunksFree(T, p) = Tail(ChunksFree(S, p))
  BY <1>1, <1>2, <1>5, <1>7
<1> QED
  BY <1>5, <1>8, <1>9

Repooled(L, i, q) == [L EXCEPT ![i] = q]

LEMMA RepooledIs ==
  ASSUME NEW L \in [PoolIds -> Seq(Pages)], NEW i \in PoolIds, NEW q \in Seq(Pages)
  PROVE  /\ Repooled(L, i, q) \in [PoolIds -> Seq(Pages)] /\ Repooled(L, i, q)[i] = q
         /\ \A j \in PoolIds \ {i} : Repooled(L, i, q)[j] = L[j]
         /\ Repooled(L, i, L[i]) = L
BY DEF Repooled

LEMMA RepooledTwice ==
  ASSUME NEW L \in [PoolIds -> Seq(Pages)], NEW i \in PoolIds, NEW q, NEW u
  PROVE  Repooled(Repooled(L, i, q), i, u) = Repooled(L, i, u)
BY DEF Repooled

\* Slabs that differ at p only, where they have the chunk size of pool i.
DifferAt(S, T, p, i) ==
  /\ DOMAIN T \ {p} = DOMAIN S \ {p}
  /\ \A r \in DOMAIN S \ {p} : T[r] = S[r]
  /\ p \in DOMAIN S => SizeIn(S, p) = ChunkSize(i)
  /\ p \in DOMAIN T => SizeIn(T, p) = ChunkSize(i)

\* The other pools link what they did.
OnePool(S, T, p, i) ==
  /\ \A j \in PoolIds \ {i} : Linkable(T, j) = Linkable(S, j)
  /\ Linkable(T, i) \ {p} = Linkable(S, i) \ {p}
  /\ p \in Linkable(S, i) <=> p \in DOMAIN S /\ ChunksFree(S, p) # <<>>
  /\ p \in Linkable(T, i) <=> p \in DOMAIN T /\ ChunksFree(T, p) # <<>>

LEMMA LinkableWhere ==
  ASSUME NEW S, NEW T, NEW p, NEW i \in PoolIds, DifferAt(S, T, p, i)
  PROVE  OnePool(S, T, p, i)
<1>1. \A r \in DOMAIN S \ {p} : SizeIn(T, r) = SizeIn(S, r) /\ ChunksFree(T, r) = ChunksFree(S, r)
  BY DEF SizeIn, ChunksFree, DifferAt
<1>2. \A j \in PoolIds : Linkable(T, j) \ {p} = Linkable(S, j) \ {p}
  BY <1>1 DEF Linkable, DifferAt
<1>3. \A j \in PoolIds \ {i} : p \notin Linkable(T, j) /\ p \notin Linkable(S, j)
  BY ChunkSizesDiffer DEF Linkable, DifferAt
<1>4. \A j \in PoolIds \ {i} : Linkable(T, j) = Linkable(S, j)
  <2> TAKE j \in PoolIds \ {i}
  <2>1. Linkable(T, j) \ {p} = Linkable(S, j) \ {p} /\ p \notin Linkable(T, j) /\ p \notin Linkable(S, j)
    BY <1>2, <1>3
  <2> QED
    BY <2>1
<1>5. /\ p \in Linkable(S, i) <=> p \in DOMAIN S /\ ChunksFree(S, p) # <<>>
      /\ p \in Linkable(T, i) <=> p \in DOMAIN T /\ ChunksFree(T, p) # <<>>
  BY DEF Linkable, DifferAt
<1> QED
  BY <1>2, <1>4, <1>5 DEF OnePool

LEMMA LinkedChanged ==
  ASSUME NEW S, NEW L, Linked(S, L), NEW T, NEW i \in PoolIds, NEW q \in Seq(Pages),
         IsInjective(q), ToSet(q) = Linkable(T, i),
         \A j \in PoolIds \ {i} : Linkable(T, j) = Linkable(S, j)
  PROVE  Linked(T, Repooled(L, i, q))
<1>1. PICK K : K = Repooled(L, i, q)
  OBVIOUS
<1>2. /\ L \in [PoolIds -> Seq(Pages)]
      /\ \A j \in PoolIds : IsInjective(L[j]) /\ ToSet(L[j]) = Linkable(S, j)
  BY DEF Linked
<1>3. K \in [PoolIds -> Seq(Pages)] /\ K[i] = q /\ \A j \in PoolIds \ {i} : K[j] = L[j]
  BY <1>1, <1>2, RepooledIs
<1>4. ASSUME NEW j \in PoolIds PROVE IsInjective(K[j]) /\ ToSet(K[j]) = Linkable(T, j)
  <2>1. CASE j = i
    BY <1>3, <2>1
  <2>2. CASE j # i
    BY <1>2, <1>3, <2>2
  <2> QED
    BY <2>1, <2>2
<1> QED
  BY <1>1, <1>3, <1>4 DEF Linked

\* The first chunk of the first slab of q, which pool i links, is handed out.
Poured(L, i, q, T) == Repooled(L, i, IF ChunksFree(T, Head(q)) = <<>> THEN Tail(q) ELSE q)

FirstChunk(S, p) == [addr |-> Head(ChunksFree(S, p)), len |-> SizeIn(S, p)]

WithoutChunk(S, p) == Relisted(S, p, Tail(ChunksFree(S, p)))

LEMMA LinkedTaken ==
  ASSUME NEW S, Cut(S), NEW L \in [PoolIds -> Seq(Pages)], NEW i \in PoolIds,
         NEW q \in Seq(Pages), q # <<>>, Linked(S, Repooled(L, i, q)),
         NEW T, T = WithoutChunk(S, Head(q))
  PROVE  /\ Head(q) \in DOMAIN S /\ ChunksFree(S, Head(q)) # <<>>
         /\ Linked(T, Poured(L, i, q, T))
<1>0. PICK p, u : /\ p = Head(q) /\ u = IF ChunksFree(T, p) = <<>> THEN Tail(q) ELSE q
                  /\ T = Relisted(S, p, Tail(ChunksFree(S, p)))
  BY DEF WithoutChunk
<1>1. PICK N : N = Repooled(L, i, q) /\ N \in [PoolIds -> Seq(Pages)] /\ N[i] = q
  BY RepooledIs
<1>2. IsInjective(q) /\ ToSet(q) = Linkable(S, i)
  BY <1>1 DEF Linked
<1>3. PICK t \in Seq(Pages) : t = Tail(q) /\ IsInjective(t) /\ ToSet(t) = ToSet(q) \ {p} /\ p \in ToSet(q)
  BY <1>0, <1>2, TailElems
<1>4. p \in DOMAIN S /\ ChunksFree(S, p) # <<>> /\ SizeIn(S, p) = ChunkSize(i)
  BY <1>2, <1>3 DEF Linkable
<1>5. PICK a : a = [addr |-> Head(ChunksFree(S, p)), len |-> SizeIn(S, p)]
  OBVIOUS
<1>6. /\ DOMAIN T = DOMAIN S /\ SizeIn(T, p) = SizeIn(S, p)
      /\ \A r \in DOMAIN S \ {p} : T[r] = S[r]
  BY <1>0, <1>4, <1>5, ChunkTaken
<1>7. /\ \A j \in PoolIds \ {i} : Linkable(T, j) = Linkable(S, j)
      /\ Linkable(T, i) \ {p} = Linkable(S, i) \ {p}
      /\ p \in Linkable(T, i) <=> ChunksFree(T, p) # <<>>
  <2>1. DifferAt(S, T, p, i)
    BY <1>4, <1>6 DEF DifferAt
  <2>2. OnePool(S, T, p, i)
    BY <2>1, LinkableWhere
  <2> QED
    BY <1>4, <1>6, <2>2 DEF OnePool
<1>8. u \in Seq(Pages) /\ IsInjective(u) /\ ToSet(u) = Linkable(T, i)
  <2>1. CASE ChunksFree(T, p) = <<>>
    <3>1. u = t /\ p \notin Linkable(T, i)
      BY <1>0, <1>3, <1>7, <2>1
    <3>2. Linkable(T, i) = Linkable(S, i) \ {p}
      BY <1>7, <3>1
    <3> QED
      BY <1>2, <1>3, <3>1, <3>2
  <2>2. CASE ChunksFree(T, p) # <<>>
    <3>1. u = q /\ p \in Linkable(T, i) /\ p \in Linkable(S, i)
      BY <1>0, <1>2, <1>3, <1>7, <2>2
    <3>2. \A r : r \in Linkable(T, i) <=> r \in Linkable(S, i)
      BY <1>7, <3>1
    <3> QED
      BY <1>2, <3>1, <3>2
  <2> QED
    BY <2>1, <2>2
<1>9. Linked(T, Repooled(N, i, u))
  BY <1>1, <1>7, <1>8, LinkedChanged
<1>10. Repooled(N, i, u) = Repooled(L, i, u)
  <2>1. Repooled(Repooled(L, i, q), i, u) = Repooled(L, i, u)
    BY RepooledTwice
  <2> QED
    BY <1>1, <2>1
<1> QED
  BY <1>0, <1>4, <1>9, <1>10 DEF Poured

\* the slabs S with a fresh one on page p
WithNewSlab(S, p, i) ==
  [q \in DOMAIN S \cup {p} |-> IF q = p THEN NewSlab(p, i) ELSE S[q]]

LEMMA NewSlabIs ==
  ASSUME NEW p \in Pages, NEW i \in PoolIds
  PROVE  /\ NewSlab(p, i).chunk_size = ChunkSize(i) /\ NewSlab(p, i).free_list \in Seq(Nat)
         /\ IsInjective(NewSlab(p, i).free_list) /\ NewSlab(p, i).free_list # <<>>
         /\ ToSet(NewSlab(p, i).free_list) = ChunksAt(p, ChunkSize(i))
         /\ NewSlab(p, i) \in [chunk_size : ChunkSizes, free_list : Seq(Nat)]
<1>1. PICK s \in ChunkSizes : s = ChunkSize(i)
  BY DEF ChunkSizes
<1>2. PICK n \in Nat : n = TotalChunks(s) /\ n >= 2
  BY ChunkSizeFacts
<1>3. PICK f : f = [k \in 1..n |-> Chunk(p, s, k)]
  OBVIOUS
<1>4. NewSlab(p, i) = [chunk_size |-> s, free_list |-> f]
  BY <1>1, <1>2, <1>3 DEF NewSlab, Chunk
<1>5. \A k \in 1..n : Chunk(p, s, k) \in Nat
  BY <1>2, ChunkFits
<1>6. f \in [1..n -> Nat] /\ DOMAIN f = 1..n /\ \A k \in 1..n : f[k] = Chunk(p, s, k)
  BY <1>3, <1>5
<1>7. f \in Seq(Nat) /\ Len(f) = n
  BY <1>6
<1>8. IsInjective(f)
  <2>1. \A k, m \in 1..n : k < m => f[k] # f[m]
    <3> TAKE k, m \in 1..n
    <3> HAVE k < m
    <3>1. Chunk(p, s, k) + s <= Chunk(p, s, m)
      BY <1>2, ChunksApart
    <3>2. s \in Nat \ {0} /\ Chunk(p, s, k) \in Nat /\ Chunk(p, s, m) \in Nat
      BY <1>5, ChunkSizeFacts
    <3>3. Chunk(p, s, k) # Chunk(p, s, m)
      BY <3>1, <3>2
    <3> QED
      BY <1>6, <3>3
  <2>2. \A k, m \in 1..n : k # m => k < m \/ m < k
    BY <1>2
  <2> QED
    BY <1>6, <2>1, <2>2 DEF IsInjective
<1>9. ToSet(f) = ChunksAt(p, s)
  BY <1>2, <1>6 DEF ToSet, ChunksAt
<1>10. f # <<>>
  BY <1>2, <1>7
<1> QED
  BY <1>1, <1>4, <1>7, <1>8, <1>9, <1>10

IsFresh(S, T, p, i) ==
  /\ Cut(T) /\ DOMAIN T = DOMAIN S \cup {p}
  /\ \A r \in DOMAIN S : T[r] = S[r]
  /\ SizeIn(T, p) = ChunkSize(i) /\ ChunksFree(T, p) # <<>>
  /\ TakenOf(T, p) = {}

LEMMA FreshSlab ==
  ASSUME NEW S, Cut(S), NEW p \in Pages, p \notin DOMAIN S, NEW i \in PoolIds
  PROVE  IsFresh(S, WithNewSlab(S, p, i), p, i)
<1>0. PICK T : T = WithNewSlab(S, p, i)
  OBVIOUS
<1>1. /\ DOMAIN T = DOMAIN S \cup {p} /\ T[p] = NewSlab(p, i)
      /\ \A r \in DOMAIN S : T[r] = S[r]
      /\ T = [r \in DOMAIN T |-> T[r]]
  BY <1>0 DEF WithNewSlab
<1>2. /\ SizeIn(T, p) = ChunkSize(i) /\ ChunksFree(T, p) # <<>> /\ IsInjective(ChunksFree(T, p))
      /\ ToSet(ChunksFree(T, p)) = ChunksAt(p, SizeIn(T, p))
      /\ T[p] \in [chunk_size : ChunkSizes, free_list : Seq(Nat)]
  BY <1>1, NewSlabIs DEF SizeIn, ChunksFree
<1>3. TakenOf(T, p) = {}
  BY <1>2 DEF TakenOf
<1>4. \A r \in DOMAIN S : SizeIn(T, r) = SizeIn(S, r) /\ ChunksFree(T, r) = ChunksFree(S, r)
  BY <1>1 DEF SizeIn, ChunksFree
<1>5. /\ DOMAIN S \subseteq Pages
      /\ \A r \in DOMAIN S : S[r] \in [chunk_size : ChunkSizes, free_list : Seq(Nat)]
      /\ \A r \in DOMAIN S : /\ IsInjective(ChunksFree(S, r))
                             /\ ToSet(ChunksFree(S, r)) \subseteq ChunksAt(r, SizeIn(S, r))
  BY DEF Cut
<1>6. T \in [DOMAIN T -> [chunk_size : ChunkSizes, free_list : Seq(Nat)]] /\ DOMAIN T \subseteq Pages
  BY <1>1, <1>2, <1>5
<1>7. \A r \in DOMAIN T : /\ IsInjective(ChunksFree(T, r))
                          /\ ToSet(ChunksFree(T, r)) \subseteq ChunksAt(r, SizeIn(T, r))
  BY <1>1, <1>2, <1>4, <1>5
<1>8. Cut(T)
  BY <1>6, <1>7 DEF Cut
<1> QED
  BY <1>0, <1>1, <1>2, <1>3, <1>8 DEF IsFresh

LEMMA FreshLinked ==
  ASSUME NEW S, NEW L, Linked(S, L), NEW p \in Pages, p \notin DOMAIN S, NEW i \in PoolIds,
         L[i] = <<>>, NEW T, IsFresh(S, T, p, i)
  PROVE  Linked(T, Repooled(L, i, <<p>>))
<1>1. L \in [PoolIds -> Seq(Pages)] /\ ToSet(L[i]) = Linkable(S, i)
  BY DEF Linked
<1>2. Linkable(S, i) = {}
  <2>1. ToSet(L[i]) = {}
    BY <1>1, ListElems
  <2> QED
    BY <1>1, <2>1
<1>3. /\ DOMAIN T = DOMAIN S \cup {p} /\ \A r \in DOMAIN S : T[r] = S[r]
      /\ SizeIn(T, p) = ChunkSize(i) /\ ChunksFree(T, p) # <<>>
  BY DEF IsFresh
<1>4. /\ \A j \in PoolIds \ {i} : Linkable(T, j) = Linkable(S, j)
      /\ Linkable(T, i) \ {p} = Linkable(S, i) \ {p} /\ p \in Linkable(T, i)
  <2>1. DifferAt(S, T, p, i)
    BY <1>3 DEF DifferAt
  <2>2. OnePool(S, T, p, i)
    BY <2>1, LinkableWhere
  <2> QED
    BY <1>3, <2>2 DEF OnePool
<1>5. Linkable(T, i) = {p}
  BY <1>2, <1>4
<1>6. <<p>> \in Seq(Pages) /\ IsInjective(<<p>>) /\ ToSet(<<p>>) = Linkable(T, i)
  BY <1>5, SingleElems
<1> QED
  BY <1>4, <1>6, LinkedChanged

(***************************************************************************)
(* kfree of a chunk.                                                       *)
(***************************************************************************)
WithChunk(S, p, c) == Relisted(S, p, Append(ChunksFree(S, p), c))

LEMMA ChunkGiven ==
  ASSUME NEW S, Cut(S), NEW a \in ChunksOut(S),
         NEW p, p = PageOf(a.addr), NEW T, T = WithChunk(S, p, a.addr)
  PROVE  /\ p \in DOMAIN S /\ Cut(T) /\ DOMAIN T = DOMAIN S /\ SizeIn(T, p) = SizeIn(S, p)
         /\ \A r \in DOMAIN S \ {p} : T[r] = S[r]
         /\ ChunksOut(T) = ChunksOut(S) \ {a}
         /\ ChunksFree(T, p) # <<>>
         /\ Len(ChunksFree(T, p)) = 1 <=> ChunksFree(S, p) = <<>>
         /\ Len(ChunksFree(T, p)) = TotalChunks(SizeIn(T, p)) <=> TakenOf(T, p) = {}
<1>1. p \in DOMAIN S /\ a.addr \in TakenOf(S, p) /\ a = ChunkOut(S, p, a.addr)
  BY ChunksOutAre
<1>2. PICK q \in Seq(Nat) : /\ q = ChunksFree(S, p) /\ IsInjective(q)
                            /\ ToSet(q) \subseteq ChunksAt(p, SizeIn(S, p))
  BY <1>1, CutFacts
<1>3. p \in Pages /\ SizeIn(S, p) \in ChunkSizes
  BY <1>1, CutFacts
<1>4. PICK c : c = a.addr
  OBVIOUS
<1>5. c \in ChunksAt(p, SizeIn(S, p)) /\ c \notin ToSet(q)
  BY <1>1, <1>2, <1>4 DEF TakenOf
<1>6. c \in Nat
  BY <1>3, <1>5, ChunkOnPage
<1>7. PICK u \in Seq(Nat) : u = Append(q, c) /\ IsInjective(u) /\ ToSet(u) = ToSet(q) \cup {c}
  <2>1. IsInjective(q)
    BY <1>2
  <2>2. /\ Append(q, c) \in Seq(Nat) /\ IsInjective(Append(q, c))
        /\ ToSet(Append(q, c)) = ToSet(q) \cup {c}
    BY <1>5, <1>6, <2>1, AppendElems
  <2> QED
    BY <2>2
<1>8. T = Relisted(S, p, u)
  BY <1>2, <1>4, <1>7 DEF WithChunk
<1>9. ToSet(u) \subseteq ChunksAt(p, SizeIn(S, p))
  BY <1>2, <1>5, <1>7
<1>10. /\ Cut(T) /\ DOMAIN T = DOMAIN S /\ ChunksFree(T, p) = u
       /\ \A r \in DOMAIN S \ {p} : T[r] = S[r]
       /\ \A r \in DOMAIN S : SizeIn(T, r) = SizeIn(S, r)
  <2>1. IsInjective(u)
    BY <1>7
  <2>2. /\ Cut(Relisted(S, p, u)) /\ DOMAIN Relisted(S, p, u) = DOMAIN S
        /\ ChunksFree(Relisted(S, p, u), p) = u
        /\ \A r \in DOMAIN S \ {p} : Relisted(S, p, u)[r] = S[r]
        /\ \A r \in DOMAIN S : SizeIn(Relisted(S, p, u), r) = SizeIn(S, r)
    BY <1>1, <1>9, <2>1, ListChanged
  <2> QED
    BY <1>8, <2>2
<1>11. /\ TakenOf(S, p) = ChunksAt(p, SizeIn(S, p)) \ ToSet(q)
       /\ TakenOf(T, p) = ChunksAt(p, SizeIn(S, p)) \ ToSet(u)
       /\ SizeIn(T, p) = SizeIn(S, p)
  BY <1>1, <1>2, <1>10 DEF TakenOf
<1>12. TakenOf(S, p) = TakenOf(T, p) \cup {c} /\ c \notin TakenOf(T, p)
  <2> DEFINE C == ChunksAt(p, SizeIn(S, p))
             Q == ToSet(q)
             U == ToSet(u)
  <2>1. c \in C /\ c \notin Q /\ U = Q \cup {c}
    BY <1>5, <1>7
  <2>2. TakenOf(T, p) = C \ U /\ TakenOf(S, p) = C \ Q
    BY <1>11
  <2> HIDE DEF C, Q, U
  <2> QED
    BY <2>1, <2>2
<1>13. ChunksOut(S) = ChunksOut(T) \cup {a} /\ a \notin ChunksOut(T)
  <2>1. a = ChunkOut(T, p, c)
    BY <1>1, <1>4, <1>11 DEF ChunkOut
  <2>2. OneMore(T, S, p, c)
    BY <1>1, <1>10, <1>11, <1>12 DEF OneMore
  <2> QED
    BY <1>10, <2>1, <2>2, OneMoreOut
<1>14. ChunksOut(T) = ChunksOut(S) \ {a}
  BY <1>13
<1>15. PICK n \in Nat : n = Len(q) /\ Len(u) = n + 1 /\ (n = 0 <=> q = <<>>)
  <2>1. Len(q) \in Nat /\ (Len(q) = 0 <=> q = <<>>)
    BY EmptySeq, LenProperties
  <2>2. Len(u) = Len(q) + 1
    BY <1>6, <1>7, AppendProperties
  <2> QED
    BY <2>1, <2>2
<1>16. Len(ChunksFree(T, p)) = 1 <=> ChunksFree(S, p) = <<>>
  BY <1>2, <1>10, <1>15
<1>17. ChunksFree(T, p) # <<>>
  <2>1. Len(u) # 0
    BY <1>15
  <2> QED
    BY <1>10, <2>1, EmptySeq
<1>18. Len(u) = TotalChunks(SizeIn(S, p)) <=> ToSet(u) = ChunksAt(p, SizeIn(S, p))
  <2> DEFINE C == ChunksAt(p, SizeIn(S, p))
  <2>1. IsFiniteSet(C) /\ Cardinality(C) = TotalChunks(SizeIn(S, p))
    BY <1>3, ChunksCount
  <2>2. IsInjective(u) /\ ToSet(u) \subseteq C
    BY <1>7, <1>9
  <2> HIDE DEF C
  <2>3. Len(u) = Cardinality(C) <=> ToSet(u) = C
    BY <2>1, <2>2, CompleteList
  <2> QED
    BY <2>1, <2>3 DEF C
<1>19. Len(ChunksFree(T, p)) = TotalChunks(SizeIn(T, p)) <=> TakenOf(T, p) = {}
  <2>1. TakenOf(T, p) = {} <=> ToSet(u) = ChunksAt(p, SizeIn(S, p))
    BY <1>9, <1>11
  <2> QED
    BY <1>10, <1>11, <1>18, <2>1
<1> QED
  BY <1>1, <1>10, <1>11, <1>14, <1>16, <1>17, <1>19

WithoutSlab(S, p) == Restrict(S, DOMAIN S \ {p})

LEMMA SlabGone ==
  ASSUME NEW S, Cut(S), NEW p \in DOMAIN S, TakenOf(S, p) = {}
  PROVE  /\ Cut(WithoutSlab(S, p)) /\ DOMAIN WithoutSlab(S, p) = DOMAIN S \ {p}
         /\ ChunksOut(WithoutSlab(S, p)) = ChunksOut(S)
         /\ \A r \in DOMAIN S \ {p} : WithoutSlab(S, p)[r] = S[r]
<1>0. PICK T : T = WithoutSlab(S, p)
  OBVIOUS
<1>1. DOMAIN T = DOMAIN S \ {p} /\ \A r \in DOMAIN T : T[r] = S[r]
  BY <1>0 DEF WithoutSlab, Restrict
<1>2. T = [r \in DOMAIN T |-> T[r]]
  BY <1>0 DEF WithoutSlab, Restrict
<1>3. \A r \in DOMAIN T : SizeIn(T, r) = SizeIn(S, r) /\ ChunksFree(T, r) = ChunksFree(S, r)
  BY <1>1 DEF SizeIn, ChunksFree
<1>4. /\ DOMAIN S \subseteq Pages
      /\ \A r \in DOMAIN S : S[r] \in [chunk_size : ChunkSizes, free_list : Seq(Nat)]
      /\ \A r \in DOMAIN S : /\ IsInjective(ChunksFree(S, r))
                             /\ ToSet(ChunksFree(S, r)) \subseteq ChunksAt(r, SizeIn(S, r))
  BY DEF Cut
<1>5. T \in [DOMAIN T -> [chunk_size : ChunkSizes, free_list : Seq(Nat)]] /\ DOMAIN T \subseteq Pages
  BY <1>1, <1>2, <1>4
<1>6. \A r \in DOMAIN T : /\ IsInjective(ChunksFree(T, r))
                          /\ ToSet(ChunksFree(T, r)) \subseteq ChunksAt(r, SizeIn(T, r))
  BY <1>1, <1>3, <1>4
<1>7. Cut(T)
  BY <1>5, <1>6 DEF Cut
<1>8. ChunksOut(S) = ChunksOut(T)
  <2>1. \A r \in DOMAIN T : S[r] = T[r]
    BY <1>1
  <2> QED
    BY <1>1, <1>7, <2>1, UnusedSlab
<1> QED
  BY <1>0, <1>1, <1>7, <1>8

(***************************************************************************)
(* The inductive invariant of SlabSpec.                                    *)
(***************************************************************************)
SlabState(M, S, L, A) ==
  /\ Cut(S) /\ Linked(S, L)
  /\ A = LargeOf(A) \cup ChunksOut(S)
  /\ Backed(M, S, LargeOf(A))
  /\ \A p \in DOMAIN S : TakenOf(S, p) # {}

SlabInv == SlabState(mem, slabs, pools, owned)

LEMMA BackedByPages ==
  ASSUME NEW M, NEW S, NEW B, Backed(M, S, B), NEW T, DOMAIN T = DOMAIN S
  PROVE  Backed(M, T, B)
<1>1. BlocksUnder(T, B) = BlocksUnder(S, B)
  BY DEF BlocksUnder
<1> QED
  BY <1>1 DEF Backed

LEMMA LargeOfThese ==
  ASSUME NEW S, Cut(S), NEW A, A = LargeOf(A) \cup ChunksOut(S)
  PROVE  /\ \A a \in A : IsLarge(a) <=> a \in LargeOf(A)
         /\ \A a \in A : ~IsLarge(a) <=> a \in ChunksOut(S)
         /\ \A B : (\A a \in B : ~IsLarge(a)) => LargeOf(LargeOf(A) \cup B) = LargeOf(A)
         /\ \A a : ~IsLarge(a) => LargeOf(A \cup {a}) = LargeOf(A) /\ LargeOf(A \ {a}) = LargeOf(A)
         /\ \A a : IsLarge(a) => /\ LargeOf(A \cup {a}) = LargeOf(A) \cup {a}
                                 /\ LargeOf(A \ {a}) = LargeOf(A) \ {a}
<1>1. \A a \in ChunksOut(S) : ~IsLarge(a)
  BY ChunksOutAre
<1>2. \A B : \A a : a \in LargeOf(B) <=> a \in B /\ IsLarge(a)
  BY DEF LargeOf
<1>3. \A B : (\A a \in B : ~IsLarge(a)) => LargeOf(LargeOf(A) \cup B) = LargeOf(A)
  BY <1>2
<1>4. \A a : ~IsLarge(a) => LargeOf(A \cup {a}) = LargeOf(A) /\ LargeOf(A \ {a}) = LargeOf(A)
  BY <1>2
<1>5. \A a : IsLarge(a) => /\ LargeOf(A \cup {a}) = LargeOf(A) \cup {a}
                           /\ LargeOf(A \ {a}) = LargeOf(A) \ {a}
  BY <1>2
<1> QED
  BY <1>1, <1>2, <1>3, <1>4, <1>5

LEMMA TakeSound ==
  ASSUME NEW M, NEW S, Cut(S), NEW L \in [PoolIds -> Seq(Pages)], NEW i \in PoolIds,
         NEW q \in Seq(Pages), q # <<>>, Linked(S, Repooled(L, i, q)),
         NEW A, A = LargeOf(A) \cup ChunksOut(S), Backed(M, S, LargeOf(A)),
         \A r \in DOMAIN S \ {Head(q)} : TakenOf(S, r) # {},
         NEW T, T = WithoutChunk(S, Head(q))
  PROVE  /\ SlabState(M, T, Poured(L, i, q, T), A \cup {FirstChunk(S, Head(q))})
         /\ FirstChunk(S, Head(q)) \notin A
<1>1. PICK p : p = Head(q) /\ T = Relisted(S, p, Tail(ChunksFree(S, p)))
  BY DEF WithoutChunk
<1>2. p \in DOMAIN S /\ ChunksFree(S, p) # <<>> /\ Linked(T, Poured(L, i, q, T))
  BY <1>1, LinkedTaken
<1>3. FirstChunk(S, p) = [addr |-> Head(ChunksFree(S, p)), len |-> SizeIn(S, p)]
  BY DEF FirstChunk
<1>4. PICK a : a = FirstChunk(S, p) /\ a = [addr |-> Head(ChunksFree(S, p)), len |-> SizeIn(S, p)]
  BY <1>3
<1>5. /\ Cut(T) /\ DOMAIN T = DOMAIN S /\ \A r \in DOMAIN S \ {p} : T[r] = S[r]
      /\ ChunksOut(T) = ChunksOut(S) \cup {a} /\ a \notin ChunksOut(S)
      /\ ~IsLarge(a) /\ TakenOf(T, p) # {}
  BY <1>1, <1>2, <1>4, ChunkTaken
<1>6. LargeOf(A \cup {a}) = LargeOf(A)
  BY <1>5, LargeOfThese
<1>7. A \cup {a} = LargeOf(A \cup {a}) \cup ChunksOut(T)
  BY <1>5, <1>6
<1>8. Backed(M, T, LargeOf(A \cup {a}))
  BY <1>5, <1>6, BackedByPages
<1>9. \A r \in DOMAIN T : TakenOf(T, r) # {}
  <2>1. \A r \in DOMAIN S \ {p} : TakenOf(T, r) = TakenOf(S, r)
    BY <1>5 DEF TakenOf, SizeIn, ChunksFree
  <2> QED
    BY <1>1, <1>5, <2>1
<1>10. a \notin A
  BY <1>5, LargeOfThese
<1> QED
  BY <1>1, <1>2, <1>4, <1>5, <1>7, <1>8, <1>9, <1>10 DEF SlabState

LEMMA TakeChunkIs ==
  ASSUME NEW i, NEW S, NEW q, TakeChunk(i, S, q)
  PROVE  /\ slabs' = WithoutChunk(S, Head(q))
         /\ pools' = Poured(pools, i, q, slabs')
         /\ owned' = owned \cup {FirstChunk(S, Head(q))}
<1>1. slabs' = WithoutChunk(S, Head(q))
  BY DEF TakeChunk, WithoutChunk, Relisted, ChunksFree
<1>2. pools' = Poured(pools, i, q, slabs')
  BY DEF TakeChunk, Poured, Repooled, ChunksFree
<1>3. owned' = owned \cup {FirstChunk(S, Head(q))}
  BY DEF TakeChunk, FirstChunk, ChunksFree, SizeIn
<1> QED
  BY <1>1, <1>2, <1>3

Grown  == \E a : a \notin owned /\ owned' = owned \cup {a}
Shrunk == \E a \in owned : owned' = owned \ {a}

LEMMA KmallocLinkedStep ==
  ASSUME SlabInv, NEW i \in PoolIds, KmallocLinked(i)
  PROVE  SlabInv' /\ Grown
<1>1. /\ Cut(slabs) /\ Linked(slabs, pools)
      /\ owned = LargeOf(owned) \cup ChunksOut(slabs)
      /\ Backed(mem, slabs, LargeOf(owned))
      /\ \A p \in DOMAIN slabs : TakenOf(slabs, p) # {}
  BY DEF SlabInv, SlabState
<1>2. pools \in [PoolIds -> Seq(Pages)]
  BY <1>1 DEF Linked
<1>3. PICK q \in Seq(Pages) : q = pools[i]
  BY <1>2
<1>4. q # <<>> /\ TakeChunk(i, slabs, q) /\ mem' = mem
  BY <1>3 DEF KmallocLinked
<1>5. Linked(slabs, Repooled(pools, i, q))
  BY <1>1, <1>2, <1>3, RepooledIs
<1>6. PICK T : T = WithoutChunk(slabs, Head(q))
  OBVIOUS
<1>7. /\ SlabState(mem, T, Poured(pools, i, q, T), owned \cup {FirstChunk(slabs, Head(q))})
      /\ FirstChunk(slabs, Head(q)) \notin owned
  <2>1. \A r \in DOMAIN slabs \ {Head(q)} : TakenOf(slabs, r) # {}
    BY <1>1
  <2> QED
    BY <1>1, <1>2, <1>4, <1>5, <1>6, <2>1, TakeSound
<1>8. slabs' = T /\ pools' = Poured(pools, i, q, T) /\ owned' = owned \cup {FirstChunk(slabs, Head(q))}
  BY <1>4, <1>6, TakeChunkIs
<1> QED
  BY <1>4, <1>7, <1>8 DEF SlabInv, Grown

LEMMA KmallocFreshStep ==
  ASSUME SlabInv, NEW i \in PoolIds, KmallocFresh(i)
  PROVE  SlabInv' /\ Grown
<1>1. /\ Cut(slabs) /\ Linked(slabs, pools)
      /\ owned = LargeOf(owned) \cup ChunksOut(slabs)
      /\ Backed(mem, slabs, LargeOf(owned))
      /\ \A p \in DOMAIN slabs : TakenOf(slabs, p) # {}
  BY DEF SlabInv, SlabState
<1>2. pools \in [PoolIds -> Seq(Pages)]
  BY <1>1 DEF Linked
<1>3. PICK p : p = AllocPfn(mem, 0)
  OBVIOUS
<1>4. PICK S : S = WithNewSlab(slabs, p, i)
  OBVIOUS
<1>5. /\ pools[i] = <<>> /\ CanAlloc(mem, 0) /\ mem' = AfterAlloc(mem, 0)
      /\ TakeChunk(i, S, <<p>>)
  BY <1>3, <1>4 DEF KmallocFresh, WithNewSlab
<1>6. DOMAIN S = DOMAIN slabs \cup {p}
  BY <1>4 DEF WithNewSlab
<1>7. Backed(mem', S, LargeOf(owned)) /\ p \in Pages /\ p \notin DOMAIN slabs
  BY <1>1, <1>3, <1>5, <1>6, PageTaken
<1>8. IsFresh(slabs, S, p, i)
  BY <1>1, <1>4, <1>7, FreshSlab
<1>9. PICK q \in Seq(Pages) : q = <<p>> /\ q # <<>> /\ Head(q) = p
  <2>1. <<p>> \in Seq(Pages) /\ <<p>> # <<>> /\ Head(<<p>>) = p
    BY <1>7
  <2> QED
    BY <2>1
<1>10. Linked(S, Repooled(pools, i, q))
  BY <1>1, <1>5, <1>7, <1>8, <1>9, FreshLinked
<1>11. /\ Cut(S) /\ TakenOf(S, p) = {} /\ \A r \in DOMAIN slabs : S[r] = slabs[r]
  BY <1>8 DEF IsFresh
<1>12. owned = LargeOf(owned) \cup ChunksOut(S)
  <2>1. p \in DOMAIN S /\ DOMAIN slabs = DOMAIN S \ {p}
    BY <1>6, <1>7
  <2>2. ChunksOut(S) = ChunksOut(slabs)
    BY <1>1, <1>11, <2>1, UnusedSlab
  <2> QED
    BY <1>1, <2>2
<1>13. \A r \in DOMAIN S \ {Head(q)} : TakenOf(S, r) # {}
  <2>1. \A r \in DOMAIN slabs : TakenOf(S, r) = TakenOf(slabs, r)
    BY <1>11 DEF TakenOf, SizeIn, ChunksFree
  <2> QED
    BY <1>1, <1>6, <1>9, <2>1
<1>14. PICK T : T = WithoutChunk(S, Head(q))
  OBVIOUS
<1>15. /\ SlabState(mem', T, Poured(pools, i, q, T), owned \cup {FirstChunk(S, Head(q))})
       /\ FirstChunk(S, Head(q)) \notin owned
  BY <1>2, <1>7, <1>9, <1>10, <1>11, <1>12, <1>13, <1>14, TakeSound
<1>16. slabs' = T /\ pools' = Poured(pools, i, q, T) /\ owned' = owned \cup {FirstChunk(S, Head(q))}
  BY <1>5, <1>9, <1>14, TakeChunkIs
<1> QED
  BY <1>15, <1>16 DEF SlabInv, Grown

LEMMA KmallocLargeStep ==
  ASSUME SlabInv, NEW size \in Sizes, KmallocLarge(size)
  PROVE  SlabInv' /\ Grown
<1>1. /\ Cut(slabs) /\ owned = LargeOf(owned) \cup ChunksOut(slabs)
      /\ Backed(mem, slabs, LargeOf(owned))
  BY DEF SlabInv, SlabState
<1>2. PICK a : a = [addr |-> Address(AllocPfn(mem, OrderFor(size))), len |-> size]
  OBVIOUS
<1>3. /\ CanAlloc(mem, OrderFor(size)) /\ mem' = AfterAlloc(mem, OrderFor(size))
      /\ owned' = owned \cup {a} /\ slabs' = slabs /\ pools' = pools
  BY <1>2 DEF KmallocLarge
<1>4. Backed(mem', slabs, LargeOf(owned) \cup {a}) /\ IsLarge(a) /\ a \notin LargeOf(owned)
  BY <1>1, <1>2, <1>3, LargeTaken
<1>5. LargeOf(owned') = LargeOf(owned) \cup {a} /\ a \notin owned
  BY <1>1, <1>3, <1>4, LargeOfThese
<1>6. SlabInv'
  BY <1>1, <1>3, <1>4, <1>5 DEF SlabInv, SlabState
<1> QED
  BY <1>3, <1>5, <1>6 DEF Grown

LEMMA KfreeLargeStep ==
  ASSUME SlabInv, NEW a \in owned, KfreeLarge(a)
  PROVE  SlabInv' /\ Shrunk
<1>1. /\ Cut(slabs) /\ owned = LargeOf(owned) \cup ChunksOut(slabs)
      /\ Backed(mem, slabs, LargeOf(owned))
  BY DEF SlabInv, SlabState
<1>2. /\ IsLarge(a) /\ mem' = AfterFree(mem, PageOf(a.addr))
      /\ owned' = owned \ {a} /\ slabs' = slabs /\ pools' = pools
  BY DEF KfreeLarge, IsLarge
<1>3. a \in LargeOf(owned) /\ a \notin ChunksOut(slabs) /\ LargeOf(owned') = LargeOf(owned) \ {a}
  BY <1>1, <1>2, LargeOfThese
<1>4. Backed(mem', slabs, LargeOf(owned) \ {a})
  BY <1>1, <1>2, <1>3, LargeReturned
<1>5. owned' = LargeOf(owned') \cup ChunksOut(slabs)
  BY <1>1, <1>2, <1>3
<1>6. SlabInv'
  BY <1>2, <1>3, <1>4, <1>5 DEF SlabInv, SlabState
<1> QED
  BY <1>2, <1>6 DEF Shrunk

PoolOf(s) == CHOOSE j \in PoolIds : ChunkSize(j) = s

LEMMA PoolOfIs ==
  ASSUME NEW s \in ChunkSizes
  PROVE  PoolOf(s) \in PoolIds /\ ChunkSize(PoolOf(s)) = s
<1>1. \E j \in PoolIds : ChunkSize(j) = s
  BY DEF ChunkSizes
<1> QED
  BY <1>1 DEF PoolOf

LinkedAgain(L, i, p) == Repooled(L, i, Append(L[i], p))

Unlinked(L, i, p) == Repooled(L, i, RemoveFirst(L[i], p))

\* the three ends of kfree()
FilledAgain(T, p) == Len(ChunksFree(T, p)) = 1
Unused(T, p)      == ~FilledAgain(T, p) /\ Len(ChunksFree(T, p)) = TotalChunks(SizeIn(T, p))

LEMMA AfterKfreeIs ==
  ASSUME NEW p, NEW T
  PROVE  /\ FilledAgain(T, p) =>
              AfterKfree(p, T) = [slabs |-> T, mem |-> mem,
                                  pools |-> LinkedAgain(pools, PoolOf(SizeIn(T, p)), p)]
         /\ Unused(T, p) =>
              AfterKfree(p, T) = [slabs |-> WithoutSlab(T, p), mem |-> AfterFree(mem, p),
                                  pools |-> Unlinked(pools, PoolOf(SizeIn(T, p)), p)]
         /\ ~FilledAgain(T, p) /\ ~Unused(T, p) =>
              AfterKfree(p, T) = [slabs |-> T, mem |-> mem, pools |-> pools]
BY DEF AfterKfree, PoolOf, SizeIn, ChunksFree, WithoutSlab, Repooled, LinkedAgain, Unlinked,
       FilledAgain, Unused

LEMMA KfreeChunkStep ==
  ASSUME SlabInv, NEW a \in owned, KfreeChunk(a)
  PROVE  SlabInv' /\ Shrunk
<1>1. /\ Cut(slabs) /\ Linked(slabs, pools)
      /\ owned = LargeOf(owned) \cup ChunksOut(slabs)
      /\ Backed(mem, slabs, LargeOf(owned))
      /\ \A p \in DOMAIN slabs : TakenOf(slabs, p) # {}
  BY DEF SlabInv, SlabState
<1>2. PICK p : p = PageOf(a.addr)
  OBVIOUS
<1>3. PICK T : T = WithChunk(slabs, p, a.addr)
  OBVIOUS
<1>4. /\ ~IsLarge(a) /\ owned' = owned \ {a}
      /\ slabs' = AfterKfree(p, T).slabs /\ pools' = AfterKfree(p, T).pools
      /\ mem' = AfterKfree(p, T).mem
  BY <1>2, <1>3 DEF KfreeChunk, IsLarge, WithChunk, Relisted, ChunksFree
<1>5. a \in ChunksOut(slabs) /\ LargeOf(owned') = LargeOf(owned) /\ a \notin LargeOf(owned)
  BY <1>1, <1>4, LargeOfThese
<1>6. /\ p \in DOMAIN slabs /\ Cut(T) /\ DOMAIN T = DOMAIN slabs /\ SizeIn(T, p) = SizeIn(slabs, p)
      /\ \A r \in DOMAIN slabs \ {p} : T[r] = slabs[r]
      /\ ChunksOut(T) = ChunksOut(slabs) \ {a}
      /\ ChunksFree(T, p) # <<>>
      /\ Len(ChunksFree(T, p)) = 1 <=> ChunksFree(slabs, p) = <<>>
      /\ Len(ChunksFree(T, p)) = TotalChunks(SizeIn(T, p)) <=> TakenOf(T, p) = {}
  BY <1>1, <1>2, <1>3, <1>5, ChunkGiven
<1>7. owned' = LargeOf(owned') \cup ChunksOut(T)
  BY <1>1, <1>4, <1>5, <1>6
<1>8. p \in Pages /\ SizeIn(T, p) \in ChunkSizes /\ TotalChunks(SizeIn(T, p)) # 1
  <2>1. p \in Pages /\ SizeIn(T, p) \in ChunkSizes
    BY <1>6, CutFacts
  <2> QED
    BY <2>1, ChunkSizeFacts
<1>9. PICK i \in PoolIds : i = PoolOf(SizeIn(T, p)) /\ ChunkSize(i) = SizeIn(T, p)
  BY <1>8, PoolOfIs
<1>10. PICK q \in Seq(Pages) : q = pools[i] /\ IsInjective(q) /\ ToSet(q) = Linkable(slabs, i)
  BY <1>1 DEF Linked
<1>11. /\ \A j \in PoolIds \ {i} : Linkable(T, j) = Linkable(slabs, j)
       /\ Linkable(T, i) \ {p} = Linkable(slabs, i) \ {p}
       /\ p \in Linkable(slabs, i) <=> ChunksFree(slabs, p) # <<>>
       /\ p \in Linkable(T, i)
  <2>1. DifferAt(slabs, T, p, i)
    BY <1>6, <1>9 DEF DifferAt
  <2>2. OnePool(slabs, T, p, i)
    BY <2>1, LinkableWhere
  <2> QED
    BY <1>6, <2>2 DEF OnePool
<1>12. \A r \in DOMAIN T \ {p} : TakenOf(T, r) # {}
  <2>1. \A r \in DOMAIN T \ {p} : TakenOf(T, r) = TakenOf(slabs, r)
    BY <1>6 DEF TakenOf, SizeIn, ChunksFree
  <2> QED
    BY <1>1, <1>6, <2>1
<1>13. Backed(mem, T, LargeOf(owned'))
  BY <1>1, <1>5, <1>6, BackedByPages
<1>14. /\ FilledAgain(T, p) <=> ChunksFree(slabs, p) = <<>>
       /\ Unused(T, p) <=> TakenOf(T, p) = {}
  BY <1>6, <1>8 DEF FilledAgain, Unused
\* a slab that was full is linked again
<1>15. ASSUME FilledAgain(T, p) PROVE SlabInv'
  <2>1. /\ slabs' = T /\ pools' = LinkedAgain(pools, i, p) /\ mem' = mem
    <3>1. AfterKfree(p, T) = [slabs |-> T, mem |-> mem,
                              pools |-> LinkedAgain(pools, PoolOf(SizeIn(T, p)), p)]
      BY <1>15, AfterKfreeIs
    <3> QED
      BY <1>4, <1>9, <3>1
  <2>2. p \notin ToSet(q) /\ Linkable(T, i) = ToSet(q) \cup {p}
    BY <1>6, <1>10, <1>11, <1>14, <1>15
  <2>3. /\ Append(q, p) \in Seq(Pages) /\ IsInjective(Append(q, p))
        /\ ToSet(Append(q, p)) = ToSet(q) \cup {p}
    BY <1>8, <1>10, <2>2, AppendElems
  <2>4. Linked(T, Repooled(pools, i, Append(q, p)))
    BY <1>1, <1>11, <2>2, <2>3, LinkedChanged
  <2>5. \A r \in DOMAIN T : TakenOf(T, r) # {}
    BY <1>6, <1>8, <1>12, <1>14, <1>15
  <2>6. pools' = Repooled(pools, i, Append(q, p))
    BY <1>10, <2>1 DEF LinkedAgain
  <2> QED
    BY <1>6, <1>7, <1>13, <2>1, <2>4, <2>5, <2>6 DEF SlabInv, SlabState
\* a slab of which nothing is in use is given up
<1>16. ASSUME Unused(T, p) PROVE SlabInv'
  <2>1. PICK U : U = WithoutSlab(T, p)
    OBVIOUS
  <2>2. slabs' = U /\ pools' = Unlinked(pools, i, p) /\ mem' = AfterFree(mem, p)
    <3>1. AfterKfree(p, T) = [slabs |-> WithoutSlab(T, p), mem |-> AfterFree(mem, p),
                              pools |-> Unlinked(pools, PoolOf(SizeIn(T, p)), p)]
      BY <1>16, AfterKfreeIs
    <3> QED
      BY <1>4, <1>9, <2>1, <3>1
  <2>3. TakenOf(T, p) = {} /\ p \in ToSet(q) /\ p \in DOMAIN T
    BY <1>6, <1>10, <1>11, <1>14, <1>16 DEF Unused
  <2>4. /\ Cut(U) /\ DOMAIN U = DOMAIN T \ {p} /\ ChunksOut(U) = ChunksOut(T)
        /\ \A r \in DOMAIN T \ {p} : U[r] = T[r]
    <3>1. /\ Cut(WithoutSlab(T, p)) /\ DOMAIN WithoutSlab(T, p) = DOMAIN T \ {p}
          /\ ChunksOut(WithoutSlab(T, p)) = ChunksOut(T)
          /\ \A r \in DOMAIN T \ {p} : WithoutSlab(T, p)[r] = T[r]
      BY <1>6, <2>3, SlabGone
    <3> QED
      BY <2>1, <3>1
  <2>5. /\ \A j \in PoolIds \ {i} : Linkable(U, j) = Linkable(slabs, j)
        /\ Linkable(U, i) = ToSet(q) \ {p}
    <3>1. DifferAt(slabs, U, p, i)
      BY <1>6, <1>9, <2>4 DEF DifferAt
    <3>2. OnePool(slabs, U, p, i)
      BY <3>1, LinkableWhere
    <3>3. p \notin Linkable(U, i)
      BY <2>4, <3>2 DEF OnePool
    <3> QED
      BY <1>10, <3>2, <3>3 DEF OnePool
  <2>6. /\ RemoveFirst(q, p) \in Seq(Pages) /\ IsInjective(RemoveFirst(q, p))
        /\ ToSet(RemoveFirst(q, p)) = ToSet(q) \ {p}
    BY <1>10, <2>3, RemoveElems
  <2>7. Linked(U, Repooled(pools, i, RemoveFirst(q, p)))
    BY <1>1, <2>5, <2>6, LinkedChanged
  <2>8. Backed(AfterFree(mem, p), U, LargeOf(owned'))
    <3>1. DOMAIN U = DOMAIN slabs \ {p}
      BY <1>6, <2>4
    <3> QED
      BY <1>1, <1>5, <1>6, <3>1, PageReturned
  <2>9. \A r \in DOMAIN U : TakenOf(U, r) # {}
    <3>1. \A r \in DOMAIN U : TakenOf(U, r) = TakenOf(T, r)
      BY <2>4 DEF TakenOf, SizeIn, ChunksFree
    <3> QED
      BY <1>12, <2>4, <3>1
  <2>10. pools' = Repooled(pools, i, RemoveFirst(q, p))
    BY <1>10, <2>2 DEF Unlinked
  <2> QED
    BY <1>7, <2>2, <2>4, <2>7, <2>8, <2>9, <2>10 DEF SlabInv, SlabState
<1>17. ASSUME ~FilledAgain(T, p), ~Unused(T, p) PROVE SlabInv'
  <2>1. slabs' = T /\ pools' = pools /\ mem' = mem
    BY <1>4, <1>17, AfterKfreeIs
  <2>2. p \in ToSet(q) /\ \A r : r \in Linkable(T, i) <=> r \in ToSet(q)
    BY <1>6, <1>10, <1>11, <1>14, <1>17
  <2>3. Linkable(T, i) = ToSet(q)
    BY <2>2
  <2>4. Linked(T, Repooled(pools, i, q))
    BY <1>1, <1>10, <1>11, <2>3, LinkedChanged
  <2>5. Repooled(pools, i, q) = pools
    BY <1>1, <1>10, RepooledIs DEF Linked
  <2>6. \A r \in DOMAIN T : TakenOf(T, r) # {}
    BY <1>6, <1>12, <1>14, <1>17
  <2> QED
    BY <1>6, <1>7, <1>13, <2>1, <2>4, <2>5, <2>6 DEF SlabInv, SlabState
<1>18. Shrunk
  BY <1>4 DEF Shrunk
<1> QED
  BY <1>15, <1>16, <1>17, <1>18

LEMMA SlabStart ==
  ASSUME SlabInit
  PROVE  SlabInv
<1>1. mem = InitialMem(Reserved) /\ slabs = <<>> /\ pools = [i \in PoolIds |-> <<>>] /\ owned = {}
  BY DEF SlabInit
<1>2. DOMAIN slabs = {} /\ slabs = [p \in {} |-> slabs[p]]
  BY <1>1
<1>3. Cut(slabs)
  BY <1>2 DEF Cut
<1>4. ToSet(<<>>) = {} /\ IsInjective(<<>>) /\ <<>> \in Seq(Pages)
  BY DEF ToSet, IsInjective
<1>5. Linked(slabs, pools)
  <2>1. pools \in [PoolIds -> Seq(Pages)] /\ \A i \in PoolIds : pools[i] = <<>>
    BY <1>1, <1>4
  <2>2. \A i \in PoolIds : Linkable(slabs, i) = {}
    BY <1>2 DEF Linkable
  <2> QED
    BY <1>4, <2>1, <2>2 DEF Linked
<1>6. LargeOf(owned) = {} /\ ChunksOut(slabs) = {}
  BY <1>1, <1>2 DEF LargeOf, ChunksOut
<1>7. Backed(mem, slabs, {})
  <2>1. BlocksUnder(slabs, {}) = {}
    BY <1>2 DEF BlocksUnder, Singles
  <2>2. Sound(mem, {}, Reserved)
    BY <1>1, SlabNumbers, InitSound
  <2> QED
    BY <1>2, <2>1, <2>2 DEF Backed
<1> QED
  BY <1>1, <1>2, <1>3, <1>5, <1>6, <1>7 DEF SlabInv, SlabState

LEMMA SlabStep ==
  ASSUME SlabInv, [SlabNext]_slabVars
  PROVE  SlabInv' /\ (Grown \/ Shrunk \/ UNCHANGED owned)
<1>1. ASSUME NEW size \in Sizes, Kmalloc(size) PROVE SlabInv' /\ Grown
  <2>1. CASE \E i \in Fits(size) : i = Min(Fits(size)) /\ (KmallocLinked(i) \/ KmallocFresh(i))
    <3>1. PICK i \in PoolIds : KmallocLinked(i) \/ KmallocFresh(i)
      BY <2>1 DEF Fits
    <3> QED
      BY <3>1, KmallocLinkedStep, KmallocFreshStep
  <2>2. CASE KmallocLarge(size)
    BY <2>2, KmallocLargeStep
  <2> QED
    BY <1>1, <2>1, <2>2 DEF Kmalloc
<1>2. ASSUME NEW a \in owned, Kfree(a) PROVE SlabInv' /\ Shrunk
  BY <1>2, KfreeLargeStep, KfreeChunkStep DEF Kfree
<1>3. ASSUME UNCHANGED slabVars PROVE SlabInv' /\ UNCHANGED owned
  BY <1>3 DEF slabVars, SlabInv, SlabState
<1> QED
  BY <1>1, <1>2, <1>3 DEF SlabNext

LEMMA SlabInvariance == SlabSpec => []SlabInv
<1>1. SlabInit => SlabInv
  BY SlabStart
<1>2. SlabInv /\ [SlabNext]_slabVars => SlabInv'
  BY SlabStep
<1> QED
  BY <1>1, <1>2, PTL DEF SlabSpec

(***************************************************************************)
(* What the invariant says of the bytes of an allocation.                  *)
(***************************************************************************)
UnderBlock(a) == IF IsLarge(a) THEN LargeBlock(a) ELSE Single(PageOf(a.addr))

BytesOf(a) == a.addr..(a.addr + a.len - 1)

LEMMA BytesUnder ==
  ASSUME NEW M, NEW S, NEW L, NEW A, SlabState(M, S, L, A), NEW a \in A
  PROVE  /\ a.addr \in Nat /\ a.len \in Nat \ {0}
         /\ UnderBlock(a) \in BlocksUnder(S, LargeOf(A)) /\ UnderBlock(a).pfn = PageOf(a.addr)
         /\ \A x \in BytesOf(a) : PageOf(x) \in PagesOf(UnderBlock(a))
<1>1. Cut(S) /\ A = LargeOf(A) \cup ChunksOut(S) /\ Backed(M, S, LargeOf(A))
  BY DEF SlabState
<1>2. CASE IsLarge(a)
  <2>1. a \in LargeOf(A)
    BY <1>2 DEF LargeOf
  <2>2. PICK p \in Pages, size \in Sizes :
          a.addr \in Nat /\ p = PageOf(a.addr) /\ a.addr = Address(p) /\ size = a.len
    BY <1>1, <2>1 DEF Backed
  <2>3. UnderBlock(a) = LargeBlock(a) /\ LargeBlock(a) \in BlocksUnder(S, LargeOf(A))
    BY <1>2, <2>1, UnderIs DEF UnderBlock
  <2>4. LargeBlock(a).pfn = p /\ PagesOf(LargeBlock(a)) = Block(p, OrderFor(size))
    BY <2>2, UnderIs DEF PagesOf
  <2>5. \A x \in Address(p)..(Address(p) + size - 1) : PageOf(x) \in Block(p, OrderFor(size))
    BY LargeInBlock
  <2>6. size \in Nat \ {0}
    BY OrderForIs
  <2> QED
    BY <2>2, <2>3, <2>4, <2>5, <2>6 DEF BytesOf
<1>3. CASE ~IsLarge(a)
  <2>1. a \in ChunksOut(S)
    BY <1>1, <1>3, LargeOfThese
  <2>2. PICK p \in DOMAIN S : /\ p = PageOf(a.addr) /\ a.addr \in TakenOf(S, p)
                              /\ a.len = SizeIn(S, p)
    BY <1>1, <2>1, ChunksOutAre
  <2>3. p \in Pages /\ SizeIn(S, p) \in ChunkSizes /\ a.addr \in ChunksAt(p, SizeIn(S, p))
    BY <1>1, <2>2, CutFacts DEF TakenOf
  <2>4. /\ a.addr \in Nat /\ a.len \in Nat \ {0}
        /\ \A x \in BytesOf(a) : PageOf(x) = p
    BY <2>2, <2>3, ChunkOnPage DEF BytesOf
  <2>5. UnderBlock(a) = Single(p) /\ Single(p) \in BlocksUnder(S, LargeOf(A)) /\ Single(p).pfn = p
    BY <1>3, <2>2, UnderIs DEF UnderBlock
  <2>6. PagesOf(Single(p)) = {p}
    BY <2>3, SinglesAre
  <2> QED
    BY <2>2, <2>4, <2>5, <2>6
<1> QED
  BY <1>2, <1>3

\* No two allocations share a byte.
LEMMA BytesApart ==
  ASSUME NEW M, NEW S, NEW L, NEW A, SlabState(M, S, L, A), NEW a \in A, NEW b \in A, a # b
  PROVE  BytesOf(a) \cap BytesOf(b) = {}
<1>1. Cut(S) /\ A = LargeOf(A) \cup ChunksOut(S) /\ Backed(M, S, LargeOf(A))
  BY DEF SlabState
<1>2. PICK H : H = BlocksUnder(S, LargeOf(A)) /\ Sound(M, H, Reserved)
  BY <1>1 DEF Backed
<1>3. /\ UnderBlock(a) \in H /\ \A x \in BytesOf(a) : PageOf(x) \in PagesOf(UnderBlock(a))
      /\ UnderBlock(b) \in H /\ \A x \in BytesOf(b) : PageOf(x) \in PagesOf(UnderBlock(b))
      /\ UnderBlock(a).pfn = PageOf(a.addr) /\ UnderBlock(b).pfn = PageOf(b.addr)
  BY <1>2, BytesUnder
<1>4. CASE UnderBlock(a) # UnderBlock(b)
  <2>1. PagesOf(UnderBlock(a)) \cap PagesOf(UnderBlock(b)) = {}
    BY <1>2, <1>3, <1>4, SoundFree DEF Apart
  <2> QED
    BY <1>3, <2>1
<1>5. CASE UnderBlock(a) = UnderBlock(b)
  <2>1. PICK p : p = PageOf(a.addr) /\ p = PageOf(b.addr)
    BY <1>3, <1>5
  <2>2. /\ \A c \in LargeOf(A) : PageOf(c.addr) \notin DOMAIN S
        /\ \A c, d \in LargeOf(A) : PageOf(c.addr) = PageOf(d.addr) => c = d
    BY <1>1 DEF Backed
  <2>3. \A c \in ChunksOut(S) : PageOf(c.addr) \in DOMAIN S
    BY <1>1, ChunksOutAre
  <2>4. a \in ChunksOut(S) /\ b \in ChunksOut(S)
    BY <1>1, <2>1, <2>2, <2>3
  <2>5. /\ p \in DOMAIN S /\ a = ChunkOut(S, p, a.addr) /\ b = ChunkOut(S, p, b.addr)
        /\ a.addr \in ChunksAt(p, SizeIn(S, p)) /\ b.addr \in ChunksAt(p, SizeIn(S, p))
        /\ a.len = SizeIn(S, p) /\ b.len = SizeIn(S, p)
    BY <1>1, <2>1, <2>4, ChunksOutAre DEF TakenOf
  <2>6. a.addr # b.addr /\ p \in Pages /\ SizeIn(S, p) \in ChunkSizes
    BY <1>1, <2>5, CutFacts
  <2> QED
    BY <2>5, <2>6, ChunksDiffer DEF BytesOf
<1> QED
  BY <1>4, <1>5

\* Every allocation is in memory.
LEMMA BytesInMemory ==
  ASSUME NEW M, NEW S, NEW L, NEW A, SlabState(M, S, L, A), NEW a \in A
  PROVE  BytesOf(a) \subseteq 0..(MemorySize - 1)
<1>1. Sound(M, BlocksUnder(S, LargeOf(A)), Reserved)
  BY DEF SlabState, Backed
<1>2. \A x \in BytesOf(a) : PageOf(x) \in Pages
  <2>1. PagesIn(BlocksUnder(S, LargeOf(A))) \subseteq Pages
    BY <1>1, SoundFree
  <2> QED
    BY <2>1, BytesUnder DEF PagesIn
<1>3. a.addr \in Nat /\ a.len \in Nat
  BY BytesUnder
<1>4. PICK s \in Nat \ {0} : s = PageSize
  BY SlabNumbers
<1>5. PICK m \in Nat : m = MaxPages /\ Pages = 0..(m - 1)
  BY NumbersAre DEF Pages
<1>6. ASSUME NEW x \in BytesOf(a) PROVE x \in 0..(MemorySize - 1)
  <2>1. x \in Nat
    BY <1>3, <1>6 DEF BytesOf
  <2>2. PICK p \in Int, r \in 0..(s - 1) : p = PageOf(x) /\ x = s * p + r
    <3>1. x \div s \in Int /\ x % s \in 0..(s - 1) /\ x = s * (x \div s) + (x % s)
      BY <2>1, DivMod
    <3>2. PageOf(x) = x \div s
      BY <1>4 DEF PageOf
    <3> QED
      BY <3>1, <3>2
  <2>3. p < m
    BY <1>2, <1>5, <1>6, <2>2
  <2>4. s * p + s <= s * m /\ s * p \in Int /\ s * m \in Int /\ m * s = s * m
    BY <2>3, NextMultiple
  <2>5. x < s * m
    BY <2>2, <2>4
  <2> QED
    BY <1>4, <1>5, <2>1, <2>4, <2>5 DEF MemorySize
<1> QED
  BY <1>6

\* A page is free exactly when nothing on it is in use, but for the pages that fill up a
\* large block (kmalloc, kfree): a slab that has become unused is found and given up.
THEOREM SlabNothingKept == SlabSpec => []NothingKept
<1>1. ASSUME SlabInv PROVE NothingKept
  <2>1. PICK H : /\ H = BlocksUnder(slabs, LargeOf(owned)) /\ Sound(mem, H, Reserved)
                 /\ Cut(slabs) /\ owned = LargeOf(owned) \cup ChunksOut(slabs)
                 /\ \A p \in DOMAIN slabs : TakenOf(slabs, p) # {}
                 /\ SlabState(mem, slabs, pools, owned)
    BY <1>1 DEF SlabInv, SlabState, Backed
  <2>2. FreePagesOf(mem) = (Pages \ Reserved) \ PagesIn(H)
    BY <2>1, SoundFree, FreePagesAre
  <2>3. ASSUME NEW a \in owned PROVE PageOf(a.addr)..PageOf(a.addr + a.len - 1) \subseteq PagesIn(H)
    <3>1. /\ a.addr \in Nat /\ a.len \in Nat \ {0} /\ UnderBlock(a) \in H
          /\ UnderBlock(a).pfn = PageOf(a.addr)
          /\ \A x \in BytesOf(a) : PageOf(x) \in PagesOf(UnderBlock(a))
      BY <2>1, BytesUnder
    <3>2. a.addr + a.len - 1 \in BytesOf(a)
      BY <3>1 DEF BytesOf
    <3>3. PICK p \in Pages, v \in Nat : p = PageOf(a.addr) /\ PagesOf(UnderBlock(a)) = p..(p + v - 1)
      <4>1. UnderBlock(a) \in BlockIds
        BY <2>1, <3>1, SoundFree
      <4>2. UnderBlock(a).pfn \in Pages /\ UnderBlock(a).order \in Orders
        BY <4>1 DEF BlockIds
      <4>3. Size(UnderBlock(a).order) \in Nat
        BY <4>2, NumbersAre, SizeSucc
      <4> QED
        BY <3>1, <4>2, <4>3 DEF PagesOf, Block
    <3>4. PageOf(a.addr + a.len - 1) \in p..(p + v - 1)
      BY <3>1, <3>2, <3>3
    <3>5. p..PageOf(a.addr + a.len - 1) \subseteq p..(p + v - 1)
      BY <3>3, <3>4, NumbersAre
    <3> QED
      BY <3>1, <3>3, <3>5 DEF PagesIn
  <2>4. FreePagesOf(mem) \cap PagesTaken = {}
    BY <2>2, <2>3 DEF PagesTaken
  <2>5. ASSUME NEW p \in Pages \ (Reserved \cup FreePagesOf(mem) \cup PagesTaken)
        PROVE  \E a \in owned : p \in Block(PageOf(a.addr), mem.order[PageOf(a.addr)])
    <3>1. PICK b \in H : p \in PagesOf(b)
      BY <2>2, <2>5 DEF PagesIn
    <3>2. mem.order[b.pfn] = b.order
      BY <2>1 DEF Sound
    <3>3. CASE \E a \in LargeOf(owned) : b = LargeBlock(a)
      <4>1. PICK a \in LargeOf(owned) : b = LargeBlock(a)
        BY <3>3
      <4>2. a \in owned /\ b.pfn = PageOf(a.addr)
        BY <4>1, UnderIs DEF LargeOf
      <4> QED
        BY <3>1, <3>2, <4>2 DEF PagesOf
    <3>4. CASE \E r \in DOMAIN slabs : b = Single(r)
      <4>1. PICK r \in DOMAIN slabs : b = Single(r) /\ b.pfn = r
        BY <3>4, UnderIs
      <4>2. PICK c : c \in TakenOf(slabs, r)
        BY <2>1
      <4>3. ChunkOut(slabs, r, c) \in ChunksOut(slabs) /\ ChunkOut(slabs, r, c).addr = c
        BY <2>1, <4>2, ChunksOutAre DEF ChunkOut
      <4>4. PageOf(c) = r
        <5>1. r \in Pages /\ SizeIn(slabs, r) \in ChunkSizes /\ c \in ChunksAt(r, SizeIn(slabs, r))
          BY <2>1, <4>2, CutFacts DEF TakenOf
        <5> QED
          BY <5>1, ChunkOnPage
      <4> QED
        BY <2>1, <3>1, <3>2, <4>1, <4>3, <4>4 DEF PagesOf
    <3> QED
      BY <2>1, <3>3, <3>4, UnderIs
  <2> QED
    BY <2>4, <2>5 DEF NothingKept
<1> QED
  BY SlabInvariance, <1>1, PTL

\* To its callers the slab allocator is a heap (kmalloc, kfree): memory handed out overlaps
\* no memory that a caller still has, and is taken back whole.
THEOREM SlabIsHeap == SlabSpec => HeapSpec
<1>1. SlabInit => ImplementsHeap!Init
  BY DEF SlabInit, ImplementsHeap!Init
<1>2. ASSUME SlabInv, [SlabNext]_slabVars PROVE [ImplementsHeap!Next]_owned
  <2>1. SlabState(mem, slabs, pools, owned) /\ SlabState(mem', slabs', pools', owned')
    BY <1>2, SlabStep DEF SlabInv
  <2>2. \A a : ImplementsHeap!Bytes(a) = BytesOf(a)
    BY DEF ImplementsHeap!Bytes, BytesOf
  <2>3. \A a \in owned \cup owned' : ImplementsHeap!InMemory(a)
    <3>1. \A a \in owned \cup owned' : a.len \in Nat \ {0} /\ BytesOf(a) \subseteq 0..(MemorySize - 1)
      BY <2>1, BytesUnder, BytesInMemory
    <3> QED
      BY <2>2, <3>1 DEF ImplementsHeap!InMemory
  <2>4. CASE Grown
    <3>1. PICK a : a \notin owned /\ owned' = owned \cup {a}
      BY <2>4 DEF Grown
    <3>2. \A b \in owned : BytesOf(a) \cap BytesOf(b) = {}
      <4> TAKE b \in owned
      <4>1. a \in owned' /\ b \in owned' /\ a # b
        BY <3>1
      <4> QED
        BY <2>1, <4>1, BytesApart
    <3>3. ImplementsHeap!Hand(a)
      BY <2>2, <3>1, <3>2 DEF ImplementsHeap!Hand
    <3> QED
      BY <2>3, <3>1, <3>3 DEF ImplementsHeap!Next
  <2>5. CASE Shrunk
    <3>1. PICK a \in owned : owned' = owned \ {a}
      BY <2>5 DEF Shrunk
    <3>2. ImplementsHeap!TakeBack(a)
      BY <3>1 DEF ImplementsHeap!TakeBack
    <3> QED
      BY <2>3, <3>1, <3>2 DEF ImplementsHeap!Next
  <2>6. Grown \/ Shrunk \/ UNCHANGED owned
    BY <1>2, SlabStep
  <2> QED
    BY <2>4, <2>5, <2>6
<1>3. SlabInv /\ [SlabNext]_slabVars => [ImplementsHeap!Next]_owned
  BY <1>2
<1> QED
  BY SlabInvariance, <1>1, <1>3, PTL DEF SlabSpec, HeapSpec, ImplementsHeap!Spec
=============================================================================
