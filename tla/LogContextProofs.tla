-------------------------- MODULE LogContextProofs --------------------------
(***************************************************************************)
(* Proofs about LogContext, for any handles, property lists and limits     *)
(* that satisfy the assumptions on them: the values of a context stay      *)
(* inside the area counted for them and share no byte, its pairs are one   *)
(* tree, and it keeps saying what it was defined with when its parent is   *)
(* gone (ContextStore is implemented).                                     *)
(*                                                                         *)
(* The invariant (ContextInv) is about each context alone, which is what   *)
(* lets a parent be destroyed: all its pairs point into its own area, and  *)
(* if it is sound the values found there are laid out apart, below the     *)
(* length that was counted (Laid), and tell one tree.  A definition        *)
(* preserves it because the parent's values, moved by one byte, stay       *)
(* apart (CopiesShift), each new one is put where the last one ends and no *)
(* later than was counted (BuiltLaid), and the new field count             *)
(* accounts for one tree inherited and the properties added (TreeIsOne).   *)
(***************************************************************************)
EXTENDS LogContext, FiniteSetTheorems, WellFoundedInduction, TLAPS

-----------------------------------------------------------------------------
(* Folds *)

(* Counting up from 0, in the form of a set of numbers. *)
LEMMA CountUp ==
  ASSUME NEW n \in Nat, NEW T, 0 \in T, \A k \in 0 .. n - 1 : k \in T => k + 1 \in T
  PROVE  \A k \in 0 .. n : k \in T
<1> DEFINE U == {k \in 0 .. n : k \notin T}
           R == OpToRel(<, Nat)
<1>1. SUFFICES ASSUME U # {}
               PROVE  FALSE
  OBVIOUS
<1>2. U \subseteq Nat
  OBVIOUS
<1>3. PICK m \in U : \A j \in U : ~(<<j, m>> \in R)
  <2> HIDE DEF U
  <2> QED
    BY <1>1, <1>2, WFMin, NatLessThanWellFounded
<1>4. m \in 1 .. n /\ m \notin T
  OBVIOUS
<1>5. m - 1 \in 0 .. n - 1 /\ <<m - 1, m>> \in R /\ m - 1 + 1 = m
  BY <1>4 DEF OpToRel
<1>6. m - 1 \notin U
  BY <1>3, <1>5
<1>7. m - 1 \in T
  <2>1. m - 1 \in 0 .. n
    BY <1>4
  <2> QED
    BY <1>6, <2>1
<1> QED
  BY <1>4, <1>5, <1>7

(* The least of some numbers. *)
LEMMA MinIn ==
  ASSUME NEW S \in SUBSET Nat, S # {}
  PROVE  Min(S) \in S /\ \A x \in S : Min(S) <= x
<1> DEFINE R == OpToRel(<, Nat)
<1>1. PICK m \in S : \A j \in S : ~(<<j, m>> \in R)
  BY WFMin, NatLessThanWellFounded
<1>2. \A j \in S : j \in Nat
  OBVIOUS
<1>3. ASSUME NEW j \in S
      PROVE  m <= j
  <2>1. j \in Nat /\ m \in Nat /\ ~(<<j, m>> \in R)
    BY <1>1, <1>2
  <2>2. j < m => <<j, m>> \in R
    BY <2>1 DEF OpToRel
  <2> HIDE DEF R
  <2> QED
    BY <2>1, <2>2
<1> QED
  BY <1>1, <1>3 DEF Min

(* The greatest of some numbers, up to n. *)
LEMMA MaxIn ==
  ASSUME NEW n \in Nat, NEW S \in SUBSET (1 .. n), S # {}
  PROVE  Max(S) \in S /\ \A x \in S : x <= Max(S)
<1> DEFINE T == {n - x : x \in S}
<1>0. \A x \in S : x \in 1 .. n
  OBVIOUS
<1>1. T \in SUBSET Nat /\ T # {}
  <2>1. \A x \in S : n - x \in Nat
    BY <1>0
  <2> QED
    BY <2>1
<1>2. Min(T) \in T /\ \A y \in T : Min(T) <= y
  <2> HIDE DEF T
  <2> QED
    BY <1>1, MinIn
<1>3. PICK m \in S : Min(T) = n - m
  BY <1>2
<1>4. \A x \in S : x <= m
  <2>1. ASSUME NEW x \in S
        PROVE  Min(T) <= n - x
    BY <1>2
  <2> QED
    BY <1>0, <1>3, <2>1
<1> QED
  BY <1>3, <1>4 DEF Max

(* The greatest number of a set that holds its bound. *)
LEMMA MaxIs ==
  ASSUME NEW n \in Nat, NEW S \in SUBSET (1 .. n), n \in S
  PROVE  Max(S) = n
<1>1. Max(S) \in S /\ n <= Max(S)
  BY MaxIn
<1>2. Max(S) \in 1 .. n
  BY <1>1
<1> QED
  BY <1>1, <1>2

(* There is a function on the subsets of 1 .. n that takes one step from   *)
(* the subset without its greatest member.                                 *)
Folding(f, S, base, step, n) ==
  /\ f \in [SUBSET (1 .. n) -> S]
  /\ \A s \in SUBSET (1 .. n) :
       f[s] = IF s = {} THEN base ELSE step[<<f[s \ {Max(s)}], Max(s)>>]

(* There is a function that folds step over 1 .. n: built up to k, it goes on to k + 1. *)
LEMMA FoldExists ==
  ASSUME NEW S, NEW base \in S, NEW n \in Nat, NEW step \in [S \X (1 .. n) -> S]
  PROVE  \E f : Folding(f, S, base, step, n)
<1> DEFINE T == {k \in Nat : \E f : Folding(f, S, base, step, k)}
<1>1. 0 \in T
  <2> DEFINE f == [s \in SUBSET (1 .. 0) |-> base]
  <2>1. Folding(f, S, base, step, 0)
    <3>1. \A s \in SUBSET (1 .. 0) : s = {}
      OBVIOUS
    <3> QED
      BY <3>1 DEF Folding
  <2> QED
    BY <2>1
<1>2. ASSUME NEW k \in 0 .. n - 1, k \in T
      PROVE  k + 1 \in T
  <2>1. PICK f : Folding(f, S, base, step, k)
    BY <1>2
  <2> DEFINE m == k + 1
             h == [s \in SUBSET (1 .. m) |->
                     IF m \in s THEN step[<<f[s \ {m}], m>>] ELSE f[s]]
  <2>2. k \in Nat /\ m \in Nat /\ m \in 1 .. n
    OBVIOUS
  <2>3. ASSUME NEW s \in SUBSET (1 .. m)
        PROVE  /\ s \ {m} \in SUBSET (1 .. k)
               /\ m \notin s => s \in SUBSET (1 .. k)
    BY <2>2
  <2> HIDE DEF m
  <2>4. \A s \in SUBSET (1 .. k) : f[s] \in S
    BY <2>1 DEF Folding
  <2>5. h \in [SUBSET (1 .. m) -> S]
    <3>1. ASSUME NEW s \in SUBSET (1 .. m)
          PROVE  (IF m \in s THEN step[<<f[s \ {m}], m>>] ELSE f[s]) \in S
      BY <2>2, <2>3, <2>4
    <3> QED
      BY <3>1
  <2>6. ASSUME NEW s \in SUBSET (1 .. m)
        PROVE  h[s] = IF s = {} THEN base ELSE step[<<h[s \ {Max(s)}], Max(s)>>]
    <3>1. CASE m \in s
      <4>1. Max(s) = m
        BY <2>2, <3>1, MaxIs
      <4>2. s \ {m} \in SUBSET (1 .. m) /\ m \notin s \ {m}
        OBVIOUS
      <4>3. h[s \ {m}] = f[s \ {m}] /\ h[s] = step[<<f[s \ {m}], m>>]
        BY <3>1, <4>2
      <4> HIDE DEF h
      <4> QED
        BY <3>1, <4>1, <4>3
    <3>2. CASE m \notin s
      <4>1. s \in SUBSET (1 .. k)
        BY <2>3, <3>2
      <4>2. f[s] = IF s = {} THEN base ELSE step[<<f[s \ {Max(s)}], Max(s)>>]
        BY <2>1, <4>1 DEF Folding
      <4>3. h[s] = f[s]
        BY <3>2
      <4>4. s \ {Max(s)} \in SUBSET (1 .. m) /\ m \notin s \ {Max(s)}
        BY <3>2
      <4>5. h[s \ {Max(s)}] = f[s \ {Max(s)}]
        BY <4>4
      <4> HIDE DEF h
      <4> QED
        BY <4>2, <4>3, <4>5
    <3> QED
      BY <3>1, <3>2
  <2>7. Folding(h, S, base, step, m)
    <3> HIDE DEF h
    <3> QED
      BY <2>5, <2>6 DEF Folding
  <2> HIDE DEF h
  <2> QED
    BY <2>2, <2>7 DEF m
<1>3. n \in T
  <2>1. n \in 0 .. n
    OBVIOUS
  <2> HIDE DEF T
  <2> QED
    BY <1>1, <1>2, <2>1, CountUp
<1> QED
  BY <1>3

(* The prefixes of a sequence are the subsets a fold goes through. *)
LEMMA PrefixSubset ==
  ASSUME NEW n \in Nat, NEW k \in 1 .. n
  PROVE  /\ 1 .. k \in SUBSET (1 .. n) /\ 1 .. k # {}
         /\ Max(1 .. k) = k
         /\ (1 .. k) \ {k} = 1 .. k - 1
<1>1. k \in Nat /\ k \in 1 .. k
  OBVIOUS
<1>2. Max(1 .. k) = k
  BY <1>1, MaxIs
<1>3. \A j : j \in (1 .. k) \ {k} <=> j \in 1 .. k - 1
  BY <1>1
<1>4. (1 .. k) \ {k} = 1 .. k - 1
  BY <1>3
<1>5. ASSUME NEW j \in 1 .. k
      PROVE  j \in 1 .. n
  OBVIOUS
<1> QED
  BY <1>1, <1>2, <1>4, <1>5, Zenon

-----------------------------------------------------------------------------
(* The sizes *)

(* A product of natural numbers is one. *)
LEMMA TimesNat ==
  ASSUME NEW a \in Nat, NEW b \in Nat
  PROVE  a * b \in Nat
OBVIOUS

(* A character has at least one byte. *)
LEMMA CharSizeNat ==
  ASSUME NEW type
  PROVE  CharSize(type) \in Nat \ {0}
BY WideAssumption DEF CharSize

(* A size is a number, below zero where counting failed. *)
LEMMA SizeInt ==
  ASSUME NEW p \in Property
  PROVE  GetInitDataSize(p) \in Int
<1>1. CharSize(p.type) \in Nat /\ p.counted + 1 \in Nat /\ p.reserved \in Nat
  BY CharSizeNat DEF Property
<1>2. CharSize(p.type) * (p.counted + 1) \in Nat
  BY <1>1, TimesNat
<1>3. ~IsText(p.type) => Sizeof[p.type] \in Int
  BY DEF Property, Types, IsText, Sizeof
<1> QED
  BY <1>1, <1>2, <1>3 DEF GetInitDataSize, TextInitDataSize

(* f[k] is the sum of the sizes of the first k properties. *)
IsSum(f, list) ==
  /\ f \in [0 .. Len(list) -> Int]
  /\ f[0] = 0
  /\ \A k \in 1 .. Len(list) : f[k] = f[k - 1] + GetInitDataSize(list[k])

(* The sum of sizes is the last value of a running sum. *)
LEMMA SumIs ==
  ASSUME NEW list \in Seq(Property)
  PROVE  \E f : IsSum(f, list) /\ SumOfSizes(list) = f[Len(list)]
<1> DEFINE n == Len(list)
           step == [x \in Int \X (1 .. n) |-> x[1] + GetInitDataSize(list[x[2]])]
<1>1. n \in Nat /\ DOMAIN list = 1 .. n /\ \A k \in 1 .. n : list[k] \in Property
  OBVIOUS
<1> HIDE DEF n
<1>2. \A k \in 1 .. n : GetInitDataSize(list[k]) \in Int
  BY <1>1, SizeInt
<1>3. step \in [Int \X (1 .. n) -> Int]
  BY <1>2
<1>4. PICK f : Folding(f, Int, 0, step, n)
  <2> HIDE DEF step
  <2>1. 0 \in Int
    OBVIOUS
  <2> QED
    BY <1>1, <1>3, <2>1, FoldExists, Zenon
<1>5. ASSUME NEW s \in SUBSET (1 .. n)
      PROVE  f[s] = IF s = {} THEN 0 ELSE f[s \ {Max(s)}] + GetInitDataSize(list[Max(s)])
  <2>1. CASE s = {}
    BY <1>4, <2>1 DEF Folding
  <2>2. CASE s # {}
    <3>1. Max(s) \in 1 .. n /\ s \ {Max(s)} \in SUBSET (1 .. n)
      BY <1>1, <2>2, MaxIn
    <3>2. f[s \ {Max(s)}] \in Int
      BY <1>4, <3>1 DEF Folding
    <3>3. step[<<f[s \ {Max(s)}], Max(s)>>] = f[s \ {Max(s)}] + GetInitDataSize(list[Max(s)])
      BY <3>1, <3>2
    <3> HIDE DEF step
    <3> QED
      BY <1>4, <2>2, <3>3 DEF Folding
  <2> QED
    BY <2>1, <2>2
<1> DEFINE iter[s \in SUBSET (1 .. n)] ==
             IF s = {} THEN 0 ELSE iter[s \ {Max(s)}] + GetInitDataSize(list[Max(s)])
<1>6. SumOfSizes(list) = iter[1 .. n]
  BY <1>1 DEF SumOfSizes, FoldLeft, MapThenFoldSet
<1>7. f = [s \in SUBSET (1 .. n) |->
             IF s = {} THEN 0 ELSE f[s \ {Max(s)}] + GetInitDataSize(list[Max(s)])]
  BY <1>4, <1>5 DEF Folding
<1>8. iter = [s \in SUBSET (1 .. n) |->
                IF s = {} THEN 0 ELSE iter[s \ {Max(s)}] + GetInitDataSize(list[Max(s)])]
  BY <1>7
<1> HIDE DEF iter
<1> DEFINE g == [k \in 0 .. n |-> iter[1 .. k]]
<1>9. g[0] = 0
  BY <1>1, <1>8
<1>10. ASSUME NEW k \in 1 .. n
       PROVE  g[k] = g[k - 1] + GetInitDataSize(list[k])
  <2>1. k - 1 \in 0 .. n /\ k \in 0 .. n
    BY <1>1
  <2>2. /\ 1 .. k \in SUBSET (1 .. n) /\ 1 .. k # {}
        /\ Max(1 .. k) = k
        /\ (1 .. k) \ {k} = 1 .. k - 1
    BY <1>1, PrefixSubset, Zenon
  <2>3. iter[1 .. k] = iter[1 .. k - 1] + GetInitDataSize(list[k])
    BY <1>8, <2>2
  <2> QED
    BY <2>1, <2>3
<1>11. \A k \in 0 .. n : g[k] \in Int
  <2> DEFINE T == {k \in Nat : g[k] \in Int}
  <2> HIDE DEF g
  <2>1. 0 \in T
    BY <1>9
  <2>2. ASSUME NEW k \in 0 .. n - 1, k \in T
        PROVE  k + 1 \in T
    <3>1. k + 1 \in 1 .. n /\ k + 1 - 1 = k /\ g[k] \in Int
      BY <1>1, <2>2
    <3> QED
      BY <1>2, <1>10, <3>1
  <2>3. \A k \in 0 .. n : k \in T
    <3> HIDE DEF T
    <3> QED
      BY <1>1, <2>1, <2>2, CountUp
  <2> QED
    BY <2>3
<1>12. g[n] = iter[1 .. n]
  BY <1>1
<1>13. IsSum(g, list)
  <2>1. g \in [0 .. n -> Int]
    BY <1>11
  <2> HIDE DEF g
  <2> QED
    BY <1>9, <1>10, <2>1 DEF IsSum, n
<1> HIDE DEF g
<1> QED
  BY <1>6, <1>12, <1>13 DEF n

-----------------------------------------------------------------------------
(* Memory *)

Cell == (STRING \cup {"garbage", "nul", "fields"}) \X Nat
Cells == Seq(Cell)
Block == UNION {[D -> Cell] : D \in {E \in SUBSET Nat : IsFiniteSet(E)}}

(* The cells c are what the block b has at offset o. *)
Holds(b, o, c) == \A k \in 1 .. Len(c) : o + k - 1 \in DOMAIN b /\ b[o + k - 1] = c[k]

(* A block is a function from finitely many offsets to cells. *)
LEMMA BlockIs ==
  ASSUME NEW b
  PROVE  b \in Block <=> /\ b = [o \in DOMAIN b |-> b[o]]
                         /\ DOMAIN b \subseteq Nat
                         /\ IsFiniteSet(DOMAIN b)
                         /\ \A o \in DOMAIN b : b[o] \in Cell
<1>1. ASSUME b \in Block
      PROVE  /\ b = [o \in DOMAIN b |-> b[o]]
             /\ DOMAIN b \subseteq Nat
             /\ IsFiniteSet(DOMAIN b)
             /\ \A o \in DOMAIN b : b[o] \in Cell
  <2>1. PICK D \in {E \in SUBSET Nat : IsFiniteSet(E)} : b \in [D -> Cell]
    BY <1>1 DEF Block
  <2> QED
    BY <2>1
<1>2. ASSUME b = [o \in DOMAIN b |-> b[o]], DOMAIN b \subseteq Nat, IsFiniteSet(DOMAIN b),
             \A o \in DOMAIN b : b[o] \in Cell
      PROVE  b \in Block
  <2>1. b \in [DOMAIN b -> Cell] /\ DOMAIN b \in {E \in SUBSET Nat : IsFiniteSet(E)}
    BY <1>2
  <2> QED
    BY <2>1 DEF Block
<1> QED
  BY <1>1, <1>2

(* Memory nothing was written to. *)
LEMMA NoBlock == <<>> \in Block /\ DOMAIN <<>> = {}
<1>1. <<>> \in Seq(Cell) /\ Len(<<>>) = 0
  OBVIOUS
<1>2. DOMAIN <<>> = {} /\ <<>> = [o \in DOMAIN <<>> |-> <<>>[o]]
  BY <1>1
<1> QED
  BY <1>2, BlockIs, FS_EmptySet

(* A write at n reaches the bytes from n on, one for each cell. *)
LEMMA StoreAt ==
  ASSUME NEW b, NEW n \in Nat, NEW c \in Cells
  PROVE  /\ DOMAIN Store(b, n, c) = DOMAIN b \cup n .. n + Len(c) - 1
         /\ Store(b, n, c) = [o \in DOMAIN Store(b, n, c) |-> Store(b, n, c)[o]]
         /\ \A o \in DOMAIN b \cup n .. n + Len(c) - 1 :
              Store(b, n, c)[o] = IF o - n + 1 \in 1 .. Len(c) THEN c[o - n + 1] ELSE b[o]
<1>1. DOMAIN c = 1 .. Len(c) /\ Len(c) \in Nat
  BY DEF Cells
<1>2. {n + k - 1 : k \in DOMAIN c} = n .. n + Len(c) - 1
  <2>1. \A o \in n .. n + Len(c) - 1 : o - n + 1 \in 1 .. Len(c) /\ o = n + (o - n + 1) - 1
    BY <1>1
  <2>2. \A k \in 1 .. Len(c) : n + k - 1 \in n .. n + Len(c) - 1
    BY <1>1
  <2> QED
    BY <1>1, <2>1, <2>2
<1>3. Store(b, n, c) =
        [o \in DOMAIN b \cup n .. n + Len(c) - 1 |->
           IF o - n + 1 \in 1 .. Len(c) THEN c[o - n + 1] ELSE b[o]]
  BY <1>1, <1>2 DEF Store
<1> QED
  BY <1>3

(* What was written is there, and the bytes elsewhere stay. *)
LEMMA StoreOK ==
  ASSUME NEW b \in Block, NEW n \in Nat, NEW c \in Cells
  PROVE  /\ Store(b, n, c) \in Block
         /\ DOMAIN Store(b, n, c) = DOMAIN b \cup n .. n + Len(c) - 1
         /\ Holds(Store(b, n, c), n, c)
         /\ \A o \in DOMAIN b : o \notin n .. n + Len(c) - 1 => Store(b, n, c)[o] = b[o]
<1> DEFINE st == Store(b, n, c)
<1> HIDE DEF st
<1>1. /\ DOMAIN st = DOMAIN b \cup n .. n + Len(c) - 1
      /\ st = [o \in DOMAIN st |-> st[o]]
      /\ \A o \in DOMAIN b \cup n .. n + Len(c) - 1 :
           st[o] = IF o - n + 1 \in 1 .. Len(c) THEN c[o - n + 1] ELSE b[o]
  BY StoreAt, ZenonT(30) DEF st
<1>2. Len(c) \in Nat /\ \A k \in 1 .. Len(c) : c[k] \in Cell
  BY DEF Cells
<1>3. DOMAIN b \subseteq Nat /\ \A o \in DOMAIN b : b[o] \in Cell
  BY BlockIs
<1>4. ASSUME NEW o \in DOMAIN st
      PROVE  /\ st[o] = IF o - n + 1 \in 1 .. Len(c) THEN c[o - n + 1] ELSE b[o]
             /\ o \in Nat /\ st[o] \in Cell
  <2>1. st[o] = IF o - n + 1 \in 1 .. Len(c) THEN c[o - n + 1] ELSE b[o]
    BY <1>1
  <2>2. CASE o \in n .. n + Len(c) - 1
    <3>1. o - n + 1 \in 1 .. Len(c) /\ o \in Nat
      BY <1>2, <2>2
    <3> QED
      BY <1>2, <2>1, <3>1
  <2>3. CASE o \in DOMAIN b /\ o \notin n .. n + Len(c) - 1
    <3>1. o \in Nat /\ o - n + 1 \notin 1 .. Len(c)
      BY <1>2, <1>3, <2>3
    <3> QED
      BY <1>3, <2>1, <2>3, <3>1
  <2> QED
    BY <1>1, <2>2, <2>3
<1>5. st \in Block
  <2>1. st = [o \in DOMAIN st |-> st[o]]
    BY <1>1
  <2>2. n \in Int /\ n + Len(c) - 1 \in Int
    BY <1>2
  <2>3. IsFiniteSet(n .. n + Len(c) - 1) /\ IsFiniteSet(DOMAIN b)
    BY <2>2, FS_Interval, BlockIs
  <2>4. IsFiniteSet(DOMAIN st)
    <3>1. IsFiniteSet(DOMAIN b \cup n .. n + Len(c) - 1)
      BY <2>3, FS_Union, Zenon
    <3> QED
      BY <1>1, <3>1, Zenon
  <2> QED
    BY <1>4, <2>1, <2>4, BlockIs
<1>6. ASSUME NEW k \in 1 .. Len(c)
      PROVE  n + k - 1 \in DOMAIN st /\ st[n + k - 1] = c[k]
  <2> DEFINE o == n + k - 1
  <2>1. o \in n .. n + Len(c) - 1 /\ o - n + 1 = k
    BY <1>2
  <2> HIDE DEF o
  <2>2. o \in DOMAIN st
    BY <1>1, <2>1
  <2>3. st[o] = c[k]
    BY <1>4, <2>1, <2>2
  <2> QED
    BY <2>2, <2>3 DEF o
<1>7. ASSUME NEW o \in DOMAIN b, o \notin n .. n + Len(c) - 1
      PROVE  st[o] = b[o]
  <2>1. o \in Nat /\ o \in DOMAIN st
    BY <1>1, <1>3
  <2>2. o - n + 1 \notin 1 .. Len(c)
    BY <1>2, <1>7, <2>1
  <2> QED
    BY <1>4, <2>1, <2>2
<1> QED
  BY <1>1, <1>5, <1>6, <1>7 DEF st, Holds

(* A load has one cell per byte asked for, written or not. *)
LEMMA LoadOK ==
  ASSUME NEW b \in Block, NEW o \in Nat, NEW n \in Nat
  PROVE  Load(b, o, n) \in Cells /\ Len(Load(b, o, n)) = n
<1>1. Garbage \in Cell
  BY DEF Garbage, Cell
<1>2. \A a \in DOMAIN b : b[a] \in Cell
  BY BlockIs
<1>3. \A k \in 1 .. n : (IF o + k - 1 \in DOMAIN b THEN b[o + k - 1] ELSE Garbage) \in Cell
  BY <1>1, <1>2
<1>4. Load(b, o, n) \in [1 .. n -> Cell]
  BY <1>3 DEF Load
<1> HIDE DEF Load
<1> QED
  BY <1>4 DEF Cells

(* Cells that are held are read. *)
LEMMA LoadHeld ==
  ASSUME NEW b, NEW o \in Nat, NEW c \in Cells, Holds(b, o, c)
  PROVE  Load(b, o, Len(c)) = c
<1>1. Load(b, o, Len(c)) = [k \in 1 .. Len(c) |-> c[k]]
  BY DEF Load, Holds
<1>2. c = [k \in 1 .. Len(c) |-> c[k]]
  BY DEF Cells
<1> QED
  BY <1>1, <1>2

-----------------------------------------------------------------------------
(* Values *)

(* The cells of a stored value.  A string ends with its first terminator.  *)
Value(c, type) ==
  /\ c \in Cells
  /\ IF IsText(type)
     THEN \E n \in Nat :
            /\ Len(c) = CharSize(type) * (n + 1)
            /\ \A k \in 1 .. CharSize(type) : c[CharSize(type) * n + k] = Nul
            /\ \A m \in 0 .. n - 1 : c[CharSize(type) * m + 1] # Nul
     ELSE Len(c) = Sizeof[type]

(* Products grow with a factor. *)
LEMMA TimesLess ==
  ASSUME NEW a \in Nat, NEW m \in Nat, NEW n \in Nat, m <= n
  PROVE  a * m <= a * n /\ a * (n + 1) = a * n + a
<1>1. a * n = a * m + a * (n - m) /\ a * (n - m) \in Nat /\ a * m \in Nat
  OBVIOUS
<1> QED
  BY <1>1

(* Types of a fixed size have one. *)
LEMMA SizeofNat ==
  ASSUME NEW type \in Types, ~IsText(type)
  PROVE  Sizeof[type] \in Nat
BY DEF Types, IsText, Sizeof

(* A copy is a sequence of bytes, whatever the memory holds. *)
LEMMA CopiedOK ==
  ASSUME NEW b \in Block, NEW o \in Nat, NEW type \in Types
  PROVE  Copied(b, o, type) \in Cells
<1>1. CASE ~IsText(type)
  BY <1>1, SizeofNat, LoadOK DEF Copied, FixedCopy
<1>2. CASE IsText(type)
  <2> DEFINE size == CharSize(type)
             ends == {n \in 0 .. Cardinality(DOMAIN b) :
                        \A k \in 0 .. size - 1 : /\ o + size * n + k \in DOMAIN b
                                                 /\ b[o + size * n + k] = Nul}
  <2>1. Copied(b, o, type) = IF ends = {} THEN <<>> ELSE Load(b, o, size * (Min(ends) + 1))
    BY <1>2 DEF Copied, TextCopy
  <2>2. \A n \in ends : n \in Nat
    <3>1. Cardinality(DOMAIN b) \in Nat
      BY BlockIs, FS_CardinalityType
    <3> QED
      BY <3>1
  <2>3. size \in Nat
    BY CharSizeNat
  <2> HIDE DEF ends, size
  <2>4. CASE ends = {}
    BY <2>1, <2>4 DEF Cells
  <2>5. CASE ends # {}
    <3>1. ends \in SUBSET Nat
      BY <2>2
    <3>2. Min(ends) \in Nat
      BY <2>2, <2>5, <3>1, MinIn, Zenon
    <3>3. size * (Min(ends) + 1) \in Nat
      BY <2>3, <3>2, TimesNat
    <3> QED
      BY <2>1, <2>5, <3>3, LoadOK
  <2> QED
    BY <2>4, <2>5
<1> QED
  BY <1>1, <1>2

(* What is copied from where a value is held is the value. *)
LEMMA CopiedIs ==
  ASSUME NEW b \in Block, NEW o \in Nat, NEW type \in Types, NEW c, Value(c, type), Holds(b, o, c)
  PROVE  Copied(b, o, type) = c
<1>1. c \in Cells /\ Len(c) \in Nat
  BY DEF Value, Cells
<1>2. Load(b, o, Len(c)) = c
  BY <1>1, LoadHeld
<1>3. CASE ~IsText(type)
  BY <1>2, <1>3 DEF Copied, FixedCopy, Value
<1>4. CASE IsText(type)
  <2> DEFINE size == CharSize(type)
             ends == {n \in 0 .. Cardinality(DOMAIN b) :
                        \A k \in 0 .. size - 1 : /\ o + size * n + k \in DOMAIN b
                                                 /\ b[o + size * n + k] = Nul}
  <2>1. Copied(b, o, type) = IF ends = {} THEN <<>> ELSE Load(b, o, size * (Min(ends) + 1))
    BY <1>4 DEF Copied, TextCopy
  <2>2. PICK n \in Nat :
          /\ Len(c) = size * (n + 1)
          /\ \A k \in 1 .. size : c[size * n + k] = Nul
          /\ \A m \in 0 .. n - 1 : c[size * m + 1] # Nul
    BY <1>4 DEF Value
  <2>3. size \in Nat \ {0}
    BY CharSizeNat
  <2>4. \A m \in Nat : size * m \in Nat
    BY <2>3, TimesNat
  <2> HIDE DEF size
  <2>5. Len(c) = size * n + size /\ n <= Len(c)
    <3>1. 1 * (n + 1) <= size * (n + 1)
      BY <2>2, <2>3
    <3> QED
      BY <2>2, <2>3, <3>1, TimesLess
  <2>6. \A k \in 1 .. Len(c) : o + k - 1 \in DOMAIN b /\ b[o + k - 1] = c[k]
    BY DEF Holds
  <2>7. n <= Cardinality(DOMAIN b) /\ Cardinality(DOMAIN b) \in Nat
    <3>1. \A x \in o .. o + Len(c) - 1 : x - o + 1 \in 1 .. Len(c) /\ o + (x - o + 1) - 1 = x
      BY <1>1
    <3>2. \A x \in o .. o + Len(c) - 1 : x \in DOMAIN b
      BY <2>6, <3>1
    <3>3. IsFiniteSet(DOMAIN b)
      BY BlockIs
    <3>4. Cardinality(o .. o + Len(c) - 1) <= Cardinality(DOMAIN b)
      BY <3>2, <3>3, FS_Subset
    <3>5. Cardinality(o .. o + Len(c) - 1) = Len(c)
      <4>1. o \in Int /\ o + Len(c) - 1 \in Int
        BY <1>1
      <4>2. Cardinality(o .. o + Len(c) - 1) =
              IF o > o + Len(c) - 1 THEN 0 ELSE (o + Len(c) - 1) - o + 1
        BY <4>1, FS_Interval
      <4> QED
        BY <1>1, <4>2
    <3>6. Cardinality(DOMAIN b) \in Nat
      BY <3>3, FS_CardinalityType
    <3> QED
      BY <1>1, <2>5, <3>4, <3>5, <3>6
  <2>8. n \in ends
    <3>1. ASSUME NEW k \in 0 .. size - 1
          PROVE  o + size * n + k \in DOMAIN b /\ b[o + size * n + k] = Nul
      <4>1. size * n + (k + 1) \in 1 .. Len(c) /\ o + (size * n + (k + 1)) - 1 = o + size * n + k
        BY <2>3, <2>4, <2>5
      <4>2. k + 1 \in 1 .. size
        BY <2>3
      <4>3. c[size * n + (k + 1)] = Nul
        BY <2>2, <4>2
      <4> QED
        BY <2>6, <4>1, <4>3
    <3>2. n \in 0 .. Cardinality(DOMAIN b)
      BY <2>7
    <3> QED
      BY <3>1, <3>2
  <2>9. ASSUME NEW m \in ends
        PROVE  m \in Nat /\ n <= m
    <3>1. m \in Nat /\ 0 \in 0 .. size - 1
      BY <2>3, <2>7
    <3>2. o + size * m + 0 \in DOMAIN b /\ b[o + size * m + 0] = Nul
      BY <3>1
    <3>3. ASSUME m < n
          PROVE  FALSE
      <4>1. size * m <= size * n /\ size * m \in Nat /\ size * n \in Nat
        BY <2>3, <2>4, <3>1, <3>3, TimesLess
      <4>2. size * m + 1 \in 1 .. Len(c) /\ o + (size * m + 1) - 1 = o + size * m + 0
        BY <2>3, <2>5, <4>1
      <4>3. c[size * m + 1] = Nul
        BY <2>6, <3>2, <4>2
      <4>4. m \in 0 .. n - 1
        BY <3>1, <3>3
      <4> QED
        BY <2>2, <4>3, <4>4
    <3> QED
      BY <3>1, <3>3
  <2> HIDE DEF ends
  <2>10. Min(ends) = n
    <3>1. ends \in SUBSET Nat /\ ends # {}
      BY <2>8, <2>9
    <3>2. Min(ends) \in ends /\ \A x \in ends : Min(ends) <= x
      BY <3>1, MinIn, Zenon
    <3>3. Min(ends) \in Nat /\ n <= Min(ends) /\ Min(ends) <= n
      BY <2>8, <2>9, <3>2, Zenon
    <3> QED
      BY <3>3
  <2> QED
    BY <1>2, <2>1, <2>2, <2>8, <2>10
<1> QED
  BY <1>3, <1>4

(* The bytes of a value, numbered from 1. *)
LEMMA BytesOK ==
  ASSUME NEW p \in Property, NEW m \in Nat
  PROVE  /\ Bytes(p, m) \in Cells
         /\ Len(Bytes(p, m)) = m
         /\ \A k \in 1 .. m : Bytes(p, m)[k] = <<p.value, k>>
<1>1. \A k \in 1 .. m : <<p.value, k>> \in Cell
  BY DEF Property, Cell
<1>2. Bytes(p, m) \in [1 .. m -> Cell] /\ \A k \in 1 .. m : Bytes(p, m)[k] = <<p.value, k>>
  BY <1>1 DEF Bytes
<1> HIDE DEF Bytes
<1> QED
  BY <1>2 DEF Cells

(* Characters are no terminators. *)
LEMMA TextOK ==
  ASSUME NEW p \in Property, NEW n \in Nat, IsText(p.type)
  PROVE  Value(Text(p, n), p.type) /\ Len(Text(p, n)) = CharSize(p.type) * (n + 1)
<1> DEFINE size == CharSize(p.type)
           chars == Bytes(p, size * n)
           end == [k \in 1 .. size |-> Nul]
<1>1. size \in Nat \ {0} /\ size * n \in Nat
  BY CharSizeNat, TimesNat
<1>2. /\ chars \in Cells /\ Len(chars) = size * n
      /\ \A k \in 1 .. size * n : chars[k] = <<p.value, k>>
  BY <1>1, BytesOK, Zenon
<1>3. end \in Cells /\ Len(end) = size /\ \A k \in 1 .. size : end[k] = Nul
  <2>1. Nul \in Cell
    BY DEF Nul, Cell
  <2>2. end \in [1 .. size -> Cell]
    BY <2>1
  <2>3. \A k \in 1 .. size : end[k] = Nul
    OBVIOUS
  <2> HIDE DEF end
  <2> QED
    BY <1>1, <2>2, <2>3 DEF Cells
<1>4. Text(p, n) = chars \o end
  BY DEF Text
<1>5. size * (n + 1) = size * n + size
  BY <1>1, TimesLess
<1> HIDE DEF size, chars, end
<1>6. /\ Text(p, n) \in Cells /\ Len(Text(p, n)) = size * n + size
      /\ \A k \in 1 .. size * n : Text(p, n)[k] = <<p.value, k>>
      /\ \A k \in 1 .. size : Text(p, n)[size * n + k] = Nul
  <2>1. chars \in Seq(Cell) /\ end \in Seq(Cell)
    BY <1>2, <1>3 DEF Cells
  <2>2. chars \o end \in Seq(Cell) /\ Len(chars \o end) = size * n + size
    <3> HIDE DEF Cell
    <3>1. chars \o end \in Seq(Cell) /\ Len(chars \o end) = Len(chars) + Len(end)
      BY <2>1
    <3> QED
      BY <1>2, <1>3, <3>1
  <2>3. ASSUME NEW k \in 1 .. size * n
        PROVE  (chars \o end)[k] = <<p.value, k>>
    <3>1. (chars \o end)[k] = chars[k]
      BY <1>1, <1>2, <2>1
    <3> QED
      BY <1>2, <3>1
  <2>4. ASSUME NEW k \in 1 .. size
        PROVE  (chars \o end)[size * n + k] = Nul
    <3>1. (chars \o end)[size * n + k] = end[k]
      BY <1>1, <1>2, <1>3, <2>1
    <3> QED
      BY <1>3, <3>1
  <2> QED
    BY <1>4, <2>2, <2>3, <2>4 DEF Cells
<1>7. ASSUME NEW m \in 0 .. n - 1
      PROVE  Text(p, n)[size * m + 1] # Nul
  <2>1. m \in Nat /\ m + 1 \in Nat /\ m + 1 <= n
    OBVIOUS
  <2>2. size * m \in Nat /\ size * (m + 1) <= size * n /\ size * (m + 1) = size * m + size
    BY <1>1, <2>1, TimesNat, TimesLess
  <2>3. size * m + 1 \in 1 .. size * n
    BY <1>1, <2>2
  <2>4. Text(p, n)[size * m + 1] = <<p.value, size * m + 1>>
    BY <1>6, <2>3
  <2>5. size * m + 1 # 0
    BY <2>2
  <2> QED
    BY <2>4, <2>5 DEF Nul
<1> QED
  BY <1>5, <1>6, <1>7 DEF Value, size

(* What init stores are cells, and it moves on by a number of bytes. *)
LEMMA InitCellsOK ==
  ASSUME NEW p \in Property
  PROVE  InitCells(p) \in Cells /\ Advance(p) \in Nat
<1>1. p.type \in Types /\ p.length \in Nat /\ p.reserved \in Nat
  BY DEF Property
<1>2. CASE ~IsText(p.type)
  <2>1. Sizeof[p.type] \in Nat
    BY <1>1, <1>2, SizeofNat
  <2> QED
    BY <1>1, <1>2, <2>1, BytesOK DEF InitCells, FixedInit, Advance
<1>3. CASE IsText(p.type)
  <2>1. MaxWideLength - 1 \in Nat
    BY WideAssumption
  <2>2. Text(p, p.length) \in Cells /\ Text(p, MaxWideLength - 1) \in Cells /\ <<>> \in Cells
    <3>1. Value(Text(p, p.length), p.type) /\ Value(Text(p, MaxWideLength - 1), p.type)
      BY <1>1, <1>3, <2>1, TextOK
    <3>2. <<>> \in Cells
      BY DEF Cells
    <3> QED
      BY <3>1, <3>2 DEF Value
  <2>3. CharSize(p.type) * (p.length + 1) \in Nat
    BY <1>1, CharSizeNat, TimesNat
  <2> QED
    BY <1>1, <1>3, <2>2, <2>3 DEF InitCells, TextInit, Advance
<1> QED
  BY <1>2, <1>3

(* A property that formats both times, and fits what was counted, is       *)
(* stored as a value within what data_pos advances by, and that is within  *)
(* the size counted.                                                       *)
LEMMA InitValue ==
  ASSUME NEW p \in Property, ~PrintFails(p, p.counted), p.length <= p.counted,
         p.reserved > 0 => Len(InitCells(p)) <= p.reserved
  PROVE  /\ Value(InitCells(p), p.type)
         /\ Len(InitCells(p)) <= Advance(p)
         /\ Advance(p) <= GetInitDataSize(p)
<1>1. p.type \in Types /\ p.length \in Nat /\ p.counted \in Nat /\ p.reserved \in Nat
  BY DEF Property
<1>2. CASE ~IsText(p.type)
  <2>1. Sizeof[p.type] \in Nat
    BY <1>1, <1>2, SizeofNat
  <2>2. InitCells(p) \in Cells /\ Len(InitCells(p)) = Sizeof[p.type]
    BY <1>2, <2>1, BytesOK DEF InitCells, FixedInit
  <2> HIDE DEF InitCells
  <2> QED
    BY <1>1, <1>2, <2>1, <2>2 DEF Value, Advance, GetInitDataSize
<1>3. CASE IsText(p.type)
  <2>1. ~PrintFails(p, p.length)
    BY <1>1, WideAssumption DEF PrintFails
  <2>2. InitCells(p) = Text(p, p.length)
    BY <1>3, <2>1 DEF InitCells, TextInit
  <2>3. /\ Value(InitCells(p), p.type)
        /\ Len(InitCells(p)) = CharSize(p.type) * (p.length + 1)
    BY <1>1, <1>3, <2>2, TextOK
  <2>4. /\ CharSize(p.type) * (p.length + 1) <= CharSize(p.type) * (p.counted + 1)
        /\ CharSize(p.type) * (p.length + 1) \in Nat
        /\ CharSize(p.type) * (p.counted + 1) \in Nat
    <3>1. p.length + 1 \in Nat /\ p.counted + 1 \in Nat /\ p.length + 1 <= p.counted + 1
      BY <1>1
    <3> QED
      BY <3>1, CharSizeNat, TimesLess, TimesNat
  <2> HIDE DEF InitCells
  <2> QED
    BY <1>1, <1>3, <2>1, <2>3, <2>4 DEF Advance, GetInitDataSize, TextInitDataSize
<1> QED
  BY <1>2, <1>3

-----------------------------------------------------------------------------
(* The memory while a context is built *)

ValuePair == [type : Types, area : Handles, offset : Nat]

(* The values copied from the parent, one after the other. *)
LEMMA CopyIs ==
  ASSUME NEW h \in Handles, NEW parent \in Handles, ctx[parent].pairs \in Seq(ValuePair),
         \A i \in 1 .. Len(ctx[parent].pairs) : Read(ctx[parent].pairs[i]) \in Cells
  PROVE  \E g \in [0 .. Len(ctx[parent].pairs) -> Block] :
           /\ g[0] = <<>>
           /\ \A k \in 1 .. Len(ctx[parent].pairs) :
                g[k] = Store(g[k - 1], ctx[parent].pairs[k].offset + 1, Read(ctx[parent].pairs[k]))
           /\ InitFromParent(h, parent).data = g[Len(ctx[parent].pairs)]
<1> DEFINE inherited == ctx[parent].pairs
           n == Len(inherited)
           moved == [i \in 1 .. n |-> [inherited[i] EXCEPT !.area = h, !.offset = @ + 1]]
           indices == [i \in 1 .. n |-> i]
           step == [x \in Block \X (1 .. n) |->
                      Store(x[1], moved[x[2]].offset, Read(inherited[x[2]]))]
<1>1. n \in Nat /\ \A i \in 1 .. n : inherited[i] \in ValuePair
  OBVIOUS
<1>2. \A i \in 1 .. n : Read(inherited[i]) \in Cells
  OBVIOUS
<1>3. \A i \in 1 .. n : moved[i].offset = inherited[i].offset + 1 /\ moved[i].offset \in Nat
  <2> HIDE DEF inherited, n
  <2>1. ASSUME NEW i \in 1 .. n
        PROVE  moved[i].offset = inherited[i].offset + 1 /\ inherited[i].offset \in Nat
    BY <1>1 DEF ValuePair
  <2> HIDE DEF moved
  <2> QED
    BY <2>1
<1>4. DOMAIN indices = 1 .. n /\ \A i \in 1 .. n : indices[i] = i
  OBVIOUS
<1>5. InitFromParent(h, parent).data =
        FoldLeft(LAMBDA data, i : Store(data, moved[i].offset, Read(inherited[i])), <<>>, indices)
  BY ContextAssumption DEF InitFromParent
<1> HIDE DEF inherited, n, moved, indices
<1>6. ASSUME NEW b \in Block, NEW i \in 1 .. n
      PROVE  Store(b, moved[i].offset, Read(inherited[i])) \in Block
  BY <1>2, <1>3, StoreOK
<1>7. step \in [Block \X (1 .. n) -> Block]
  BY <1>6
<1>8. PICK f : Folding(f, Block, <<>>, step, n)
  <2> HIDE DEF step
  <2> QED
    BY <1>1, <1>7, NoBlock, FoldExists, Zenon
<1>9. ASSUME NEW s \in SUBSET (1 .. n)
      PROVE  f[s] = IF s = {} THEN <<>>
                    ELSE Store(f[s \ {Max(s)}], moved[indices[Max(s)]].offset,
                               Read(inherited[indices[Max(s)]]))
  <2>1. CASE s = {}
    BY <1>8, <2>1 DEF Folding
  <2>2. CASE s # {}
    <3>1. Max(s) \in 1 .. n /\ s \ {Max(s)} \in SUBSET (1 .. n)
      BY <1>1, <2>2, MaxIn
    <3>2. f[s \ {Max(s)}] \in Block
      BY <1>8, <3>1 DEF Folding
    <3>3. step[<<f[s \ {Max(s)}], Max(s)>>] =
            Store(f[s \ {Max(s)}], moved[Max(s)].offset, Read(inherited[Max(s)]))
      BY <3>1, <3>2
    <3> HIDE DEF step
    <3> QED
      BY <1>4, <1>8, <2>2, <3>1, <3>3 DEF Folding
  <2> QED
    BY <2>1, <2>2
<1> DEFINE iter[s \in SUBSET (1 .. n)] ==
             IF s = {} THEN <<>>
             ELSE Store(iter[s \ {Max(s)}], moved[indices[Max(s)]].offset,
                        Read(inherited[indices[Max(s)]]))
<1>10. InitFromParent(h, parent).data = iter[1 .. n]
  BY <1>4, <1>5 DEF FoldLeft, MapThenFoldSet
<1>11. f = [s \in SUBSET (1 .. n) |->
              IF s = {} THEN <<>>
              ELSE Store(f[s \ {Max(s)}], moved[indices[Max(s)]].offset,
                         Read(inherited[indices[Max(s)]]))]
  BY <1>8, <1>9 DEF Folding
<1>12. iter = [s \in SUBSET (1 .. n) |->
                 IF s = {} THEN <<>>
                 ELSE Store(iter[s \ {Max(s)}], moved[indices[Max(s)]].offset,
                            Read(inherited[indices[Max(s)]]))]
  BY <1>11
<1> HIDE DEF iter
<1> DEFINE g == [k \in 0 .. n |-> iter[1 .. k]]
<1>13. g[0] = <<>>
  BY <1>1, <1>12
<1>14. ASSUME NEW k \in 1 .. n
       PROVE  g[k] = Store(g[k - 1], moved[k].offset, Read(inherited[k]))
  <2>1. k - 1 \in 0 .. n /\ k \in 0 .. n
    BY <1>1
  <2>2. /\ 1 .. k \in SUBSET (1 .. n) /\ 1 .. k # {}
        /\ Max(1 .. k) = k
        /\ (1 .. k) \ {k} = 1 .. k - 1
    BY <1>1, PrefixSubset, Zenon
  <2>3. iter[1 .. k] = Store(iter[1 .. k - 1], moved[k].offset, Read(inherited[k]))
    <3> DEFINE s == 1 .. k
    <3>1. s \in SUBSET (1 .. n) /\ s # {} /\ Max(s) = k /\ s \ {k} = 1 .. k - 1
      BY <2>2
    <3> HIDE DEF s
    <3>2. iter[s] = Store(iter[s \ {Max(s)}], moved[indices[Max(s)]].offset,
                          Read(inherited[indices[Max(s)]]))
      BY <1>12, <3>1
    <3> QED
      BY <1>4, <3>1, <3>2 DEF s
  <2> QED
    BY <2>1, <2>3
<1>15. g[n] = iter[1 .. n]
  BY <1>1
<1>16. \A k \in 0 .. n : g[k] \in Block
  <2> DEFINE T == {k \in Nat : g[k] \in Block}
  <2> HIDE DEF g
  <2>1. 0 \in T
    BY <1>13, NoBlock
  <2>2. ASSUME NEW k \in 0 .. n - 1, k \in T
        PROVE  k + 1 \in T
    <3>1. k + 1 \in 1 .. n /\ k + 1 - 1 = k /\ g[k] \in Block
      BY <1>1, <2>2
    <3> QED
      BY <1>6, <1>14, <3>1
  <2>3. \A k \in 0 .. n : k \in T
    <3> HIDE DEF T
    <3> QED
      BY <1>1, <2>1, <2>2, CountUp
  <2> QED
    BY <2>3
<1>17. g \in [0 .. n -> Block]
  BY <1>16
<1>18. \A k \in 1 .. n : g[k] = Store(g[k - 1], inherited[k].offset + 1, Read(inherited[k]))
  <2> HIDE DEF g
  <2> QED
    BY <1>3, <1>14
<1> HIDE DEF g
<1> QED
  BY <1>10, <1>13, <1>15, <1>17, <1>18 DEF inherited, n

(* A context while its properties are set up, and one of them. *)
Building == [pairs : Seq(ValuePair), data : Block, data_pos : Nat]

SetupPair(h, acc, p) ==
  [pairs |-> Append(acc.pairs, PairAt(h, p.type, acc.data_pos)),
   data |-> Store(acc.data, acc.data_pos, InitCells(p)),
   data_pos |-> acc.data_pos + Advance(p)]

(* Setting up one property leaves pairs and a block. *)
LEMMA SetupPairOK ==
  ASSUME NEW h \in Handles, NEW acc \in Building, NEW p \in Property
  PROVE  SetupPair(h, acc, p) \in Building
<1>1. acc.pairs \in Seq(ValuePair) /\ acc.data \in Block /\ acc.data_pos \in Nat
  BY DEF Building
<1>2. InitCells(p) \in Cells /\ Advance(p) \in Nat /\ p.type \in Types
  BY InitCellsOK DEF Property
<1>3. PairAt(h, p.type, acc.data_pos) \in ValuePair
  BY <1>1, <1>2 DEF PairAt, ValuePair
<1>4. Append(acc.pairs, PairAt(h, p.type, acc.data_pos)) \in Seq(ValuePair)
  BY <1>1, <1>3
<1>5. Store(acc.data, acc.data_pos, InitCells(p)) \in Block
  BY <1>1, <1>2, StoreOK
<1>6. acc.data_pos + Advance(p) \in Nat
  BY <1>1, <1>2
<1> QED
  BY <1>4, <1>5, <1>6 DEF SetupPair, Building

(* g[k] is the context after k properties. *)
IsSetup(g, h, parent, list, built) ==
  /\ g \in [0 .. Len(list) -> Building]
  /\ g[0].pairs = built.pairs /\ g[0].data = built.data
  /\ g[0].data_pos = 1 + DataLength(parent)
  /\ \A k \in 1 .. Len(list) : g[k] = SetupPair(h, g[k - 1], list[k])

(* Setting up a list is setting up its properties one after the other. *)
LEMMA SetupIs ==
  ASSUME NEW h \in Handles, NEW parent, NEW list \in Seq(Property), NEW built,
         built.pairs \in Seq(ValuePair), built.data \in Block, DataLength(parent) \in Nat
  PROVE  \E g : /\ IsSetup(g, h, parent, list, built)
                /\ SetupProperties(h, parent, list, built) = g[Len(list)]
<1> DEFINE n == Len(list)
           base == [pairs |-> built.pairs, data |-> built.data,
                    data_pos |-> 1 + DataLength(parent)]
           step == [x \in Building \X (1 .. n) |-> SetupPair(h, x[1], list[x[2]])]
<1>1. n \in Nat /\ DOMAIN list = 1 .. n /\ \A k \in 1 .. n : list[k] \in Property
  OBVIOUS
<1>2. base \in Building
  BY DEF Building
<1>3. SetupProperties(h, parent, list, built) =
        FoldLeft(LAMBDA acc, p : SetupPair(h, acc, p), base, list)
  BY DEF SetupProperties, SetupPair
<1> HIDE DEF n, base
<1>4. ASSUME NEW acc \in Building, NEW k \in 1 .. n
      PROVE  SetupPair(h, acc, list[k]) \in Building
  BY <1>1, SetupPairOK
<1>5. step \in [Building \X (1 .. n) -> Building]
  BY <1>4
<1>6. PICK f : Folding(f, Building, base, step, n)
  <2> HIDE DEF step
  <2> QED
    BY <1>1, <1>2, <1>5, FoldExists, Zenon
<1>7. ASSUME NEW s \in SUBSET (1 .. n)
      PROVE  f[s] = IF s = {} THEN base ELSE SetupPair(h, f[s \ {Max(s)}], list[Max(s)])
  <2>1. CASE s = {}
    BY <1>6, <2>1 DEF Folding
  <2>2. CASE s # {}
    <3>1. Max(s) \in 1 .. n /\ s \ {Max(s)} \in SUBSET (1 .. n)
      BY <1>1, <2>2, MaxIn
    <3>2. f[s \ {Max(s)}] \in Building
      BY <1>6, <3>1 DEF Folding
    <3>3. step[<<f[s \ {Max(s)}], Max(s)>>] = SetupPair(h, f[s \ {Max(s)}], list[Max(s)])
      BY <3>1, <3>2
    <3> HIDE DEF step
    <3> QED
      BY <1>6, <2>2, <3>1, <3>3 DEF Folding
  <2> QED
    BY <2>1, <2>2
<1> DEFINE iter[s \in SUBSET (1 .. n)] ==
             IF s = {} THEN base ELSE SetupPair(h, iter[s \ {Max(s)}], list[Max(s)])
<1>8. SetupProperties(h, parent, list, built) = iter[1 .. n]
  BY <1>1, <1>3 DEF FoldLeft, MapThenFoldSet
<1>9. f = [s \in SUBSET (1 .. n) |->
             IF s = {} THEN base ELSE SetupPair(h, f[s \ {Max(s)}], list[Max(s)])]
  BY <1>6, <1>7 DEF Folding
<1>10. iter = [s \in SUBSET (1 .. n) |->
                 IF s = {} THEN base ELSE SetupPair(h, iter[s \ {Max(s)}], list[Max(s)])]
  BY <1>9
<1> HIDE DEF iter
<1> DEFINE g == [k \in 0 .. n |-> iter[1 .. k]]
<1>11. g[0] = base
  BY <1>1, <1>10
<1>12. ASSUME NEW k \in 1 .. n
       PROVE  g[k] = SetupPair(h, g[k - 1], list[k])
  <2>1. k - 1 \in 0 .. n /\ k \in 0 .. n
    BY <1>1
  <2>2. /\ 1 .. k \in SUBSET (1 .. n) /\ 1 .. k # {}
        /\ Max(1 .. k) = k
        /\ (1 .. k) \ {k} = 1 .. k - 1
    BY <1>1, PrefixSubset, Zenon
  <2>3. iter[1 .. k] = SetupPair(h, iter[1 .. k - 1], list[k])
    <3> DEFINE s == 1 .. k
    <3>1. s \in SUBSET (1 .. n) /\ s # {} /\ Max(s) = k /\ s \ {k} = 1 .. k - 1
      BY <2>2
    <3> HIDE DEF s
    <3>2. iter[s] = SetupPair(h, iter[s \ {Max(s)}], list[Max(s)])
      BY <1>10, <3>1
    <3> QED
      BY <3>1, <3>2 DEF s
  <2> QED
    BY <2>1, <2>3
<1>13. g[n] = iter[1 .. n]
  BY <1>1
<1>14. \A k \in 0 .. n : g[k] \in Building
  <2> DEFINE T == {k \in Nat : g[k] \in Building}
  <2> HIDE DEF g
  <2>1. 0 \in T
    BY <1>2, <1>11
  <2>2. ASSUME NEW k \in 0 .. n - 1, k \in T
        PROVE  k + 1 \in T
    <3>1. k + 1 \in 1 .. n /\ k + 1 - 1 = k /\ g[k] \in Building
      BY <1>1, <2>2
    <3> QED
      BY <1>4, <1>12, <3>1
  <2>3. \A k \in 0 .. n : k \in T
    <3> HIDE DEF T
    <3> QED
      BY <1>1, <2>1, <2>2, CountUp
  <2> QED
    BY <2>3
<1>15. g \in [0 .. n -> Building]
  BY <1>14
<1> HIDE DEF g
<1>16. /\ g[0].pairs = built.pairs /\ g[0].data = built.data
       /\ g[0].data_pos = 1 + DataLength(parent)
  BY <1>11 DEF base
<1> QED
  BY <1>8, <1>12, <1>13, <1>15, <1>16 DEF n, IsSetup

(* The cells c at o and the cells d at n share no byte. *)
Apart(o, c, n, d) == o + Len(c) <= n \/ n + Len(d) <= o

(* Every pair has its value in the data, below the bound and apart from    *)
(* the others, and nothing was written beyond.                             *)
Laid(pairs, data, vals, bound) ==
  /\ data \in Block
  /\ \A o \in DOMAIN data : o < bound
  /\ \A i \in 1 .. Len(pairs) :
       /\ Value(vals[i], pairs[i].type)
       /\ Holds(data, pairs[i].offset, vals[i])
       /\ pairs[i].offset + Len(vals[i]) <= bound
  /\ \A i, j \in 1 .. Len(pairs) :
       i # j => Apart(pairs[i].offset, vals[i], pairs[j].offset, vals[j])

(* A write elsewhere leaves a value in place. *)
LEMMA HoldsStore ==
  ASSUME NEW b \in Block, NEW o \in Nat, NEW c \in Cells, NEW n \in Nat, NEW d \in Cells,
         Holds(b, o, c), Apart(o, c, n, d)
  PROVE  Holds(Store(b, n, d), o, c)
<1> DEFINE st == Store(b, n, d)
<1>1. /\ DOMAIN st = DOMAIN b \cup n .. n + Len(d) - 1
      /\ \A a \in DOMAIN b : a \notin n .. n + Len(d) - 1 => st[a] = b[a]
  BY StoreOK, Zenon
<1> HIDE DEF st
<1>2. Len(c) \in Nat /\ Len(d) \in Nat
  BY DEF Cells
<1>3. ASSUME NEW k \in 1 .. Len(c)
      PROVE  o + k - 1 \in DOMAIN st /\ st[o + k - 1] = c[k]
  <2>1. o + k - 1 \in DOMAIN b /\ b[o + k - 1] = c[k]
    BY DEF Holds
  <2>2. o + k - 1 \notin n .. n + Len(d) - 1
    BY <1>2 DEF Apart
  <2> QED
    BY <1>1, <2>1, <2>2
<1> QED
  BY <1>3 DEF Holds, st

(* A value is made of cells. *)
LEMMA ValueCells ==
  ASSUME NEW c, NEW type, Value(c, type)
  PROVE  c \in Cells /\ Len(c) \in Nat
BY DEF Value, Cells

(* The value of one more pair is put at the bound. *)
LEMMA LaidAppend ==
  ASSUME NEW pairs \in Seq(ValuePair), NEW data, NEW vals, NEW bound \in Nat,
         Laid(pairs, data, vals, bound),
         NEW p \in ValuePair, p.offset = bound, NEW n \in Nat,
         Value(vals[Len(pairs) + 1], p.type), Len(vals[Len(pairs) + 1]) <= n
  PROVE  Laid(Append(pairs, p), Store(data, bound, vals[Len(pairs) + 1]), vals, bound + n)
<1> DEFINE m == Len(pairs) + 1
           ps == Append(pairs, p)
           c == vals[m]
           st == Store(data, bound, c)
<1>1. c \in Cells /\ Len(c) \in Nat /\ Value(c, p.type) /\ Len(c) <= n
  BY ValueCells
<1>2. data \in Block /\ m \in Nat /\ m \notin 1 .. Len(pairs)
  BY DEF Laid
<1>3. Len(ps) = m /\ ps[m] = p /\ \A i \in 1 .. Len(pairs) : ps[i] = pairs[i]
  OBVIOUS
<1>4. \A i \in 1 .. m : i = m \/ i \in 1 .. Len(pairs)
  OBVIOUS
<1>5. ASSUME NEW i \in 1 .. Len(pairs)
      PROVE  /\ Value(vals[i], pairs[i].type) /\ pairs[i].offset \in Nat
             /\ Holds(data, pairs[i].offset, vals[i])
             /\ pairs[i].offset + Len(vals[i]) <= bound
             /\ vals[i] \in Cells /\ Len(vals[i]) \in Nat
  <2>1. pairs[i] \in ValuePair
    OBVIOUS
  <2>2. /\ Value(vals[i], pairs[i].type)
        /\ Holds(data, pairs[i].offset, vals[i])
        /\ pairs[i].offset + Len(vals[i]) <= bound
    BY DEF Laid
  <2> QED
    BY <2>1, <2>2, ValueCells DEF ValuePair
<1> HIDE DEF m, ps, c
<1>6. /\ st \in Block /\ Holds(st, bound, c)
      /\ DOMAIN st = DOMAIN data \cup bound .. bound + Len(c) - 1
  <2>1. c \in Cells /\ data \in Block
    BY <1>1, <1>2
  <2>2. /\ Store(data, bound, c) \in Block
        /\ Holds(Store(data, bound, c), bound, c)
        /\ DOMAIN Store(data, bound, c) = DOMAIN data \cup bound .. bound + Len(c) - 1
    BY ONLY <2>1, bound \in Nat, StoreOK, Zenon
  <2> QED
    BY <2>2
<1>7. ASSUME NEW i \in 1 .. Len(pairs)
      PROVE  Holds(st, pairs[i].offset, vals[i]) /\ Apart(pairs[i].offset, vals[i], bound, c)
  <2>1. Apart(pairs[i].offset, vals[i], bound, c)
    BY <1>5 DEF Apart
  <2> QED
    BY <1>1, <1>2, <1>5, <2>1, HoldsStore
<1> HIDE DEF st
<1>8. ASSUME NEW o \in DOMAIN st
      PROVE  o < bound + n
  <2>1. CASE o \in DOMAIN data
    <3>1. o < bound /\ o \in Nat
      BY <1>2, <2>1, BlockIs DEF Laid
    <3> QED
      BY <3>1
  <2>2. CASE o \in bound .. bound + Len(c) - 1
    BY <1>1, <2>2
  <2> QED
    BY <1>6, <2>1, <2>2
<1>9. ASSUME NEW i \in 1 .. m
      PROVE  /\ Value(vals[i], ps[i].type)
             /\ Holds(st, ps[i].offset, vals[i])
             /\ ps[i].offset + Len(vals[i]) <= bound + n
  <2>1. CASE i = m
    BY <1>1, <1>3, <1>6, <2>1 DEF c
  <2>2. CASE i \in 1 .. Len(pairs)
    BY <1>3, <1>5, <1>7, <2>2
  <2> QED
    BY <1>4, <2>1, <2>2
<1>10. ASSUME NEW i \in 1 .. m, NEW j \in 1 .. m, i # j
       PROVE  Apart(ps[i].offset, vals[i], ps[j].offset, vals[j])
  <2>1. CASE i = m
    <3>1. j \in 1 .. Len(pairs)
      BY <1>4, <1>10, <2>1
    <3>2. Apart(pairs[j].offset, vals[j], bound, c)
      BY <1>7, <3>1
    <3> QED
      BY <1>3, <2>1, <3>1, <3>2 DEF Apart, c
  <2>2. CASE j = m
    <3>1. i \in 1 .. Len(pairs)
      BY <1>4, <1>10, <2>2
    <3>2. Apart(pairs[i].offset, vals[i], bound, c)
      BY <1>7, <3>1
    <3> QED
      BY <1>3, <2>2, <3>1, <3>2 DEF Apart, c
  <2>3. CASE i \in 1 .. Len(pairs) /\ j \in 1 .. Len(pairs)
    <3>1. Apart(pairs[i].offset, vals[i], pairs[j].offset, vals[j])
      BY <1>10, <2>3 DEF Laid
    <3> QED
      BY <1>3, <2>3, <3>1
  <2> QED
    BY <1>4, <2>1, <2>2, <2>3
<1>11. Laid(ps, st, vals, bound + n)
  BY <1>3, <1>6, <1>8, <1>9, <1>10 DEF Laid
<1> QED
  BY <1>11 DEF ps, st, c, m

(* Values that are apart stay apart when both move by the same distance. *)
LEMMA ApartShift ==
  ASSUME NEW o \in Nat, NEW c \in Cells, NEW n \in Nat, NEW d \in Cells, Apart(o, c, n, d)
  PROVE  Apart(o + 1, c, n + 1, d)
<1>1. Len(c) \in Nat /\ Len(d) \in Nat
  BY DEF Cells
<1> QED
  BY <1>1 DEF Apart

(* The data b hold the values of the pairs, each one byte further than the *)
(* pair says, behind the byte of the struct.                               *)
Shifted(pairs, b, vals, bound) ==
  /\ b \in Block
  /\ \A o \in DOMAIN b : 1 <= o /\ o < 1 + bound
  /\ \A i \in 1 .. Len(pairs) : Holds(b, pairs[i].offset + 1, vals[i])

(* The pairs moved likewise, and values behind that of the struct. *)
MovedPairs(moved, pairs) ==
  /\ moved \in Seq(ValuePair) /\ Len(moved) = Len(pairs)
  /\ \A i \in 1 .. Len(pairs) : /\ moved[i].type = pairs[i].type
                                /\ moved[i].offset = pairs[i].offset + 1

BehindStruct(all, vals, n) == \A i \in 1 .. n : all[1 + i] = vals[i]

(* Copying a parent's values one by one lays them out as they were, one byte on. *)
LEMMA CopiesShift ==
  ASSUME NEW pairs \in Seq(ValuePair), NEW data, NEW vals, NEW bound \in Nat,
         Laid(pairs, data, vals, bound),
         NEW g \in [0 .. Len(pairs) -> Block], g[0] = <<>>,
         \A k \in 1 .. Len(pairs) : g[k] = Store(g[k - 1], pairs[k].offset + 1, vals[k])
  PROVE  Shifted(pairs, g[Len(pairs)], vals, bound)
<1> DEFINE n == Len(pairs)
           Upto(k) == /\ \A o \in DOMAIN g[k] : 1 <= o /\ o < 1 + bound
                      /\ \A i \in 1 .. k : Holds(g[k], pairs[i].offset + 1, vals[i])
           T == {k \in Nat : Upto(k)}
<1>1. n \in Nat /\ \A k \in 0 .. n : g[k] \in Block
  BY SMTT(30)
<1>2. ASSUME NEW i \in 1 .. n
      PROVE  /\ pairs[i].offset \in Nat /\ vals[i] \in Cells /\ Len(vals[i]) \in Nat
             /\ pairs[i].offset + Len(vals[i]) <= bound
             /\ \A j \in 1 .. n : i # j =>
                  Apart(pairs[i].offset, vals[i], pairs[j].offset, vals[j])
  <2>1. pairs[i] \in ValuePair /\ Value(vals[i], pairs[i].type)
    BY DEF Laid
  <2> QED
    BY <2>1, ValueCells DEF Laid, ValuePair
<1> HIDE DEF n
<1>3. 0 \in T
  <2>1. Upto(0)
    BY NoBlock
  <2> QED
    BY <2>1
<1>4. ASSUME NEW k \in 0 .. n - 1, k \in T
      PROVE  k + 1 \in T
  <2> DEFINE m == k + 1
             o == pairs[m].offset + 1
             st == Store(g[k], o, vals[m])
  <2>1. m \in 1 .. n /\ m - 1 = k /\ k \in 0 .. n /\ m \in Nat /\ g[k] \in Block
    BY <1>1
  <2>2. g[m] = st
    BY <2>1 DEF n
  <2>3. o \in Nat /\ vals[m] \in Cells /\ Len(vals[m]) \in Nat /\ o + Len(vals[m]) <= 1 + bound
    BY <1>2, <2>1, SMTT(30)
  <2>4. /\ \A a \in DOMAIN g[k] : 1 <= a /\ a < 1 + bound
        /\ \A i \in 1 .. k : Holds(g[k], pairs[i].offset + 1, vals[i])
    BY <1>4
  <2>5. 1 <= o /\ \A i \in 1 .. m : i = m \/ i \in 1 .. k
    BY <1>2, <2>1
  <2>6. ASSUME NEW i \in 1 .. k
        PROVE  /\ pairs[i].offset + 1 \in Nat /\ vals[i] \in Cells
               /\ Apart(pairs[i].offset + 1, vals[i], o, vals[m])
    <3>1. i \in 1 .. n /\ i # m
      BY <1>1, <2>1
    <3>2. /\ pairs[i].offset \in Nat /\ vals[i] \in Cells /\ Len(vals[i]) \in Nat
          /\ Apart(pairs[i].offset, vals[i], pairs[m].offset, vals[m])
      BY <1>2, <2>1, <3>1
    <3>3. pairs[m].offset \in Nat
      BY <1>2, <2>1
    <3>4. pairs[i].offset + 1 \in Nat
      BY <3>2
    <3> HIDE DEF m
    <3> QED
      BY <2>3, <3>2, <3>3, <3>4, ApartShift
  <2> HIDE DEF m, o
  <2>7. DOMAIN st = DOMAIN g[k] \cup o .. o + Len(vals[m]) - 1 /\ Holds(st, o, vals[m])
    <3>1. g[k] \in Block /\ o \in Nat /\ vals[m] \in Cells
      BY <2>1, <2>3
    <3> DEFINE a == g[k]
               c == vals[m]
    <3> HIDE DEF a, c
    <3>2. a \in Block /\ c \in Cells
      BY <3>1 DEF a, c
    <3>3. DOMAIN Store(a, o, c) = DOMAIN a \cup o .. o + Len(c) - 1 /\ Holds(Store(a, o, c), o, c)
      BY ONLY <3>1, <3>2, StoreOK, ZenonT(30)
    <3> QED
      BY <3>3 DEF a, c
  <2>8. ASSUME NEW i \in 1 .. k
        PROVE  Holds(st, pairs[i].offset + 1, vals[i])
    BY <2>1, <2>3, <2>4, <2>6, HoldsStore
  <2> HIDE DEF st
  <2>9. ASSUME NEW a \in DOMAIN st
        PROVE  1 <= a /\ a < 1 + bound
    <3>1. CASE a \in DOMAIN g[k]
      BY <2>4, <3>1
    <3>2. CASE a \in o .. o + Len(vals[m]) - 1
      BY <2>3, <2>5, <3>2
    <3> QED
      BY <2>7, <3>1, <3>2
  <2>10. ASSUME NEW i \in 1 .. m
         PROVE  Holds(st, pairs[i].offset + 1, vals[i])
    BY <2>5, <2>7, <2>8 DEF o
  <2>11. Upto(m)
    BY <2>2, <2>9, <2>10
  <2> HIDE DEF Upto
  <2> QED
    BY <2>1, <2>11 DEF m
<1>5. n \in T
  <2>1. n \in 0 .. n
    BY <1>1
  <2> HIDE DEF T
  <2> QED
    BY <1>1, <1>3, <1>4, <2>1, CountUp
<1>6. n \in 0 .. n
  BY <1>1
<1> QED
  BY <1>1, <1>5, <1>6 DEF Shifted, n

(* The struct, with its value in the first byte, goes before them. *)
LEMMA LaidStruct ==
  ASSUME NEW pairs \in Seq(ValuePair), NEW data, NEW vals, NEW bound \in Nat,
         Laid(pairs, data, vals, bound),
         NEW b, Shifted(pairs, b, vals, bound),
         NEW moved, MovedPairs(moved, pairs),
         NEW p \in ValuePair, p.type = "struct", p.offset = 0,
         NEW all, Value(all[1], "struct"), BehindStruct(all, vals, Len(pairs))
  PROVE  Laid(<<p>> \o moved, Store(b, 0, all[1]), all, 1 + bound)
<1>0. /\ moved \in Seq(ValuePair) /\ Len(moved) = Len(pairs)
      /\ \A i \in 1 .. Len(pairs) : /\ moved[i].type = pairs[i].type
                                    /\ moved[i].offset = pairs[i].offset + 1
      /\ \A i \in 1 .. Len(pairs) : all[1 + i] = vals[i]
  BY DEF MovedPairs, BehindStruct
<1> DEFINE n == Len(pairs)
           ps == <<p>> \o moved
           c == all[1]
           st == Store(b, 0, c)
<1>1. n \in Nat /\ Len(ps) = 1 + n /\ ps[1].offset = 0 /\ ps[1].type = "struct"
  BY <1>0
<1>2. \A i \in 1 .. n : ps[1 + i] = moved[i]
  BY <1>0
<1>3. c \in Cells /\ Len(c) = 1 /\ Value(c, "struct")
  <2>1. Sizeof["struct"] = 1 /\ ~IsText("struct")
    BY DEF Sizeof, IsText
  <2> QED
    BY <2>1 DEF Value
<1>4. b \in Block /\ 0 \in Nat
  BY DEF Shifted
<1>5. ASSUME NEW i \in 1 .. n
      PROVE  /\ pairs[i].offset \in Nat /\ vals[i] \in Cells /\ Len(vals[i]) \in Nat
             /\ pairs[i].offset + Len(vals[i]) <= bound
             /\ Value(vals[i], pairs[i].type)
             /\ Holds(b, pairs[i].offset + 1, vals[i])
             /\ ps[1 + i].type = pairs[i].type /\ ps[1 + i].offset = pairs[i].offset + 1
             /\ all[1 + i] = vals[i]
  <2>1. pairs[i] \in ValuePair /\ Value(vals[i], pairs[i].type)
    BY DEF Laid
  <2>2. pairs[i].offset \in Nat /\ vals[i] \in Cells /\ Len(vals[i]) \in Nat
    BY <2>1, ValueCells DEF ValuePair
  <2>3. pairs[i].offset + Len(vals[i]) <= bound /\ Holds(b, pairs[i].offset + 1, vals[i])
    BY DEF Laid, Shifted
  <2> QED
    BY <1>0, <1>2, <2>1, <2>2, <2>3
<1>6. \A i \in 1 .. 1 + n : i = 1 \/ (i - 1 \in 1 .. n /\ 1 + (i - 1) = i)
  BY <1>1
<1> HIDE DEF n, ps, c
<1>7. st \in Block /\ DOMAIN st = DOMAIN b \cup 0 .. 0 + Len(c) - 1 /\ Holds(st, 0, c)
  BY ONLY <1>3, <1>4, StoreOK, Zenon DEF st
<1>8. ASSUME NEW i \in 1 .. n
      PROVE  /\ Holds(st, pairs[i].offset + 1, vals[i])
             /\ Apart(pairs[i].offset + 1, vals[i], 0, c)
  <2>1. pairs[i].offset + 1 \in Nat /\ Apart(pairs[i].offset + 1, vals[i], 0, c)
    BY <1>3, <1>5 DEF Apart
  <2> QED
    BY <1>3, <1>4, <1>5, <2>1, HoldsStore
<1> HIDE DEF st
<1>9. ASSUME NEW o \in DOMAIN st
      PROVE  o < 1 + bound
  <2>1. CASE o \in DOMAIN b
    BY <2>1 DEF Shifted
  <2>2. CASE o \in 0 .. 0 + Len(c) - 1
    BY <1>3, <2>2
  <2> QED
    BY <1>7, <2>1, <2>2
<1>10. ASSUME NEW i \in 1 .. 1 + n
       PROVE  /\ Value(all[i], ps[i].type)
              /\ Holds(st, ps[i].offset, all[i])
              /\ ps[i].offset + Len(all[i]) <= 1 + bound
  <2>1. CASE i = 1
    <3>1. Value(all[1], ps[1].type) /\ Holds(st, ps[1].offset, all[1])
      BY <1>1, <1>3, <1>7, Zenon DEF c
    <3>2. ps[1].offset + Len(all[1]) <= 1 + bound
      BY <1>1, <1>3 DEF c
    <3> QED
      BY <2>1, <3>1, <3>2
  <2>2. CASE i # 1
    <3> DEFINE j == i - 1
    <3>1. j \in 1 .. n /\ i = 1 + j
      BY <1>6, <2>2
    <3> HIDE DEF j
    <3>2. Value(all[1 + j], ps[1 + j].type) /\ Holds(st, ps[1 + j].offset, all[1 + j])
      BY <1>5, <1>8, <3>1, Zenon
    <3>3. /\ ps[1 + j].offset = pairs[j].offset + 1 /\ all[1 + j] = vals[j]
          /\ pairs[j].offset + Len(vals[j]) <= bound
          /\ pairs[j].offset \in Nat /\ Len(vals[j]) \in Nat
      BY <1>5, <3>1
    <3>4. ps[1 + j].offset + Len(all[1 + j]) <= 1 + bound
      BY <3>3, SMTT(30)
    <3> QED
      BY <3>1, <3>2, <3>4
  <2> QED
    BY <2>1, <2>2
<1>11. ASSUME NEW i \in 1 .. n, NEW j \in 1 .. n, i # j
       PROVE  Apart(ps[1 + i].offset, all[1 + i], ps[1 + j].offset, all[1 + j])
  <2>1. Apart(pairs[i].offset, vals[i], pairs[j].offset, vals[j])
    BY <1>11 DEF Laid, n
  <2>2. Apart(pairs[i].offset + 1, vals[i], pairs[j].offset + 1, vals[j])
    BY <1>5, <2>1, ApartShift
  <2> QED
    BY <1>5, <2>2
<1>12. ASSUME NEW i \in 1 .. n
       PROVE  /\ Apart(ps[1 + i].offset, all[1 + i], ps[1].offset, all[1])
              /\ Apart(ps[1].offset, all[1], ps[1 + i].offset, all[1 + i])
  BY <1>1, <1>5, <1>8 DEF Apart, c
<1>13. ASSUME NEW i \in 1 .. 1 + n, NEW j \in 1 .. 1 + n, i # j
       PROVE  Apart(ps[i].offset, all[i], ps[j].offset, all[j])
  <2> DEFINE x == i - 1
             y == j - 1
  <2>1. CASE i = 1
    <3>1. y \in 1 .. n /\ j = 1 + y
      BY <1>6, <1>13, <2>1
    <3> HIDE DEF y
    <3> QED
      BY <1>12, <2>1, <3>1
  <2>2. CASE j = 1
    <3>1. x \in 1 .. n /\ i = 1 + x
      BY <1>6, <1>13, <2>2
    <3> HIDE DEF x
    <3> QED
      BY <1>12, <2>2, <3>1
  <2>3. CASE i # 1 /\ j # 1
    <3>1. x \in 1 .. n /\ i = 1 + x /\ y \in 1 .. n /\ j = 1 + y /\ x # y
      BY <1>6, <1>13, <2>3
    <3> HIDE DEF x, y
    <3> QED
      BY <1>11, <3>1
  <2> QED
    BY <2>1, <2>2, <2>3
<1>14. Laid(ps, st, all, 1 + bound)
  BY <1>1, <1>7, <1>9, <1>10, <1>13 DEF Laid
<1> QED
  BY <1>14 DEF ps, st, c

-----------------------------------------------------------------------------
(* A context that was built *)

(* What a definition relies on: the parent, if any, is a context. *)
Known(parent) ==
  \/ parent = NULL
  \/ /\ parent \in Handles
     /\ ctx[parent].pairs \in Seq(ValuePair)
     /\ ctx[parent].length \in Nat
     /\ \A i \in 1 .. Len(ctx[parent].pairs) : Read(ctx[parent].pairs[i]) \in Cells

(* The type and the value of the i-th pair: the struct, what was inherited *)
(* and the properties.                                                     *)
TypeAt(parent, list, i) ==
  IF i = 1 THEN "struct"
  ELSE IF i <= 1 + PairCount(parent) THEN ctx[parent].pairs[i - 1].type
  ELSE list[i - (1 + PairCount(parent))].type

ValuesOf(parent, list) ==
  [i \in 1 .. NeededPairs(parent, list) |->
     IF i = 1 THEN FieldCount((IF parent # NULL THEN 1 ELSE 0) + Len(list))
     ELSE IF i <= 1 + PairCount(parent) THEN Read(ctx[parent].pairs[i - 1])
     ELSE InitCells(list[i - (1 + PairCount(parent))])]

(* A parent, or none, has a number of pairs and of bytes. *)
LEMMA KnownNumbers ==
  ASSUME NEW parent, Known(parent)
  PROVE  PairCount(parent) \in Nat /\ DataLength(parent) \in Nat
BY ContextAssumption DEF Known, PairCount, DataLength

(* The field count is one byte: it is taken modulo 256. *)
LEMMA FieldCountOK ==
  ASSUME NEW n \in Nat
  PROVE  /\ Value(FieldCount(n), "struct")
         /\ FieldCount(n)[1][2] = n % 256
<1>1. n % 256 \in Nat
  OBVIOUS
<1>2. <<"fields", n % 256>> \in Cell
  BY <1>1 DEF Cell
<1>3. FieldCount(n) \in Cells /\ Len(FieldCount(n)) = 1
  BY <1>2 DEF FieldCount, Cells
<1>4. Sizeof["struct"] = 1 /\ ~IsText("struct")
  BY DEF Sizeof, IsText
<1>5. FieldCount(n)[1][2] = n % 256
  BY DEF FieldCount
<1> QED
  BY <1>3, <1>4, <1>5 DEF Value

(* An inherited pair. *)
Moved(h, q) == [q EXCEPT !.area = h, !.offset = @ + 1]

(* A relocated pair points into the area of the child, one byte on. *)
LEMMA MovedOK ==
  ASSUME NEW h \in Handles, NEW q \in ValuePair
  PROVE  /\ Moved(h, q) \in ValuePair
         /\ Moved(h, q).area = h
         /\ Moved(h, q).type = q.type
         /\ Moved(h, q).offset = q.offset + 1
<1>1. PICK m \in Nat : m = q.offset + 1
  BY DEF ValuePair
<1>2. Moved(h, q) = [q EXCEPT !.area = h, !.offset = m]
  BY <1>1 DEF Moved
<1>3. [q EXCEPT !.area = h, !.offset = m] \in ValuePair
  BY DEF ValuePair
<1>4. Moved(h, q).area = h /\ Moved(h, q).type = q.type /\ Moved(h, q).offset = q.offset + 1
  BY DEF ValuePair, Moved
<1> QED
  BY <1>2, <1>3, <1>4

(* What is inherited: the pairs of the parent one byte further. *)
LEMMA InheritOK ==
  ASSUME NEW h \in Handles, NEW parent, Known(parent)
  PROVE  LET inh == InitFromParent(h, parent)
         IN  /\ inh.pairs \in Seq(ValuePair)
             /\ Len(inh.pairs) = PairCount(parent)
             /\ \A i \in 1 .. PairCount(parent) :
                  /\ inh.pairs[i].area = h
                  /\ inh.pairs[i].type = ctx[parent].pairs[i].type
                  /\ inh.pairs[i].offset = ctx[parent].pairs[i].offset + 1
             /\ inh.data \in Block
<1> DEFINE inh == InitFromParent(h, parent)
<1>1. CASE parent = NULL
  <2>1. inh = [pairs |-> <<>>, data |-> <<>>] /\ PairCount(parent) = 0
    BY <1>1 DEF InitFromParent, PairCount
  <2> QED
    BY <2>1, NoBlock
<1>2. CASE parent # NULL
  <2> DEFINE inherited == ctx[parent].pairs
             n == Len(inherited)
             moved == [i \in 1 .. n |-> [inherited[i] EXCEPT !.area = h, !.offset = @ + 1]]
  <2>1. /\ parent \in Handles /\ inherited \in Seq(ValuePair)
        /\ \A i \in 1 .. n : Read(inherited[i]) \in Cells
    BY <1>2 DEF Known
  <2>2. inh.pairs = moved /\ PairCount(parent) = n
    BY <1>2 DEF InitFromParent, PairCount
  <2>3. PICK g \in [0 .. n -> Block] : InitFromParent(h, parent).data = g[n]
    BY <2>1, CopyIs
  <2>4. n \in Nat
    BY <2>1
  <2>5. inh.data \in Block
    BY <2>3, <2>4
  <2> HIDE DEF inherited, n, inh
  <2>6. ASSUME NEW i \in 1 .. n
        PROVE  /\ moved[i] \in ValuePair /\ moved[i].area = h
               /\ moved[i].type = inherited[i].type
               /\ moved[i].offset = inherited[i].offset + 1
    <3>1. inherited[i] \in ValuePair
      BY <2>1 DEF n
    <3>2. moved[i] = Moved(h, inherited[i])
      BY DEF Moved
    <3> HIDE DEF moved
    <3>3. /\ Moved(h, inherited[i]) \in ValuePair
          /\ Moved(h, inherited[i]).area = h
          /\ Moved(h, inherited[i]).type = inherited[i].type
          /\ Moved(h, inherited[i]).offset = inherited[i].offset + 1
      BY <3>1, MovedOK
    <3> QED
      BY <3>2, <3>3
  <2>7. moved \in [1 .. n -> ValuePair]
    BY <2>6
  <2> HIDE DEF moved
  <2>8. moved \in Seq(ValuePair) /\ Len(moved) = n
    BY <2>4, <2>7
  <2> QED
    BY <2>2, <2>5, <2>6, <2>8 DEF inh, inherited
<1> QED
  BY <1>1, <1>2

(* What a definition builds: the struct pair, the parent's pairs, then the list's. *)
LEMMA BuiltIs ==
  ASSUME NEW h \in Handles, NEW parent, Known(parent), NEW list \in Seq(Property)
  PROVE  \E g, built :
           /\ built.pairs = <<PairAt(h, "struct", 0)>> \o InitFromParent(h, parent).pairs
           /\ built.data = Store(InitFromParent(h, parent).data, 0, ValuesOf(parent, list)[1])
           /\ IsSetup(g, h, parent, list, built)
           /\ Built(h, parent, list) = g[Len(list)]
<1> DEFINE inh == InitFromParent(h, parent)
           count == (IF parent # NULL THEN 1 ELSE 0) + Len(list)
           built == SetupStruct(h, parent, list, inh)
<1>1. inh.pairs \in Seq(ValuePair) /\ inh.data \in Block
  BY InheritOK
<1>2. PairCount(parent) \in Nat /\ DataLength(parent) \in Nat /\ count \in Nat
  BY KnownNumbers
<1>3. ValuesOf(parent, list)[1] = FieldCount(count)
  BY <1>2 DEF ValuesOf, NeededPairs
<1> HIDE DEF inh, count
<1>4. built = [pairs |-> <<PairAt(h, "struct", 0)>> \o inh.pairs,
               data |-> Store(inh.data, 0, FieldCount(count))]
  BY DEF SetupStruct, count
<1>5. PairAt(h, "struct", 0) \in ValuePair
  BY DEF PairAt, ValuePair, Types, Sizeof
<1>6. <<PairAt(h, "struct", 0)>> \o inh.pairs \in Seq(ValuePair)
  BY <1>1, <1>5
<1>7. FieldCount(count) \in Cells
  BY <1>2, FieldCountOK, ValueCells
<1>8. Store(inh.data, 0, FieldCount(count)) \in Block
  BY <1>1, <1>7, StoreOK
<1> HIDE DEF built
<1>9. built.pairs \in Seq(ValuePair) /\ built.data \in Block
  BY <1>4, <1>6, <1>8
<1>10. PICK g : /\ IsSetup(g, h, parent, list, built)
                /\ SetupProperties(h, parent, list, built) = g[Len(list)]
  BY <1>2, <1>9, SetupIs, Zenon
<1>11. Built(h, parent, list) = SetupProperties(h, parent, list, built)
  BY DEF Built, built, inh
<1>12. /\ built.pairs = <<PairAt(h, "struct", 0)>> \o inh.pairs
       /\ built.data = Store(inh.data, 0, ValuesOf(parent, list)[1])
  BY <1>3, <1>4
<1> QED
  BY <1>10, <1>11, <1>12 DEF inh

(* After k properties there are k more pairs, all in the area of h. *)
LEMMA SetupShape ==
  ASSUME NEW h \in Handles, NEW parent, Known(parent), NEW list \in Seq(Property),
         NEW g, NEW built, IsSetup(g, h, parent, list, built),
         built.pairs = <<PairAt(h, "struct", 0)>> \o InitFromParent(h, parent).pairs
  PROVE  \A k \in 0 .. Len(list) :
           /\ Len(g[k].pairs) = 1 + PairCount(parent) + k
           /\ \A i \in 1 .. 1 + PairCount(parent) + k :
                g[k].pairs[i].area = h /\ g[k].pairs[i].type = TypeAt(parent, list, i)
<1> DEFINE n == PairCount(parent)
           m == Len(list)
           inh == InitFromParent(h, parent).pairs
           Upto(k) == /\ Len(g[k].pairs) = 1 + n + k
                      /\ \A i \in 1 .. 1 + n + k :
                           g[k].pairs[i].area = h /\ g[k].pairs[i].type = TypeAt(parent, list, i)
           T == {k \in Nat : Upto(k)}
<1>1. n \in Nat /\ m \in Nat /\ \A k \in 1 .. m : list[k] \in Property
  BY KnownNumbers
<1>2. \A k \in 0 .. m : g[k].pairs \in Seq(ValuePair) /\ g[k].data_pos \in Nat
  BY DEF IsSetup, Building
<1>3. /\ inh \in Seq(ValuePair) /\ Len(inh) = n
      /\ \A i \in 1 .. n : inh[i].area = h /\ inh[i].type = ctx[parent].pairs[i].type
  BY InheritOK
<1>4. g[0].pairs = <<PairAt(h, "struct", 0)>> \o inh
  BY DEF IsSetup
<1>5. ASSUME NEW k \in 1 .. m
      PROVE  g[k].pairs = Append(g[k - 1].pairs, PairAt(h, list[k].type, g[k - 1].data_pos))
  <2>1. g[k] = SetupPair(h, g[k - 1], list[k])
    BY DEF IsSetup
  <2> QED
    BY <2>1 DEF SetupPair
<1> HIDE DEF n, m, inh
<1>6. \A type, o : PairAt(h, type, o).area = h /\ PairAt(h, type, o).type = type
  BY DEF PairAt
<1>7. 0 \in T
  <2> DEFINE ps == <<PairAt(h, "struct", 0)>> \o inh
  <2>1. Len(ps) = 1 + n /\ ps[1] = PairAt(h, "struct", 0) /\ \A i \in 1 .. n : ps[1 + i] = inh[i]
    BY <1>1, <1>3
  <2> HIDE DEF ps
  <2>2. ASSUME NEW i \in 1 .. 1 + n + 0
        PROVE  ps[i].area = h /\ ps[i].type = TypeAt(parent, list, i)
    <3>1. CASE i = 1
      BY <1>6, <2>1, <3>1 DEF TypeAt
    <3>2. CASE i # 1
      <4>1. i - 1 \in 1 .. n /\ i = 1 + (i - 1) /\ i <= 1 + n
        BY <1>1, <3>2
      <4>2. ps[i] = inh[i - 1]
        BY <2>1, <4>1
      <4>3. TypeAt(parent, list, i) = ctx[parent].pairs[i - 1].type
        BY <3>2, <4>1 DEF TypeAt, n
      <4> QED
        BY <1>3, <4>1, <4>2, <4>3
    <3> QED
      BY <3>1, <3>2
  <2>3. Len(ps) = 1 + n + 0
    BY <1>1, <2>1
  <2>4. Upto(0)
    BY <1>4, <2>2, <2>3 DEF ps
  <2> HIDE DEF Upto
  <2> QED
    BY <2>4
<1>8. ASSUME NEW k \in 0 .. m - 1, k \in T
      PROVE  k + 1 \in T
  <2> DEFINE j == k + 1
             p == PairAt(h, list[j].type, g[k].data_pos)
  <2>1. j \in 1 .. m /\ j - 1 = k /\ k \in 0 .. m /\ k \in Nat /\ j \in Nat /\ j = k + 1
    BY <1>1
  <2> HIDE DEF j
  <2>2. g[j].pairs = Append(g[k].pairs, p)
    BY <1>5, <2>1
  <2>3. p.area = h /\ p.type = list[j].type
    BY <1>6
  <2>4. /\ Len(g[k].pairs) = 1 + n + k
        /\ \A i \in 1 .. 1 + n + k :
             g[k].pairs[i].area = h /\ g[k].pairs[i].type = TypeAt(parent, list, i)
    BY <1>8
  <2>5. g[k].pairs \in Seq(ValuePair)
    BY <1>2, <2>1
  <2> DEFINE ps == g[k].pairs
  <2>6. ps \in Seq(ValuePair) /\ Len(ps) = 1 + n + k
    BY <2>4, <2>5
  <2>10. p \in ValuePair
    BY <1>1, <1>2, <2>1 DEF PairAt, ValuePair, Property
  <2> HIDE DEF p, ps
  <2>7. /\ Len(Append(ps, p)) = 1 + n + j
        /\ Append(ps, p)[1 + n + j] = p
        /\ \A i \in 1 .. 1 + n + k : Append(ps, p)[i] = ps[i]
    <3>1. Len(Append(ps, p)) = Len(ps) + 1 /\ Append(ps, p)[Len(ps) + 1] = p
      BY <2>6, <2>10
    <3>2. \A i \in 1 .. Len(ps) : Append(ps, p)[i] = ps[i]
      BY <2>6, <2>10
    <3>3. Len(ps) + 1 = 1 + n + j
      BY <1>1, <2>1, <2>6
    <3> QED
      BY <2>6, <3>1, <3>2, <3>3
  <2>8. ASSUME NEW i \in 1 .. 1 + n + j
        PROVE  g[j].pairs[i].area = h /\ g[j].pairs[i].type = TypeAt(parent, list, i)
    <3>1. CASE i = 1 + n + j
      <4>1. g[j].pairs[i] = p
        BY <2>2, <2>7, <3>1 DEF ps
      <4>2. i # 1 /\ ~(i <= 1 + n) /\ i - (1 + n) = j
        BY <1>1, <2>1, <3>1
      <4>3. TypeAt(parent, list, i) = list[j].type
        BY <4>2 DEF TypeAt, n
      <4> QED
        BY <2>3, <4>1, <4>3
    <3>2. CASE i \in 1 .. 1 + n + k
      BY <2>2, <2>4, <2>7, <3>2 DEF ps
    <3> QED
      BY <1>1, <2>1, <3>1, <3>2
  <2>9. Upto(j)
    BY <2>2, <2>7, <2>8 DEF ps
  <2> HIDE DEF Upto
  <2> QED
    BY <2>1, <2>9
<1>9. \A k \in 0 .. m : k \in T
  <2> HIDE DEF T
  <2> QED
    BY <1>1, <1>7, <1>8, CountUp
<1> QED
  BY <1>9 DEF n, m

(* The pairs of a definition, whatever becomes of their values. *)
LEMMA BuiltShape ==
  ASSUME NEW h \in Handles, NEW parent, Known(parent), NEW list \in Seq(Property)
  PROVE  /\ Built(h, parent, list).pairs \in Seq(ValuePair)
         /\ Len(Built(h, parent, list).pairs) = NeededPairs(parent, list)
         /\ Built(h, parent, list).data \in Block
         /\ \A i \in 1 .. NeededPairs(parent, list) :
              /\ Built(h, parent, list).pairs[i].area = h
              /\ Built(h, parent, list).pairs[i].type = TypeAt(parent, list, i)
<1>1. PICK g, built :
        /\ built.pairs = <<PairAt(h, "struct", 0)>> \o InitFromParent(h, parent).pairs
        /\ IsSetup(g, h, parent, list, built)
        /\ Built(h, parent, list) = g[Len(list)]
  BY BuiltIs
<1>2. Len(list) \in 0 .. Len(list)
  OBVIOUS
<1>3. g[Len(list)].pairs \in Seq(ValuePair) /\ g[Len(list)].data \in Block
  BY <1>1, <1>2 DEF IsSetup, Building
<1>4. NeededPairs(parent, list) = 1 + PairCount(parent) + Len(list)
  BY KnownNumbers DEF NeededPairs
<1>5. /\ Len(g[Len(list)].pairs) = 1 + PairCount(parent) + Len(list)
      /\ \A i \in 1 .. 1 + PairCount(parent) + Len(list) :
           /\ g[Len(list)].pairs[i].area = h
           /\ g[Len(list)].pairs[i].type = TypeAt(parent, list, i)
  BY <1>1, <1>2, SetupShape
<1> QED
  BY <1>1, <1>3, <1>4, <1>5

(* Values below a bound are below a greater one. *)
LEMMA LaidMore ==
  ASSUME NEW pairs \in Seq(ValuePair), NEW data, NEW vals, NEW bound \in Nat, NEW more \in Int,
         Laid(pairs, data, vals, bound), bound <= more
  PROVE  Laid(pairs, data, vals, more)
<1>1. \A o \in DOMAIN data : o \in Nat /\ o < bound
  BY BlockIs DEF Laid
<1>2. \A o \in DOMAIN data : o < more
  BY <1>1
<1>3. ASSUME NEW i \in 1 .. Len(pairs)
      PROVE  pairs[i].offset + Len(vals[i]) <= more
  <2>1. pairs[i] \in ValuePair
    OBVIOUS
  <2>2. Value(vals[i], pairs[i].type) /\ pairs[i].offset + Len(vals[i]) <= bound
    BY DEF Laid
  <2>3. pairs[i].offset \in Nat /\ Len(vals[i]) \in Nat
    BY <2>1, <2>2, ValueCells DEF ValuePair
  <2> QED
    BY <2>2, <2>3
<1> QED
  BY <1>2, <1>3 DEF Laid

(* What is read through the pairs of a context. *)
Reads(h) == [i \in 1 .. Len(ctx[h].pairs) |-> Read(ctx[h].pairs[i])]

(* The values of a definition: the field count, the parent's, the list's. *)
LEMMA ValuesAt ==
  ASSUME NEW parent, Known(parent), NEW list \in Seq(Property)
  PROVE  /\ Value(ValuesOf(parent, list)[1], "struct")
         /\ \A i \in 1 .. PairCount(parent) :
              ValuesOf(parent, list)[1 + i] = Read(ctx[parent].pairs[i])
         /\ \A k \in 1 .. Len(list) :
              ValuesOf(parent, list)[1 + PairCount(parent) + k] = InitCells(list[k])
<1> DEFINE n == PairCount(parent)
           m == Len(list)
           count == (IF parent # NULL THEN 1 ELSE 0) + m
           v == ValuesOf(parent, list)
<1>1. n \in Nat /\ m \in Nat /\ count \in Nat
  BY KnownNumbers
<1>2. NeededPairs(parent, list) = 1 + n + m
  BY <1>1 DEF NeededPairs
<1>3. v = [i \in 1 .. 1 + n + m |->
             IF i = 1 THEN FieldCount(count)
             ELSE IF i <= 1 + n THEN Read(ctx[parent].pairs[i - 1])
             ELSE InitCells(list[i - (1 + n)])]
  BY <1>2 DEF ValuesOf
<1> HIDE DEF n, m, count, v
<1>4. v[1] = FieldCount(count)
  BY <1>1, <1>3
<1>5. ASSUME NEW i \in 1 .. n
      PROVE  v[1 + i] = Read(ctx[parent].pairs[i])
  <2>1. 1 + i \in 1 .. 1 + n + m /\ 1 + i # 1 /\ 1 + i <= 1 + n /\ 1 + i - 1 = i
    BY <1>1
  <2> QED
    BY <1>3, <2>1
<1>6. ASSUME NEW k \in 1 .. m
      PROVE  v[1 + n + k] = InitCells(list[k])
  <2>1. /\ 1 + n + k \in 1 .. 1 + n + m /\ 1 + n + k # 1 /\ ~(1 + n + k <= 1 + n)
        /\ 1 + n + k - (1 + n) = k
    BY <1>1
  <2> DEFINE x == 1 + n + k
  <2>2. x \in 1 .. 1 + n + m /\ x # 1 /\ ~(x <= 1 + n) /\ x - (1 + n) = k
    BY <1>1
  <2> HIDE DEF x
  <2>3. v[x] = InitCells(list[x - (1 + n)])
    BY <1>3, <2>2
  <2> QED
    BY <2>2, <2>3 DEF x
<1>7. Value(v[1], "struct")
  BY <1>1, <1>4, FieldCountOK
<1> QED
  BY <1>5, <1>6, <1>7 DEF v, n, m

(* The struct and what was inherited are laid out below data_pos. *)
LEMMA InheritLaid ==
  ASSUME NEW h \in Handles, NEW parent, Known(parent), NEW list \in Seq(Property),
         parent # NULL =>
           Laid(ctx[parent].pairs, ctx[parent].data, Reads(parent), ctx[parent].length)
  PROVE  Laid(<<PairAt(h, "struct", 0)>> \o InitFromParent(h, parent).pairs,
              Store(InitFromParent(h, parent).data, 0, ValuesOf(parent, list)[1]),
              ValuesOf(parent, list), 1 + DataLength(parent))
<1> DEFINE p == PairAt(h, "struct", 0)
           moved == InitFromParent(h, parent).pairs
           b == InitFromParent(h, parent).data
           v == ValuesOf(parent, list)
<1>1. p \in ValuePair /\ p.type = "struct" /\ p.offset = 0
  BY DEF PairAt, ValuePair, Types, Sizeof
<1>2. /\ Value(v[1], "struct")
      /\ \A i \in 1 .. PairCount(parent) : v[1 + i] = Read(ctx[parent].pairs[i])
  BY ValuesAt
<1>3. /\ moved \in Seq(ValuePair)
      /\ Len(moved) = PairCount(parent)
      /\ \A i \in 1 .. PairCount(parent) :
           /\ moved[i].type = ctx[parent].pairs[i].type
           /\ moved[i].offset = ctx[parent].pairs[i].offset + 1
  BY InheritOK
<1> HIDE DEF p, v
<1>4. CASE parent = NULL
  <2>1. PairCount(parent) = 0 /\ DataLength(parent) = 0 /\ b = <<>>
    BY <1>4 DEF PairCount, DataLength, InitFromParent
  <2> DEFINE none == <<>>
  <2>2. none \in Seq(ValuePair) /\ Len(none) = 0
    OBVIOUS
  <2>3. Laid(none, none, none, 0)
    BY <2>2, NoBlock DEF Laid
  <2>4. Shifted(none, b, none, 0)
    BY <2>1, <2>2, NoBlock DEF Shifted
  <2> HIDE DEF none, b, moved
  <2>5. Len(moved) = Len(none) /\ \A i \in 1 .. Len(none) : FALSE
    BY <1>3, <2>1, <2>2
  <2>6. 0 \in Nat
    OBVIOUS
  <2>7. MovedPairs(moved, none) /\ BehindStruct(v, none, Len(none))
    BY <1>3, <2>5 DEF MovedPairs, BehindStruct
  <2>8. Laid(<<p>> \o moved, Store(b, 0, v[1]), v, 1 + 0)
    BY <1>1, <1>2, <1>3, <2>2, <2>3, <2>4, <2>5, <2>6, <2>7, LaidStruct, Zenon
  <2> QED
    BY <2>1, <2>8 DEF p, moved, b, v
<1>5. CASE parent # NULL
  <2> DEFINE pairs == ctx[parent].pairs
             data == ctx[parent].data
             vals == Reads(parent)
             bound == ctx[parent].length
  <2>1. /\ parent \in Handles /\ pairs \in Seq(ValuePair) /\ bound \in Nat
        /\ \A i \in 1 .. Len(pairs) : Read(pairs[i]) \in Cells
    BY <1>5 DEF Known
  <2>2. PairCount(parent) = Len(pairs) /\ DataLength(parent) = bound
    BY <1>5 DEF PairCount, DataLength
  <2>3. Laid(pairs, data, vals, bound)
    BY <1>5
  <2>4. PICK g \in [0 .. Len(pairs) -> Block] :
          /\ g[0] = <<>>
          /\ \A k \in 1 .. Len(pairs) : g[k] = Store(g[k - 1], pairs[k].offset + 1, Read(pairs[k]))
          /\ b = g[Len(pairs)]
    BY <2>1, CopyIs
  <2>5. \A i \in 1 .. Len(pairs) : vals[i] = Read(pairs[i])
    BY DEF Reads
  <2> HIDE DEF pairs, data, vals, bound, moved, b
  <2>6. \A k \in 1 .. Len(pairs) : g[k] = Store(g[k - 1], pairs[k].offset + 1, vals[k])
    BY <2>4, <2>5
  <2>7. Shifted(pairs, b, vals, bound)
    BY <2>1, <2>3, <2>4, <2>6, CopiesShift, Zenon
  <2>8. MovedPairs(moved, pairs) /\ BehindStruct(v, vals, Len(pairs))
    BY <1>2, <1>3, <2>2, <2>5 DEF pairs, MovedPairs, BehindStruct
  <2>9. Laid(<<p>> \o moved, Store(b, 0, v[1]), v, 1 + bound)
    <3>1. Value(v[1], "struct")
      BY <1>2
    <3>2. pairs \in Seq(ValuePair) /\ bound \in Nat
      BY <2>1
    <3> QED
      BY ONLY <1>1, <2>3, <2>7, <2>8, <3>1, <3>2, LaidStruct, Zenon
  <2> QED
    BY <2>2, <2>9 DEF p, moved, b, v
<1> QED
  BY <1>4, <1>5

(* A property of a formatted list stores a value no longer than was counted for it. *)
LEMMA ListProperty ==
  ASSUME NEW list \in PropertyLists
  PROVE  /\ list \in Seq(Property)
         /\ Formatted(list) => \A k \in 1 .. Len(list) :
              /\ Value(InitCells(list[k]), list[k].type)
              /\ Len(InitCells(list[k])) <= Advance(list[k])
              /\ Advance(list[k]) <= GetInitDataSize(list[k])
<1>1. list \in Seq(Property)
  BY ContextAssumption
<1>2. ASSUME Formatted(list), NEW k \in 1 .. Len(list)
      PROVE  /\ Value(InitCells(list[k]), list[k].type)
             /\ Len(InitCells(list[k])) <= Advance(list[k])
             /\ Advance(list[k]) <= GetInitDataSize(list[k])
  <2>1. k \in DOMAIN list /\ list[k] \in Property
    BY <1>1
  <2>2. ~PrintFails(list[k], list[k].counted) /\ list[k].length <= list[k].counted
    BY <1>2, <2>1 DEF Formatted
  <2>3. list[k].reserved > 0 => Len(InitCells(list[k])) <= list[k].reserved
    BY <2>1, ReserveAssumption
  <2> QED
    BY <2>1, <2>2, <2>3, InitValue
<1> QED
  BY <1>1, <1>2

(* The values of a definition are laid out below the size that was         *)
(* counted, when it formats and its parent is laid out.                    *)
LEMMA BuiltLaid ==
  ASSUME NEW h \in Handles, NEW parent, Known(parent), NEW list \in PropertyLists, Formatted(list),
         parent # NULL =>
           Laid(ctx[parent].pairs, ctx[parent].data, Reads(parent), ctx[parent].length)
  PROVE  /\ DataLength(parent) + 1 + SumOfSizes(list) \in Nat
         /\ Laid(Built(h, parent, list).pairs, Built(h, parent, list).data,
                 ValuesOf(parent, list), DataLength(parent) + 1 + SumOfSizes(list))
<1> DEFINE m == Len(list)
           n == PairCount(parent)
           v == ValuesOf(parent, list)
<1>1. list \in Seq(Property)
  BY ListProperty
<1>2. m \in Nat /\ n \in Nat /\ DataLength(parent) \in Nat /\ \A k \in 1 .. m : list[k] \in Property
  BY <1>1, KnownNumbers
<1>3. \A k \in 1 .. m : /\ Value(InitCells(list[k]), list[k].type)
                        /\ Len(InitCells(list[k])) <= Advance(list[k])
                        /\ Advance(list[k]) <= GetInitDataSize(list[k])
                        /\ Advance(list[k]) \in Nat
  BY <1>2, ListProperty, InitCellsOK
<1>4. PICK g, built :
        /\ built.pairs = <<PairAt(h, "struct", 0)>> \o InitFromParent(h, parent).pairs
        /\ built.data = Store(InitFromParent(h, parent).data, 0, ValuesOf(parent, list)[1])
        /\ IsSetup(g, h, parent, list, built)
        /\ Built(h, parent, list) = g[Len(list)]
  BY <1>1, BuiltIs
<1>5. \A k \in 0 .. m : /\ g[k].pairs \in Seq(ValuePair) /\ g[k].data_pos \in Nat
                        /\ Len(g[k].pairs) = 1 + n + k
  <2>1. \A k \in 0 .. m : g[k] \in Building
    BY <1>4 DEF IsSetup
  <2>2. \A k \in 0 .. m : Len(g[k].pairs) = 1 + n + k
    <3>1. /\ IsSetup(g, h, parent, list, built)
          /\ built.pairs = <<PairAt(h, "struct", 0)>> \o InitFromParent(h, parent).pairs
      BY <1>4
    <3>2. ASSUME NEW k \in 0 .. Len(list)
          PROVE  Len(g[k].pairs) = 1 + PairCount(parent) + k
      BY <1>1, <3>1, SetupShape
    <3> QED
      BY <3>2
  <2> QED
    BY <2>1, <2>2 DEF Building
<1>6. \A k \in 1 .. m : v[1 + n + k] = InitCells(list[k])
  BY <1>1, ValuesAt
<1>7. Laid(g[0].pairs, g[0].data, v, g[0].data_pos)
  <2>1. /\ g[0].pairs = <<PairAt(h, "struct", 0)>> \o InitFromParent(h, parent).pairs
        /\ g[0].data = Store(InitFromParent(h, parent).data, 0, ValuesOf(parent, list)[1])
        /\ g[0].data_pos = 1 + DataLength(parent)
    BY <1>4 DEF IsSetup
  <2> QED
    BY <1>1, <2>1, InheritLaid
<1>8. \A k \in 1 .. m : g[k] = SetupPair(h, g[k - 1], list[k])
  BY <1>4 DEF IsSetup
<1>9. g[0].data_pos = 1 + DataLength(parent)
  BY <1>4 DEF IsSetup
<1> HIDE DEF m, n, v
<1>10. ASSUME NEW k \in 0 .. m - 1, Laid(g[k].pairs, g[k].data, v, g[k].data_pos)
       PROVE  /\ Laid(g[k + 1].pairs, g[k + 1].data, v, g[k + 1].data_pos)
              /\ g[k + 1].data_pos = g[k].data_pos + Advance(list[k + 1])
  <2> DEFINE j == k + 1
             ps == g[k].pairs
             o == g[k].data_pos
             p == PairAt(h, list[j].type, o)
             d == g[k].data
             a == Advance(list[j])
  <2>1. j \in 1 .. m /\ j - 1 = k /\ k \in 0 .. m /\ k \in Nat
    BY <1>2
  <2> HIDE DEF j
  <2>2. ps \in Seq(ValuePair) /\ o \in Nat /\ Len(ps) = 1 + n + k
    BY <1>5, <2>1
  <2>3. Len(ps) + 1 = 1 + n + j
    BY <1>2, <2>1, <2>2 DEF j
  <2>4. /\ v[1 + n + j] = InitCells(list[j]) /\ a \in Nat
        /\ Value(InitCells(list[j]), list[j].type) /\ Len(InitCells(list[j])) <= a
    BY <1>3, <1>6, <2>1
  <2>5. list[j].type \in Types
    BY <1>2, <2>1 DEF Property
  <2>6. p \in ValuePair /\ p.offset = o /\ p.type = list[j].type
    BY <2>2, <2>5 DEF PairAt, ValuePair
  <2>7. /\ g[j].pairs = Append(ps, p)
        /\ g[j].data = Store(d, o, InitCells(list[j]))
        /\ g[j].data_pos = o + a
    <3>1. g[j] = SetupPair(h, g[k], list[j])
      BY <1>8, <2>1
    <3> QED
      BY <3>1 DEF SetupPair
  <2> HIDE DEF ps, o, p, d, a
  <2>8. Laid(ps, d, v, o)
    BY <1>10 DEF ps, d, o
  <2>9. Value(v[Len(ps) + 1], p.type) /\ Len(v[Len(ps) + 1]) <= a
    BY <2>3, <2>4, <2>6
  <2>10. Laid(Append(ps, p), Store(d, o, v[Len(ps) + 1]), v, o + a)
    BY <2>2, <2>4, <2>6, <2>8, <2>9, LaidAppend, Zenon
  <2>11. Laid(g[j].pairs, g[j].data, v, g[j].data_pos)
    BY <2>3, <2>4, <2>7, <2>10
  <2> QED
    BY <2>7, <2>11 DEF j, o, a
<1>11. PICK f : IsSum(f, list) /\ SumOfSizes(list) = f[Len(list)]
  BY <1>1, SumIs
<1>12. /\ f[0] = 0 /\ \A k \in 0 .. m : f[k] \in Int
       /\ \A k \in 1 .. m : f[k] = f[k - 1] + GetInitDataSize(list[k])
  BY <1>11 DEF IsSum, m
<1> DEFINE Upto(k) == /\ Laid(g[k].pairs, g[k].data, v, g[k].data_pos)
                      /\ g[k].data_pos <= 1 + DataLength(parent) + f[k]
           T == {k \in Nat : Upto(k)}
<1>13. 0 \in T
  <2>1. g[0].data_pos <= 1 + DataLength(parent) + f[0]
    BY <1>2, <1>9, <1>12
  <2> QED
    BY <1>7, <2>1
<1>14. ASSUME NEW k \in 0 .. m - 1, k \in T
       PROVE  k + 1 \in T
  <2> DEFINE j == k + 1
  <2>1. j \in 1 .. m /\ j - 1 = k /\ k \in 0 .. m /\ j \in Nat /\ j \in 0 .. m
    BY <1>2
  <2>2. /\ Laid(g[k].pairs, g[k].data, v, g[k].data_pos)
        /\ g[k].data_pos <= 1 + DataLength(parent) + f[k]
    BY <1>14
  <2>3. /\ Laid(g[j].pairs, g[j].data, v, g[j].data_pos)
        /\ g[j].data_pos = g[k].data_pos + Advance(list[j])
    BY <1>10, <2>2
  <2> HIDE DEF j
  <2>4. /\ f[j] = f[k] + GetInitDataSize(list[j]) /\ f[k] \in Int /\ f[j] \in Int
        /\ Advance(list[j]) <= GetInitDataSize(list[j]) /\ Advance(list[j]) \in Nat
        /\ g[k].data_pos \in Nat
    BY <1>3, <1>5, <1>12, <2>1
  <2>5. GetInitDataSize(list[j]) \in Int
    BY <1>2, <2>1, SizeInt
  <2>6. g[j].data_pos <= 1 + DataLength(parent) + f[j]
    BY <1>2, <2>2, <2>3, <2>4, <2>5
  <2>7. Upto(j)
    BY <2>3, <2>6
  <2> HIDE DEF Upto
  <2> QED
    BY <2>1, <2>7 DEF j
<1>15. m \in T /\ m \in 0 .. m
  <2>1. m \in 0 .. m
    BY <1>2
  <2> HIDE DEF T
  <2> QED
    BY <1>2, <1>13, <1>14, <2>1, CountUp
<1>16. Laid(g[m].pairs, g[m].data, v, g[m].data_pos) /\ g[m].data_pos <= 1 + DataLength(parent) + f[m]
  BY <1>15
<1> DEFINE bound == DataLength(parent) + 1 + SumOfSizes(list)
<1>17. g[m].data_pos <= bound /\ bound \in Nat /\ g[m].pairs \in Seq(ValuePair) /\ g[m].data_pos \in Nat
  <2>1. SumOfSizes(list) = f[m] /\ f[m] \in Int /\ g[m].data_pos \in Nat /\ g[m].pairs \in Seq(ValuePair)
    BY <1>5, <1>11, <1>12, <1>15 DEF m
  <2> QED
    BY <1>2, <1>16, <2>1
<1> HIDE DEF bound
<1>18. bound \in Int
  BY <1>17
<1>19. Laid(g[m].pairs, g[m].data, v, bound)
  BY <1>16, <1>17, <1>18, LaidMore, Zenon
<1> QED
  BY <1>4, <1>17, <1>19 DEF bound, v, m

-----------------------------------------------------------------------------
(* What a context says *)

(* What is read through the pairs of the context c, all of which point     *)
(* into its own area.                                                      *)
Own(c) ==
  [i \in 1 .. Len(c.pairs) |-> Copied(c.data, c.pairs[i].offset, c.pairs[i].type)]

Entry(type, value) ==
  IF type = "struct"
  THEN [struct |-> TRUE, fields |-> value[1][2], bytes |-> <<>>]
  ELSE [struct |-> FALSE, fields |-> 0, bytes |-> value]

Tells(c) == [i \in 1 .. Len(c.pairs) |-> Entry(c.pairs[i].type, Own(c)[i])]

Entries == Seq([struct : BOOLEAN, fields : Nat, bytes : Cells])

(* An entry of what a context says. *)
LEMMA EntryOK ==
  ASSUME NEW type, NEW value, Value(value, type)
  PROVE  Entry(type, value) \in [struct : BOOLEAN, fields : Nat, bytes : Cells]
<1>1. CASE type = "struct"
  <2>1. Sizeof["struct"] = 1 /\ ~IsText("struct")
    BY DEF Sizeof, IsText
  <2>2. value \in Seq(Cell) /\ Len(value) = 1
    BY <1>1, <2>1 DEF Value, Cells
  <2>3. value[1] \in Cell
    <3>1. \A k \in 1 .. Len(value) : value[k] \in Cell
      BY <2>2
    <3>2. 1 \in 1 .. Len(value)
      BY <2>2
    <3> QED
      BY <3>1, <3>2, Zenon
  <2>4. value[1][2] \in Nat /\ <<>> \in Cells
    BY <2>3 DEF Cell, Cells
  <2> QED
    BY <1>1, <2>4 DEF Entry
<1>2. CASE type # "struct"
  <2>1. value \in Cells
    BY DEF Value
  <2> QED
    BY <1>2, <2>1 DEF Entry
<1> QED
  BY <1>1, <1>2

(* The values that were laid out are the ones read. *)
LEMMA LaidReads ==
  ASSUME NEW pairs \in Seq(ValuePair), NEW data, NEW vals, NEW bound,
         Laid(pairs, data, vals, bound), NEW i \in 1 .. Len(pairs)
  PROVE  Copied(data, pairs[i].offset, pairs[i].type) = vals[i]
<1>1. pairs[i] \in ValuePair
  OBVIOUS
<1>2. pairs[i].offset \in Nat /\ pairs[i].type \in Types
  BY <1>1 DEF ValuePair
<1>3. data \in Block /\ Value(vals[i], pairs[i].type) /\ Holds(data, pairs[i].offset, vals[i])
  BY DEF Laid
<1> QED
  BY <1>2, <1>3, CopiedIs, Zenon

(* Every conjunct of the inductive invariant about the context c of h. *)
ContextOK(h, c) ==
  /\ c.local \in BOOLEAN /\ c.sound \in BOOLEAN
  /\ c.length \in 0 .. LengthModulus - 1
  /\ c.pairs \in Seq(ValuePair)
  /\ c.data \in Block
  /\ \A i \in 1 .. Len(c.pairs) : c.pairs[i].area = h
  /\ c.sound => Laid(c.pairs, c.data, Own(c), c.length)
  /\ c.local => Len(c.pairs) <= MaxPairCount /\ c.length <= MaxDataSize
  /\ c.sound /\ c.pairs # <<>> => OneTree(Tells(c))

(* The inductive invariant. *)
ContextInv ==
  /\ live \subseteq Handles
  /\ reports \in BOOLEAN
  /\ ctx = [h \in Handles |-> ctx[h]]
  /\ \A h \in Handles : ContextOK(h, ctx[h]) /\ (h \notin live => ctx[h] = Free)

(* A sound context says one entry per pair. *)
LEMMA TellsOK ==
  ASSUME NEW h, NEW c, ContextOK(h, c), c.sound
  PROVE  Tells(c) \in Entries /\ Len(Tells(c)) = Len(c.pairs)
<1>1. c.pairs \in Seq(ValuePair) /\ Laid(c.pairs, c.data, Own(c), c.length) /\ Len(c.pairs) \in Nat
  BY DEF ContextOK
<1>2. ASSUME NEW i \in 1 .. Len(c.pairs)
      PROVE  Entry(c.pairs[i].type, Own(c)[i]) \in [struct : BOOLEAN, fields : Nat, bytes : Cells]
  <2>1. Value(Own(c)[i], c.pairs[i].type)
    BY <1>1 DEF Laid
  <2> QED
    BY <2>1, EntryOK
<1>3. Tells(c) \in [1 .. Len(c.pairs) -> [struct : BOOLEAN, fields : Nat, bytes : Cells]]
  BY <1>2 DEF Tells
<1> DEFINE E == [struct : BOOLEAN, fields : Nat, bytes : Cells]
           n == Len(c.pairs)
           t == Tells(c)
<1>4. n \in Nat /\ t \in [1 .. n -> E]
  BY <1>1, <1>3
<1> HIDE DEF E, n, t
<1>5. t \in Seq(E) /\ Len(t) = n
  BY <1>4
<1> QED
  BY <1>5 DEF Entries, E, n, t

(* The pairs of a context that exists are read in its own area. *)
LEMMA ReadsOwn ==
  ASSUME ContextInv, NEW h \in Handles, h \in live \/ ctx[h].pairs = <<>>
  PROVE  Reads(h) = Own(ctx[h]) /\ ReadBack(h) = Tells(ctx[h])
<1> DEFINE n == Len(ctx[h].pairs)
<1>1. /\ ctx[h].pairs \in Seq(ValuePair)
      /\ \A i \in 1 .. n : ctx[h].pairs[i].area = h
  BY DEF ContextInv, ContextOK
<1>2. ASSUME NEW i \in 1 .. n
      PROVE  Read(ctx[h].pairs[i]) = Own(ctx[h])[i]
  <2>1. h \in live
    BY <1>1
  <2>2. Read(ctx[h].pairs[i]) =
          Copied(ctx[h].data, ctx[h].pairs[i].offset, ctx[h].pairs[i].type)
    BY <1>1, <2>1 DEF Read
  <2> QED
    BY <2>2 DEF Own
<1>3. Reads(h) = Own(ctx[h])
  <2>1. Reads(h) = [i \in 1 .. n |-> Own(ctx[h])[i]]
    BY <1>2 DEF Reads
  <2>2. Own(ctx[h]) = [i \in 1 .. n |-> Own(ctx[h])[i]]
    BY DEF Own
  <2> QED
    BY <2>1, <2>2
<1>4. \A pair : Pair(pair) = Entry(pair.type, Read(pair))
  BY DEF Pair, Entry
<1>5. ReadBack(h) = [i \in 1 .. n |-> Entry(ctx[h].pairs[i].type, Own(ctx[h])[i])]
  BY <1>2, <1>4 DEF ReadBack
<1> QED
  BY <1>3, <1>5 DEF Tells

-----------------------------------------------------------------------------
(* Trees *)

(* The entries of an array, one by one. *)
LEMMA EntryAt ==
  ASSUME NEW ps \in Entries
  PROVE  /\ Len(ps) \in Nat
         /\ \A k \in 1 .. Len(ps) : ps[k].struct \in BOOLEAN /\ ps[k].fields \in Nat
<1>1. Len(ps) \in Nat
  BY DEF Entries
<1>2. \A k \in 1 .. Len(ps) : ps[k] \in [struct : BOOLEAN, fields : Nat, bytes : Cells]
  <2> DEFINE E == [struct : BOOLEAN, fields : Nat, bytes : Cells]
  <2>1. ps \in Seq(E)
    BY DEF Entries
  <2> HIDE DEF E
  <2>2. \A k \in 1 .. Len(ps) : ps[k] \in E
    BY <2>1
  <2> QED
    BY <2>2 DEF E
<1> QED
  BY <1>1, <1>2

(* What a pair adds to the fields promised, and the sums of that.          *)
Adds(p) == (IF p.struct THEN p.fields ELSE 0) - 1

IsSurplus(s, ps, n) ==
  /\ s \in [0 .. n -> Int]
  /\ s[0] = 0
  /\ \A k \in 1 .. n : s[k] = s[k - 1] + Adds(ps[k])

(* There is a function with the equations of Surplus. *)
LEMMA SurplusExists ==
  ASSUME NEW ps \in Entries
  PROVE  \E s : IsSurplus(s, ps, Len(ps))
<1> DEFINE T == {n \in Nat : \E s : IsSurplus(s, ps, n)}
<1>1. 0 \in T
  <2>1. IsSurplus([k \in 0 .. 0 |-> 0], ps, 0)
    BY DEF IsSurplus
  <2> QED
    BY <2>1
<1>2. ASSUME NEW n \in 0 .. Len(ps) - 1, n \in T
      PROVE  n + 1 \in T
  <2>1. PICK f : IsSurplus(f, ps, n)
    BY <1>2
  <2> DEFINE m == n + 1
             v == f[n] + Adds(ps[m])
             h == [k \in 0 .. m |-> IF k = m THEN v ELSE f[k]]
  <2>2. /\ n \in Nat /\ m \in 1 .. Len(ps) /\ m \in Nat /\ m = n + 1
        /\ \A k \in 1 .. m : k = m \/ k \in 1 .. n
    BY EntryAt
  <2> HIDE DEF m
  <2>3. /\ f \in [0 .. n -> Int] /\ f[0] = 0
        /\ \A k \in 1 .. n : f[k] = f[k - 1] + Adds(ps[k])
    BY <2>1 DEF IsSurplus
  <2>4. v \in Int
    <3>1. ps[m].fields \in Nat /\ f[n] \in Int
      BY <2>2, <2>3, EntryAt
    <3> QED
      BY <3>1 DEF Adds
  <2>5. v = f[n] + Adds(ps[m])
    OBVIOUS
  <2> HIDE DEF v
  <2>6. h \in [0 .. m -> Int] /\ h[0] = 0 /\ h[m] = v /\ \A k \in 0 .. n : h[k] = f[k]
    BY <2>2, <2>3, <2>4
  <2> HIDE DEF h
  <2>7. ASSUME NEW k \in 1 .. m
        PROVE  h[k] = h[k - 1] + Adds(ps[k])
    <3>1. CASE k = m
      <4>1. k - 1 = n /\ n \in 0 .. n
        BY <2>2, <3>1
      <4> QED
        BY <2>5, <2>6, <3>1, <4>1
    <3>2. CASE k \in 1 .. n
      <4>1. k \in 0 .. n /\ k - 1 \in 0 .. n
        BY <2>2, <3>2
      <4> QED
        BY <2>3, <2>6, <3>2, <4>1
    <3> QED
      BY <2>2, <3>1, <3>2
  <2>8. IsSurplus(h, ps, m)
    BY <2>6, <2>7 DEF IsSurplus
  <2> QED
    BY <2>2, <2>8
<1>3. Len(ps) \in T
  <2>1. Len(ps) \in Nat /\ Len(ps) \in 0 .. Len(ps)
    BY EntryAt
  <2> HIDE DEF T
  <2> QED
    BY <1>1, <1>2, <2>1, CountUp
<1> QED
  BY <1>3

(* The recursive function is the one its equations describe. *)
LEMMA SurplusOK ==
  ASSUME NEW ps \in Entries
  PROVE  IsSurplus(Surplus(ps), ps, Len(ps))
<1> DEFINE n == Len(ps)
           F == Surplus(ps)
<1>1. PICK g : IsSurplus(g, ps, n)
  BY SurplusExists
<1>2. n \in Nat
  BY EntryAt
<1>3. /\ g \in [0 .. n -> Int] /\ g[0] = 0
      /\ \A k \in 1 .. n : g[k] = g[k - 1] + Adds(ps[k])
  BY <1>1 DEF IsSurplus
<1>4. g = [k \in 0 .. n |-> IF k = 0 THEN 0
                            ELSE g[k - 1] + (IF ps[k].struct THEN ps[k].fields ELSE 0) - 1]
  <2>1. ASSUME NEW k \in 0 .. n
        PROVE  g[k] = IF k = 0 THEN 0
                      ELSE g[k - 1] + (IF ps[k].struct THEN ps[k].fields ELSE 0) - 1
    <3>1. CASE k = 0
      BY <1>3, <3>1
    <3>2. CASE k # 0
      <4>1. k \in 1 .. n /\ k - 1 \in 0 .. n
        BY <1>2, <3>2
      <4>2. g[k] = g[k - 1] + Adds(ps[k]) /\ g[k - 1] \in Int /\ ps[k].fields \in Nat
        BY <1>3, <4>1, EntryAt
      <4> QED
        BY <3>2, <4>2 DEF Adds
    <3> QED
      BY <3>1, <3>2
  <2> HIDE DEF n
  <2> QED
    BY <1>3, <2>1
<1>5. F = [k \in 0 .. n |-> IF k = 0 THEN 0
                            ELSE F[k - 1] + (IF ps[k].struct THEN ps[k].fields ELSE 0) - 1]
  BY <1>4 DEF Surplus
<1> HIDE DEF F
<1> DEFINE T == {k \in Nat : F[k] = g[k]}
<1>6. 0 \in T
  BY <1>2, <1>3, <1>5
<1>7. ASSUME NEW k \in 0 .. n - 1, k \in T
      PROVE  k + 1 \in T
  <2> DEFINE m == k + 1
  <2>1. m \in 0 .. n /\ m - 1 = k /\ m # 0 /\ m \in Nat /\ F[k] = g[k]
    BY <1>2, <1>7
  <2> HIDE DEF n, m
  <2>2. F[m] = F[m - 1] + (IF ps[m].struct THEN ps[m].fields ELSE 0) - 1
    BY <1>5, <2>1
  <2>3. g[m] = g[m - 1] + (IF ps[m].struct THEN ps[m].fields ELSE 0) - 1
    BY <1>4, <2>1
  <2> QED
    BY <2>1, <2>2, <2>3 DEF m
<1>8. \A k \in 0 .. n : k \in T
  <2> HIDE DEF T, n
  <2> QED
    BY <1>2, <1>6, <1>7, CountUp
<1>9. F = g
  <2>1. \A k \in 0 .. n : F[k] = g[k]
    BY <1>8
  <2>2. F = [k \in 0 .. n |-> F[k]]
    BY <1>5
  <2> HIDE DEF n
  <2> QED
    BY <1>3, <2>1, <2>2
<1> QED
  BY <1>1, <1>9 DEF F

(* The equations of Surplus: a struct adds its fields, and every pair takes one. *)
LEMMA SurplusStep ==
  ASSUME NEW ps \in Entries
  PROVE  /\ Surplus(ps)[0] = 0
         /\ \A k \in 0 .. Len(ps) : Surplus(ps)[k] \in Int
         /\ \A k \in 1 .. Len(ps) :
              /\ ps[k].struct => Surplus(ps)[k] = Surplus(ps)[k - 1] + ps[k].fields - 1
              /\ ~ps[k].struct => Surplus(ps)[k] = Surplus(ps)[k - 1] - 1
<1> DEFINE s == Surplus(ps)
<1>1. /\ s \in [0 .. Len(ps) -> Int] /\ s[0] = 0
      /\ \A k \in 1 .. Len(ps) : s[k] = s[k - 1] + Adds(ps[k])
  BY SurplusOK DEF IsSurplus
<1> HIDE DEF s
<1>2. ASSUME NEW k \in 1 .. Len(ps)
      PROVE  /\ ps[k].struct => s[k] = s[k - 1] + ps[k].fields - 1
             /\ ~ps[k].struct => s[k] = s[k - 1] - 1
  <2>1. k - 1 \in 0 .. Len(ps) /\ ps[k].fields \in Nat
    BY EntryAt
  <2>2. s[k - 1] \in Int /\ s[k] = s[k - 1] + Adds(ps[k])
    BY <1>1, <2>1
  <2> QED
    BY <2>1, <2>2 DEF Adds
<1> QED
  BY <1>1, <1>2 DEF s

(* A struct, a tree or nothing, and fields that are no structs: one tree,  *)
(* when the struct counts them all.                                        *)
LEMMA TreeIsOne ==
  ASSUME NEW inh \in Entries, inh = <<>> \/ OneTree(inh), NEW m \in Nat,
         NEW t \in Entries, Len(t) = 1 + Len(inh) + m,
         t[1].struct, t[1].fields = (IF inh = <<>> THEN 0 ELSE 1) + m,
         \A i \in 1 .. Len(inh) : t[1 + i] = inh[i],
         \A k \in 1 .. m : ~t[1 + Len(inh) + k].struct
  PROVE  OneTree(t)
<1> DEFINE n == Len(inh)
           s == Surplus(t)
           r == Surplus(inh)
           one == IF inh = <<>> THEN 0 ELSE 1
<1>1. n \in Nat /\ Len(t) = 1 + n + m /\ one \in {0, 1}
  BY EntryAt
<1>2. /\ s[0] = 0 /\ \A k \in 0 .. 1 + n + m : s[k] \in Int
      /\ \A k \in 1 .. 1 + n + m : /\ t[k].struct => s[k] = s[k - 1] + t[k].fields - 1
                                   /\ ~t[k].struct => s[k] = s[k - 1] - 1
  <2> HIDE DEF n
  <2>1. /\ s[0] = 0 /\ \A k \in 0 .. Len(t) : s[k] \in Int
        /\ \A k \in 1 .. Len(t) : /\ t[k].struct => s[k] = s[k - 1] + t[k].fields - 1
                                  /\ ~t[k].struct => s[k] = s[k - 1] - 1
    BY SurplusStep
  <2>2. Len(t) = 1 + n + m
    BY <1>1
  <2> HIDE DEF s
  <2> QED
    BY <2>1, <2>2
<1>3. /\ r[0] = 0 /\ \A k \in 0 .. n : r[k] \in Int
      /\ \A k \in 1 .. n : /\ inh[k].struct => r[k] = r[k - 1] + inh[k].fields - 1
                           /\ ~inh[k].struct => r[k] = r[k - 1] - 1
  BY SurplusStep
<1>4. t[1].struct /\ t[1].fields = one + m
  OBVIOUS
<1>5. \A i \in 1 .. n : t[1 + i] = inh[i]
  OBVIOUS
<1>6. \A k \in 1 .. m : ~t[1 + n + k].struct
  OBVIOUS
<1>7. /\ \A k \in 0 .. n - 1 : r[k] >= 0
      /\ (n = 0 /\ one = 0) \/ (n > 0 /\ one = 1 /\ r[n] = -1)
  <2>1. CASE inh = <<>>
    <3>1. n = 0 /\ one = 0
      BY <2>1
    <3> QED
      BY <3>1
  <2>2. CASE inh # <<>>
    <3>1. OneTree(inh) /\ one = 1
      BY <2>2
    <3> QED
      BY <1>1, <3>1 DEF OneTree
  <2> QED
    BY <2>1, <2>2
<1>8. \A k \in 1 .. n : /\ inh[k].fields \in Nat /\ inh[k].struct \in BOOLEAN
  BY EntryAt
<1> HIDE DEF n, s, r, one
<1>9. s[1] = one + m - 1
  <2>1. 1 \in 1 .. 1 + n + m
    BY <1>1
  <2>2. s[1] = s[1 - 1] + t[1].fields - 1
    BY <1>2, <1>4, <2>1
  <2> QED
    BY <1>1, <1>2, <1>4, <2>2
<1>10. \A k \in 0 .. n : s[1 + k] = s[1] + r[k]
  <2> DEFINE T == {k \in Nat : s[1 + k] = s[1] + r[k]}
  <2>1. 0 \in T
    BY <1>1, <1>3, <1>9
  <2>2. ASSUME NEW k \in 0 .. n - 1, k \in T
        PROVE  k + 1 \in T
    <3> DEFINE j == k + 1
    <3>1. /\ j \in 1 .. n /\ j - 1 = k /\ j \in Nat /\ 1 + j \in 1 .. 1 + n + m
          /\ (1 + j) - 1 = 1 + k /\ 1 + k \in 0 .. 1 + n + m /\ k \in 0 .. n
          /\ s[1 + k] = s[1] + r[k]
      BY <1>1, <2>2
    <3> HIDE DEF j
    <3>2. t[1 + j] = inh[j] /\ inh[j].fields \in Nat /\ inh[j].struct \in BOOLEAN
      BY <1>5, <1>8, <3>1
    <3>3. s[1] \in Int /\ r[k] \in Int
      BY <1>1, <1>3, <1>9, <3>1
    <3>4. CASE inh[j].struct
      <4>1. s[1 + j] = s[1 + k] + inh[j].fields - 1 /\ r[j] = r[k] + inh[j].fields - 1
        <5> DEFINE i == 1 + j
        <5>1. i \in 1 .. 1 + n + m /\ i - 1 = 1 + k /\ t[i] = inh[j]
          BY <3>1, <3>2
        <5> HIDE DEF i
        <5>2. s[i] = s[i - 1] + t[i].fields - 1
          BY <1>2, <3>4, <5>1
        <5>3. r[j] = r[j - 1] + inh[j].fields - 1
          BY <1>3, <3>1, <3>4
        <5> QED
          BY <3>1, <5>1, <5>2, <5>3 DEF i
      <4>2. s[1 + j] = s[1] + r[j]
        BY <3>1, <3>2, <3>3, <4>1
      <4> QED
        BY <3>1, <4>2 DEF j
    <3>5. CASE ~inh[j].struct
      <4>1. s[1 + j] = s[1 + k] - 1 /\ r[j] = r[k] - 1
        <5> DEFINE i == 1 + j
        <5>1. i \in 1 .. 1 + n + m /\ i - 1 = 1 + k /\ t[i] = inh[j]
          BY <3>1, <3>2
        <5> HIDE DEF i
        <5>2. s[i] = s[i - 1] - 1
          BY <1>2, <3>5, <5>1
        <5>3. r[j] = r[j - 1] - 1
          BY <1>3, <3>1, <3>5
        <5> QED
          BY <3>1, <5>1, <5>2, <5>3 DEF i
      <4>2. s[1 + j] = s[1] + r[j]
        BY <3>1, <3>3, <4>1
      <4> QED
        BY <3>1, <4>2 DEF j
    <3> QED
      BY <3>4, <3>5
  <2>3. \A k \in 0 .. n : k \in T
    <3> HIDE DEF T
    <3> QED
      BY <1>1, <2>1, <2>2, CountUp
  <2> QED
    BY <2>3
<1>11. s[1 + n] = m - 1
  <2>1. n \in 0 .. n /\ s[1 + n] = s[1] + r[n]
    BY <1>1, <1>10
  <2> QED
    BY <1>1, <1>3, <1>7, <1>9, <2>1
<1>12. \A k \in 0 .. m : s[1 + n + k] = m - 1 - k
  <2> DEFINE T == {k \in Nat : s[1 + n + k] = m - 1 - k}
  <2>1. 0 \in T
    BY <1>1, <1>11
  <2>2. ASSUME NEW k \in 0 .. m - 1, k \in T
        PROVE  k + 1 \in T
    <3> DEFINE j == k + 1
    <3>1. /\ j \in 1 .. m /\ j - 1 = k /\ j \in Nat /\ 1 + n + j \in 1 .. 1 + n + m
          /\ (1 + n + j) - 1 = 1 + n + k
      BY <1>1
    <3>4. s[1 + n + k] = m - 1 - k
      BY <2>2
    <3> HIDE DEF j
    <3>2. s[1 + n + j] = s[1 + n + k] - 1
      <4> DEFINE i == 1 + n + j
      <4>1. i \in 1 .. 1 + n + m /\ i - 1 = 1 + n + k
        BY <3>1
      <4>2. ~t[i].struct
        BY <1>6, <3>1
      <4> HIDE DEF i
      <4>3. s[i] = s[i - 1] - 1
        BY <1>2, <4>1, <4>2
      <4> QED
        BY <4>1, <4>3 DEF i
    <3>3. s[1 + n + j] = m - 1 - j
      BY <3>1, <3>2, <3>4
    <3> QED
      BY <3>1, <3>3 DEF j
  <2>3. \A k \in 0 .. m : k \in T
    <3> HIDE DEF T
    <3> QED
      BY <2>1, <2>2, CountUp
  <2> QED
    BY <2>3
<1>13. s[1 + n + m] = -1
  <2>1. m \in 0 .. m
    OBVIOUS
  <2> QED
    BY <1>12, <2>1
<1>14. ASSUME NEW k \in 0 .. 1 + n + m - 1
       PROVE  s[k] >= 0
  <2>1. CASE k = 0
    BY <1>2, <2>1
  <2>2. CASE k \in 1 .. n
    <3> DEFINE j == k - 1
    <3>1. j \in 0 .. n /\ j \in 0 .. n - 1 /\ k = 1 + j
      BY <1>1, <2>2
    <3> HIDE DEF j
    <3>2. s[k] = s[1] + r[j] /\ r[j] >= 0 /\ r[j] \in Int /\ n > 0
      BY <1>1, <1>3, <1>7, <1>10, <2>2, <3>1
    <3>3. s[1] = m
      BY <1>7, <1>9, <3>2
    <3> QED
      BY <3>2, <3>3
  <2>3. CASE k \in 1 + n .. n + m
    <3> DEFINE j == k - 1 - n
    <3>1. j \in 0 .. m /\ j < m /\ k = 1 + n + j
      BY <1>1, <2>3
    <3> HIDE DEF j
    <3>2. s[k] = m - 1 - j
      BY <1>12, <3>1
    <3> QED
      BY <3>1, <3>2
  <2> QED
    BY <1>1, <2>1, <2>2, <2>3
<1>15. Len(t) > 0 /\ s[Len(t)] = -1 /\ \A k \in 0 .. Len(t) - 1 : s[k] >= 0
  <2> DEFINE last == Len(t)
  <2>1. last = 1 + n + m
    BY <1>1
  <2> HIDE DEF last
  <2>2. last > 0 /\ s[last] = -1 /\ \A k \in 0 .. last - 1 : s[k] >= 0
    BY <1>1, <1>13, <1>14, <2>1
  <2> QED
    BY <2>2 DEF last
<1> QED
  BY <1>4, <1>15 DEF OneTree, s

-----------------------------------------------------------------------------
(* Definitions *)

(* A definition's parent is none, or a context the invariant speaks of. *)
LEMMA ParentKnown ==
  ASSUME ContextInv, NEW parent \in live \cup {NULL}
  PROVE  /\ Known(parent)
         /\ parent # NULL => /\ parent \in Handles /\ parent \in live
                             /\ ContextOK(parent, ctx[parent])
<1>1. CASE parent = NULL
  BY <1>1 DEF Known
<1>2. CASE parent # NULL
  <2>1. parent \in live /\ parent \in Handles /\ ContextOK(parent, ctx[parent])
    BY <1>2 DEF ContextInv
  <2>2. /\ ctx[parent].pairs \in Seq(ValuePair) /\ ctx[parent].data \in Block
        /\ ctx[parent].length \in Nat
        /\ \A i \in 1 .. Len(ctx[parent].pairs) : ctx[parent].pairs[i].area = parent
    BY <2>1 DEF ContextOK
  <2>3. ASSUME NEW i \in 1 .. Len(ctx[parent].pairs)
        PROVE  Read(ctx[parent].pairs[i]) \in Cells
    <3>1. ctx[parent].pairs[i] \in ValuePair
      BY <2>2
    <3>2. ctx[parent].pairs[i].offset \in Nat /\ ctx[parent].pairs[i].type \in Types
      BY <3>1 DEF ValuePair
    <3>3. Read(ctx[parent].pairs[i]) =
            Copied(ctx[parent].data, ctx[parent].pairs[i].offset, ctx[parent].pairs[i].type)
      BY <2>1, <2>2 DEF Read
    <3> QED
      BY <2>2, <3>2, <3>3, CopiedOK
  <2> QED
    BY <2>1, <2>2, <2>3 DEF Known
<1> QED
  BY <1>1, <1>2

(* The record a definition leaves, but for the bytes of its values. *)
LEMMA DefinedShape ==
  ASSUME ContextInv, NEW h \in Handles, NEW parent \in live \cup {NULL},
         NEW list \in PropertyLists, NEW isLocal \in BOOLEAN
  PROVE  LET c == Defined(h, parent, list, isLocal)
         IN  /\ c.local = isLocal
             /\ c.sound = Sound(parent, list) /\ c.sound \in BOOLEAN
             /\ c.length = NeededData(parent, list) /\ c.length \in 0 .. LengthModulus - 1
             /\ c.pairs = Built(h, parent, list).pairs
             /\ c.data = Built(h, parent, list).data /\ c.data \in Block
             /\ c.pairs \in Seq(ValuePair)
             /\ Len(c.pairs) = NeededPairs(parent, list)
             /\ \A i \in 1 .. Len(c.pairs) :
                  c.pairs[i].area = h /\ c.pairs[i].type = TypeAt(parent, list, i)
<1> DEFINE c == Defined(h, parent, list, isLocal)
<1>1. /\ c.local = isLocal /\ c.sound = Sound(parent, list)
      /\ c.length = NeededData(parent, list)
      /\ c.pairs = Built(h, parent, list).pairs
      /\ c.data = Built(h, parent, list).data
  BY DEF Defined
<1>2. Sound(parent, list) \in BOOLEAN
  BY DEF Sound
<1>3. Known(parent) /\ list \in Seq(Property)
  BY ParentKnown, ListProperty
<1>4. NeededData(parent, list) \in 0 .. LengthModulus - 1
  <2>1. PICK f : IsSum(f, list) /\ SumOfSizes(list) = f[Len(list)]
    BY <1>3, SumIs
  <2>2. f[Len(list)] \in Int
    <3>1. Len(list) \in 0 .. Len(list)
      BY <1>3
    <3> QED
      BY <2>1, <3>1 DEF IsSum
  <2>3. DataLength(parent) + 1 + SumOfSizes(list) \in Int
    BY <1>3, <2>1, <2>2, KnownNumbers
  <2>4. LengthModulus \in Nat /\ LengthModulus > 0
    BY ContextAssumption
  <2> QED
    BY <2>3, <2>4 DEF NeededData
<1>5. /\ Built(h, parent, list).pairs \in Seq(ValuePair)
      /\ Len(Built(h, parent, list).pairs) = NeededPairs(parent, list)
      /\ Built(h, parent, list).data \in Block
      /\ \A i \in 1 .. NeededPairs(parent, list) :
           /\ Built(h, parent, list).pairs[i].area = h
           /\ Built(h, parent, list).pairs[i].type = TypeAt(parent, list, i)
  BY <1>3, BuiltShape
<1> HIDE DEF c
<1> QED
  BY <1>1, <1>2, <1>4, <1>5 DEF c

(* The values of a sound definition are where its pairs say. *)
LEMMA DefinedLaid ==
  ASSUME ContextInv, NEW h \in Handles, NEW parent \in live \cup {NULL},
         NEW list \in PropertyLists, NEW isLocal \in BOOLEAN, Sound(parent, list)
  PROVE  LET c == Defined(h, parent, list, isLocal)
         IN  Own(c) = ValuesOf(parent, list) /\ Laid(c.pairs, c.data, Own(c), c.length)
<1> DEFINE c == Defined(h, parent, list, isLocal)
           v == ValuesOf(parent, list)
           bound == DataLength(parent) + 1 + SumOfSizes(list)
<1>1. /\ c.length = NeededData(parent, list)
      /\ c.pairs = Built(h, parent, list).pairs /\ c.pairs \in Seq(ValuePair)
      /\ c.data = Built(h, parent, list).data
      /\ Len(c.pairs) = NeededPairs(parent, list)
  BY DefinedShape
<1>2. /\ Known(parent)
      /\ parent # NULL => parent \in Handles /\ parent \in live /\ ContextOK(parent, ctx[parent])
  BY ParentKnown
<1>3. /\ Formatted(list) /\ bound < LengthModulus
      /\ parent # NULL => ctx[parent].sound /\ ctx[parent].pairs # <<>>
  BY DEF Sound
<1>4. parent # NULL =>
        Laid(ctx[parent].pairs, ctx[parent].data, Reads(parent), ctx[parent].length)
  <2>1. ASSUME parent # NULL
        PROVE  Laid(ctx[parent].pairs, ctx[parent].data, Reads(parent), ctx[parent].length)
    <3>1. Reads(parent) = Own(ctx[parent])
      BY <1>2, <2>1, ReadsOwn
    <3>2. Laid(ctx[parent].pairs, ctx[parent].data, Own(ctx[parent]), ctx[parent].length)
      BY <1>2, <1>3, <2>1 DEF ContextOK
    <3> QED
      BY <3>1, <3>2
  <2> QED
    BY <2>1
<1>5. bound \in Nat /\ Laid(Built(h, parent, list).pairs, Built(h, parent, list).data, v, bound)
  BY <1>2, <1>3, <1>4, BuiltLaid
<1>6. c.length = bound
  <2>1. bound % LengthModulus = bound
    <3> HIDE DEF bound
    <3>1. LengthModulus \in Nat
      BY ContextAssumption
    <3> QED
      BY <1>3, <1>5, <3>1
  <2> QED
    BY <1>1, <2>1 DEF NeededData
<1> HIDE DEF c, bound
<1>7. Laid(c.pairs, c.data, v, c.length)
  BY <1>1, <1>5, <1>6
<1>8. ASSUME NEW i \in 1 .. Len(c.pairs)
      PROVE  Copied(c.data, c.pairs[i].offset, c.pairs[i].type) = v[i]
  BY <1>1, <1>7, LaidReads
<1>9. Own(c) = v
  <2>1. Own(c) = [i \in 1 .. Len(c.pairs) |-> v[i]]
    BY <1>8 DEF Own
  <2>2. v = [i \in 1 .. NeededPairs(parent, list) |-> v[i]]
    BY DEF ValuesOf
  <2> QED
    BY <1>1, <2>1, <2>2
<1> QED
  BY <1>7, <1>9 DEF c

(* c is x followed by y, of lengths m and n. *)
IsCat(c, x, m, y, n) ==
  /\ Len(c) = m + n
  /\ \A i \in 1 .. m : c[i] = x[i]
  /\ \A i \in 1 .. n : c[m + i] = y[i]

(* The elements of two sequences put together. *)
LEMMA CatAt ==
  ASSUME NEW E, NEW x \in Seq(E), NEW y \in Seq(E), NEW m, m = Len(x), NEW n, n = Len(y)
  PROVE  x \o y \in Seq(E) /\ IsCat(x \o y, x, m, y, n)
<1>1. x \o y \in Seq(E) /\ Len(x \o y) = Len(x) + Len(y)
  OBVIOUS
<1>2. \A i \in 1 .. Len(x) : (x \o y)[i] = x[i]
  OBVIOUS
<1>3. \A i \in 1 .. Len(y) : (x \o y)[Len(x) + i] = y[i]
  OBVIOUS
<1> QED
  BY <1>1, <1>2, <1>3 DEF IsCat

(* The contents and the memory agree on what a property is stored as. *)
LEMMA StoreInitCells == \A p : Store_!InitCells(p) = InitCells(p)
BY DEF Store_!InitCells, Store_!TextInit, Store_!FixedInit, Store_!PrintFails, Store_!Text,
       Store_!Bytes, Store_!CharSize, Store_!IsText, Store_!Nul, Store_!Sizeof,
       InitCells, TextInit, FixedInit, PrintFails, Text, Bytes, CharSize, IsText, Nul, Sizeof

(* What a definition inherits. *)
Inherited(parent) == IF parent = NULL THEN <<>> ELSE Tells(ctx[parent])

(* A sound definition says the tree asked for. *)
LEMMA DefinedTree ==
  ASSUME ContextInv, NEW h \in Handles, NEW parent \in live \cup {NULL},
         NEW list \in PropertyLists, NEW isLocal \in BOOLEAN, Sound(parent, list)
  PROVE  LET c == Defined(h, parent, list, isLocal)
         IN  Tells(c) = Store_!Tree(Inherited(parent), list) /\ OneTree(Tells(c))
<1> DEFINE c == Defined(h, parent, list, isLocal)
           t == Tells(c)
           inh == Inherited(parent)
           n == PairCount(parent)
           m == Len(list)
           count == (IF parent # NULL THEN 1 ELSE 0) + m
           v == ValuesOf(parent, list)
<1>1. /\ Known(parent)
      /\ parent # NULL => parent \in Handles /\ parent \in live /\ ContextOK(parent, ctx[parent])
  BY ParentKnown
<1>2. list \in Seq(Property) /\ m \in Nat /\ m < 255 /\ \A k \in 1 .. m : list[k] \in Property
  BY ListProperty, FieldCountAssumption
<1>3. n \in Nat /\ count \in 0 .. 255
  <2>1. n \in Nat
    BY <1>1, KnownNumbers
  <2> HIDE DEF n, m
  <2> QED
    BY <1>2, <2>1
<1>4. parent # NULL => ctx[parent].sound /\ ctx[parent].pairs # <<>>
  BY DEF Sound
<1>5. /\ inh \in Entries /\ Len(inh) = n /\ (inh = <<>> \/ OneTree(inh))
      /\ (inh = <<>> <=> parent = NULL)
  <2>1. CASE parent = NULL
    <3>1. inh = <<>> /\ n = 0
      BY <2>1 DEF Inherited, PairCount
    <3>2. <<>> \in Entries /\ Len(<<>>) = 0
      BY DEF Entries
    <3> QED
      BY <2>1, <3>1, <3>2
  <2>2. CASE parent # NULL
    <3>1. inh = Tells(ctx[parent]) /\ n = Len(ctx[parent].pairs)
      BY <2>2 DEF Inherited, PairCount
    <3>2. Tells(ctx[parent]) \in Entries /\ Len(Tells(ctx[parent])) = Len(ctx[parent].pairs)
      BY <1>1, <1>4, <2>2, TellsOK
    <3>3. OneTree(Tells(ctx[parent]))
      BY <1>1, <1>4, <2>2 DEF ContextOK
    <3>4. ctx[parent].pairs \in Seq(ValuePair) /\ ctx[parent].pairs # <<>>
      BY <1>1, <1>4, <2>2 DEF ContextOK
    <3>5. Len(ctx[parent].pairs) # 0
      BY <3>4
    <3>6. Len(<<>>) = 0
      OBVIOUS
    <3> QED
      BY <2>2, <3>1, <3>2, <3>3, <3>5, <3>6
  <2> QED
    BY <2>1, <2>2
<1>6. /\ Len(c.pairs) = 1 + n + m
      /\ c.pairs \in Seq(ValuePair)
      /\ \A i \in 1 .. 1 + n + m : c.pairs[i].type = TypeAt(parent, list, i)
  <2>1. NeededPairs(parent, list) = 1 + n + m
    BY <1>2, <1>3 DEF NeededPairs
  <2>2. Len(c.pairs) = NeededPairs(parent, list) /\ c.pairs \in Seq(ValuePair)
    BY DefinedShape
  <2>3. ASSUME NEW i \in 1 .. Len(c.pairs)
        PROVE  c.pairs[i].type = TypeAt(parent, list, i)
    BY DefinedShape
  <2> HIDE DEF c
  <2> QED
    BY <2>1, <2>2, <2>3
<1>7. Own(c) = v /\ Laid(c.pairs, c.data, Own(c), c.length)
  BY DefinedLaid
<1>8. /\ v[1] = FieldCount(count)
      /\ \A i \in 1 .. n : v[1 + i] = Read(ctx[parent].pairs[i])
      /\ \A k \in 1 .. m : v[1 + n + k] = InitCells(list[k])
  <2>1. v[1] = FieldCount(count)
    BY <1>2, <1>3, SMTT(30) DEF ValuesOf, NeededPairs
  <2> QED
    BY <1>1, <1>2, <2>1, ValuesAt
<1> HIDE DEF c, v, inh, n, m, count
<1>9. t = [i \in 1 .. 1 + n + m |-> Entry(TypeAt(parent, list, i), v[i])]
  BY <1>6, <1>7 DEF Tells
<1>10. t[1] = [struct |-> TRUE, fields |-> count, bytes |-> <<>>]
  <2>1. 1 \in 1 .. 1 + n + m
    BY <1>2, <1>3
  <2>2. TypeAt(parent, list, 1) = "struct"
    BY DEF TypeAt
  <2>3. FieldCount(count)[1][2] = count
    <3>1. FieldCount(count)[1][2] = count % 256
      BY <1>3, FieldCountOK
    <3>2. count % 256 = count
      BY <1>3
    <3> QED
      BY <3>1, <3>2
  <2>4. t[1] = Entry("struct", v[1])
    BY <1>9, <2>1, <2>2
  <2> QED
    BY <1>8, <2>3, <2>4 DEF Entry
<1>11. ASSUME NEW i \in 1 .. n
       PROVE  t[1 + i] = inh[i]
  <2>1. parent # NULL
    BY <1>3, <1>11 DEF n, PairCount
  <2>2. 1 + i \in 1 .. 1 + n + m /\ 1 + i # 1 /\ 1 + i <= 1 + n /\ 1 + i - 1 = i
    BY <1>2, <1>3
  <2>3. TypeAt(parent, list, 1 + i) = ctx[parent].pairs[i].type
    BY <2>2 DEF TypeAt, n
  <2>4. t[1 + i] = Entry(ctx[parent].pairs[i].type, v[1 + i])
    BY <1>9, <2>2, <2>3
  <2>5. Own(ctx[parent])[i] = v[1 + i]
    <3>1. Reads(parent) = Own(ctx[parent])
      BY <1>1, <2>1, ReadsOwn
    <3>2. n = Len(ctx[parent].pairs)
      BY <2>1 DEF n, PairCount
    <3>3. Reads(parent)[i] = Read(ctx[parent].pairs[i])
      BY <3>2 DEF Reads
    <3> QED
      BY <1>8, <3>1, <3>3
  <2>6. inh[i] = Entry(ctx[parent].pairs[i].type, Own(ctx[parent])[i])
    <3>1. inh = Tells(ctx[parent]) /\ n = Len(ctx[parent].pairs)
      BY <2>1 DEF inh, n, Inherited, PairCount
    <3> QED
      BY <3>1 DEF Tells
  <2> QED
    BY <2>4, <2>5, <2>6
<1>12. ASSUME NEW k \in 1 .. m
       PROVE  t[1 + n + k] = [struct |-> FALSE, fields |-> 0, bytes |-> InitCells(list[k])]
  <2> DEFINE i == 1 + n + k
  <2>1. i \in 1 .. 1 + n + m /\ i # 1 /\ ~(i <= 1 + n) /\ i - (1 + n) = k
    BY <1>2, <1>3
  <2>2. v[i] = InitCells(list[k])
    BY <1>8
  <2> HIDE DEF i
  <2>3. TypeAt(parent, list, i) = list[k].type
    BY <2>1 DEF TypeAt, n
  <2>4. list[k].type # "struct"
    BY <1>2 DEF Property
  <2>5. t[i] = Entry(list[k].type, InitCells(list[k]))
    BY <1>9, <2>1, <2>2, <2>3
  <2> QED
    BY <2>4, <2>5 DEF i, Entry
<1>13. t \in Entries /\ Len(t) = 1 + Len(inh) + m
  <2>1. ASSUME NEW i \in 1 .. 1 + n + m
        PROVE  t[i] \in [struct : BOOLEAN, fields : Nat, bytes : Cells]
    <3>1. Value(v[i], c.pairs[i].type)
      BY <1>6, <1>7 DEF Laid
    <3>2. t[i] = Entry(c.pairs[i].type, v[i])
      BY <1>6, <1>9
    <3> QED
      BY <3>1, <3>2, EntryOK
  <2> DEFINE E == [struct : BOOLEAN, fields : Nat, bytes : Cells]
  <2>2. t \in [1 .. 1 + n + m -> E] /\ 1 + n + m \in Nat
    BY <1>2, <1>3, <1>9, <2>1
  <2> HIDE DEF E, t
  <2>3. t \in Seq(E) /\ Len(t) = 1 + n + m
    BY <2>2
  <2> QED
    BY <1>5, <2>3 DEF E, Entries
<1>14. count = (IF inh = <<>> THEN 0 ELSE 1) + m
  BY <1>5 DEF count
<1>15. OneTree(t)
  <2>1. t[1].struct /\ t[1].fields = (IF inh = <<>> THEN 0 ELSE 1) + m
    BY <1>10, <1>14
  <2>2. \A k \in 1 .. m : ~t[1 + Len(inh) + k].struct
    <3> HIDE DEF t
    <3>1. ASSUME NEW k \in 1 .. m
          PROVE  ~t[1 + n + k].struct
      <4>1. t[1 + n + k] = [struct |-> FALSE, fields |-> 0, bytes |-> InitCells(list[k])]
        BY <1>12
      <4> QED
        BY <4>1
    <3> QED
      BY <1>5, <3>1
  <2>3. \A i \in 1 .. Len(inh) : t[1 + i] = inh[i]
    BY <1>5, <1>11
  <2> HIDE DEF t
  <2> QED
    BY <1>2, <1>5, <1>13, <2>1, <2>2, <2>3, TreeIsOne
<1>16. t = Store_!Tree(inh, list)
  <2> DEFINE head == <<Store_!Struct((IF inh = <<>> THEN 0 ELSE 1) + m)>>
             own == [k \in 1 .. m |-> Store_!Field(list[k])]
             u == Store_!Tree(inh, list)
             E == [struct : BOOLEAN, fields : Nat, bytes : Cells]
  <2>1. u = head \o inh \o own
    BY DEF Store_!Tree, m
  <2>2. head[1] = t[1] /\ Len(head) = 1 /\ head \in Seq(E)
    <3>1. head = <<t[1]>>
      BY <1>10, <1>14 DEF Store_!Struct
    <3>2. t[1] \in E
      <4>1. count \in Nat /\ <<>> \in Cells
        BY <1>3 DEF Cells
      <4> QED
        BY <1>10, <4>1
    <3> HIDE DEF head, t, E
    <3> QED
      BY <3>1, <3>2
  <2>3. own \in Seq(E) /\ Len(own) = m /\ \A k \in 1 .. m : own[k] = t[1 + n + k]
    <3>1. ASSUME NEW k \in 1 .. m
          PROVE  own[k] = t[1 + n + k] /\ own[k] \in E
      <4>1. own[k] = [struct |-> FALSE, fields |-> 0, bytes |-> InitCells(list[k])]
        <5>1. own[k] = Store_!Field(list[k])
          OBVIOUS
        <5> HIDE DEF own
        <5> QED
          BY <5>1, StoreInitCells DEF Store_!Field
      <4>2. InitCells(list[k]) \in Cells
        BY <1>2, InitCellsOK
      <4> HIDE DEF own, t
      <4> QED
        BY <1>12, <4>1, <4>2
    <3>2. own \in [1 .. m -> E]
      BY <3>1
    <3> HIDE DEF own, t, E
    <3> QED
      BY <1>2, <3>1, <3>2
  <2>4. inh \in Seq(E) /\ Len(inh) = n
    BY <1>5 DEF Entries
  <2> HIDE DEF head, own, E, t, u
  <2>5. /\ head \o inh \in Seq(E) /\ Len(head \o inh) = 1 + n
        /\ (head \o inh)[1] = head[1]
        /\ \A i \in 1 .. n : (head \o inh)[1 + i] = inh[i]
    <3>1. /\ head \o inh \in Seq(E) /\ Len(head \o inh) = 1 + n
          /\ \A i \in 1 .. 1 : (head \o inh)[i] = head[i]
          /\ \A i \in 1 .. n : (head \o inh)[1 + i] = inh[i]
      <4>1. /\ head \o inh \in Seq(E)
            /\ IsCat(head \o inh, head, 1, inh, n)
        BY <2>2, <2>4, CatAt, Zenon
      <4> QED
        BY <4>1 DEF IsCat
    <3>2. 1 \in 1 .. 1
      OBVIOUS
    <3> QED
      BY <3>1, <3>2, Zenon
  <2>6. /\ u \in Seq(E) /\ Len(u) = 1 + n + m
        /\ \A i \in 1 .. 1 + n : u[i] = (head \o inh)[i]
        /\ \A k \in 1 .. m : u[1 + n + k] = own[k]
    <3> DEFINE a == head \o inh
    <3>1. a \in Seq(E) /\ Len(a) = 1 + n
      BY <2>5
    <3>2. u = a \o own
      BY <2>1
    <3> HIDE DEF a
    <3>3. /\ u \in Seq(E) /\ Len(u) = 1 + n + m
          /\ \A i \in 1 .. 1 + n : u[i] = a[i]
          /\ \A k \in 1 .. m : u[1 + n + k] = own[k]
      <4>1. a \o own \in Seq(E) /\ IsCat(a \o own, a, 1 + n, own, m)
        BY <2>3, <3>1, CatAt, Zenon
      <4> QED
        BY <3>2, <4>1 DEF IsCat
    <3> QED
      BY <3>3 DEF a
  <2>7. ASSUME NEW i \in 1 .. 1 + n + m
        PROVE  u[i] = t[i]
    <3>1. CASE i = 1
      <4>1. 1 \in 1 .. 1 + n
        BY <1>3
      <4> QED
        BY <2>2, <2>5, <2>6, <3>1, <4>1
    <3>2. CASE i \in 2 .. 1 + n
      <4> DEFINE j == i - 1
      <4>1. j \in 1 .. n /\ i = 1 + j /\ 1 + j \in 1 .. 1 + n
        BY <1>3, <3>2
      <4> HIDE DEF j
      <4> QED
        BY <1>11, <2>5, <2>6, <4>1
    <3>3. CASE i \in 2 + n .. 1 + n + m
      <4> DEFINE k == i - (1 + n)
      <4>1. k \in 1 .. m /\ i = 1 + n + k
        BY <1>2, <1>3, <3>3
      <4> HIDE DEF k
      <4> QED
        BY <2>3, <2>6, <4>1
    <3> QED
      BY <1>2, <1>3, <3>1, <3>2, <3>3
  <2>8. t = [i \in 1 .. 1 + n + m |-> t[i]]
    BY <1>9
  <2>9. u = [i \in 1 .. 1 + n + m |-> u[i]]
    BY <2>6
  <2>10. u = t
    BY <2>7, <2>8, <2>9
  <2> QED
    BY <2>10 DEF u
<1> QED
  BY <1>15, <1>16 DEF t, c, inh

-----------------------------------------------------------------------------
(* The invariant *)

IsEmpty(c) ==
  c.local \in BOOLEAN /\ c.sound = TRUE /\ c.length = 0 /\ c.pairs = <<>> /\ c.data = <<>>

(* A context without pairs satisfies the invariant. *)
LEMMA EmptyOK ==
  ASSUME NEW h, NEW c, IsEmpty(c)
  PROVE  ContextOK(h, c)
<1>0. /\ c.local \in BOOLEAN /\ c.sound = TRUE /\ c.length = 0
      /\ c.pairs = <<>> /\ c.data = <<>>
  BY DEF IsEmpty
<1>1. c.pairs \in Seq(ValuePair) /\ Len(c.pairs) = 0
  BY <1>0
<1>2. Laid(c.pairs, c.data, Own(c), c.length)
  BY <1>0, <1>1, NoBlock DEF Laid
<1>3. 0 \in 0 .. LengthModulus - 1 /\ 0 <= MaxPairCount /\ 0 <= MaxDataSize
  BY ContextAssumption
<1>4. c.data \in Block
  BY <1>0, NoBlock
<1>5. c.length \in 0 .. LengthModulus - 1
  BY <1>0, <1>3
<1>6. \A i \in 1 .. Len(c.pairs) : c.pairs[i].area = h
  BY <1>1
<1>7. Len(c.pairs) <= MaxPairCount /\ c.length <= MaxDataSize
  BY <1>0, <1>1, <1>3
<1>8. c.local \in BOOLEAN /\ c.sound \in BOOLEAN /\ c.pairs = <<>>
  BY <1>0
<1> QED
  BY <1>1, <1>2, <1>4, <1>5, <1>6, <1>7, <1>8, Zenon DEF ContextOK

(* So do a handle that is not in use and a local that was too large. *)
LEMMA FreeOK ==
  ASSUME NEW h
  PROVE  ContextOK(h, Free) /\ ContextOK(h, [Free EXCEPT !.local = TRUE])
<1>1. /\ Free.local = FALSE /\ Free.sound = TRUE /\ Free.length = 0
      /\ Free.pairs = <<>> /\ Free.data = <<>>
  BY DEF Free
<1> DEFINE c == [Free EXCEPT !.local = TRUE]
<1>2. c.local = TRUE /\ c.sound = TRUE /\ c.length = 0 /\ c.pairs = <<>> /\ c.data = <<>>
  BY DEF Free
<1> HIDE DEF c
<1> QED
  <2>1. IsEmpty(Free) /\ IsEmpty(c)
    BY <1>1, <1>2 DEF IsEmpty
  <2>2. ContextOK(h, Free) /\ ContextOK(h, c)
    BY <2>1, EmptyOK
  <2> QED
    BY <2>2 DEF c

(* A definition satisfies the invariant: its memory is what was counted for it, filled. *)
LEMMA DefinedOK ==
  ASSUME ContextInv, NEW h \in Handles, NEW parent \in live \cup {NULL},
         NEW list \in PropertyLists, NEW isLocal \in BOOLEAN,
         isLocal => NeededPairs(parent, list) <= MaxPairCount /\ NeededData(parent, list) <= MaxDataSize
  PROVE  ContextOK(h, Defined(h, parent, list, isLocal))
<1> DEFINE c == Defined(h, parent, list, isLocal)
<1>1. /\ c.local = isLocal
      /\ c.sound = Sound(parent, list) /\ c.sound \in BOOLEAN
      /\ c.length = NeededData(parent, list) /\ c.length \in 0 .. LengthModulus - 1
      /\ c.data \in Block
      /\ c.pairs \in Seq(ValuePair)
      /\ Len(c.pairs) = NeededPairs(parent, list)
  BY DefinedShape
<1>2. ASSUME NEW i \in 1 .. Len(c.pairs)
      PROVE  c.pairs[i].area = h
  BY DefinedShape
<1>3. ASSUME Sound(parent, list)
      PROVE  Laid(c.pairs, c.data, Own(c), c.length) /\ OneTree(Tells(c))
  BY <1>3, DefinedLaid, DefinedTree
<1> HIDE DEF c
<1>4. ContextOK(h, c)
  BY <1>1, <1>2, <1>3 DEF ContextOK
<1> QED
  BY <1>4 DEF c

(* No context exists in the beginning. *)
LEMMA ContextInit == Init => ContextInv
BY FreeOK DEF Init, ContextInv

(* A step that gives h another context, and leaves the others. *)
LEMMA ContextChange ==
  ASSUME ContextInv, NEW h \in Handles, NEW c, ContextOK(h, c),
         ctx' = [ctx EXCEPT ![h] = c], reports' \in BOOLEAN,
         \/ live' = live \cup {h}
         \/ live' = live \ {h} /\ c = Free
  PROVE  ContextInv'
<1>1. live' \subseteq Handles
  BY DEF ContextInv
<1>2. ctx' = [x \in Handles |-> IF x = h THEN c ELSE ctx[x]]
  BY DEF ContextInv
<1>3. ctx' = [x \in Handles |-> ctx'[x]]
  BY <1>2
<1>4. ASSUME NEW x \in Handles
      PROVE  ContextOK(x, ctx'[x]) /\ (x \notin live' => ctx'[x] = Free)
  <2>1. CASE x = h
    BY <1>2, <2>1
  <2>2. CASE x # h
    <3>1. ctx'[x] = ctx[x]
      BY <1>2, <2>2
    <3>2. x \notin live' => x \notin live
      BY <2>2
    <3> QED
      BY <3>1, <3>2 DEF ContextInv
  <2> QED
    BY <2>1, <2>2
<1> QED
  BY <1>1, <1>3, <1>4 DEF ContextInv

(* No step breaks the invariant. *)
LEMMA ContextStep == ContextInv /\ [Next]_vars => ContextInv'
<1> SUFFICES ASSUME ContextInv, [Next]_vars
             PROVE  ContextInv'
  OBVIOUS
<1>1. reports \in BOOLEAN
  BY DEF ContextInv
<1>2. CASE UNCHANGED vars
  BY <1>2 DEF vars, ContextInv
<1>3. CASE Next
  <2>1. PICK h \in Handles :
          \/ \E parent \in live \cup {NULL}, list \in PropertyLists :
               \/ Create(h, parent, list)
               \/ LocalDefine(h, parent, list)
               \/ LocalDefineTooLarge(h, parent, list)
          \/ CreateFails(h)
          \/ Destroy(h)
          \/ LeaveScope(h)
    BY <1>3 DEF Next
  <2>2. ASSUME NEW parent \in live \cup {NULL}, NEW list \in PropertyLists,
               Create(h, parent, list)
        PROVE  ContextInv'
    <3>1. ContextOK(h, Defined(h, parent, list, FALSE))
      BY DefinedOK
    <3>2. /\ ctx' = [ctx EXCEPT ![h] = Defined(h, parent, list, FALSE)]
          /\ live' = live \cup {h} /\ reports' = reports
      BY <2>2 DEF Create
    <3> QED
      BY <1>1, <3>1, <3>2, ContextChange
  <2>3. ASSUME NEW parent \in live \cup {NULL}, NEW list \in PropertyLists,
               LocalDefine(h, parent, list)
        PROVE  ContextInv'
    <3>1. ContextOK(h, Defined(h, parent, list, TRUE))
      BY <2>3, DefinedOK DEF LocalDefine
    <3>2. /\ ctx' = [ctx EXCEPT ![h] = Defined(h, parent, list, TRUE)]
          /\ live' = live \cup {h} /\ reports' = reports
      BY <2>3 DEF LocalDefine
    <3> QED
      BY <1>1, <3>1, <3>2, ContextChange
  <2>4. ASSUME NEW parent \in live \cup {NULL}, NEW list \in PropertyLists,
               LocalDefineTooLarge(h, parent, list)
        PROVE  ContextInv'
    <3>1. /\ ctx' = [ctx EXCEPT ![h] = [Free EXCEPT !.local = TRUE]]
          /\ live' = live \cup {h} /\ reports' = TRUE
      BY <2>4 DEF LocalDefineTooLarge
    <3> QED
      BY <3>1, FreeOK, ContextChange
  <2>5. CASE CreateFails(h)
    BY <1>2, <2>5 DEF CreateFails
  <2>6. CASE Destroy(h) \/ LeaveScope(h)
    <3>1. ctx' = [ctx EXCEPT ![h] = Free] /\ live' = live \ {h} /\ reports' = reports
      BY <2>6 DEF Destroy, LeaveScope
    <3> QED
      BY <1>1, <3>1, FreeOK, ContextChange
  <2> QED
    BY <2>1, <2>2, <2>3, <2>4, <2>5, <2>6
<1> QED
  BY <1>2, <1>3

(* In every state a context that is sound has each of its values where its *)
(* pair says, apart from the others and inside the area counted for it by  *)
(* COUNT_DATA_BYTES, a local one is within its stack arrays, and the pairs *)
(* are one tree: what log_context_create and the macros leave behind.      *)
THEOREM ContextInvariance == Spec => []ContextInv
<1> QED
  BY ContextInit, ContextStep, PTL DEF Spec

-----------------------------------------------------------------------------
(* What the invariant implies *)

(* Values apart share no byte. *)
LEMMA ApartDisjoint ==
  ASSUME NEW o \in Nat, NEW c, Len(c) \in Nat, NEW n \in Nat, NEW d, Len(d) \in Nat,
         Apart(o, c, n, d)
  PROVE  (o .. o + Len(c) - 1) \cap (n .. n + Len(d) - 1) = {}
BY DEF Apart

(* Values laid out apart below the counted length fit and do not overlap. *)
LEMMA InvFits == ContextInv => ValuesFit
<1> SUFFICES ASSUME ContextInv
             PROVE  ValuesFit
  OBVIOUS
<1>1. TypeOK
  <2>1. ASSUME NEW h \in Handles
        PROVE  /\ ctx[h].local \in BOOLEAN
               /\ ctx[h].length \in 0 .. LengthModulus - 1
               /\ ctx[h].pairs \in Seq([type : Types, area : Handles, offset : Nat])
               /\ DOMAIN ctx[h].data \subseteq Nat
               /\ ctx[h].sound \in BOOLEAN
               /\ h \notin live => ctx[h] = Free
    <3>1. ContextOK(h, ctx[h]) /\ (h \notin live => ctx[h] = Free)
      BY DEF ContextInv
    <3>2. DOMAIN ctx[h].data \subseteq Nat
      BY <3>1, BlockIs DEF ContextOK
    <3> QED
      BY <3>1, <3>2 DEF ContextOK, ValuePair
  <2> QED
    BY <2>1 DEF TypeOK, ContextInv
<1>2. ASSUME NEW h \in live
      PROVE  LET c == ctx[h]
                 Extent(i) == c.pairs[i].offset .. c.pairs[i].offset + Len(Read(c.pairs[i])) - 1
             IN  /\ c.sound => DOMAIN c.data \subseteq 0 .. c.length - 1
                 /\ c.sound =>
                      \A i, j \in 1 .. Len(c.pairs) : i # j => Extent(i) \cap Extent(j) = {}
                 /\ c.local => Len(c.pairs) <= MaxPairCount /\ c.length <= MaxDataSize
  <2> DEFINE c == ctx[h]
             Extent(i) == c.pairs[i].offset .. c.pairs[i].offset + Len(Read(c.pairs[i])) - 1
  <2>1. h \in Handles /\ ContextOK(h, c)
    BY DEF ContextInv
  <2>2. c.local => Len(c.pairs) <= MaxPairCount /\ c.length <= MaxDataSize
    BY <2>1 DEF ContextOK
  <2>3. ASSUME c.sound
        PROVE  DOMAIN c.data \subseteq 0 .. c.length - 1
    <3>1. /\ c.data \in Block /\ \A o \in DOMAIN c.data : o < c.length
          /\ c.length \in 0 .. LengthModulus - 1
      BY <2>1, <2>3 DEF ContextOK, Laid
    <3>2. LengthModulus \in Nat
      BY ContextAssumption
    <3>3. \A o \in DOMAIN c.data : o \in Nat
      BY <3>1, BlockIs
    <3> HIDE DEF c
    <3> QED
      BY <3>1, <3>2, <3>3
  <2>4. ASSUME c.sound, NEW i \in 1 .. Len(c.pairs), NEW j \in 1 .. Len(c.pairs), i # j
        PROVE  Extent(i) \cap Extent(j) = {}
    <3>1. Reads(h) = Own(c)
      BY <2>1, ReadsOwn
    <3>2. Read(c.pairs[i]) = Own(c)[i] /\ Read(c.pairs[j]) = Own(c)[j]
      BY <3>1 DEF Reads
    <3>3. Laid(c.pairs, c.data, Own(c), c.length) /\ c.pairs \in Seq(ValuePair)
      BY <2>1, <2>4 DEF ContextOK
    <3>4. /\ Apart(c.pairs[i].offset, Own(c)[i], c.pairs[j].offset, Own(c)[j])
          /\ Value(Own(c)[i], c.pairs[i].type) /\ Value(Own(c)[j], c.pairs[j].type)
      BY <2>4, <3>3 DEF Laid
    <3>5. Len(Own(c)[i]) \in Nat /\ Len(Own(c)[j]) \in Nat
      BY <3>4, ValueCells
    <3>6. c.pairs[i].offset \in Nat /\ c.pairs[j].offset \in Nat
      <4>1. c.pairs[i] \in ValuePair /\ c.pairs[j] \in ValuePair
        BY <3>3
      <4> QED
        BY <4>1 DEF ValuePair
    <3> HIDE DEF c
    <3>7. /\ Extent(i) = c.pairs[i].offset .. c.pairs[i].offset + Len(Own(c)[i]) - 1
          /\ Extent(j) = c.pairs[j].offset .. c.pairs[j].offset + Len(Own(c)[j]) - 1
      BY <3>2
    <3> HIDE DEF Extent
    <3> QED
      BY <3>4, <3>5, <3>6, <3>7, ApartDisjoint
  <2> QED
    BY <2>2, <2>3, <2>4
<1> QED
  BY <1>1, <1>2 DEF ValuesFit

(* Every byte a definition stores is inside the area counted beforehand,   *)
(* no two values share one, and local contexts are within their arrays:    *)
(* COUNT_DATA_BYTES and SETUP_PROPERTY_PAIR agree, for every list of       *)
(* properties and every chain of parents.                                  *)
THEOREM ValuesFitHolds == Spec => []ValuesFit
<1>1. ContextInv => ValuesFit
  BY InvFits
<1> QED
  BY <1>1, ContextInvariance, PTL

(* A context that says one tree has the pairs of one tree. *)
LEMMA InvOneTree == ContextInv => ContextIsOneTree
<1> SUFFICES ASSUME ContextInv, NEW h \in live, ctx[h].sound, ctx[h].pairs # <<>>
             PROVE  OneTree(ReadBack(h))
  BY DEF ContextIsOneTree
<1>1. h \in Handles /\ ContextOK(h, ctx[h])
  BY DEF ContextInv
<1>2. ReadBack(h) = Tells(ctx[h])
  BY <1>1, ReadsOwn
<1> QED
  BY <1>1, <1>2 DEF ContextOK

(* The pairs of a context are one tree, whose structs count their fields   *)
(* in a byte: a reader that trusts the counts visits every pair.           *)
THEOREM ContextIsOneTreeHolds == Spec => []ContextIsOneTree
<1>1. ContextInv => ContextIsOneTree
  BY InvOneTree
<1> QED
  BY <1>1, ContextInvariance, PTL

-----------------------------------------------------------------------------
(* Contexts are immutable values *)

Says(c) == IF c.sound THEN Tells(c) ELSE <<>>

Contents == [h \in Handles |-> IF ctx[h].sound THEN ReadBack(h) ELSE <<>>]

(* The refinement mapping reads what each sound context says. *)
LEMMA ContentsAre == ContextInv => Contents = [h \in Handles |-> Says(ctx[h])]
<1> SUFFICES ASSUME ContextInv
             PROVE  Contents = [h \in Handles |-> Says(ctx[h])]
  OBVIOUS
<1>1. ASSUME NEW h \in Handles
      PROVE  (IF ctx[h].sound THEN ReadBack(h) ELSE <<>>) = Says(ctx[h])
  <2>1. h \in live \/ ctx[h].pairs = <<>>
    BY DEF ContextInv, Free
  <2>2. ReadBack(h) = Tells(ctx[h])
    BY <2>1, ReadsOwn
  <2> QED
    BY <2>2 DEF Says
<1> QED
  BY <1>1 DEF Contents

(* A context without pairs says nothing. *)
LEMMA EmptySays ==
  ASSUME NEW c, IsEmpty(c)
  PROVE  Says(c) = <<>>
<1>1. c.sound /\ Len(c.pairs) = 0
  BY DEF IsEmpty
<1>2. Tells(c) = <<>>
  BY <1>1 DEF Tells
<1> QED
  BY <1>1, <1>2 DEF Says

(* Nor does a handle not in use, or a local that was too large. *)
LEMMA FreeSays == Says(Free) = <<>> /\ Says([Free EXCEPT !.local = TRUE]) = <<>>
<1> DEFINE c == [Free EXCEPT !.local = TRUE]
<1>1. IsEmpty(Free) /\ IsEmpty(c)
  BY DEF IsEmpty, Free
<1> HIDE DEF c
<1> QED
  BY <1>1, EmptySays DEF c

(* How a step of h changes the contents. *)
LEMMA ContentsChange ==
  ASSUME ContextInv, Contents = [x \in Handles |-> Says(ctx[x])],
         Contents' = [x \in Handles |-> Says(ctx'[x])],
         NEW h \in Handles, NEW c, ctx' = [ctx EXCEPT ![h] = c]
  PROVE  /\ Contents' = [Contents EXCEPT ![h] = Says(c)]
         /\ h \notin live /\ Says(c) = <<>> => Contents' = Contents
<1>1. \A x \in Handles : ctx'[x] = IF x = h THEN c ELSE ctx[x]
  BY DEF ContextInv
<1>2. ASSUME NEW x \in Handles
      PROVE  Says(ctx'[x]) = IF x = h THEN Says(c) ELSE Says(ctx[x])
  BY <1>1
<1>3. Contents' = [x \in Handles |-> IF x = h THEN Says(c) ELSE Says(ctx[x])]
  BY <1>2
<1>4. [Contents EXCEPT ![h] = Says(c)] =
        [x \in Handles |-> IF x = h THEN Says(c) ELSE Says(ctx[x])]
  OBVIOUS
<1>5. ASSUME h \notin live, Says(c) = <<>>
      PROVE  Contents' = Contents
  <2>1. Says(ctx[h]) = <<>>
    BY <1>5, FreeSays DEF ContextInv
  <2> QED
    BY <1>3, <1>5, <2>1
<1> QED
  BY <1>3, <1>4, <1>5

(* A definition defines: with the tree asked for, or with nothing. *)
LEMMA DefineMaps ==
  ASSUME ContextInv, Contents = [x \in Handles |-> Says(ctx[x])],
         Contents' = [x \in Handles |-> Says(ctx'[x])],
         NEW h \in Handles, NEW c, ctx' = [ctx EXCEPT ![h] = c],
         h \notin live, live' = live \cup {h},
         NEW parent \in live \cup {NULL}, NEW list \in PropertyLists,
         \/ Says(c) = <<>>
         \/ c.sound /\ Sound(parent, list) /\ Tells(c) = Store_!Tree(Inherited(parent), list)
  PROVE  Store_!Define(h)
<1>1. /\ Contents' = [Contents EXCEPT ![h] = Says(c)]
      /\ Says(c) = <<>> => Contents' = Contents
  BY ContentsChange
<1>2. SUFFICES \E inherited \in {<<>>} \cup {Contents[p] : p \in live} :
                 Contents' \in {[Contents EXCEPT ![h] = Store_!Tree(inherited, list)], Contents}
  BY DEF Store_!Define, Contents
<1>3. CASE Says(c) = <<>>
  BY <1>1, <1>3
<1>4. CASE c.sound /\ Sound(parent, list) /\ Tells(c) = Store_!Tree(Inherited(parent), list)
  <2>1. Says(c) = Store_!Tree(Inherited(parent), list)
    BY <1>4 DEF Says
  <2>2. Inherited(parent) \in {<<>>} \cup {Contents[p] : p \in live}
    <3>1. CASE parent = NULL
      BY <3>1 DEF Inherited
    <3>2. CASE parent # NULL
      <4>1. parent \in live /\ parent \in Handles /\ ctx[parent].sound
        BY <1>4, <3>2 DEF ContextInv, Sound
      <4>2. Contents[parent] = Tells(ctx[parent])
        BY <4>1 DEF Says
      <4> QED
        BY <3>2, <4>1, <4>2 DEF Inherited
    <3> QED
      BY <3>1, <3>2
  <2> QED
    BY <1>1, <2>1, <2>2
<1> QED
  BY <1>3, <1>4

(* Every step is one of the contents, or leaves them alone. *)
LEMMA StepMaps ==
  ASSUME ContextInv, Contents = [x \in Handles |-> Says(ctx[x])],
         Contents' = [x \in Handles |-> Says(ctx'[x])],
         [Next]_vars
  PROVE  [Store_!Next]_(Store_!storeVars)
<1>1. CASE UNCHANGED vars
  <2>1. Contents' = Contents /\ live' = live
    BY <1>1 DEF vars
  <2> QED
    BY <2>1 DEF Store_!storeVars, Contents
<1>2. CASE Next
  <2>1. PICK h \in Handles :
          \/ \E parent \in live \cup {NULL}, list \in PropertyLists :
               \/ Create(h, parent, list)
               \/ LocalDefine(h, parent, list)
               \/ LocalDefineTooLarge(h, parent, list)
          \/ CreateFails(h)
          \/ Destroy(h)
          \/ LeaveScope(h)
    BY <1>2 DEF Next
  <2>2. ASSUME NEW parent \in live \cup {NULL}, NEW list \in PropertyLists, NEW isLocal \in BOOLEAN,
               h \notin live, live' = live \cup {h},
               ctx' = [ctx EXCEPT ![h] = Defined(h, parent, list, isLocal)]
        PROVE  Store_!Define(h)
    <3> DEFINE c == Defined(h, parent, list, isLocal)
    <3>1. c.sound = Sound(parent, list)
      BY DefinedShape
    <3>2. CASE Sound(parent, list)
      <4>1. Tells(c) = Store_!Tree(Inherited(parent), list)
        BY <3>2, DefinedTree
      <4> HIDE DEF c
      <4> QED
        BY <2>2, <3>1, <3>2, <4>1, DefineMaps DEF c
    <3>3. CASE ~Sound(parent, list)
      <4>1. Says(c) = <<>>
        BY <3>1, <3>3 DEF Says
      <4> HIDE DEF c
      <4> QED
        BY <2>2, <4>1, DefineMaps DEF c
    <3> QED
      BY <3>2, <3>3
  <2>3. ASSUME NEW parent \in live \cup {NULL}, NEW list \in PropertyLists,
               LocalDefineTooLarge(h, parent, list)
        PROVE  Store_!Define(h)
    <3> DEFINE c == [Free EXCEPT !.local = TRUE]
    <3>1. h \notin live /\ live' = live \cup {h} /\ ctx' = [ctx EXCEPT ![h] = c]
      BY <2>3 DEF LocalDefineTooLarge
    <3>2. Says(c) = <<>>
      BY FreeSays
    <3> HIDE DEF c
    <3> QED
      BY <3>1, <3>2, DefineMaps
  <2>4. CASE Destroy(h) \/ LeaveScope(h)
    <3> DEFINE c == Free
    <3>1. h \in live /\ live' = live \ {h} /\ ctx' = [ctx EXCEPT ![h] = c]
      BY <2>4 DEF Destroy, LeaveScope
    <3>2. Contents' = [Contents EXCEPT ![h] = <<>>]
      <4>1. Says(c) = <<>>
        BY FreeSays
      <4> HIDE DEF c
      <4>2. Contents' = [Contents EXCEPT ![h] = Says(c)]
        BY <3>1, ContentsChange
      <4> QED
        BY <4>1, <4>2
    <3>3. Store_!Drop(h)
      BY <3>1, <3>2 DEF Store_!Drop, Contents
    <3> QED
      BY <3>3 DEF Store_!Next
  <2>5. ASSUME Store_!Define(h)
        PROVE  Store_!Next
    BY <2>5 DEF Store_!Next
  <2>6. CASE CreateFails(h)
    BY <1>1, <2>6 DEF CreateFails
  <2>7. ASSUME NEW parent \in live \cup {NULL}, NEW list \in PropertyLists,
               Create(h, parent, list) \/ LocalDefine(h, parent, list)
        PROVE  Store_!Define(h)
    <3>1. PICK isLocal \in BOOLEAN : ctx' = [ctx EXCEPT ![h] = Defined(h, parent, list, isLocal)]
      BY <2>7 DEF Create, LocalDefine
    <3>2. h \notin live /\ live' = live \cup {h}
      BY <2>7 DEF Create, LocalDefine
    <3> QED
      BY <2>2, <3>1, <3>2
  <2> QED
    BY <2>1, <2>3, <2>4, <2>5, <2>6, <2>7
<1> QED
  BY <1>1, <1>2

(* A context says what it was defined with, and what its parent said then, *)
(* for as long as it exists, although the parent may be destroyed: copying *)
(* the values and relocating the pairs leave nothing in the parent.        *)
THEOREM ContextImplementsStore == Spec => ImplementsContextStore
<1>1. Init => Store_!Init
  <2> SUFFICES ASSUME Init
               PROVE  Store_!Init
    OBVIOUS
  <2>1. ContextInv /\ live = {} /\ ctx = [h \in Handles |-> Free]
    BY ContextInit DEF Init
  <2>2. Contents = [h \in Handles |-> Says(ctx[h])]
    BY <2>1, ContentsAre
  <2>3. Contents = [h \in Handles |-> <<>>]
    BY <2>1, <2>2, FreeSays
  <2> QED
    BY <2>1, <2>3 DEF Store_!Init, Contents
<1>2. ContextInv /\ ContextInv' /\ [Next]_vars => [Store_!Next]_(Store_!storeVars)
  <2> SUFFICES ASSUME ContextInv, ContextInv', [Next]_vars
               PROVE  [Store_!Next]_(Store_!storeVars)
    OBVIOUS
  <2>1. Contents = [h \in Handles |-> Says(ctx[h])]
    BY ContentsAre
  <2>2. (Contents = [h \in Handles |-> Says(ctx[h])])'
    BY ContentsAre, PTL
  <2>3. Contents' = [h \in Handles |-> Says(ctx'[h])]
    BY <2>2
  <2> QED
    BY <2>1, <2>3, StepMaps
<1> QED
  BY <1>1, <1>2, ContextInvariance, PTL DEF Spec, ImplementsContextStore, Store_!Spec
=============================================================================
