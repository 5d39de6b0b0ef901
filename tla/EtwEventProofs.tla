--------------------------- MODULE EtwEventProofs ---------------------------
(***************************************************************************)
(* Proofs about EtwEvent, for any levels, properties, messages and sizes   *)
(* of the metadata array: nothing is written outside of it, the event that *)
(* is sent describes itself, its content is the message, its properties    *)
(* are there exactly when they fit, and the provider is registered once.   *)
(***************************************************************************)
EXTENDS EtwEvent, FiniteSetTheorems, WellFoundedInduction, TLAPS

-----------------------------------------------------------------------------
(* The metadata of some properties *)

Byte == {"header", "name", "nul", "type", "struct", "fields", "text"} \X Nat
Bytes == Seq(Byte)
Join(a, b) == a \o b

(* f[k] is what the first k of the pieces s have in all. *)
IsFlat(f, s) ==
  /\ f \in [0 .. Len(s) -> Bytes]
  /\ f[0] = <<>>
  /\ \A k \in 1 .. Len(s) : f[k] = Join(f[k - 1], s[k])

Flat(s) == CHOOSE f : IsFlat(f, s)

Pieces(c) == [k \in 1 .. c.count |-> Description(k, c.pairs[k])]

(* The bytes of the first k properties of the call c. *)
Described(c, k) == Flat(Pieces(c))[k]

-----------------------------------------------------------------------------
(* The inductive invariant *)

Called == {"properties", "sized", "format", "format_again", "describe", "values", "return"}
Idle == {"idle", "self_test"}
Room == {"format", "format_again", "describe", "values"}

(* The event is complete, apart from its descriptors. *)
Complete == pc \in {"describe", "values"} \/ emitted

CallType ==
  {c \in [pairs : PairLists, count : Nat, header : Nat, length : Nat] :
     /\ c.count <= Len(c.pairs)
     /\ Len(c.pairs) < CountModulus => c.count = Len(c.pairs)
     /\ c.header \in 1 .. MaxMetadataSize - 1}

CallInv ==
  /\ pc \in Called => call \in CallType
  /\ pc = "self_test" => caller = "init"
  /\ pc \in Idle => i = 0 /\ add_properties
  /\ emitted => pc = "return"

(* The pairs that are counted. *)
Cut == SubSeq(call.pairs, 1, call.count)

(* The metadata of the first n properties is in the array. *)
Holds(n) ==
  /\ n <= call.count
  /\ pos = call.header + Len(Described(call, n))
  /\ Load(metadata, 0, pos) = Join(Header(call.header), Described(call, n))
  /\ \A k \in 1 .. n : call.pairs[k].kind # "unknown"

MetadataInv ==
  /\ pc = "properties" => add_properties /\ Holds(i)
  /\ pc \in {"sized", "format"} \/ Complete =>
       IF add_properties
       THEN call.count <= MaxPropertyCount /\ Holds(call.count)
       ELSE ~Fits(Cut)
  /\ pc = "format_again" => ~add_properties /\ ~Fits(Cut)
  /\ pc \in Room \/ emitted => metadata_size = pos
  /\ (pc \in Room \/ emitted) /\ ~add_properties => pos = call.header
  /\ pc \in Called \ {"return"} \/ emitted =>
       Load(metadata, 0, call.header) = Header(call.header)

Content(length) == Join(Text(length), Nul)

ContentInv ==
  Complete =>
    /\ add_properties => call.length < MaxMetadataSize - pos
    /\ LET shown == Min({call.length, MaxMetadataSize - call.header - 1})
       IN  Load(metadata, pos, shown + 1) = Content(shown)

(* The properties up to the k-th that take a descriptor. *)
Fields(k) == {j \in 1 .. k : call.pairs[j].kind # "struct"}

DataInv ==
  /\ pc \notin {"values", "return"} => data = <<>>
  /\ pc = "values" \/ emitted =>
       /\ data \in Seq([what : {"content", "file", "func", "line", "value"}, n : Nat])
       /\ Len(data) = 4 + Cardinality(Fields(i))
       /\ data[1].n = pos
       /\ \A k \in Fields(i) : data[4 + Cardinality(Fields(k))].n = k
       /\ i <= call.count /\ (~add_properties => i = 0)
       /\ emitted /\ add_properties => i = call.count

EtwInv ==
  /\ StaysInMetadata /\ RegisteredOnce
  /\ CallInv /\ MetadataInv /\ ContentInv /\ DataInv
-----------------------------------------------------------------------------
(* Flattening *)

(* Counting up from 0, in the form of a set of numbers. *)
LEMMA CountUp ==
  ASSUME NEW n \in Nat, NEW T, 0 \in T, \A k \in 0 .. n - 1 : k \in T => k + 1 \in T
  PROVE  \A k \in 0 .. n : k \in T
<1> DEFINE U == {k \in 0 .. n : k \notin T}
           R == OpToRel(<, Nat)
<1>1. SUFFICES ASSUME U # {}
               PROVE  FALSE
  OBVIOUS
<1>2. U \subseteq Nat
  OBVIOUS
<1>3. PICK m \in U : \A j \in U : ~(<<j, m>> \in R)
  <2> HIDE DEF U
  <2> QED
    BY <1>1, <1>2, WFMin, NatLessThanWellFounded
<1>4. m \in 1 .. n /\ m \notin T
  OBVIOUS
<1>5. m - 1 \in 0 .. n - 1 /\ <<m - 1, m>> \in R /\ m - 1 + 1 = m
  BY <1>4 DEF OpToRel
<1>6. m - 1 \notin U
  BY <1>3, <1>5
<1>7. m - 1 \in T
  <2>1. m - 1 \in 0 .. n
    BY <1>4
  <2> QED
    BY <1>6, <2>1
<1> QED
  BY <1>4, <1>5, <1>7

LEMMA JoinOK ==
  ASSUME NEW a \in Bytes, NEW b \in Bytes
  PROVE  /\ Join(a, b) \in Bytes
         /\ Len(Join(a, b)) = Len(a) + Len(b)
         /\ Len(a) \in Nat /\ Len(b) \in Nat
BY DEF Join, Bytes

LEMMA JoinEmpty ==
  /\ <<>> \in Bytes
  /\ \A b \in Bytes : Join(<<>>, b) = b
BY DEF Join, Bytes

LEMMA JoinTwice ==
  ASSUME NEW a \in Bytes, NEW b \in Bytes, NEW c \in Bytes
  PROVE  Join(Join(a, b), c) = Join(a, Join(b, c))
BY DEF Join, Bytes

LEMMA JoinCells ==
  ASSUME NEW a \in Byte, NEW b \in Byte
  PROVE  Join(<<a>>, <<b>>) = <<a, b>>
<1> DEFINE z == <<a>> \o <<b>>
<1>1. <<a>> \in Seq(Byte) /\ <<b>> \in Seq(Byte) /\ Len(<<a>>) = 1 /\ Len(<<b>>) = 1
  OBVIOUS
<1>2. z \in Seq(Byte) /\ Len(z) = 2
  BY <1>1
<1>3. z[1] = a /\ z[2] = b
  BY <1>1
<1> HIDE DEF z
<1>4. <<a, b>> \in Seq(Byte) /\ Len(<<a, b>>) = 2 /\ <<a, b>>[1] = a /\ <<a, b>>[2] = b
  OBVIOUS
<1>5. \A k \in 1 .. 2 : z[k] = <<a, b>>[k]
  BY <1>3, <1>4
<1>6. z = <<a, b>>
  BY <1>2, <1>4, <1>5
<1> QED
  BY <1>6 DEF z, Join

(* Any pieces can be laid one behind the other. *)
LEMMA FlatExists ==
  ASSUME NEW s \in Seq(Bytes)
  PROVE  \E f : IsFlat(f, s)
<1> DEFINE Upto(f, n) ==
             /\ f \in [0 .. n -> Bytes]
             /\ f[0] = <<>>
             /\ \A k \in 1 .. n : f[k] = Join(f[k - 1], s[k])
           T == {n \in Nat : \E f : Upto(f, n)}
<1>1. 0 \in T
  <2>1. Upto([k \in 0 .. 0 |-> <<>>], 0)
    BY JoinEmpty
  <2> QED
    BY <2>1
<1>2. ASSUME NEW n \in 0 .. Len(s) - 1, n \in T
      PROVE  n + 1 \in T
  <2>1. PICK f : Upto(f, n)
    BY <1>2
  <2>2. n \in Nat /\ n + 1 \in 1 .. Len(s) /\ s[n + 1] \in Bytes
    OBVIOUS
  <2> DEFINE h == [k \in 0 .. n + 1 |-> IF k = n + 1 THEN Join(f[n], s[n + 1]) ELSE f[k]]
  <2>3. h \in [0 .. n + 1 -> Bytes] /\ h[0] = <<>>
    <3>1. Join(f[n], s[n + 1]) \in Bytes
      BY <2>1, <2>2, JoinOK
    <3>2. ASSUME NEW k \in 0 .. n + 1, k # n + 1
          PROVE  f[k] \in Bytes
      BY <2>1, <2>2, <3>2
    <3>3. h[0] = f[0]
      BY <2>2
    <3> QED
      BY <2>1, <3>1, <3>2, <3>3
  <2>4. ASSUME NEW k \in 1 .. n + 1
        PROVE  h[k] = Join(h[k - 1], s[k])
    <3>1. h[k - 1] = f[k - 1]
      BY <2>2
    <3>2. CASE k = n + 1
      <4>1. h[k] = Join(f[n], s[n + 1]) /\ k - 1 = n
        BY <2>2, <3>2
      <4> HIDE DEF h
      <4> QED
        BY <3>1, <3>2, <4>1
    <3>3. CASE k \in 1 .. n
      <4>1. h[k] = f[k]
        BY <2>2, <3>3
      <4>2. f[k] = Join(f[k - 1], s[k])
        BY <2>1, <3>3
      <4> HIDE DEF h
      <4> QED
        BY <3>1, <4>1, <4>2
    <3> QED
      BY <2>2, <3>2, <3>3
  <2>5. Upto(h, n + 1)
    <3> HIDE DEF h
    <3> QED
      BY <2>3, <2>4
  <2>6. n + 1 \in Nat
    BY <2>2
  <2> HIDE DEF Upto, h
  <2> QED
    BY <2>5, <2>6
<1>3. Len(s) \in T
  <2> HIDE DEF T
  <2>1. Len(s) \in Nat /\ Len(s) \in 0 .. Len(s)
    OBVIOUS
  <2> QED
    BY <1>1, <1>2, <2>1, CountUp
<1> QED
  BY <1>3 DEF IsFlat

LEMMA FlatOK ==
  ASSUME NEW s \in Seq(Bytes)
  PROVE  IsFlat(Flat(s), s)
BY FlatExists DEF Flat

(* FlattenSeq comes to the same. *)
LEMMA FlattenIs ==
  ASSUME NEW s \in Seq(Bytes)
  PROVE  FlattenSeq(s) = Flat(s)[Len(s)]
<1> DEFINE f == Flat(s)
<1>1. IsFlat(f, s)
  BY FlatOK
<1> HIDE DEF f
<1>2. CASE Len(s) = 0
  <2>1. FlattenSeq(s) = s /\ s = <<>>
    BY <1>2 DEF FlattenSeq
  <2> QED
    BY <1>1, <1>2, <2>1 DEF f, IsFlat
<1>3. CASE Len(s) # 0
  <2> DEFINE F[k \in 1 .. Len(s)] == IF k = 1 THEN s[k] ELSE Join(F[k - 1], s[k])
             g == [k \in 1 .. Len(s) |-> f[k]]
  <2>1. FlattenSeq(s) = F[Len(s)]
    BY <1>3 DEF FlattenSeq, Join
  <2>2. g = [k \in 1 .. Len(s) |-> IF k = 1 THEN s[k] ELSE Join(g[k - 1], s[k])]
    <3>1. ASSUME NEW k \in 1 .. Len(s)
          PROVE  f[k] = IF k = 1 THEN s[k] ELSE Join(g[k - 1], s[k])
      <4>1. f[k] = Join(f[k - 1], s[k]) /\ s[k] \in Bytes
        BY <1>1 DEF IsFlat
      <4>2. CASE k = 1
        <5>1. f[k - 1] = <<>>
          BY <1>1, <4>2 DEF IsFlat
        <5> QED
          BY <4>1, <4>2, <5>1, JoinEmpty
      <4>3. CASE k # 1
        <5>1. g[k - 1] = f[k - 1]
          BY <4>3
        <5> HIDE DEF g
        <5> QED
          BY <4>1, <4>3, <5>1
      <4> QED
        BY <4>2, <4>3
    <3> QED
      BY <3>1, Zenon
  <2>3. F = [k \in 1 .. Len(s) |-> IF k = 1 THEN s[k] ELSE Join(F[k - 1], s[k])]
    <3> HIDE DEF g
    <3> QED
      BY <2>2
  <2> HIDE DEF F
  <2> DEFINE T == {k \in Nat : k = 0 \/ F[k] = f[k]}
  <2>4. ASSUME NEW k \in 0 .. Len(s) - 1, k \in T
        PROVE  k + 1 \in T
    <3>1. k + 1 \in 1 .. Len(s) /\ k + 1 - 1 = k
      OBVIOUS
    <3>2. F[k + 1] = IF k + 1 = 1 THEN s[k + 1] ELSE Join(F[k + 1 - 1], s[k + 1])
      BY <2>3, <3>1
    <3>3. f[k + 1] = Join(f[k], s[k + 1]) /\ f[0] = <<>> /\ s[k + 1] \in Bytes
      BY <1>1, <3>1 DEF IsFlat
    <3>4. CASE k = 0
      BY <3>2, <3>3, <3>4, JoinEmpty
    <3>5. CASE k # 0
      <4>1. F[k] = f[k]
        BY <2>4, <3>5
      <4> QED
        BY <3>1, <3>2, <3>3, <3>5, <4>1
    <3> QED
      BY <3>4, <3>5
  <2>5. Len(s) \in T
    <3>1. Len(s) \in Nat /\ Len(s) \in 0 .. Len(s) /\ 0 \in T
      OBVIOUS
    <3> HIDE DEF T
    <3> QED
      BY <2>4, <3>1, CountUp
  <2> QED
    BY <1>3, <2>1, <2>5 DEF f
<1> QED
  BY <1>2, <1>3

(* More pieces have no fewer bytes. *)
LEMMA FlatGrows ==
  ASSUME NEW s \in Seq(Bytes), NEW n \in 0 .. Len(s)
  PROVE  Len(Flat(s)[n]) <= Len(Flat(s)[Len(s)])
<1> DEFINE f == Flat(s)
           N == Len(s)
           T == {k \in Nat : Len(f[N - k]) <= Len(f[N])}
<1>1. IsFlat(f, s)
  BY FlatOK
<1> HIDE DEF f
<1>2. \A k \in 0 .. N : f[k] \in Bytes /\ Len(f[k]) \in Nat
  BY <1>1 DEF IsFlat
<1>3. 0 \in T
  BY <1>2
<1>4. ASSUME NEW k \in 0 .. N - 1, k \in T
      PROVE  k + 1 \in T
  <2> DEFINE m == N - (k + 1)
  <2>1. m \in 0 .. N /\ m + 1 \in 1 .. N /\ m + 1 = N - k /\ m + 1 - 1 = m
    OBVIOUS
  <2>2. m = N - (k + 1)
    OBVIOUS
  <2> HIDE DEF m
  <2>3. f[m + 1] = Join(f[m], s[m + 1]) /\ s[m + 1] \in Bytes
    BY <1>1, <2>1 DEF IsFlat
  <2>4. Len(f[m]) <= Len(f[m + 1])
    <3>1. f[m] \in Bytes
      BY <1>2, <2>1
    <3>2. Len(f[m + 1]) = Len(f[m]) + Len(s[m + 1]) /\ Len(s[m + 1]) \in Nat
      BY <2>3, <3>1, JoinOK
    <3>3. Len(f[m]) \in Nat
      BY <1>2, <2>1
    <3>4. \A p, q \in Nat : p <= p + q
      OBVIOUS
    <3> QED
      BY <3>2, <3>3, <3>4, Zenon
  <2>5. Len(f[m]) <= Len(f[N])
    <3>1. Len(f[m + 1]) <= Len(f[N])
      BY <1>4, <2>1
    <3>2. Len(f[m]) \in Nat /\ Len(f[m + 1]) \in Nat /\ Len(f[N]) \in Nat
      BY <1>2, <2>1
    <3> QED
      BY <2>4, <3>1, <3>2
  <2> QED
    BY <2>2, <2>5
<1>5. N - n \in T
  <2>1. N \in Nat /\ N - n \in 0 .. N
    OBVIOUS
  <2> HIDE DEF T
  <2> QED
    BY <1>3, <1>4, <2>1, CountUp
<1>6. Len(f[N - (N - n)]) <= Len(f[N]) /\ N - (N - n) = n
  BY <1>5
<1> QED
  BY <1>6 DEF f

-----------------------------------------------------------------------------
(* The array *)

(* A write at n reaches the bytes from n on, one for each cell. *)
LEMMA StoreAt ==
  ASSUME NEW b, NEW n \in Nat, NEW cells \in Bytes
  PROVE  /\ DOMAIN Store(b, n, cells) = DOMAIN b \cup n .. n + Len(cells) - 1
         /\ \A o \in DOMAIN b \cup n .. n + Len(cells) - 1 :
              Store(b, n, cells)[o] =
                IF o - n + 1 \in 1 .. Len(cells) THEN cells[o - n + 1] ELSE b[o]
<1>1. DOMAIN cells = 1 .. Len(cells) /\ Len(cells) \in Nat
  BY DEF Bytes
<1>2. {n + k - 1 : k \in DOMAIN cells} = n .. n + Len(cells) - 1
  <2>1. \A o \in n .. n + Len(cells) - 1 : o - n + 1 \in 1 .. Len(cells) /\ o = n + (o - n + 1) - 1
    BY <1>1
  <2>2. \A k \in 1 .. Len(cells) : n + k - 1 \in n .. n + Len(cells) - 1
    BY <1>1
  <2> QED
    BY <1>1, <2>1, <2>2
<1>3. Store(b, n, cells) =
        [o \in DOMAIN b \cup n .. n + Len(cells) - 1 |->
           IF o - n + 1 \in 1 .. Len(cells) THEN cells[o - n + 1] ELSE b[o]]
  BY <1>1, <1>2 DEF Store
<1> QED
  BY <1>3

LEMMA StoreInside ==
  ASSUME NEW b, NEW n \in Nat, NEW cells \in Bytes, NEW size \in Nat,
         DOMAIN b \subseteq 0 .. size - 1, n + Len(cells) <= size
  PROVE  DOMAIN Store(b, n, cells) \subseteq 0 .. size - 1
<1>1. Len(cells) \in Nat
  BY DEF Bytes
<1>2. n .. n + Len(cells) - 1 \subseteq 0 .. size - 1
  BY <1>1
<1>3. DOMAIN Store(b, n, cells) = DOMAIN b \cup n .. n + Len(cells) - 1
  BY StoreAt, Zenon
<1> QED
  BY <1>2, <1>3

(* What is below it stays. *)
LEMMA StoreBelow ==
  ASSUME NEW b, NEW n \in Nat, NEW cells \in Bytes, NEW a \in Nat, NEW m \in Nat, a + m <= n
  PROVE  Load(Store(b, n, cells), a, m) = Load(b, a, m)
<1> DEFINE st == Store(b, n, cells)
<1>1. /\ DOMAIN st = DOMAIN b \cup n .. n + Len(cells) - 1
      /\ \A o \in DOMAIN b \cup n .. n + Len(cells) - 1 :
           st[o] = IF o - n + 1 \in 1 .. Len(cells) THEN cells[o - n + 1] ELSE b[o]
      /\ Len(cells) \in Nat
  <2>1. Len(cells) \in Nat
    BY DEF Bytes
  <2> QED
    BY <2>1, StoreAt, Zenon
<1> HIDE DEF st
<1>2. ASSUME NEW k \in 1 .. m
      PROVE  /\ a + k - 1 \in DOMAIN st <=> a + k - 1 \in DOMAIN b
             /\ a + k - 1 \in DOMAIN b => st[a + k - 1] = b[a + k - 1]
  <2> DEFINE o == a + k - 1
  <2>1. o \notin n .. n + Len(cells) - 1 /\ o - n + 1 \notin 1 .. Len(cells)
    BY <1>1
  <2> HIDE DEF o
  <2>2. (o \in DOMAIN st <=> o \in DOMAIN b) /\ (o \in DOMAIN b => st[o] = b[o])
    BY <1>1, <2>1
  <2> QED
    BY <2>2 DEF o
<1>3. \A k \in 1 .. m :
        (IF a + k - 1 \in DOMAIN st THEN st[a + k - 1] ELSE Garbage)
          = (IF a + k - 1 \in DOMAIN b THEN b[a + k - 1] ELSE Garbage)
  BY <1>2
<1>4. Load(st, a, m) = Load(b, a, m)
  BY <1>3 DEF Load
<1> QED
  BY <1>4 DEF st

(* What was written is read. *)
LEMMA StoreRead ==
  ASSUME NEW b, NEW n \in Nat, NEW cells \in Bytes
  PROVE  Load(Store(b, n, cells), n, Len(cells)) = cells
<1> DEFINE st == Store(b, n, cells)
<1>1. /\ DOMAIN st = DOMAIN b \cup n .. n + Len(cells) - 1
      /\ \A o \in DOMAIN b \cup n .. n + Len(cells) - 1 :
           st[o] = IF o - n + 1 \in 1 .. Len(cells) THEN cells[o - n + 1] ELSE b[o]
      /\ Len(cells) \in Nat
  <2>1. Len(cells) \in Nat
    BY DEF Bytes
  <2> QED
    BY <2>1, StoreAt, Zenon
<1> HIDE DEF st
<1>2. ASSUME NEW k \in 1 .. Len(cells)
      PROVE  n + k - 1 \in DOMAIN st /\ st[n + k - 1] = cells[k]
  <2> DEFINE o == n + k - 1
  <2>1. o \in n .. n + Len(cells) - 1 /\ o - n + 1 = k
    BY <1>1
  <2> HIDE DEF o
  <2>2. o \in DOMAIN st /\ st[o] = cells[k]
    BY <1>1, <2>1
  <2> QED
    BY <2>2 DEF o
<1>3. Load(st, n, Len(cells)) = [k \in 1 .. Len(cells) |-> cells[k]]
  BY <1>2 DEF Load
<1>4. cells = [k \in 1 .. Len(cells) |-> cells[k]]
  BY DEF Bytes
<1> QED
  BY <1>3, <1>4 DEF st

LEMMA LoadType ==
  ASSUME NEW b, NEW a \in Nat, NEW m \in Nat
  PROVE  /\ DOMAIN Load(b, a, m) = 1 .. m
         /\ \A k \in 1 .. m :
              Load(b, a, m)[k] = IF a + k - 1 \in DOMAIN b THEN b[a + k - 1] ELSE Garbage
BY DEF Load

(* Reading on. *)
LEMMA LoadJoin ==
  ASSUME NEW b, NEW m \in Nat, NEW n \in Nat, NEW x \in Bytes, NEW y \in Bytes,
         Load(b, 0, m) = x, Load(b, m, n) = y
  PROVE  Load(b, 0, m + n) = Join(x, y)
<1>1. Len(x) = m /\ Len(y) = n
  <2>1. DOMAIN x = 1 .. m /\ DOMAIN y = 1 .. n
    BY LoadType
  <2> QED
    BY <2>1 DEF Bytes
<1> DEFINE z == Join(x, y)
<1>2. /\ z = [k \in 1 .. m + n |-> z[k]]
      /\ \A k \in 1 .. m : z[k] = x[k]
      /\ \A k \in m + 1 .. m + n : z[k] = y[k - m]
  <2>1. x \in Seq(Byte) /\ y \in Seq(Byte) /\ z = x \o y
    BY DEF Join, Bytes
  <2>2. z \in Seq(Byte) /\ Len(z) = m + n
    <3>1. z \in Bytes /\ Len(z) = Len(x) + Len(y)
      BY JoinOK, Zenon
    <3> HIDE DEF z
    <3> QED
      BY <1>1, <3>1 DEF Bytes
  <2> HIDE DEF z
  <2>3. z = [k \in 1 .. m + n |-> z[k]]
    BY <2>2
  <2>4. \A k \in 1 .. m : z[k] = x[k]
    BY <1>1, <2>1
  <2>5. \A k \in m + 1 .. m + n : z[k] = y[k - m]
    BY <1>1, <2>1
  <2> QED
    BY <2>3, <2>4, <2>5
<1> HIDE DEF z
<1>3. ASSUME NEW k \in 1 .. m + n
      PROVE  z[k] = IF 0 + k - 1 \in DOMAIN b THEN b[0 + k - 1] ELSE Garbage
  <2>1. CASE k \in 1 .. m
    <3>1. x[k] = IF 0 + k - 1 \in DOMAIN b THEN b[0 + k - 1] ELSE Garbage
      BY <2>1 DEF Load
    <3> QED
      BY <1>2, <2>1, <3>1
  <2>2. CASE k \in m + 1 .. m + n
    <3>1. k - m \in 1 .. n /\ m + (k - m) - 1 = 0 + k - 1
      BY <2>2
    <3>2. y[k - m] = IF m + (k - m) - 1 \in DOMAIN b THEN b[m + (k - m) - 1] ELSE Garbage
      BY <3>1 DEF Load
    <3> QED
      BY <1>2, <2>2, <3>1, <3>2
  <2>3. k \in 1 .. m \/ k \in m + 1 .. m + n
    OBVIOUS
  <2> QED
    BY <2>1, <2>2, <2>3
<1>4. Load(b, 0, m + n) = [k \in 1 .. m + n |-> z[k]]
  BY <1>3 DEF Load
<1> QED
  BY <1>2, <1>4 DEF z

(* One byte written again where it is already. *)
LEMMA StoreSame ==
  ASSUME NEW b, NEW n \in Nat, NEW cell \in Byte, NEW a \in Nat, NEW m \in Nat,
         DOMAIN b \subseteq Nat, n \in DOMAIN b, b[n] = cell
  PROVE  Load(Store(b, n, <<cell>>), a, m) = Load(b, a, m)
<1> DEFINE cells == <<cell>>
           st == Store(b, n, cells)
<1>1. cells \in Bytes /\ Len(cells) = 1 /\ cells[1] = cell
  BY DEF Bytes
<1>2. \A o : o \in n .. n <=> o = n
  OBVIOUS
<1>3. DOMAIN st = DOMAIN b /\ \A o \in DOMAIN b : st[o] = b[o]
  <2> HIDE DEF cells
  <2>1. /\ DOMAIN st = DOMAIN b \cup n .. n + 1 - 1
        /\ \A o \in DOMAIN b \cup n .. n + 1 - 1 :
             st[o] = IF o - n + 1 \in 1 .. 1 THEN cells[o - n + 1] ELSE b[o]
    <3>1. /\ DOMAIN st = DOMAIN b \cup n .. n + Len(cells) - 1
          /\ \A o \in DOMAIN b \cup n .. n + Len(cells) - 1 :
               st[o] = IF o - n + 1 \in 1 .. Len(cells) THEN cells[o - n + 1] ELSE b[o]
      BY <1>1, StoreAt, Zenon
    <3> HIDE DEF st
    <3> QED
      BY <1>1, <3>1
  <2>2. n + 1 - 1 = n
    OBVIOUS
  <2>3. DOMAIN st = DOMAIN b
    BY <1>2, <2>1, <2>2
  <2>4. ASSUME NEW o \in DOMAIN b
        PROVE  st[o] = b[o]
    <3>1. CASE o = n
      <4>1. o - n + 1 = 1 /\ o - n + 1 \in 1 .. 1
        BY <3>1
      <4> QED
        BY <1>1, <2>1, <3>1, <4>1
    <3>2. CASE o # n /\ o - n + 1 \in 1 .. 1
      BY <2>1, <1>1, <3>2
    <3>3. CASE o - n + 1 \notin 1 .. 1
      BY <2>1, <3>3
    <3> QED
      BY <3>1, <3>2, <3>3
  <2> QED
    BY <2>3, <2>4
<1>4. Load(st, a, m) = Load(b, a, m)
  <2> HIDE DEF st
  <2> QED
    BY <1>3 DEF Load
<1> QED
  BY <1>4

-----------------------------------------------------------------------------
(* The bytes of an event *)

Pair == [kind : Kinds, name : Nat, fields : 0 .. 255]

LEMMA PartsOK ==
  /\ \A n \in Nat : Header(n) \in Bytes /\ Len(Header(n)) = n
  /\ \A n \in Nat : Text(n) \in Bytes /\ Len(Text(n)) = n
  /\ \A n \in Nat, k \in Nat : Name(k, n) \in Bytes /\ Len(Name(k, n)) = n
  /\ Nul \in Bytes /\ Len(Nul) = 1
<1>1. ASSUME NEW n \in Nat
      PROVE  Header(n) \in Bytes /\ Len(Header(n)) = n
  <2>1. \A k \in 1 .. n : <<"header", k>> \in Byte
    BY DEF Byte
  <2> QED
    BY <2>1 DEF Header, Bytes
<1>2. ASSUME NEW n \in Nat
      PROVE  Text(n) \in Bytes /\ Len(Text(n)) = n
  <2>1. \A k \in 1 .. n : <<"text", k>> \in Byte
    BY DEF Byte
  <2> QED
    BY <2>1 DEF Text, Bytes
<1>3. ASSUME NEW n \in Nat, NEW k \in Nat
      PROVE  Name(k, n) \in Bytes /\ Len(Name(k, n)) = n
  <2>1. <<"name", k>> \in Byte
    BY DEF Byte
  <2> QED
    BY <2>1 DEF Name, Bytes
<1>4. Nul \in Bytes /\ Len(Nul) = 1
  <2>1. <<"nul", 0>> \in Byte
    BY DEF Byte
  <2> QED
    BY <2>1 DEF Nul, Bytes
<1> QED
  BY <1>1, <1>2, <1>3, <1>4

(* A property is described by its name, a terminator, its type and, for a  *)
(* struct, the number of its fields.                                       *)
LEMMA DescriptionOK ==
  ASSUME NEW k \in Nat, NEW p \in Pair
  PROVE  /\ Description(k, p) \in Bytes
         /\ Len(Description(k, p)) = p.name + 2 + (IF p.kind = "struct" THEN 1 ELSE 0)
<1> DEFINE last == IF p.kind = "struct" THEN <<<<"struct", k>>, <<"fields", p.fields>>>>
                                        ELSE <<<<"type", k>>>>
<1>1. <<"struct", k>> \in Byte /\ <<"fields", p.fields>> \in Byte /\ <<"type", k>> \in Byte
  BY DEF Byte, Pair
<1>2. last \in Bytes /\ Len(last) = 1 + (IF p.kind = "struct" THEN 1 ELSE 0)
  BY <1>1 DEF Bytes
<1>3. Name(k, p.name) \in Bytes /\ Len(Name(k, p.name)) = p.name /\ p.name \in Nat
      /\ Nul \in Bytes /\ Len(Nul) = 1
  BY PartsOK DEF Pair
<1>4. Description(k, p) = Join(Join(Name(k, p.name), Nul), last)
  BY DEF Description, Join
<1> HIDE DEF last
<1>5. Join(Name(k, p.name), Nul) \in Bytes /\ Len(Join(Name(k, p.name), Nul)) = p.name + 1
  BY <1>3, JoinOK
<1>6. /\ Description(k, p) \in Bytes
      /\ Len(Description(k, p)) = p.name + 1 + Len(last)
  BY <1>2, <1>4, <1>5, JoinOK
<1> QED
  BY <1>2, <1>3, <1>6

LEMMA CallOK ==
  ASSUME NEW c \in CallType
  PROVE  /\ c.count \in Nat /\ c.header \in Nat /\ c.length \in Nat
         /\ c.header >= 1 /\ c.header < MaxMetadataSize
         /\ \A k \in 1 .. c.count : c.pairs[k] \in Pair
         /\ c.pairs \in Seq(Pair) /\ c.count <= Len(c.pairs)
         /\ Len(c.pairs) < CountModulus => c.count = Len(c.pairs)
<1>1. c.pairs \in Seq(Pair) /\ c.count \in Nat /\ c.count <= Len(c.pairs)
  BY EtwAssumption DEF CallType, Pair
<1>2. \A k \in 1 .. c.count : c.pairs[k] \in Pair
  BY <1>1
<1> QED
  BY <1>1, <1>2, EtwAssumption DEF CallType

LEMMA PiecesOK ==
  ASSUME NEW c \in CallType
  PROVE  /\ Pieces(c) \in Seq(Bytes) /\ Len(Pieces(c)) = c.count
         /\ \A k \in 1 .. c.count : Pieces(c)[k] = Description(k, c.pairs[k])
<1>1. c.count \in Nat /\ \A k \in 1 .. c.count : Description(k, c.pairs[k]) \in Bytes
  BY CallOK, DescriptionOK
<1> QED
  BY <1>1 DEF Pieces

LEMMA DescribedOK ==
  ASSUME NEW c \in CallType
  PROVE  /\ Described(c, 0) = <<>>
         /\ \A k \in 0 .. c.count :
              /\ Described(c, k) \in Bytes /\ Len(Described(c, k)) \in Nat
              /\ Len(Described(c, k)) <= Len(Described(c, c.count))
         /\ \A k \in 1 .. c.count :
              Described(c, k) = Join(Described(c, k - 1), Description(k, c.pairs[k]))
<1>1. Pieces(c) \in Seq(Bytes) /\ Len(Pieces(c)) = c.count /\ c.count \in Nat
  BY PiecesOK, CallOK
<1>2. IsFlat(Flat(Pieces(c)), Pieces(c))
  BY <1>1, FlatOK
<1>3. \A k \in 0 .. c.count : Described(c, k) \in Bytes
  BY <1>1, <1>2 DEF IsFlat, Described
<1>4. \A k \in 0 .. c.count : Len(Described(c, k)) \in Nat
  BY <1>3 DEF Bytes
<1>5. \A k \in 0 .. c.count : Len(Described(c, k)) <= Len(Described(c, c.count))
  BY <1>1, FlatGrows DEF Described
<1>6. Described(c, 0) = <<>>
  BY <1>2 DEF IsFlat, Described
<1>7. ASSUME NEW k \in 1 .. c.count
      PROVE  Described(c, k) = Join(Described(c, k - 1), Description(k, c.pairs[k]))
  <2>1. Pieces(c)[k] = Description(k, c.pairs[k])
    BY PiecesOK
  <2> QED
    BY <1>1, <1>2, <2>1 DEF IsFlat, Described
<1> QED
  BY <1>3, <1>4, <1>5, <1>6, <1>7

LEMMA CutOK ==
  ASSUME call \in CallType
  PROVE  /\ Len(Cut) = call.count /\ DOMAIN Cut = 1 .. call.count
         /\ \A k \in 1 .. call.count : Cut[k] = call.pairs[k]
<1>1. call.pairs \in Seq(Pair) /\ call.count \in Nat /\ call.count <= Len(call.pairs)
  BY CallOK
<1> QED
  BY <1>1 DEF Cut

LEMMA EncodingIs ==
  ASSUME call \in CallType
  PROVE  /\ Encoding(Cut) = Join(Header(call.header), Described(call, call.count))
         /\ Encoding(<<>>) = Header(call.header)
         /\ Len(Encoding(Cut)) = call.header + Len(Described(call, call.count))
<1>1. [k \in 1 .. Len(Cut) |-> Description(k, Cut[k])] = Pieces(call)
  BY CutOK DEF Pieces
<1>2. FlattenSeq(Pieces(call)) = Described(call, call.count)
  BY PiecesOK, FlattenIs DEF Described
<1>3. Encoding(Cut) = Join(Header(call.header), Described(call, call.count))
  BY <1>1, <1>2 DEF Encoding, Join
<1>4. /\ Header(call.header) \in Bytes /\ Len(Header(call.header)) = call.header
      /\ Described(call, call.count) \in Bytes
  BY CallOK, PartsOK, DescribedOK
<1>5. Encoding(<<>>) = Header(call.header)
  <2>1. [k \in 1 .. Len(<<>>) |-> Description(k, <<>>[k])] = <<>>
    OBVIOUS
  <2>2. FlattenSeq(<<>>) = <<>>
    BY DEF FlattenSeq
  <2>3. Encoding(<<>>) = Header(call.header) \o <<>>
    BY <2>1, <2>2 DEF Encoding
  <2> QED
    BY <1>4, <2>3 DEF Bytes
<1> QED
  BY <1>3, <1>4, <1>5, JoinOK

LEMMA FitsIs ==
  ASSUME call \in CallType
  PROVE  Fits(Cut) <=>
           /\ call.count <= MaxPropertyCount
           /\ \A k \in 1 .. call.count : call.pairs[k].kind # "unknown"
           /\ call.header + Len(Described(call, call.count)) + call.length + 1 <= MaxMetadataSize
BY CutOK, EncodingIs DEF Fits

-----------------------------------------------------------------------------
(* The sink and the calls as a whole *)

LEMMA ZeroOK ==
  /\ 0 \in 0 .. MaxTraceLevel + 1 /\ 0 \in 0 .. MaxPropertyCount
  /\ 0 \in 0 .. MaxMetadataSize /\ 0 <= 4 + MaxPropertyCount
BY EtwAssumption

LEMMA EtwInit == Init => EtwInv
<1> SUFFICES ASSUME Init
             PROVE  EtwInv
  OBVIOUS
<1>1. DOMAIN metadata = {} /\ Len(data) = 0
  BY DEF Init
<1>2. StaysInMetadata
  BY <1>1, ZeroOK DEF Init, StaysInMetadata, TypeOK
<1>3. RegisteredOnce /\ CallInv
  BY DEF Init, RegisteredOnce, CallInv, Called
<1>4. MetadataInv /\ ContentInv /\ DataInv
  BY DEF Init, MetadataInv, ContentInv, DataInv, Complete, Called, Room
<1> QED
  BY <1>2, <1>3, <1>4 DEF EtwInv

(* The sink is not in a call, or just begins one. *)
LEMMA OutsideOK ==
  ASSUME StaysInMetadata', RegisteredOnce', CallInv', pc' \in Idle, ~emitted', data' = <<>>
  PROVE  EtwInv'
<1>1. MetadataInv' /\ ContentInv' /\ DataInv'
  BY DEF MetadataInv, ContentInv, DataInv, Complete, Called, Room, Idle
<1> QED
  BY <1>1 DEF EtwInv

LEMMA SinkStep ==
  ASSUME EtwInv, SinkRegister \/ SinkDeinit \/ Return
  PROVE  EtwInv'
<1>1. pc \in {"idle", "return"} /\ pc' \in Idle
  BY DEF SinkRegister, SinkDeinit, Return, Idle
<1>2. TypeOK /\ RegisteredOnce /\ CallInv /\ DOMAIN metadata \subseteq 0 .. MaxMetadataSize - 1
  BY DEF EtwInv, StaysInMetadata
<1>3. pc = "idle" => data = <<>> /\ ~emitted
  BY DEF EtwInv, DataInv, CallInv
<1>4. CASE SinkRegister
  <2>1. /\ pc = "idle" /\ state = "NOT_INITIALIZED" /\ registrations' = registrations + 1
        /\ caller' = "init" /\ pc' = "self_test"
        /\ UNCHANGED <<state, levelPlus1, call, i, metadata, pos, add_properties,
                       metadata_size, data, emitted>>
    BY <1>4 DEF SinkRegister, event
  <2>2. registrations = 0
    BY <1>2, <2>1 DEF RegisteredOnce
  <2>3. StaysInMetadata' /\ RegisteredOnce'
    BY <1>2, <2>1, <2>2 DEF StaysInMetadata, TypeOK, RegisteredOnce
  <2>4. CallInv'
    BY <1>2, <1>3, <2>1 DEF CallInv, Called, Idle
  <2> QED
    BY <1>1, <1>3, <2>1, <2>3, <2>4, OutsideOK
<1>5. CASE SinkDeinit
  <2>1. /\ pc = "idle" /\ state = "INITIALIZED" /\ registrations' = registrations - 1
        /\ levelPlus1' = 0 /\ state' = "NOT_INITIALIZED"
        /\ UNCHANGED <<pc, caller, call, i, metadata, pos, add_properties,
                       metadata_size, data, emitted>>
    BY <1>5 DEF SinkDeinit, event
  <2>2. registrations = 1
    BY <1>2, <2>1 DEF RegisteredOnce
  <2>3. StaysInMetadata' /\ RegisteredOnce'
    BY <1>2, <2>1, <2>2, EtwAssumption DEF StaysInMetadata, TypeOK, RegisteredOnce
  <2>4. CallInv'
    BY <1>2, <1>3, <2>1 DEF CallInv, Called, Idle
  <2> QED
    BY <1>1, <1>3, <2>1, <2>3, <2>4, OutsideOK
<1>6. CASE Return
  <2>1. /\ pc = "return" /\ pc' = "idle" /\ caller' = "log" /\ i' = 0 /\ metadata' = <<>>
        /\ pos' = 0 /\ add_properties' = TRUE /\ metadata_size' = 0 /\ data' = <<>>
        /\ emitted' = FALSE /\ UNCHANGED <<registrations, levelPlus1>>
        /\ state' = IF caller = "init" THEN "INITIALIZED" ELSE state
    BY <1>6 DEF Return
  <2>2. DOMAIN metadata' = {} /\ Len(data') = 0
    BY <2>1
  <2>3. StaysInMetadata'
    BY <1>2, <2>1, <2>2, ZeroOK DEF StaysInMetadata, TypeOK
  <2>4. RegisteredOnce'
    BY <1>2, <2>1 DEF RegisteredOnce
  <2>5. CallInv'
    BY <2>1 DEF CallInv, Called
  <2> QED
    BY <1>1, <2>1, <2>3, <2>4, <2>5, OutsideOK
<1> QED
  BY <1>4, <1>5, <1>6

(* Steps that do not touch the call. *)
LEMMA EnableStep ==
  ASSUME EtwInv, (\E n \in 0 .. MaxTraceLevel + 1 : Enable(n)) \/ UNCHANGED vars
  PROVE  EtwInv'
<1>1. /\ levelPlus1' \in 0 .. MaxTraceLevel + 1
      /\ UNCHANGED <<state, registrations, pc, caller, call, i, metadata, pos, add_properties,
                     metadata_size, data, emitted>>
  BY DEF Enable, vars, sink, event, EtwInv, StaysInMetadata, TypeOK
<1>2. StaysInMetadata' /\ RegisteredOnce' /\ CallInv'
  BY <1>1 DEF EtwInv, StaysInMetadata, TypeOK, RegisteredOnce, CallInv
<1>3. Fits(Cut)' = Fits(Cut) /\ Complete' = Complete /\ \A n : Holds(n)' = Holds(n)
  BY <1>1 DEF Fits, Encoding, Cut, Complete, Holds
<1>4. MetadataInv'
  BY <1>1, <1>3 DEF EtwInv, MetadataInv
<1>5. ContentInv'
  BY <1>1, <1>3 DEF EtwInv, ContentInv
<1>6. DataInv'
  BY <1>1 DEF EtwInv, DataInv, Fields
<1> QED
  BY <1>2, <1>4, <1>5, <1>6 DEF EtwInv

(* A call begins: the header is all there is. *)
LEMMA BeginStep ==
  ASSUME EtwInv, NEW from, NEW level \in Levels, NEW pairs \in PairLists, NEW count \in Nat,
         NEW length \in MessageLengths, count <= Len(pairs),
         Len(pairs) < CountModulus => count = Len(pairs),
         EmitBegin(from, level, pairs, count, length), UNCHANGED sink,
         \/ pc = "idle" /\ from = "log"
         \/ pc = "self_test" /\ from = "init"
  PROVE  EtwInv'
<1>1. /\ caller' = from
      /\ call' = [pairs |-> pairs, count |-> count, header |-> level.header, length |-> length]
      /\ UNCHANGED <<state, registrations, levelPlus1, i, add_properties, metadata_size, data,
                     emitted>>
      /\ \/ /\ pc' = "properties" /\ pos' = level.header
            /\ metadata' = Store(<<>>, 0, Header(level.header))
         \/ pc' = "return" /\ UNCHANGED <<metadata, pos>>
  BY DEF EmitBegin, sink
<1>2. TypeOK /\ RegisteredOnce /\ CallInv /\ DOMAIN metadata \subseteq 0 .. MaxMetadataSize - 1
      /\ data = <<>> /\ ~emitted /\ i = 0 /\ add_properties
  BY DEF EtwInv, StaysInMetadata, DataInv, CallInv, Idle
<1>3. /\ level.header \in 1 .. MaxMetadataSize - 1 /\ level.header \in Nat
      /\ length \in Nat /\ MaxMetadataSize \in Nat
  BY EtwAssumption
<1>4. /\ call' \in CallType /\ call'.header = level.header /\ call'.count = count
  BY <1>1, <1>3 DEF CallType
<1>5. Header(level.header) \in Bytes /\ Len(Header(level.header)) = level.header
  BY <1>3, PartsOK
<1>6. RegisteredOnce'
  BY <1>1, <1>2 DEF RegisteredOnce, CallInv
<1>7. CallInv'
  BY <1>1, <1>2, <1>4 DEF CallInv, Idle
<1>8. CASE pc' = "return" /\ UNCHANGED <<metadata, pos>>
  <2>1. StaysInMetadata'
    <3>1. from \in {"init", "log"}
      OBVIOUS
    <3> QED
      BY <1>1, <1>2, <1>8, <3>1 DEF StaysInMetadata, TypeOK
  <2>2. MetadataInv' /\ ContentInv' /\ DataInv'
    BY <1>1, <1>2, <1>8 DEF MetadataInv, ContentInv, DataInv, Complete, Room, Called
  <2> QED
    BY <1>6, <1>7, <2>1, <2>2 DEF EtwInv
<1>9. CASE /\ pc' = "properties" /\ pos' = level.header
           /\ metadata' = Store(<<>>, 0, Header(level.header))
  <2>1. DOMAIN metadata' \subseteq 0 .. MaxMetadataSize - 1
    <3>1. DOMAIN <<>> \subseteq 0 .. MaxMetadataSize - 1 /\ 0 \in Nat
      OBVIOUS
    <3>2. 0 + Len(Header(level.header)) <= MaxMetadataSize
      BY <1>3, <1>5
    <3> QED
      BY <1>3, <1>5, <1>9, <3>1, <3>2, StoreInside
  <2>2. StaysInMetadata'
    <3>1. from \in {"init", "log"} /\ pos' \in 0 .. MaxMetadataSize
      BY <1>3, <1>9
    <3> QED
      BY <1>1, <1>2, <1>9, <2>1, <3>1 DEF StaysInMetadata, TypeOK
  <2>3. Load(metadata', 0, level.header) = Header(level.header)
    BY <1>5, <1>9, StoreRead
  <2>4. Described(call', 0) = <<>>
    BY <1>4, DescribedOK
  <2>5. Join(Header(level.header), <<>>) = Header(level.header)
    BY <1>5 DEF Join, Bytes
  <2>6. Holds(0)'
    <3>1. pos' = call'.header + Len(Described(call', 0))
      BY <1>3, <1>4, <1>9, <2>4
    <3>2. Load(metadata', 0, pos') = Join(Header(call'.header), Described(call', 0))
      BY <1>4, <1>9, <2>3, <2>4, <2>5
    <3>3. 0 <= call'.count
      BY <1>4
    <3> QED
      BY <3>1, <3>2, <3>3 DEF Holds
  <2>7. MetadataInv'
    BY <1>1, <1>2, <1>4, <1>9, <2>3, <2>6 DEF MetadataInv, Complete, Room, Called
  <2>8. ContentInv' /\ DataInv'
    BY <1>1, <1>2, <1>9 DEF ContentInv, DataInv, Complete
  <2> QED
    BY <1>6, <1>7, <2>2, <2>7, <2>8 DEF EtwInv
<1> QED
  BY <1>1, <1>8, <1>9

-----------------------------------------------------------------------------
(* The loop over the properties *)

LEMMA Within ==
  ASSUME EtwInv, pc \in Called \ {"return"}, pc' \in Called, emitted' => pc' = "return",
         UNCHANGED <<sink, levelPlus1, caller, call>>
  PROVE  RegisteredOnce' /\ CallInv' /\ ~emitted /\ call \in CallType
<1>1. UNCHANGED <<state, registrations>>
  BY DEF sink
<1>2. RegisteredOnce'
  BY <1>1 DEF EtwInv, RegisteredOnce, Called
<1>3. CallInv' /\ ~emitted /\ call \in CallType
  BY DEF EtwInv, CallInv, Called, Idle
<1> QED
  BY <1>2, <1>3

(* The properties are given up, with a reason. *)
LEMMA DropOK ==
  ASSUME EtwInv, pc = "properties", Drop,
         UNCHANGED <<sink, levelPlus1, caller, call, metadata_size, data, emitted>>,
         ~Fits(Cut), DOMAIN metadata' \subseteq 0 .. MaxMetadataSize - 1,
         Load(metadata', 0, call.header) = Header(call.header)
  PROVE  EtwInv'
<1>1. pc' = "sized" /\ ~add_properties' /\ add_properties' \in BOOLEAN /\ UNCHANGED <<i, pos>>
      /\ UNCHANGED <<state, registrations>>
  BY DEF Drop, sink
<1>2. RegisteredOnce' /\ CallInv' /\ ~emitted
  BY <1>1, Within DEF EtwInv, CallInv, Called
<1>3. StaysInMetadata'
  BY <1>1 DEF EtwInv, StaysInMetadata, TypeOK
<1>4. Fits(Cut)' = Fits(Cut)
  BY DEF Fits, Encoding, Cut
<1>5. MetadataInv'
  BY <1>1, <1>2, <1>4 DEF MetadataInv, Complete, Room, Called
<1>6. ContentInv' /\ DataInv'
  BY <1>1, <1>2 DEF EtwInv, ContentInv, DataInv, Complete
<1> QED
  BY <1>2, <1>3, <1>5, <1>6 DEF EtwInv

LEMMA PropertiesFacts ==
  ASSUME EtwInv, pc = "properties"
  PROVE  /\ call \in CallType /\ call.count \in Nat /\ call.header \in Nat /\ call.length \in Nat
         /\ pos \in Nat /\ pos <= MaxMetadataSize /\ MaxMetadataSize \in Nat
         /\ i \in Nat /\ MaxPropertyCount \in Nat /\ call.header <= pos
         /\ add_properties /\ ~emitted /\ data = <<>> /\ Holds(i) /\ i <= call.count
         /\ Load(metadata, 0, call.header) = Header(call.header)
         /\ DOMAIN metadata \subseteq 0 .. MaxMetadataSize - 1
<1>1. call \in CallType /\ add_properties /\ ~emitted /\ data = <<>> /\ Holds(i)
      /\ Load(metadata, 0, call.header) = Header(call.header)
  BY DEF EtwInv, CallInv, MetadataInv, DataInv, Called
<1>2. /\ call.count \in Nat /\ call.header \in Nat /\ call.length \in Nat
      /\ MaxMetadataSize \in Nat /\ MaxPropertyCount \in Nat
  BY <1>1, CallOK, EtwAssumption
<1>3. i \in Nat /\ pos \in Nat /\ pos <= MaxMetadataSize
      /\ DOMAIN metadata \subseteq 0 .. MaxMetadataSize - 1
  BY <1>2 DEF EtwInv, StaysInMetadata, TypeOK
<1>4. i <= call.count /\ pos = call.header + Len(Described(call, i))
  BY <1>1 DEF Holds
<1>5. Len(Described(call, i)) \in Nat
  BY <1>1, <1>2, <1>3, <1>4, DescribedOK
<1> QED
  BY <1>1, <1>2, <1>3, <1>4, <1>5

(* The metadata of the next property: where it ends, and that everything   *)
(* takes no less.                                                          *)
LEMMA NextDescribed ==
  ASSUME EtwInv, pc = "properties", i < call.count
  PROVE  /\ call.pairs[i + 1] \in Pair
         /\ Description(i + 1, call.pairs[i + 1]) \in Bytes
         /\ Described(call, i + 1)
              = Join(Described(call, i), Description(i + 1, call.pairs[i + 1]))
         /\ call.header + Len(Described(call, i + 1))
              = pos + Len(Description(i + 1, call.pairs[i + 1]))
         /\ pos + Len(Description(i + 1, call.pairs[i + 1]))
              <= call.header + Len(Described(call, call.count))
<1> DEFINE d == Description(i + 1, call.pairs[i + 1])
<1>1. /\ call \in CallType /\ i \in Nat /\ call.count \in Nat /\ i + 1 \in 1 .. call.count
      /\ i \in 0 .. call.count /\ i + 1 - 1 = i /\ pos = call.header + Len(Described(call, i))
      /\ call.header \in Nat
  BY PropertiesFacts DEF Holds
<1>2. call.pairs[i + 1] \in Pair
  BY <1>1, CallOK
<1>3. d \in Bytes
  BY <1>1, <1>2, DescriptionOK
<1>4. Described(call, i) \in Bytes /\ Described(call, i + 1) = Join(Described(call, i), d)
  BY <1>1, DescribedOK
<1>5. Len(Described(call, i + 1)) <= Len(Described(call, call.count))
      /\ Len(Described(call, call.count)) \in Nat
  BY <1>1, DescribedOK
<1> HIDE DEF d
<1>6. Len(Described(call, i + 1)) = Len(Described(call, i)) + Len(d)
      /\ Len(d) \in Nat /\ Len(Described(call, i)) \in Nat
  BY <1>3, <1>4, JoinOK
<1>7. /\ call.header + Len(Described(call, i + 1)) = pos + Len(d)
      /\ pos + Len(d) <= call.header + Len(Described(call, call.count))
  <2> DEFINE x == Len(Described(call, i))
             y == Len(Described(call, i + 1))
             z == Len(Described(call, call.count))
             w == Len(d)
  <2>1. /\ pos = call.header + x /\ y = x + w /\ y <= z
        /\ call.header \in Nat /\ x \in Nat /\ z \in Nat /\ w \in Nat
    BY <1>1, <1>5, <1>6
  <2> HIDE DEF x, y, z, w
  <2>2. call.header + y = pos + w /\ pos + w <= call.header + z
    BY <2>1
  <2> QED
    BY <2>2 DEF x, y, z, w
<1> QED
  BY <1>2, <1>3, <1>4, <1>7 DEF d

LEMMA DropStep ==
  ASSUME EtwInv, TooManyProperties \/ DoesNotFit
  PROVE  EtwInv'
<1>1. /\ pc = "properties" /\ Drop
      /\ UNCHANGED <<sink, levelPlus1, caller, call, metadata, metadata_size, data, emitted>>
  BY DEF TooManyProperties, DoesNotFit
<1>2. /\ call \in CallType /\ Load(metadata', 0, call.header) = Header(call.header)
      /\ DOMAIN metadata' \subseteq 0 .. MaxMetadataSize - 1
  BY <1>1, PropertiesFacts
<1>3. CASE TooManyProperties
  <2>1. call.count > MaxPropertyCount
    BY <1>3 DEF TooManyProperties
  <2>2. ~(call.count <= MaxPropertyCount)
    BY <1>1, <2>1, PropertiesFacts
  <2>3. ~Fits(Cut)
    BY <1>2, <2>2, FitsIs
  <2> QED
    BY <1>1, <1>2, <2>3, DropOK
<1>4. CASE DoesNotFit
  <2> DEFINE p == call.pairs[i + 1]
  <2>1. i < call.count /\ ~(MaxMetadataSize - pos >= p.name + 1 + 1)
    BY <1>4 DEF DoesNotFit, NameFits
  <2>2. /\ p \in Pair /\ Description(i + 1, p) \in Bytes
        /\ pos + Len(Description(i + 1, p)) <= call.header + Len(Described(call, call.count))
    BY <1>1, <2>1, NextDescribed
  <2>3. i + 1 \in Nat
    BY <1>1, PropertiesFacts
  <2>4. Len(Description(i + 1, p)) >= p.name + 2 /\ p.name \in Nat
        /\ Len(Description(i + 1, p)) \in Nat
    <3>1. p.name \in Nat /\ Len(Description(i + 1, p)) \in Nat
      BY <2>2 DEF Pair, Bytes
    <3>2. Len(Description(i + 1, p)) = p.name + 2 + (IF p.kind = "struct" THEN 1 ELSE 0)
      BY <2>2, <2>3, DescriptionOK
    <3> HIDE DEF p
    <3> QED
      BY <3>1, <3>2
  <2>5. Len(Described(call, call.count)) \in Nat
    <3>1. call.count \in 0 .. call.count
      BY <1>1, PropertiesFacts
    <3> QED
      BY <1>2, <3>1, DescribedOK
  <2>6. ~(call.header + Len(Described(call, call.count)) + call.length + 1 <= MaxMetadataSize)
    <3> HIDE DEF p
    <3>1. /\ pos \in Nat /\ MaxMetadataSize \in Nat /\ call.header \in Nat
          /\ call.length \in Nat
      BY <1>1, PropertiesFacts
    <3> QED
      BY <2>1, <2>2, <2>4, <2>5, <3>1, SMTT(30)
  <2>7. ~Fits(Cut)
    BY <1>2, <2>6, FitsIs
  <2> QED
    BY <1>1, <1>2, <2>7, DropOK
<1> QED
  BY <1>3, <1>4

(* A property is added whole. *)
LEMMA AddOK ==
  ASSUME EtwInv, pc = "properties", i < call.count, call.count <= MaxPropertyCount,
         call.pairs[i + 1].kind # "unknown",
         metadata' = Store(metadata, pos, Description(i + 1, call.pairs[i + 1])),
         pos' = pos + Len(Description(i + 1, call.pairs[i + 1])),
         pos' <= MaxMetadataSize, i' = i + 1,
         UNCHANGED <<sink, levelPlus1, pc, caller, call, add_properties, metadata_size, data,
                     emitted>>
  PROVE  EtwInv'
<1> DEFINE d == Description(i + 1, call.pairs[i + 1])
<1>1. /\ call \in CallType /\ call.count \in Nat /\ call.header \in Nat
      /\ pos \in Nat /\ pos <= MaxMetadataSize /\ MaxMetadataSize \in Nat
      /\ i \in Nat /\ MaxPropertyCount \in Nat /\ call.header <= pos
      /\ add_properties /\ ~emitted /\ data = <<>> /\ Holds(i)
      /\ Load(metadata, 0, call.header) = Header(call.header)
      /\ DOMAIN metadata \subseteq 0 .. MaxMetadataSize - 1
  BY PropertiesFacts
<1>2. /\ d \in Bytes /\ Described(call, i + 1) = Join(Described(call, i), d)
      /\ call.header + Len(Described(call, i + 1)) = pos + Len(d)
  BY NextDescribed
<1>3. metadata' = Store(metadata, pos, d) /\ pos' = pos + Len(d) /\ Len(d) \in Nat
  BY <1>2 DEF Bytes
<1> HIDE DEF d
<1>4. DOMAIN metadata' \subseteq 0 .. MaxMetadataSize - 1
  BY <1>1, <1>2, <1>3, StoreInside
<1>5. StaysInMetadata'
  <2>1. i' \in 0 .. MaxPropertyCount /\ pos' \in 0 .. MaxMetadataSize
    BY <1>1, <1>3
  <2> QED
    BY <1>4, <2>1 DEF EtwInv, StaysInMetadata, TypeOK, sink
<1>6. Load(metadata', 0, call.header) = Header(call.header)
  <2>1. Load(metadata', 0, call.header) = Load(metadata, 0, call.header)
    <3>1. 0 + call.header <= pos /\ 0 \in Nat
      BY <1>1
    <3> QED
      BY <1>1, <1>2, <1>3, <3>1, StoreBelow
  <2> QED
    BY <1>1, <2>1
<1>7. Holds(i)'
  <2> DEFINE h == Header(call.header)
             b == Described(call, i)
  <2>1. h \in Bytes /\ b \in Bytes /\ Join(h, b) \in Bytes
    <3>1. i \in 0 .. call.count
      BY <1>1
    <3> QED
      BY <1>1, <3>1, PartsOK, DescribedOK, JoinOK
  <2>2. Load(metadata', 0, pos) = Join(h, b)
    <3>1. Load(metadata', 0, pos) = Load(metadata, 0, pos)
      <4>1. 0 + pos <= pos /\ 0 \in Nat
        BY <1>1
      <4> QED
        BY <1>1, <1>2, <1>3, <4>1, StoreBelow
    <3> QED
      BY <1>1, <3>1 DEF Holds
  <2>3. Load(metadata', pos, Len(d)) = d
    BY <1>1, <1>2, <1>3, StoreRead
  <2>4. Load(metadata', 0, pos + Len(d)) = Join(Join(h, b), d)
    <3> HIDE DEF h, b
    <3> QED
      BY <1>1, <1>2, <1>3, <2>1, <2>2, <2>3, LoadJoin
  <2>5. Join(Join(h, b), d) = Join(h, Join(b, d))
    <3> HIDE DEF h, b
    <3> QED
      BY <1>2, <2>1, JoinTwice
  <2>6. Load(metadata', 0, pos') = Join(Header(call.header), Described(call, i + 1))
    BY <1>2, <1>3, <2>4, <2>5
  <2>7. \A k \in 1 .. i + 1 : call.pairs[k].kind # "unknown"
    <3>1. \A k \in 1 .. i + 1 : k \in 1 .. i \/ k = i + 1
      BY <1>1
    <3> QED
      BY <1>1, <3>1 DEF Holds
  <2>8. i + 1 <= call.count
    BY <1>1
  <2> QED
    BY <1>2, <1>3, <2>6, <2>7, <2>8 DEF Holds
<1>8. RegisteredOnce' /\ CallInv'
  BY <1>1, Within DEF Called
<1>9. MetadataInv'
  BY <1>1, <1>6, <1>7 DEF MetadataInv, Complete, Room
<1>10. ContentInv' /\ DataInv'
  BY <1>1 DEF ContentInv, DataInv, Complete
<1> QED
  BY <1>5, <1>8, <1>9, <1>10 DEF EtwInv

(* What is written before the properties are given up half way is behind   *)
(* the header.                                                             *)
LEMMA HalfWritten ==
  ASSUME EtwInv, pc = "properties", NEW cells \in Bytes, pos + Len(cells) <= MaxMetadataSize,
         metadata' = Store(metadata, pos, cells)
  PROVE  /\ DOMAIN metadata' \subseteq 0 .. MaxMetadataSize - 1
         /\ Load(metadata', 0, call.header) = Header(call.header)
<1>1. /\ call.header \in Nat /\ pos \in Nat /\ MaxMetadataSize \in Nat /\ call.header <= pos
      /\ Load(metadata, 0, call.header) = Header(call.header)
      /\ DOMAIN metadata \subseteq 0 .. MaxMetadataSize - 1
  BY PropertiesFacts
<1>2. DOMAIN metadata' \subseteq 0 .. MaxMetadataSize - 1
  BY <1>1, StoreInside
<1>3. Load(metadata', 0, call.header) = Load(metadata, 0, call.header)
  <2>1. 0 + call.header <= pos /\ 0 \in Nat
    BY <1>1
  <2> QED
    BY <1>1, <2>1, StoreBelow
<1> QED
  BY <1>1, <1>2, <1>3

LEMMA AddStep ==
  ASSUME EtwInv, AddProperty
  PROVE  EtwInv'
<1> DEFINE p == call.pairs[i + 1]
           type_pos == pos + p.name + 1
           d == Description(i + 1, p)
           named == Join(Name(i + 1, p.name), Nul)
<1>1. /\ pc = "properties" /\ call.count <= MaxPropertyCount /\ i < call.count
      /\ MaxMetadataSize - pos >= p.name + 1 + 1
      /\ UNCHANGED <<sink, levelPlus1, caller, call, metadata_size, data, emitted>>
  BY DEF AddProperty, NameFits
<1>2. /\ call \in CallType /\ pos \in Nat /\ MaxMetadataSize \in Nat /\ i \in Nat
      /\ call.count \in Nat /\ call.header \in Nat /\ call.length \in Nat
  BY <1>1, PropertiesFacts
<1>3. /\ p \in Pair /\ d \in Bytes
      /\ pos + Len(d) <= call.header + Len(Described(call, call.count))
  BY <1>1, NextDescribed
<1>4. /\ p.name \in Nat /\ p.kind \in Kinds /\ p.fields \in Nat
      /\ Len(d) = p.name + 2 + (IF p.kind = "struct" THEN 1 ELSE 0)
  <2>1. p.name \in Nat /\ p.kind \in Kinds /\ p.fields \in Nat
    <3> HIDE DEF p, d
    <3>1. 0 .. 255 \subseteq Nat
      OBVIOUS
    <3> QED
      BY <1>3, <3>1 DEF Pair
  <2>2. i + 1 \in Nat
    BY <1>2
  <2> QED
    BY <1>3, <2>1, <2>2, DescriptionOK
<1>5. named \in Bytes /\ Len(named) = p.name + 1
  <2>1. Name(i + 1, p.name) \in Bytes /\ Len(Name(i + 1, p.name)) = p.name
        /\ Nul \in Bytes /\ Len(Nul) = 1
    BY <1>2, <1>4, PartsOK, SMTT(30)
  <2> QED
    BY <2>1, JoinOK
<1>6. /\ <<"struct", i + 1>> \in Byte /\ <<"fields", p.fields>> \in Byte
      /\ <<"type", i + 1>> \in Byte
  BY <1>2, <1>4 DEF Byte
<1>7. CASE p.kind = "value"
  <2>1. /\ metadata' = Store(metadata, pos, Name(i + 1, p.name) \o Nul \o <<<<"type", i + 1>>>>)
        /\ pos' = type_pos + 1 /\ i' = i + 1 /\ UNCHANGED <<add_properties, pc>>
    BY <1>7 DEF AddProperty
  <2>2. d = Name(i + 1, p.name) \o Nul \o <<<<"type", i + 1>>>>
    BY <1>7 DEF Description
  <2>3. pos' = pos + Len(d) /\ pos' <= MaxMetadataSize
    <3> HIDE DEF p, d
    <3>1. Len(d) = p.name + 2
      BY <1>4, <1>7
    <3> QED
      BY <1>1, <1>2, <1>4, <2>1, <3>1, SMTT(30)
  <2>4. metadata' = Store(metadata, pos, d)
    BY <2>1, <2>2
  <2> QED
    BY <1>1, <1>7, <2>1, <2>3, <2>4, AddOK
<1>8. CASE p.kind = "unknown"
  <2>1. metadata' = Store(metadata, pos, named) /\ Drop
    BY <1>8 DEF AddProperty, Join
  <2>2. pos + Len(named) <= MaxMetadataSize
    BY <1>1, <1>2, <1>4, <1>5, SMTT(30)
  <2>3. i + 1 \in 1 .. call.count
    BY <1>1, <1>2
  <2>4. ~Fits(Cut)
    BY <1>2, <1>8, <2>3, FitsIs
  <2>5. DOMAIN metadata' \subseteq 0 .. MaxMetadataSize - 1
        /\ Load(metadata', 0, call.header) = Header(call.header)
    <3> HIDE DEF named
    <3> QED
      BY <1>1, <1>5, <2>1, <2>2, HalfWritten
  <2> QED
    BY <1>1, <2>1, <2>4, <2>5, DropOK
<1>9. CASE p.kind = "struct" /\ type_pos + 1 # MaxMetadataSize
  <2>1. /\ metadata' = Store(metadata, pos, named \o <<<<"struct", i + 1>>>>
                                              \o <<<<"fields", p.fields>>>>)
        /\ pos' = type_pos + 2 /\ i' = i + 1 /\ UNCHANGED <<add_properties, pc>>
    BY <1>9 DEF AddProperty, AddStruct, Join
  <2>2. d = named \o <<<<"struct", i + 1>>, <<"fields", p.fields>>>>
    BY <1>9 DEF Description, Join
  <2>3. named \o <<<<"struct", i + 1>>>> \o <<<<"fields", p.fields>>>> = d
    <3> DEFINE a == <<"struct", i + 1>>
               b == <<"fields", p.fields>>
    <3>1. d = named \o <<a, b>> /\ a \in Byte /\ b \in Byte
      BY <1>6, <2>2
    <3> HIDE DEF named, a, b, d
    <3>2. (named \o <<a>>) \o <<b>> = named \o <<a, b>>
      <4>1. <<a>> \in Bytes /\ <<b>> \in Bytes /\ Join(<<a>>, <<b>>) = <<a, b>>
        <5>1. <<a>> \in Bytes /\ <<b>> \in Bytes
          BY <3>1 DEF Bytes
        <5> QED
          BY <3>1, <5>1, JoinCells
      <4>2. Join(Join(named, <<a>>), <<b>>) = Join(named, <<a, b>>)
        BY <1>5, <4>1, JoinTwice
      <4> QED
        BY <4>2 DEF Join
    <3> QED
      BY <3>1, <3>2 DEF a, b
  <2>4. metadata' = Store(metadata, pos, d)
    BY <2>1, <2>3
  <2>5. pos' = pos + Len(d) /\ pos' <= MaxMetadataSize
    <3> HIDE DEF p, d
    <3>1. Len(d) = p.name + 3 /\ p.name \in Nat
      BY <1>4, <1>9
    <3>2. pos + p.name + 1 + 1 # MaxMetadataSize /\ pos' = pos + p.name + 1 + 2
      BY <1>9, <2>1
    <3>3. MaxMetadataSize - pos >= p.name + 1 + 1
      BY <1>1
    <3> DEFINE n == p.name
               l == Len(d)
    <3>4. /\ l = n + 3 /\ n \in Nat /\ pos + n + 1 + 1 # MaxMetadataSize
          /\ pos' = pos + n + 1 + 2 /\ MaxMetadataSize - pos >= n + 1 + 1
      BY <3>1, <3>2, <3>3
    <3> HIDE DEF n, l
    <3>5. pos' = pos + l /\ pos' <= MaxMetadataSize
      BY <1>2, <3>4
    <3> QED
      BY <3>5 DEF l
  <2> QED
    BY <1>1, <1>9, <2>1, <2>4, <2>5, AddOK
<1>10. CASE p.kind = "struct" /\ type_pos + 1 = MaxMetadataSize
  <2> DEFINE cells == Join(named, <<<<"struct", i + 1>>>>)
  <2>1. metadata' = Store(metadata, pos, cells \o <<>>) /\ Drop
    BY <1>10 DEF AddProperty, AddStruct, Join
  <2>2. cells \in Bytes /\ Len(cells) = p.name + 2
    <3>1. <<<<"struct", i + 1>>>> \in Bytes /\ Len(<<<<"struct", i + 1>>>>) = 1
      BY <1>6 DEF Bytes
    <3> HIDE DEF named
    <3>2. cells \in Bytes /\ Len(cells) = Len(named) + 1
      BY <1>5, <3>1, JoinOK
    <3> HIDE DEF cells, p
    <3> QED
      BY <1>4, <1>5, <3>2
  <2> HIDE DEF cells
  <2>3. cells \o <<>> = cells
    BY <2>2 DEF Bytes
  <2>4. pos + Len(cells) <= MaxMetadataSize
    <3>1. pos + p.name + 1 + 1 = MaxMetadataSize /\ p.name \in Nat
      BY <1>4, <1>10
    <3> HIDE DEF p
    <3> QED
      BY <1>2, <2>2, <3>1
  <2>5. ~(call.header + Len(Described(call, call.count)) + call.length + 1 <= MaxMetadataSize)
    <3>1. Len(Described(call, call.count)) \in Nat
      <4>1. call.count \in 0 .. call.count
        BY <1>2
      <4> QED
        BY <1>2, <4>1, DescribedOK
    <3> HIDE DEF p, d
    <3>2. Len(d) = p.name + 3 /\ p.name \in Nat
      BY <1>4, <1>10
    <3>3. pos + p.name + 1 + 1 = MaxMetadataSize
      BY <1>10
    <3>4. pos + Len(d) <= call.header + Len(Described(call, call.count))
      BY <1>3
    <3> DEFINE n == p.name
               l == Len(d)
               x == Len(Described(call, call.count))
    <3>5. /\ l = n + 3 /\ n \in Nat /\ pos + n + 1 + 1 = MaxMetadataSize
          /\ pos + l <= call.header + x /\ x \in Nat
      BY <3>1, <3>2, <3>3, <3>4
    <3> HIDE DEF n, l, x
    <3>6. ~(call.header + x + call.length + 1 <= MaxMetadataSize)
      BY <1>2, <3>5
    <3> QED
      BY <3>6 DEF x
  <2>6. ~Fits(Cut)
    BY <1>2, <2>5, FitsIs
  <2>7. DOMAIN metadata' \subseteq 0 .. MaxMetadataSize - 1
        /\ Load(metadata', 0, call.header) = Header(call.header)
    BY <1>1, <2>1, <2>2, <2>3, <2>4, HalfWritten
  <2> QED
    BY <1>1, <2>1, <2>6, <2>7, DropOK
<1> QED
  BY <1>4, <1>7, <1>8, <1>9, <1>10 DEF Kinds

LEMMA DoneStep ==
  ASSUME EtwInv, PropertiesDone
  PROVE  EtwInv'
<1>1. /\ pc = "properties" /\ pc' = "sized" /\ call.count <= MaxPropertyCount /\ i = call.count
      /\ UNCHANGED <<state, registrations, levelPlus1, caller, call, i, metadata, pos,
                     add_properties, metadata_size, data, emitted>>
  BY DEF PropertiesDone, sink, event
<1>2. /\ add_properties /\ ~emitted /\ data = <<>> /\ Holds(i)
      /\ Load(metadata, 0, call.header) = Header(call.header)
  BY <1>1, PropertiesFacts
<1>3. RegisteredOnce' /\ CallInv'
  BY <1>1, <1>2, Within DEF Called, sink
<1>4. StaysInMetadata'
  BY <1>1 DEF EtwInv, StaysInMetadata, TypeOK
<1>5. Holds(call.count)'
  BY <1>1, <1>2 DEF Holds
<1>6. MetadataInv'
  BY <1>1, <1>2, <1>5 DEF MetadataInv, Complete, Room, Called
<1>7. ContentInv' /\ DataInv'
  BY <1>1, <1>2 DEF ContentInv, DataInv, Complete
<1> QED
  BY <1>3, <1>4, <1>6, <1>7 DEF EtwInv

-----------------------------------------------------------------------------
(* The message *)

LEMMA MinOfTwo ==
  ASSUME NEW a \in Nat, NEW b \in Nat
  PROVE  Min({a, b}) = IF a <= b THEN a ELSE b
<1> DEFINE m == IF a <= b THEN a ELSE b
<1>1. m \in {a, b} /\ \A y \in {a, b} : m <= y
  OBVIOUS
<1>2. \A x \in {a, b} : (\A y \in {a, b} : x <= y) => x = m
  OBVIOUS
<1> HIDE DEF m
<1>3. Min({a, b}) = m
  BY <1>1, <1>2 DEF Min
<1> QED
  BY <1>3 DEF m

(* What holds all along, once the properties are done. *)
LEMMA CallFacts ==
  ASSUME EtwInv, pc \in {"sized", "format", "format_again", "describe", "values"}
  PROVE  /\ call \in CallType /\ call.count \in Nat /\ call.header \in Nat /\ call.length \in Nat
         /\ call.header < MaxMetadataSize
         /\ pos \in Nat /\ pos <= MaxMetadataSize /\ MaxMetadataSize \in Nat
         /\ MaxPropertyCount \in Nat /\ ~emitted /\ add_properties \in BOOLEAN
         /\ Load(metadata, 0, call.header) = Header(call.header)
         /\ DOMAIN metadata \subseteq 0 .. MaxMetadataSize - 1
         /\ Len(Described(call, call.count)) \in Nat
         /\ pc # "values" => data = <<>>
         /\ pc # "sized" => metadata_size = pos /\ call.header <= pos
         /\ pc # "sized" /\ ~add_properties => pos = call.header
         /\ pc # "format_again" /\ add_properties =>
              call.count <= MaxPropertyCount /\ Holds(call.count)
         /\ ~add_properties => ~Fits(Cut)
<1>1. /\ call \in CallType /\ ~emitted /\ (pc # "values" => data = <<>>)
      /\ Load(metadata, 0, call.header) = Header(call.header)
      /\ pc # "sized" => metadata_size = pos
      /\ pc # "sized" /\ ~add_properties => pos = call.header
      /\ pc # "format_again" /\ add_properties =>
           call.count <= MaxPropertyCount /\ Holds(call.count)
      /\ ~add_properties => ~Fits(Cut)
      /\ pc = "format_again" => ~add_properties
  BY DEF EtwInv, CallInv, MetadataInv, DataInv, Called, Room, Complete
<1>2. /\ call.count \in Nat /\ call.header \in Nat /\ call.length \in Nat
      /\ MaxMetadataSize \in Nat /\ MaxPropertyCount \in Nat /\ call.header < MaxMetadataSize
  BY <1>1, CallOK, EtwAssumption
<1>3. pos \in Nat /\ pos <= MaxMetadataSize /\ add_properties \in BOOLEAN
      /\ DOMAIN metadata \subseteq 0 .. MaxMetadataSize - 1
  BY <1>2 DEF EtwInv, StaysInMetadata, TypeOK
<1>4. Len(Described(call, call.count)) \in Nat
  <2>1. call.count \in 0 .. call.count
    BY <1>2
  <2> QED
    BY <1>1, <2>1, DescribedOK
<1>5. pc # "sized" => call.header <= pos
  <2>1. CASE pc # "sized" /\ ~add_properties
    BY <1>1, <1>2, <2>1
  <2>2. CASE pc # "sized" /\ add_properties
    BY <1>1, <1>2, <1>4, <2>2 DEF Holds
  <2> QED
    BY <1>3, <2>1, <2>2
<1> QED
  BY <1>1, <1>2, <1>3, <1>4, <1>5

LEMMA SizeStep ==
  ASSUME EtwInv, Size
  PROVE  EtwInv'
<1>1. /\ pc = "sized" /\ pc' = "format"
      /\ pos' = IF add_properties THEN pos ELSE call.header
      /\ metadata_size' = pos'
      /\ UNCHANGED <<state, registrations, levelPlus1, caller, call, i, metadata,
                     add_properties, data, emitted>>
  BY DEF Size, sink
<1>2. /\ call \in CallType /\ call.header \in Nat /\ call.header < MaxMetadataSize
      /\ MaxMetadataSize \in Nat /\ ~emitted /\ data = <<>> /\ add_properties \in BOOLEAN
      /\ Load(metadata, 0, call.header) = Header(call.header)
      /\ add_properties => call.count <= MaxPropertyCount /\ Holds(call.count)
      /\ ~add_properties => ~Fits(Cut)
  BY <1>1, CallFacts
<1>3. RegisteredOnce' /\ CallInv'
  BY <1>1, <1>2, Within DEF Called, sink
<1>4. StaysInMetadata'
  <2>1. pos' \in 0 .. MaxMetadataSize
    BY <1>1, <1>2 DEF EtwInv, StaysInMetadata, TypeOK
  <2> QED
    BY <1>1, <2>1 DEF EtwInv, StaysInMetadata, TypeOK
<1>5. Fits(Cut)' = Fits(Cut)
  BY <1>1 DEF Fits, Encoding, Cut
<1>6. add_properties => Holds(call.count)'
  BY <1>1, <1>2 DEF Holds
<1>7. MetadataInv'
  BY <1>1, <1>2, <1>5, <1>6 DEF MetadataInv, Complete, Room, Called
<1>8. ContentInv' /\ DataInv'
  BY <1>1, <1>2 DEF ContentInv, DataInv, Complete
<1> QED
  BY <1>3, <1>4, <1>7, <1>8 DEF EtwInv

(* vsnprintf failed: no event is sent. *)
LEMMA FailStep ==
  ASSUME EtwInv, FormatFails
  PROVE  EtwInv'
<1>1. /\ pc \in {"format", "format_again"} /\ pc' = "return"
      /\ UNCHANGED <<state, registrations, levelPlus1, caller, call, i, metadata, pos,
                     add_properties, metadata_size, data, emitted>>
  BY DEF FormatFails, sink, event
<1>2. ~emitted
  BY <1>1, CallFacts
<1>3. RegisteredOnce' /\ CallInv'
  BY <1>1, <1>2, Within DEF Called, sink
<1>4. StaysInMetadata'
  BY <1>1 DEF EtwInv, StaysInMetadata, TypeOK
<1>5. MetadataInv' /\ ContentInv' /\ DataInv'
  BY <1>1, <1>2 DEF MetadataInv, ContentInv, DataInv, Complete, Room, Called
<1> QED
  BY <1>3, <1>4, <1>5 DEF EtwInv

(* The message is written behind the metadata, as far as there is room.    *)
LEMMA VsnprintfOK ==
  ASSUME EtwInv, pc \in {"format", "format_again"}, NEW n,
         n = Min({call.length, MaxMetadataSize - pos - 1})
  PROVE  /\ DOMAIN Vsnprintf(pos) \subseteq 0 .. MaxMetadataSize - 1
         /\ Load(Vsnprintf(pos), 0, pos) = Load(metadata, 0, pos)
         /\ Load(Vsnprintf(pos), 0, call.header) = Header(call.header)
         /\ pos < MaxMetadataSize =>
              /\ n \in Nat /\ n + 1 <= MaxMetadataSize - pos
              /\ n = IF call.length <= MaxMetadataSize - pos - 1
                     THEN call.length ELSE MaxMetadataSize - pos - 1
              /\ Content(n) \in Bytes /\ Len(Content(n)) = n + 1
              /\ Vsnprintf(pos) = Store(metadata, pos, Content(n))
              /\ Load(Vsnprintf(pos), pos, n + 1) = Content(n)
<1>1. /\ call.header \in Nat /\ call.length \in Nat /\ pos \in Nat /\ MaxMetadataSize \in Nat
      /\ pos <= MaxMetadataSize /\ call.header <= pos
      /\ Load(metadata, 0, call.header) = Header(call.header)
      /\ DOMAIN metadata \subseteq 0 .. MaxMetadataSize - 1
  BY CallFacts
<1>2. CASE pos = MaxMetadataSize
  <2>1. Vsnprintf(pos) = metadata /\ ~(pos < MaxMetadataSize)
    BY <1>1, <1>2 DEF Vsnprintf
  <2> QED
    BY <1>1, <2>1
<1>3. CASE pos < MaxMetadataSize
  <2>1. MaxMetadataSize - pos - 1 \in Nat /\ MaxMetadataSize - pos # 0
    BY <1>1, <1>3
  <2>2. n = IF call.length <= MaxMetadataSize - pos - 1
            THEN call.length ELSE MaxMetadataSize - pos - 1
    BY <1>1, <2>1, MinOfTwo
  <2>3. n \in Nat /\ n + 1 <= MaxMetadataSize - pos
    BY <1>1, <2>1, <2>2
  <2>4. Content(n) \in Bytes /\ Len(Content(n)) = n + 1
    <3>1. Text(n) \in Bytes /\ Len(Text(n)) = n /\ Nul \in Bytes /\ Len(Nul) = 1
      BY <2>3, PartsOK
    <3> QED
      BY <3>1, JoinOK DEF Content
  <2>5. Vsnprintf(pos) = Store(metadata, pos, Content(n))
    BY <2>1 DEF Vsnprintf, Content, Join
  <2> DEFINE v == Vsnprintf(pos)
             c == Content(n)
  <2>6. v = Store(metadata, pos, c) /\ c \in Bytes /\ Len(c) = n + 1
    BY <2>4, <2>5
  <2> HIDE DEF v, c
  <2>7. pos + Len(c) <= MaxMetadataSize /\ 0 + pos <= pos /\ 0 + call.header <= pos /\ 0 \in Nat
    BY <1>1, <2>3, <2>6
  <2>8. DOMAIN v \subseteq 0 .. MaxMetadataSize - 1
    BY <1>1, <2>6, <2>7, StoreInside
  <2>9. Load(v, 0, pos) = Load(metadata, 0, pos)
    BY <1>1, <2>6, <2>7, StoreBelow
  <2>10. Load(v, 0, call.header) = Load(metadata, 0, call.header)
    BY <1>1, <2>6, <2>7, StoreBelow
  <2>11. Load(v, pos, n + 1) = c
    BY <1>1, <2>6, StoreRead
  <2> QED
    BY <1>1, <2>2, <2>3, <2>4, <2>5, <2>8, <2>9, <2>10, <2>11 DEF v, c
<1> QED
  BY <1>1, <1>2, <1>3

(* The event has its metadata and its content. *)
LEMMA CompleteOK ==
  ASSUME EtwInv, pc \in {"format", "format_again"}, pc' = "describe",
         DOMAIN metadata' \subseteq 0 .. MaxMetadataSize - 1,
         Load(metadata', 0, pos) = Load(metadata, 0, pos),
         Load(metadata', 0, call.header) = Header(call.header),
         NEW n, n = Min({call.length, MaxMetadataSize - call.header - 1}),
         Load(metadata', pos, n + 1) = Content(n),
         add_properties => call.length < MaxMetadataSize - pos,
         UNCHANGED <<sink, levelPlus1, caller, call, i, pos, add_properties, metadata_size,
                     data, emitted>>
  PROVE  EtwInv'
<1>1. UNCHANGED <<state, registrations>>
  BY DEF sink
<1>2. /\ call \in CallType /\ ~emitted /\ data = <<>> /\ metadata_size = pos
      /\ ~add_properties => pos = call.header /\ ~Fits(Cut)
      /\ add_properties => call.count <= MaxPropertyCount /\ Holds(call.count)
  <2>1. pc = "format_again" => ~add_properties
    BY DEF EtwInv, MetadataInv
  <2> QED
    BY <2>1, CallFacts
<1>3. RegisteredOnce' /\ CallInv'
  BY <1>2, Within DEF Called
<1>4. StaysInMetadata'
  BY <1>1 DEF EtwInv, StaysInMetadata, TypeOK
<1>5. Fits(Cut)' = Fits(Cut)
  BY DEF Fits, Encoding, Cut
<1>6. add_properties => Holds(call.count)'
  BY <1>2 DEF Holds
<1>7. MetadataInv'
  BY <1>2, <1>5, <1>6 DEF MetadataInv, Complete, Room, Called
<1>8. ContentInv'
  BY DEF ContentInv
<1>9. DataInv'
  BY <1>2 DEF DataInv
<1> QED
  BY <1>3, <1>4, <1>7, <1>8, <1>9 DEF EtwInv

LEMMA FormatStep ==
  ASSUME EtwInv, Format
  PROVE  EtwInv'
<1>1. /\ pc = "format" /\ metadata' = Vsnprintf(pos)
      /\ UNCHANGED <<state, registrations, levelPlus1, caller, call, i, data, emitted>>
  BY DEF Format, sink
<1>2. /\ call \in CallType /\ call.header \in Nat /\ call.header < MaxMetadataSize
      /\ call.length \in Nat /\ MaxMetadataSize \in Nat /\ pos \in Nat /\ pos <= MaxMetadataSize
      /\ call.header <= pos /\ metadata_size = pos /\ ~emitted /\ data = <<>>
      /\ Len(Described(call, call.count)) \in Nat /\ add_properties \in BOOLEAN
      /\ add_properties => call.count <= MaxPropertyCount /\ Holds(call.count)
      /\ ~add_properties => pos = call.header
  BY <1>1, CallFacts
<1> DEFINE n == Min({call.length, MaxMetadataSize - pos - 1})
<1>3. /\ DOMAIN metadata' \subseteq 0 .. MaxMetadataSize - 1
      /\ Load(metadata', 0, pos) = Load(metadata, 0, pos)
      /\ Load(metadata', 0, call.header) = Header(call.header)
      /\ pos < MaxMetadataSize =>
           /\ n = IF call.length <= MaxMetadataSize - pos - 1
                  THEN call.length ELSE MaxMetadataSize - pos - 1
           /\ Load(metadata', pos, n + 1) = Content(n)
  BY <1>1, VsnprintfOK
<1> HIDE DEF n
<1>4. CASE TooLong(pos) /\ add_properties
  <2>1. /\ ~add_properties' /\ add_properties' \in BOOLEAN /\ metadata_size' = call.header
        /\ pos' = call.header /\ pc' = "format_again"
    BY <1>4 DEF Format
  <2>2. ~Fits(Cut)
    <3>1. ~(call.header + Len(Described(call, call.count)) + call.length + 1 <= MaxMetadataSize)
      <4>1. pos = call.header + Len(Described(call, call.count))
        BY <1>2, <1>4 DEF Holds
      <4>2. call.length >= MaxMetadataSize - pos
        BY <1>4 DEF TooLong
      <4> QED
        BY <1>2, <4>1, <4>2
    <3> QED
      BY <1>2, <3>1, FitsIs
  <2>3. RegisteredOnce' /\ CallInv'
    BY <1>1, <1>2, <2>1, Within DEF Called, sink
  <2>4. StaysInMetadata'
    <3>1. pos' \in 0 .. MaxMetadataSize
      BY <1>2, <2>1
    <3> QED
      BY <1>1, <1>3, <2>1, <3>1 DEF EtwInv, StaysInMetadata, TypeOK
  <2>5. Fits(Cut)' = Fits(Cut)
    BY <1>1 DEF Fits, Encoding, Cut
  <2>6. MetadataInv'
    BY <1>1, <1>2, <1>3, <2>1, <2>2, <2>5 DEF MetadataInv, Complete, Room, Called
  <2>7. ContentInv' /\ DataInv'
    BY <1>1, <1>2, <2>1 DEF ContentInv, DataInv, Complete
  <2> QED
    BY <2>3, <2>4, <2>6, <2>7 DEF EtwInv
<1>5. CASE ~(TooLong(pos) /\ add_properties)
  <2>1. pc' = "describe" /\ UNCHANGED <<add_properties, metadata_size, pos>>
    BY <1>5 DEF Format
  <2>2. add_properties => call.length < MaxMetadataSize - pos
    BY <1>2, <1>5 DEF TooLong
  <2>3. pos < MaxMetadataSize
    BY <1>2, <2>2
  <2>4. n = Min({call.length, MaxMetadataSize - call.header - 1})
    <3> DEFINE room == MaxMetadataSize - call.header - 1
    <3>1. room \in Nat
      BY <1>2
    <3>2. Min({call.length, room}) = IF call.length <= room THEN call.length ELSE room
      BY <1>2, <3>1, MinOfTwo
    <3>3. n = IF call.length <= MaxMetadataSize - pos - 1
              THEN call.length ELSE MaxMetadataSize - pos - 1
      BY <1>3, <2>3
    <3>4. CASE add_properties
      <4>1. n = call.length /\ call.length <= room
        BY <1>2, <2>2, <3>3, <3>4
      <4> QED
        BY <3>2, <4>1
    <3>5. CASE ~add_properties
      BY <1>2, <3>2, <3>3, <3>5
    <3> QED
      BY <3>4, <3>5
  <2> QED
    BY <1>1, <1>3, <2>1, <2>2, <2>3, <2>4, CompleteOK DEF sink
<1> QED
  BY <1>4, <1>5

(* The terminator that is stored at the end of the array is behind the     *)
(* message, or is the message's own.                                       *)
LEMMA FormatAgainStep ==
  ASSUME EtwInv, FormatAgain
  PROVE  EtwInv'
<1> DEFINE v == Vsnprintf(pos)
           n == Min({call.length, MaxMetadataSize - pos - 1})
           last == MaxMetadataSize - 1
<1>1. /\ pc = "format_again" /\ pc' = "describe" /\ metadata' = Store(v, last, Nul)
      /\ UNCHANGED <<sink, levelPlus1, caller, call, i, pos, add_properties, metadata_size,
                     data, emitted>>
  BY DEF FormatAgain
<1>2. ~add_properties
  BY <1>1 DEF EtwInv, MetadataInv
<1>3. /\ call.header \in Nat /\ call.header < MaxMetadataSize /\ pos = call.header
      /\ MaxMetadataSize \in Nat /\ last \in Nat /\ pos \in Nat /\ pos < MaxMetadataSize
  BY <1>1, <1>2, CallFacts
<1>4. /\ DOMAIN v \subseteq 0 .. last
      /\ Load(v, 0, pos) = Load(metadata, 0, pos)
      /\ Load(v, 0, pos) = Header(call.header)
      /\ n \in Nat /\ n + 1 <= MaxMetadataSize - pos
      /\ Content(n) \in Bytes /\ Len(Content(n)) = n + 1
      /\ v = Store(metadata, pos, Content(n)) /\ Load(v, pos, n + 1) = Content(n)
  BY <1>1, <1>3, VsnprintfOK
<1>5. Nul \in Bytes /\ Len(Nul) = 1 /\ Nul = <<<<"nul", 0>>>> /\ <<"nul", 0>> \in Byte
  BY PartsOK DEF Nul, Byte
<1> HIDE DEF v, n
<1>6. DOMAIN metadata' \subseteq 0 .. MaxMetadataSize - 1
  <2>1. last + Len(Nul) <= MaxMetadataSize
    BY <1>3, <1>5
  <2> QED
    BY <1>1, <1>3, <1>4, <1>5, <2>1, StoreInside
<1>7. Load(metadata', 0, pos) = Load(v, 0, pos) /\ Load(metadata', pos, n + 1) = Load(v, pos, n + 1)
  <2>1. CASE pos + (n + 1) <= last
    <3>1. 0 + pos <= last /\ 0 \in Nat /\ n + 1 \in Nat
      BY <1>3, <1>4, <2>1
    <3> HIDE DEF last
    <3> QED
      BY <1>1, <1>3, <1>4, <1>5, <2>1, <3>1, StoreBelow
  <2>2. CASE ~(pos + (n + 1) <= last)
    <3>1. last = pos + n /\ pos + (n + 1) - 1 = last /\ last - pos + 1 = n + 1
      BY <1>3, <1>4, <2>2
    <3>2. Content(n)[n + 1] = <<"nul", 0>>
      <4>1. Text(n) \in Bytes /\ Len(Text(n)) = n
        BY <1>4, PartsOK
      <4> DEFINE t == Text(n)
      <4>2. t \in Seq(Byte) /\ Len(t) = n /\ Content(n) = t \o <<<<"nul", 0>>>>
        BY <4>1 DEF Bytes, Content, Join, Nul
      <4> HIDE DEF t
      <4>3. (t \o <<<<"nul", 0>>>>)[n + 1] = <<"nul", 0>>
        BY <1>4, <4>2, <1>5, SMTT(30)
      <4> QED
        BY <4>2, <4>3
    <3> DEFINE c == Content(n)
               size == Len(c)
    <3>3. c \in Bytes /\ size = n + 1 /\ v = Store(metadata, pos, c) /\ c[n + 1] = <<"nul", 0>>
      BY <1>4, <3>2
    <3>4. /\ DOMAIN v = DOMAIN metadata \cup pos .. pos + size - 1
          /\ \A o \in DOMAIN metadata \cup pos .. pos + size - 1 :
               v[o] = IF o - pos + 1 \in 1 .. size THEN c[o - pos + 1] ELSE metadata[o]
      <4> HIDE DEF c
      <4>1. pos \in Nat /\ c \in Bytes
        BY <1>3, <3>3
      <4>2. /\ DOMAIN Store(metadata, pos, c) = DOMAIN metadata \cup pos .. pos + Len(c) - 1
            /\ \A o \in DOMAIN metadata \cup pos .. pos + Len(c) - 1 :
                 Store(metadata, pos, c)[o] =
                   IF o - pos + 1 \in 1 .. Len(c) THEN c[o - pos + 1] ELSE metadata[o]
        BY <4>1, StoreAt, Zenon
      <4>3. v = Store(metadata, pos, c)
        BY <3>3
      <4> QED
        BY <4>2, <4>3, Zenon
    <3> HIDE DEF c, size
    <3>5. last \in pos .. pos + size - 1 /\ last - pos + 1 \in 1 .. size
      <4>1. /\ last = pos + n /\ size = n + 1 /\ n \in Nat /\ pos \in Nat
        BY <1>3, <1>4, <3>1, <3>3
      <4> HIDE DEF last
      <4> QED
        BY <4>1
    <3>6. last \in DOMAIN v /\ v[last] = <<"nul", 0>>
      <4> HIDE DEF last
      <4> QED
        BY <3>1, <3>3, <3>4, <3>5
    <3>7. DOMAIN v \subseteq Nat /\ n + 1 \in Nat /\ 0 \in Nat
      BY <1>3, <1>4
    <3> QED
      BY <1>1, <1>3, <1>5, <3>6, <3>7, StoreSame
  <2> QED
    BY <2>1, <2>2
<1>8. n = Min({call.length, MaxMetadataSize - call.header - 1})
  BY <1>3 DEF n
<1> QED
  BY <1>1, <1>2, <1>3, <1>4, <1>6, <1>7, <1>8, CompleteOK

-----------------------------------------------------------------------------
(* The descriptors *)

LEMMA FieldsOK ==
  ASSUME NEW k \in Nat
  PROVE  /\ IsFiniteSet(Fields(k)) /\ Cardinality(Fields(k)) \in Nat
         /\ Cardinality(Fields(k)) <= k
         /\ \A j \in 0 .. k : Cardinality(Fields(j)) <= Cardinality(Fields(k))
<1>1. IsFiniteSet(1 .. k) /\ Cardinality(1 .. k) = k
  <2>1. 1 \in Int /\ k \in Int
    OBVIOUS
  <2>2. IsFiniteSet(1 .. k) /\ Cardinality(1 .. k) = IF 1 > k THEN 0 ELSE k - 1 + 1
    BY <2>1, FS_Interval
  <2>3. (IF 1 > k THEN 0 ELSE k - 1 + 1) = k
    OBVIOUS
  <2> QED
    BY <2>2, <2>3
<1>2. Fields(k) \in SUBSET (1 .. k)
  BY DEF Fields
<1>3. IsFiniteSet(Fields(k)) /\ Cardinality(Fields(k)) <= k
  BY <1>1, <1>2, FS_Subset
<1>4. Cardinality(Fields(k)) \in Nat
  BY <1>3, FS_CardinalityType
<1>5. ASSUME NEW j \in 0 .. k
      PROVE  Cardinality(Fields(j)) <= Cardinality(Fields(k))
  <2>1. Fields(j) \in SUBSET Fields(k)
    BY DEF Fields
  <2> QED
    BY <1>3, <2>1, FS_Subset
<1> QED
  BY <1>3, <1>4, <1>5

LEMMA FieldsNext ==
  ASSUME NEW k \in Nat
  PROVE  /\ call.pairs[k + 1].kind = "struct" => Fields(k + 1) = Fields(k)
         /\ call.pairs[k + 1].kind # "struct" =>
              /\ Fields(k + 1) = Fields(k) \cup {k + 1}
              /\ Cardinality(Fields(k + 1)) = Cardinality(Fields(k)) + 1
<1>1. \A j : j \in 1 .. k + 1 <=> j \in 1 .. k \/ j = k + 1
  OBVIOUS
<1>2. call.pairs[k + 1].kind = "struct" => Fields(k + 1) = Fields(k)
  BY <1>1 DEF Fields
<1>3. ASSUME call.pairs[k + 1].kind # "struct"
      PROVE  Fields(k + 1) = Fields(k) \cup {k + 1}
  BY <1>1, <1>3 DEF Fields
<1>4. k + 1 \notin Fields(k)
  BY DEF Fields
<1>5. Cardinality(Fields(k) \cup {k + 1}) = Cardinality(Fields(k)) + 1
  BY <1>4, FieldsOK, FS_AddElement
<1> QED
  BY <1>2, <1>3, <1>5

LEMMA DescribeStep ==
  ASSUME EtwInv, Describe
  PROVE  EtwInv'
<1>1. /\ pc = "describe" /\ pc' = "values" /\ data' = Fixed /\ i' = 0
      /\ UNCHANGED <<state, registrations, levelPlus1, caller, call, metadata, pos,
                     add_properties, metadata_size, emitted>>
  BY DEF Describe, sink
<1>2. call \in CallType /\ ~emitted /\ pos \in Nat /\ call.count \in Nat /\ MaxPropertyCount \in Nat
  BY <1>1, CallFacts
<1>3. RegisteredOnce' /\ CallInv'
  BY <1>1, <1>2, Within DEF Called, sink
<1>4. /\ data' \in Seq([what : {"content", "file", "func", "line", "value"}, n : Nat])
      /\ Len(data') = 4 /\ data'[1].n = pos
  BY <1>1, <1>2 DEF Fixed
<1>5. StaysInMetadata'
  <2>1. Len(data') <= 4 + MaxPropertyCount
    BY <1>2, <1>4
  <2> QED
    BY <1>1, <2>1, ZeroOK DEF EtwInv, StaysInMetadata, TypeOK
<1>6. Fits(Cut)' = Fits(Cut) /\ Complete /\ Complete' /\ Holds(call.count)' = Holds(call.count)
  BY <1>1 DEF Fits, Encoding, Cut, Complete, Holds
<1>7. MetadataInv'
  BY <1>1, <1>2, <1>6 DEF EtwInv, MetadataInv, Room, Called
<1>8. ContentInv'
  BY <1>1, <1>6 DEF EtwInv, ContentInv
<1>9. DataInv'
  <2>1. Fields(i)' = {}
    BY <1>1 DEF Fields
  <2>2. Cardinality(Fields(i)') = 0
    BY <2>1, FS_EmptySet
  <2>3. 0 <= call.count
    BY <1>2
  <2> QED
    BY <1>1, <1>2, <1>4, <2>1, <2>2, <2>3 DEF DataInv
<1> QED
  BY <1>3, <1>5, <1>7, <1>8, <1>9 DEF EtwInv

(* The loop over the values: a property is found by how many fields there  *)
(* are up to it.                                                           *)
LEMMA ValueStep ==
  ASSUME EtwInv, DescribeValue
  PROVE  EtwInv'
<1> DEFINE Descriptor == [what : {"content", "file", "func", "line", "value"}, n : Nat]
           new == [what |-> "value", n |-> i + 1]
           struct == call.pairs[i + 1].kind = "struct"
<1>1. /\ pc = "values" /\ add_properties /\ i < call.count /\ i' = i + 1
      /\ data' = IF struct THEN data ELSE Append(data, new)
      /\ UNCHANGED <<state, registrations, levelPlus1, pc, caller, call, metadata, pos,
                     add_properties, metadata_size, emitted>>
  BY DEF DescribeValue, sink
<1>2. /\ call \in CallType /\ ~emitted /\ call.count \in Nat /\ MaxPropertyCount \in Nat
      /\ call.count <= MaxPropertyCount
  BY <1>1, CallFacts
<1>3. i \in Nat
  BY <1>2 DEF EtwInv, StaysInMetadata, TypeOK
<1>4. /\ data \in Seq(Descriptor) /\ Len(data) = 4 + Cardinality(Fields(i)) /\ data[1].n = pos
      /\ \A k \in Fields(i) : data[4 + Cardinality(Fields(k))].n = k
  BY <1>1 DEF EtwInv, DataInv
<1>5. /\ Cardinality(Fields(i)) \in Nat /\ Cardinality(Fields(i)) <= i
      /\ Cardinality(Fields(i + 1)) \in Nat /\ Cardinality(Fields(i + 1)) <= i + 1
      /\ \A k \in 0 .. i : Cardinality(Fields(k)) \in Nat
                           /\ Cardinality(Fields(k)) <= Cardinality(Fields(i))
  BY <1>3, FieldsOK
<1>6. new \in Descriptor /\ new.n = i + 1
  BY <1>3
<1>7. /\ data' \in Seq(Descriptor) /\ Len(data') = 4 + Cardinality(Fields(i + 1))
      /\ \A k \in 1 .. 4 + Cardinality(Fields(i)) : data'[k] = data[k]
  <2> HIDE DEF new, Descriptor
  <2>1. CASE struct
    <3>1. Fields(i + 1) = Fields(i)
      BY <1>3, <2>1, FieldsNext
    <3> QED
      BY <1>1, <1>4, <2>1, <3>1
  <2>2. CASE ~struct
    <3>1. data' = Append(data, new)
      BY <1>1, <2>2
    <3>2. Cardinality(Fields(i + 1)) = Cardinality(Fields(i)) + 1
      BY <1>3, <2>2, FieldsNext
    <3>3. /\ data' \in Seq(Descriptor) /\ Len(data') = Len(data) + 1
          /\ \A k \in 1 .. Len(data) : data'[k] = data[k]
      BY <1>4, <1>6, <3>1
    <3> QED
      BY <1>4, <1>5, <3>2, <3>3
  <2> QED
    BY <2>1, <2>2
<1>8. data'[1].n = pos
  <2>1. 1 \in 1 .. 4 + Cardinality(Fields(i))
    BY <1>5
  <2> QED
    BY <1>4, <1>7, <2>1
<1>9. ASSUME NEW k \in Fields(i + 1)
      PROVE  data'[4 + Cardinality(Fields(k))].n = k
  <2>1. CASE k \in Fields(i)
    <3>1. k \in 0 .. i
      BY <1>3, <2>1 DEF Fields
    <3>2. 4 + Cardinality(Fields(k)) \in 1 .. 4 + Cardinality(Fields(i))
      BY <1>5, <3>1
    <3> QED
      BY <1>4, <1>7, <2>1, <3>2
  <2>2. CASE k \notin Fields(i)
    <3>1. k = i + 1 /\ ~struct /\ Cardinality(Fields(i + 1)) = Cardinality(Fields(i)) + 1
      BY <1>3, <2>2, FieldsNext
    <3>2. data' = Append(data, new)
      BY <1>1, <3>1
    <3> HIDE DEF new, Descriptor
    <3>3. data'[Len(data) + 1] = new
      BY <1>4, <1>6, <3>2
    <3>4. 4 + Cardinality(Fields(k)) = Len(data) + 1
      <4>1. Cardinality(Fields(k)) = Cardinality(Fields(i)) + 1
        BY <3>1
      <4> QED
        BY <1>4, <1>5, <4>1
    <3> QED
      BY <1>6, <3>1, <3>3, <3>4
  <2> QED
    BY <2>1, <2>2
<1>10. RegisteredOnce' /\ CallInv'
  BY <1>1, <1>2, Within DEF Called, sink
<1>11. StaysInMetadata'
  <2>1. Len(data') <= 4 + MaxPropertyCount /\ i' \in 0 .. MaxPropertyCount
    BY <1>1, <1>2, <1>3, <1>5, <1>7, SMTT(30)
  <2> QED
    BY <1>1, <2>1 DEF EtwInv, StaysInMetadata, TypeOK
<1>12. Fits(Cut)' = Fits(Cut) /\ Complete /\ Complete' /\ Holds(call.count)' = Holds(call.count)
  BY <1>1 DEF Fits, Encoding, Cut, Complete, Holds
<1>13. MetadataInv'
  BY <1>1, <1>2, <1>12 DEF EtwInv, MetadataInv, Room, Called
<1>14. ContentInv'
  BY <1>1, <1>12 DEF EtwInv, ContentInv
<1>15. DataInv'
  <2>1. Fields(i)' = Fields(i + 1) /\ \A k : Fields(k)' = Fields(k)
    BY <1>1 DEF Fields
  <2>2. i + 1 <= call.count
    BY <1>1, <1>2, <1>3
  <2> HIDE DEF new
  <2> QED
    BY <1>1, <1>2, <1>7, <1>8, <1>9, <2>1, <2>2 DEF DataInv
<1> QED
  BY <1>10, <1>11, <1>13, <1>14, <1>15 DEF EtwInv

LEMMA EmitStep ==
  ASSUME EtwInv, Emit
  PROVE  EtwInv'
<1>1. /\ pc = "values" /\ pc' = "return" /\ (add_properties => i = call.count) /\ emitted' = TRUE
      /\ UNCHANGED <<state, registrations, levelPlus1, caller, call, i, metadata, pos,
                     add_properties, metadata_size, data>>
  BY DEF Emit, sink, event
<1>2. RegisteredOnce' /\ CallInv'
  BY <1>1, Within DEF Called, sink
<1>3. StaysInMetadata'
  BY <1>1 DEF EtwInv, StaysInMetadata, TypeOK
<1>4. Fits(Cut)' = Fits(Cut) /\ Complete /\ Complete' /\ Holds(call.count)' = Holds(call.count)
  BY <1>1 DEF Fits, Encoding, Cut, Complete, Holds
<1>5. MetadataInv'
  BY <1>1, <1>4 DEF EtwInv, MetadataInv, Room, Called
<1>6. ContentInv'
  BY <1>1, <1>4 DEF EtwInv, ContentInv
<1>7. DataInv'
  BY <1>1 DEF EtwInv, DataInv, Fields
<1> QED
  BY <1>2, <1>3, <1>5, <1>6, <1>7 DEF EtwInv

-----------------------------------------------------------------------------
(* Theorems *)

LEMMA EtwNext == EtwInv /\ [Next]_vars => EtwInv'
<1> SUFFICES ASSUME EtwInv, [Next]_vars
             PROVE  EtwInv'
  OBVIOUS
<1>1. CASE \E level \in Levels, length \in MessageLengths : SelfTest(level, length)
  <2>1. PICK level \in Levels, length \in MessageLengths : SelfTest(level, length)
    BY <1>1
  <2>2. <<>> \in PairLists /\ 0 \in Nat /\ 0 <= Len(<<>>) /\ 0 = Len(<<>>)
    BY EtwAssumption
  <2>3. /\ pc = "self_test" /\ EmitBegin("init", level, <<>>, 0, length) /\ UNCHANGED sink
    BY <2>1 DEF SelfTest
  <2> QED
    BY <2>2, <2>3, BeginStep
<1>2. CASE \E level \in Levels, pairs \in PairLists, length \in MessageLengths :
             Log(level, pairs, length)
  <2>1. PICK level \in Levels, pairs \in PairLists, length \in MessageLengths :
          Log(level, pairs, length)
    BY <1>2
  <2> DEFINE count == Len(pairs) % CountModulus
  <2>2. pc = "idle" /\ EmitBegin("log", level, pairs, count, length) /\ UNCHANGED sink
    BY <2>1 DEF Log
  <2>3. /\ count \in Nat /\ count <= Len(pairs)
        /\ Len(pairs) < CountModulus => count = Len(pairs)
    <3>1. Len(pairs) \in Nat
      BY EtwAssumption
    <3>2. CountModulus \in Nat /\ CountModulus > 0
      BY EtwAssumption
    <3> QED
      BY <3>1, <3>2
  <2> HIDE DEF count
  <2> QED
    BY <2>2, <2>3, BeginStep
<1>3. CASE SinkInitFails \/ LogNothing \/ UNCHANGED vars
  BY <1>3, EnableStep DEF SinkInitFails, LogNothing
<1>4. CASE SinkRegister \/ SinkDeinit \/ Return
  BY <1>4, SinkStep
<1>5. CASE \E n \in 0 .. MaxTraceLevel + 1 : Enable(n)
  BY <1>5, EnableStep
<1>6. CASE TooManyProperties \/ DoesNotFit \/ AddProperty \/ PropertiesDone
  BY <1>6, DropStep, AddStep, DoneStep
<1>7. CASE Size \/ FormatFails \/ Format \/ FormatAgain
  BY <1>7, SizeStep, FailStep, FormatStep, FormatAgainStep
<1>8. CASE Describe \/ DescribeValue \/ Emit
  BY <1>8, DescribeStep, ValueStep, EmitStep
<1> QED
  BY <1>1, <1>2, <1>3, <1>4, <1>5, <1>6, <1>7, <1>8 DEF Next

(* What every step of the ETW sink keeps. *)
THEOREM EtwInvariance == Spec => []EtwInv
BY EtwInit, EtwNext, PTL DEF Spec

(* Nothing is written outside of the metadata array or the descriptors.    *)
THEOREM EtwStaysInMetadata == Spec => []StaysInMetadata
<1>1. EtwInv => StaysInMetadata
  BY DEF EtwInv
<1> QED
  BY <1>1, EtwInvariance, PTL

(* The provider is registered exactly while the sink is in use. *)
THEOREM EtwRegistersOnce == Spec => []RegisteredOnce
<1>1. EtwInv => RegisteredOnce
  BY DEF EtwInv
<1> QED
  BY <1>1, EtwInvariance, PTL

LEMMA EmittedFacts ==
  ASSUME EtwInv, emitted
  PROVE  /\ pc = "return" /\ call \in CallType /\ metadata_size = pos /\ data[1].n = pos
         /\ Len(data) = 4 + Cardinality(Fields(i))
         /\ \A k \in Fields(i) : data[4 + Cardinality(Fields(k))].n = k
         /\ add_properties => /\ Holds(call.count) /\ call.count <= MaxPropertyCount
                              /\ call.length < MaxMetadataSize - pos /\ i = call.count
         /\ ~add_properties => pos = call.header /\ ~Fits(Cut) /\ i = 0
         /\ Load(metadata, 0, call.header) = Header(call.header)
<1>1. pc = "return" /\ call \in CallType /\ Complete
  BY DEF EtwInv, CallInv, Called, Complete
<1>2. /\ metadata_size = pos /\ Load(metadata, 0, call.header) = Header(call.header)
      /\ add_properties => Holds(call.count) /\ call.count <= MaxPropertyCount
      /\ ~add_properties => pos = call.header /\ ~Fits(Cut)
  BY <1>1 DEF EtwInv, MetadataInv
<1>3. add_properties => call.length < MaxMetadataSize - pos
  BY <1>1 DEF EtwInv, ContentInv
<1>4. /\ Len(data) = 4 + Cardinality(Fields(i)) /\ data[1].n = pos
      /\ \A k \in Fields(i) : data[4 + Cardinality(Fields(k))].n = k
      /\ add_properties => i = call.count
      /\ ~add_properties => i = 0
  BY DEF EtwInv, DataInv
<1> QED
  BY <1>1, <1>2, <1>3, <1>4

(* The metadata of every event that is sent is that of its properties, all *)
(* or none, and describes its data.                                        *)
THEOREM EtwDescribesItself == Spec => []EventDescribesItself
<1>1. ASSUME EtwInv, emitted
      PROVE  EventDescribesItself
  <2> DEFINE Of(ps) == {k \in DOMAIN ps : ps[k].kind # "struct"}
  <2>1. /\ call \in CallType /\ metadata_size = pos
        /\ Len(data) = 4 + Cardinality(Fields(i))
        /\ \A k \in Fields(i) : data[4 + Cardinality(Fields(k))].n = k
        /\ add_properties => Holds(call.count) /\ i = call.count
        /\ ~add_properties => pos = call.header /\ i = 0
        /\ Load(metadata, 0, call.header) = Header(call.header)
    BY <1>1, EmittedFacts
  <2>2. ASSUME NEW ps \in {<<>>, Cut}, Load(metadata, 0, metadata_size) = Encoding(ps),
               Of(ps) = Fields(i)
        PROVE  EventDescribesItself
    <3>1. ASSUME NEW k \in Of(ps)
          PROVE  {j \in Of(ps) : j <= k} = Fields(k)
      <4>1. i \in Nat
        BY <1>1, EtwAssumption DEF EtwInv, StaysInMetadata, TypeOK
      <4>2. k \in 1 .. i
        BY <2>2, <3>1 DEF Fields
      <4>3. \A j : j \in 1 .. k <=> j \in 1 .. i /\ j <= k
        BY <4>1, <4>2
      <4> HIDE DEF Of
      <4> QED
        BY <2>2, <4>3 DEF Fields
    <3>2. \A k \in Of(ps) : data[4 + Cardinality({j \in Of(ps) : j <= k})].n = k
      BY <2>1, <2>2, <3>1
    <3>3. Len(data) = 4 + Cardinality(Of(ps))
      BY <2>1, <2>2
    <3> QED
      BY <2>2, <3>2, <3>3 DEF EventDescribesItself, Cut
  <2>3. CASE add_properties
    <3>1. Load(metadata, 0, metadata_size) = Encoding(Cut)
      BY <2>1, <2>3, EncodingIs DEF Holds
    <3>2. Of(Cut) = Fields(i)
      BY <2>1, <2>3, CutOK DEF Fields
    <3> QED
      BY <2>2, <3>1, <3>2
  <2>4. CASE ~add_properties
    <3>1. Load(metadata, 0, metadata_size) = Encoding(<<>>)
      BY <2>1, <2>4, EncodingIs
    <3>2. Of(<<>>) = {} /\ Fields(i) = {}
      BY <2>1, <2>4 DEF Fields
    <3> QED
      BY <2>2, <3>1, <3>2
  <2> QED
    BY <2>3, <2>4
<1>2. EtwInv => EventDescribesItself
  BY <1>1 DEF EventDescribesItself
<1> QED
  BY <1>2, EtwInvariance, PTL

(* The content of every event is the message, cut where there is no room,  *)
(* and terminated.                                                         *)
THEOREM EtwContentIsMessage == Spec => []ContentIsMessage
<1>1. EtwInv => ContentIsMessage
  <2> SUFFICES ASSUME EtwInv, emitted
               PROVE  ContentIsMessage
    BY DEF ContentIsMessage
  <2>1. data[1].n = pos
    BY EmittedFacts
  <2>2. LET shown == Min({call.length, MaxMetadataSize - call.header - 1})
        IN  Load(metadata, pos, shown + 1) = Content(shown)
    BY DEF EtwInv, ContentInv, Complete
  <2> QED
    BY <2>1, <2>2 DEF ContentIsMessage, Content, Join
<1> QED
  BY <1>1, EtwInvariance, PTL

(* An event has its properties exactly when they fit, as long as their     *)
(* number fits 16 bits.                                                    *)
THEOREM EtwPropertiesWhenTheyFit == Spec => []PropertiesWhenTheyFit
<1>1. EtwInv => PropertiesWhenTheyFit
  <2> SUFFICES ASSUME EtwInv, emitted, Len(call.pairs) < CountModulus
               PROVE  add_properties <=> Fits(call.pairs)
    BY DEF PropertiesWhenTheyFit
  <2>1. /\ call \in CallType
        /\ add_properties => /\ Holds(call.count) /\ call.count <= MaxPropertyCount
                             /\ call.length < MaxMetadataSize - pos
        /\ ~add_properties => ~Fits(Cut)
    BY EmittedFacts
  <2>2. Cut = call.pairs
    <3>1. call.count = Len(call.pairs) /\ call.pairs \in Seq(Pair)
      BY <2>1, CallOK
    <3> QED
      BY <3>1 DEF Cut
  <2>3. CASE add_properties
    <3>1. /\ pos = call.header + Len(Described(call, call.count))
          /\ \A k \in 1 .. call.count : call.pairs[k].kind # "unknown"
      BY <2>1, <2>3 DEF Holds
    <3>2. /\ call.header \in Nat /\ call.length \in Nat /\ MaxMetadataSize \in Nat
          /\ call.count \in 0 .. call.count
      BY <2>1, CallOK, EtwAssumption
    <3>3. Len(Described(call, call.count)) \in Nat
      BY <2>1, <3>2, DescribedOK
    <3>4. call.header + Len(Described(call, call.count)) + call.length + 1 <= MaxMetadataSize
      BY <2>1, <2>3, <3>1, <3>2, <3>3
    <3> QED
      BY <2>1, <2>2, <2>3, <3>1, <3>4, FitsIs
  <2> QED
    BY <2>1, <2>2, <2>3
<1> QED
  BY <1>1, EtwInvariance, PTL

=============================================================================
