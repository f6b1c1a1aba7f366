------------------------ MODULE MappedBlocks_proofs ------------------------
(***************************************************************************)
(* Proofs about MappedBlocks, for every number of addresses and of calls:  *)
(* the table of blocks is exact between two calls, a range is cut out      *)
(* exactly, and the exception means what it says.                          *)
(*                                                                         *)
(* The argument is one about tables: Insert and Erase add and remove       *)
(* exactly the bytes of one block and keep blocks apart (Inserted,         *)
(* Erased).  A turn of the loop is one Erase and at most two Inserts.      *)
(***************************************************************************)
EXTENDS MappedBlocks, FiniteSetTheorems, TLAPS

(* A table of disjoint, non-empty blocks, and the bytes it covers. *)
First(f, k) == k - f[k] + 1
Table(f) == /\ DOMAIN f \subseteq Addrs
            /\ \A k \in DOMAIN f : f[k] \in 1..(k + 1)
            /\ \A j, k \in DOMAIN f : j < k => j < First(f, k)
Cover(f) == {a \in Addrs : \E k \in DOMAIN f : First(f, k) <= a /\ a <= k}

(* What of the range is removed when the call is over. *)
Gone == lo..(ptr + size - 1)

(* The range is one of addresses, and the alarm ends everything. *)
InRange == op # "idle" => /\ ~alarm /\ lo <= ptr /\ ptr + size <= MaxAddr + 1

(* What the kernel has mapped while the tracker is at work. *)
Kernel ==
    /\ op = "remove" => before = mapped
    /\ op = "retrack" =>
          /\ into.n > 0 /\ into.p + into.n <= MaxAddr + 1
          /\ Gone \subseteq before
          /\ Bytes(into.p, into.n) \intersect (before \ Gone) = {}
          /\ mapped = (before \ Gone) \union Bytes(into.p, into.n)

IndInv == MapTypeOK /\ Disjoint /\ Conserved /\ Mirror /\ InRange /\ CutExact /\ Kernel
-----------------------------------------------------------------------------
(* A set of numbers that is not empty has a least one. *)
LEMMA MinIsLeast ==
    ASSUME NEW S \in SUBSET Nat, S # {}
    PROVE  Min(S) \in S /\ \A y \in S : Min(S) <= y
<1> DEFINE R == OpToRel(<, Nat)
<1>1. IsWellFoundedOn(R, Nat)
  BY NatLessThanWellFounded
<1>2. \A x, y \in Nat : y < x => <<y, x>> \in R
  BY DEF OpToRel
<1> HIDE DEF R
<1>3. PICK x \in S : \A y \in S : ~(<<y, x>> \in R)
  BY <1>1, WFMin
<1>4. \A y \in S : x <= y
  <2> SUFFICES ASSUME NEW y \in S PROVE x <= y
    OBVIOUS
  <2>1. x \in Nat /\ y \in Nat
    OBVIOUS
  <2>2. ~(y < x)
    BY <1>2, <1>3, <2>1, Zenon
  <2> QED
    BY <2>1, <2>2
<1>5. \E z \in S : \A y \in S : z <= y
  BY <1>4
<1> QED
  BY <1>5, Zenon DEF Min

(* A block that shares no byte with the table is entered as a whole. *)
LEMMA Inserted ==
    ASSUME NEW f, Table(f), NEW p \in Addrs, NEW n \in Nat \ {0}, p + n <= MaxAddr + 1,
           Bytes(p, n) \intersect Cover(f) = {}
    PROVE  /\ Table(Insert(f, p + n - 1, n))
           /\ Cover(Insert(f, p + n - 1, n)) = Cover(f) \union Bytes(p, n)
<1> DEFINE e == p + n - 1
           g == Insert(f, e, n)
<1>0. MaxAddr \in Nat /\ e \in Addrs /\ e \in Int /\ p \in Int /\ n \in Int /\ n > 0
  BY AddrAssumption DEF Addrs
<1>1. \A k \in DOMAIN f : k \in Int /\ f[k] \in Int /\ f[k] > 0 /\ k \in Addrs
                          /\ First(f, k) \in Int /\ First(f, k) <= k /\ First(f, k) >= 0
  BY <1>0 DEF Table, Addrs, First
<1>2. \A k \in DOMAIN f : k < p \/ First(f, k) > e
  <2> SUFFICES ASSUME NEW k \in DOMAIN f, ~(k < p), ~(First(f, k) > e)
               PROVE  FALSE
    OBVIOUS
  <2> DEFINE b == IF k < e THEN k ELSE e
  <2>1. b \in Bytes(p, n)
    BY <1>0, <1>1 DEF Bytes
  <2>2. b \in Cover(f)
    BY <1>0, <1>1 DEF Cover, Addrs
  <2> QED
    BY <2>1, <2>2
<1>3. e \notin DOMAIN f
  BY <1>0, <1>1, <1>2
<1>4. DOMAIN g = DOMAIN f \union {e} /\ g[e] = n /\ \A k \in DOMAIN f : g[k] = f[k]
  BY <1>3 DEF Insert
<1> HIDE DEF g
<1>5. First(g, e) = p /\ \A k \in DOMAIN f : First(g, k) = First(f, k)
  BY <1>0, <1>4 DEF First
<1>6. Table(g)
  <2>1. DOMAIN g \subseteq Addrs
    BY <1>0, <1>4 DEF Table
  <2>2. \A k \in DOMAIN g : g[k] \in 1..(k + 1)
    <3>1. n \in 1..(e + 1)
      BY <1>0 DEF Addrs
    <3> QED
      BY <1>4, <3>1 DEF Table
  <2>3. ASSUME NEW j \in DOMAIN g, NEW k \in DOMAIN g, j < k
        PROVE  j < First(g, k)
    <3>1. CASE j \in DOMAIN f /\ k \in DOMAIN f
      BY <2>3, <3>1, <1>5 DEF Table
    <3>2. CASE j = e /\ k \in DOMAIN f
      BY <2>3, <3>2, <1>5, <1>2, <1>1, <1>0
    <3>3. CASE j \in DOMAIN f /\ k = e
      BY <2>3, <3>3, <1>5, <1>2, <1>1, <1>0
    <3> QED
      BY <2>3, <3>1, <3>2, <3>3, <1>4, <1>0
  <2> QED
    BY <2>1, <2>2, <2>3 DEF Table
<1>7. Cover(g) = Cover(f) \union Bytes(p, n)
  <2>1. Bytes(p, n) = {a \in Addrs : p <= a /\ a <= e}
    BY <1>0 DEF Bytes, Addrs
  <2> QED
    BY <2>1, <1>4, <1>5 DEF Cover
<1> QED
  BY <1>6, <1>7 DEF g

(* A block is removed as a whole. *)
LEMMA Erased ==
    ASSUME NEW f, Table(f), NEW k \in DOMAIN f
    PROVE  /\ Table(Erase(f, k))
           /\ Cover(Erase(f, k)) = Cover(f) \ (First(f, k)..k)
<1> DEFINE g == Erase(f, k)
<1>0. MaxAddr \in Nat /\ \A a \in Addrs : a \in Int
  BY AddrAssumption DEF Addrs
<1>1. \A j \in DOMAIN f : j \in Int /\ f[j] \in Int /\ f[j] > 0 /\ First(f, j) \in Int
                          /\ First(f, j) <= j
  BY <1>0 DEF Table, Addrs, First
<1>2. DOMAIN g = DOMAIN f \ {k} /\ \A j \in DOMAIN g : g[j] = f[j]
  BY DEF Erase
<1> HIDE DEF g
<1>3. \A j \in DOMAIN g : First(g, j) = First(f, j)
  BY <1>2 DEF First
<1>4. Table(g)
  BY <1>2, <1>3 DEF Table
<1>5. \A j \in DOMAIN f : j # k => j < First(f, k) \/ k < First(f, j)
  BY <1>1 DEF Table
<1>6. Cover(g) = Cover(f) \ (First(f, k)..k)
  <2>1. ASSUME NEW a \in Cover(g) PROVE a \in Cover(f) \ (First(f, k)..k)
    <3>1. PICK j \in DOMAIN g : First(g, j) <= a /\ a <= j
      BY <2>1 DEF Cover
    <3>2. a \in Addrs /\ a \in Int
      BY <2>1, <1>0 DEF Cover
    <3>3. j \in DOMAIN f /\ j # k /\ First(f, j) <= a
      BY <3>1, <1>2, <1>3
    <3>4. a \in Cover(f)
      BY <3>1, <3>2, <3>3 DEF Cover
    <3>5. a < First(f, k) \/ k < a
      BY <3>1, <3>2, <3>3, <1>1, <1>5
    <3> QED
      BY <3>4, <3>5, <3>2, <1>1
  <2>2. ASSUME NEW a \in Cover(f) \ (First(f, k)..k) PROVE a \in Cover(g)
    <3>1. PICK j \in DOMAIN f : First(f, j) <= a /\ a <= j
      BY <2>2 DEF Cover
    <3>2. a \in Addrs /\ a \in Int
      BY <2>2, <1>0 DEF Cover
    <3>3. j # k
      BY <3>1, <3>2, <2>2, <1>1
    <3> QED
      BY <3>1, <3>2, <3>3, <1>2, <1>3 DEF Cover
  <2> QED
    BY <2>1, <2>2
<1> QED
  BY <1>4, <1>6 DEF g
-----------------------------------------------------------------------------
(* The numbers of MapTypeOK and of the invariant, as the steps need them. *)
LEMMA Numbers ==
    ASSUME MapTypeOK
    PROVE  /\ MaxAddr \in Nat /\ \A a \in Addrs : a \in Nat /\ a <= MaxAddr
           /\ ptr \in Nat /\ size \in Nat /\ lo \in Nat /\ aSize \in Nat /\ fSize \in Nat
           /\ \A k \in DOMAIN blocks :
                 /\ k \in Nat /\ k <= MaxAddr /\ blocks[k] \in Nat /\ blocks[k] > 0
                 /\ blocks[k] <= k + 1 /\ Start(k) \in Nat /\ Start(k) <= k
BY AddrAssumption DEF MapTypeOK, Addrs, Start

LEMMA TheTable ==
    ASSUME MapTypeOK, Disjoint
    PROVE  /\ Table(blocks) /\ Covered = Cover(blocks)
           /\ \A k : First(blocks, k) = Start(k)
BY DEF MapTypeOK, Disjoint, Table, Cover, Covered, First, Start

(* The other way round, with what the two parts of IndInv say of a table. *)
LEMMA NewTable ==
    ASSUME Table(blocks')
    PROVE  /\ Disjoint' /\ Covered' = Cover(blocks')
           /\ DOMAIN blocks' \subseteq Addrs
           /\ \A k \in DOMAIN blocks' : blocks'[k] \in 1..(k + 1)
BY DEF Disjoint, Table, Cover, Covered, First, Start

LEMMA CoverIsFinite ==
    ASSUME NEW f
    PROVE  IsFiniteSet(Cover(f)) /\ Cardinality(Cover(f)) \in Nat
<1>1. IsFiniteSet(0..MaxAddr)
  BY AddrAssumption, FS_Interval
<1>2. Cover(f) \in SUBSET (0..MaxAddr)
  BY DEF Cover, Addrs
<1> QED
  BY <1>1, <1>2, FS_Subset, FS_CardinalityType

(* The sizes of the ranges, as far as counting goes. *)
LEMMA CoverGrows ==
    ASSUME NEW f, NEW p \in Nat, NEW n \in Nat, Bytes(p, n) \intersect Cover(f) = {}
    PROVE  Cardinality(Cover(f) \union Bytes(p, n)) = Cardinality(Cover(f)) + n
<1>1. IsFiniteSet(Bytes(p, n)) /\ Cardinality(Bytes(p, n)) = n
  <2>1. /\ IsFiniteSet(p..(p + n - 1))
        /\ Cardinality(p..(p + n - 1)) = IF p > p + n - 1 THEN 0 ELSE (p + n - 1) - p + 1
    BY FS_Interval
  <2> QED
    BY <2>1 DEF Bytes
<1>2. IsFiniteSet(Cover(f)) /\ Cardinality(Cover(f)) \in Nat
  BY CoverIsFinite
<1>3. Cardinality(Cover(f) \union Bytes(p, n)) =
         Cardinality(Cover(f)) + Cardinality(Bytes(p, n))
            - Cardinality(Cover(f) \intersect Bytes(p, n))
  BY <1>1, <1>2, FS_Union
<1>4. Cardinality(Cover(f) \intersect Bytes(p, n)) = 0
  <2>1. Cover(f) \intersect Bytes(p, n) = {}
    OBVIOUS
  <2> QED
    BY <2>1, FS_EmptySet
<1> QED
  BY <1>1, <1>2, <1>3, <1>4

LEMMA CoverShrinks ==
    ASSUME NEW f, NEW p \in Nat, NEW n \in Nat, Bytes(p, n) \subseteq Cover(f)
    PROVE  Cardinality(Cover(f) \ Bytes(p, n)) = Cardinality(Cover(f)) - n
<1>1. Cardinality(Bytes(p, n)) = n
  <2>1. Cardinality(p..(p + n - 1)) = IF p > p + n - 1 THEN 0 ELSE (p + n - 1) - p + 1
    BY FS_Interval
  <2> QED
    BY <2>1 DEF Bytes
<1>2. IsFiniteSet(Cover(f))
  BY CoverIsFinite
<1>3. Cover(f) \intersect Bytes(p, n) = Bytes(p, n)
  OBVIOUS
<1> QED
  BY <1>1, <1>2, <1>3, FS_Difference
-----------------------------------------------------------------------------
(* lower_bound finds the block that holds ptr, if there is one. *)
LEMMA BlockFound ==
    ASSUME IndInv, Found
    PROVE  Min(After) \in DOMAIN blocks /\ Start(Min(After)) <= ptr /\ ptr <= Min(After)
<1>1. After \in SUBSET Nat
  BY Numbers DEF IndInv, After
<1>2. After # {} /\ Start(Min(After)) <= ptr
  BY DEF Found
<1>3. Min(After) \in After
  BY <1>1, <1>2, MinIsLeast
<1> QED
  BY <1>2, <1>3, Numbers DEF After, IndInv

LEMMA NoBlockFound ==
    ASSUME IndInv, size > 0, ~Found
    PROVE  ptr \notin Covered
<1> SUFFICES ASSUME NEW k \in DOMAIN blocks, Start(k) <= ptr, ptr <= k
             PROVE  FALSE
  BY DEF Covered
<1> DEFINE m == Min(After)
<1>0. After \in SUBSET Nat /\ k \in After
  BY Numbers DEF IndInv, After
<1>1. m \in After /\ m <= k
  BY <1>0, MinIsLeast
<1> HIDE DEF m
<1>2. m \in DOMAIN blocks /\ m >= ptr
  BY <1>1 DEF After
<1>3. Start(m) > ptr
  <2>1. ~(Start(m) <= ptr)
    BY <1>0 DEF Found, m
  <2> QED
    BY <2>1, <1>2, Numbers DEF IndInv
<1>4. m < k
  BY <1>1, <1>2, <1>3, Numbers DEF IndInv
<1>5. m < Start(k)
  BY <1>2, <1>4 DEF IndInv, Disjoint
<1> QED
  BY <1>2, <1>5, Numbers DEF IndInv

(* What a turn of the loop does to the table: it takes the first bytes of  *)
(* the range out, as many as the block that was found has, and no others.  *)
LEMMA Turn ==
    ASSUME IndInv, op # "idle", Found,
           NEW k, k = Min(After),
           NEW off, off = ptr - Start(k),
           NEW rem, rem = blocks[k] - off,
           NEW cut, cut = Smaller(rem, size)
    PROVE  /\ cut \in Nat /\ 0 < cut /\ cut <= size
           /\ Bytes(ptr, cut) \subseteq Covered
           /\ Table(Pieces(k, off, rem))
           /\ Cover(Pieces(k, off, rem)) = Covered \ Bytes(ptr, cut)
<1>1. /\ k \in DOMAIN blocks /\ Start(k) <= ptr /\ ptr <= k
  BY BlockFound
<1>2. /\ ptr \in Nat /\ size \in Nat /\ size > 0 /\ MaxAddr \in Nat
      /\ k \in Nat /\ k <= MaxAddr /\ Start(k) \in Nat
      /\ blocks[k] \in Nat /\ blocks[k] > 0 /\ Start(k) = k - blocks[k] + 1
      /\ ptr + size <= MaxAddr + 1
  BY <1>1, Numbers DEF IndInv, Found, InRange, Start
<1>3. /\ off \in Nat /\ rem \in Nat /\ rem > 0 /\ rem = k - ptr + 1
      /\ cut \in Nat /\ 0 < cut /\ cut <= size /\ cut <= rem /\ (rem <= size => cut = rem)
      /\ (rem > size => cut = size)
  BY <1>1, <1>2 DEF Smaller
<1>4. Table(blocks) /\ Covered = Cover(blocks) /\ First(blocks, k) = Start(k)
  BY TheTable DEF IndInv
<1>5. Bytes(ptr, cut) \subseteq Start(k)..k
  BY <1>1, <1>2, <1>3 DEF Bytes
<1>6. Start(k)..k \subseteq Covered
  <2>1. Start(k)..k \subseteq Addrs
    BY <1>2 DEF Addrs
  <2> QED
    BY <2>1, <1>1 DEF Covered
<1> DEFINE rest == Erase(blocks, k)
           left == IF off > 0 THEN Insert(rest, ptr - 1, off) ELSE rest
<1>7. Table(rest) /\ Cover(rest) = Covered \ (Start(k)..k)
  BY <1>1, <1>4, Erased
<1> HIDE DEF rest
<1>8. Table(left) /\ Cover(left) = Covered \ (ptr..k)
  <2>1. CASE off = 0
    <3>1. Start(k) = ptr
      BY <2>1, <1>2
    <3>2. left = rest
      BY <2>1 DEF left
    <3> QED
      BY <3>1, <3>2, <1>7
  <2>2. CASE off > 0
    <3>1. Bytes(Start(k), off) = Start(k)..(ptr - 1)
      <4>1. Start(k) + off - 1 = ptr - 1
        BY <1>2
      <4> QED
        BY <4>1, Zenon DEF Bytes
    <3>2. Bytes(Start(k), off) \intersect Cover(rest) = {}
      <4>1. Start(k)..(ptr - 1) \subseteq Start(k)..k
        BY <1>1, <1>2
      <4> QED
        BY <4>1, <3>1, <1>7
    <3>3. /\ Start(k) \in Addrs /\ off \in Nat \ {0} /\ Start(k) + off <= MaxAddr + 1
          /\ Start(k) + off - 1 = ptr - 1
      BY <2>2, <1>1, <1>2, <1>3 DEF Addrs
    <3>4. /\ Table(Insert(rest, Start(k) + off - 1, off))
          /\ Cover(Insert(rest, Start(k) + off - 1, off)) = Cover(rest) \union Bytes(Start(k), off)
      BY <3>2, <3>3, <1>7, Inserted
    <3>5. (Covered \ (Start(k)..k)) \union (Start(k)..(ptr - 1)) = Covered \ (ptr..k)
      BY <1>1, <1>2, <1>6
    <3> QED
      BY <2>2, <3>1, <3>3, <3>4, <3>5, <1>7
  <2> QED
    BY <2>1, <2>2, <1>3
<1> HIDE DEF left
<1>9. /\ Table(Pieces(k, off, rem))
      /\ Cover(Pieces(k, off, rem)) = Covered \ Bytes(ptr, cut)
  <2>1. CASE rem <= size
    <3>1. Pieces(k, off, rem) = left
      BY <2>1, <1>2, <1>3 DEF Pieces, left, rest
    <3>2. Bytes(ptr, cut) = ptr..k
      <4>1. ptr + cut - 1 = k
        BY <2>1, <1>2, <1>3
      <4> QED
        BY <4>1, Zenon DEF Bytes
    <3> QED
      BY <3>1, <3>2, <1>8
  <2>2. CASE rem > size
    <3>1. Pieces(k, off, rem) = Insert(left, (ptr + size) + (rem - size) - 1, rem - size)
      <4>1. (ptr + size) + (rem - size) - 1 = k
        BY <1>2, <1>3
      <4> QED
        BY <4>1, <2>2 DEF Pieces, left, rest
    <3>2. Bytes(ptr + size, rem - size) = (ptr + size)..k
      <4>1. (ptr + size) + (rem - size) - 1 = k
        BY <1>2, <1>3
      <4> QED
        BY <4>1, Zenon DEF Bytes
    <3>3. Bytes(ptr + size, rem - size) \intersect Cover(left) = {}
      <4>1. (ptr + size)..k \subseteq ptr..k
        BY <1>2
      <4> QED
        BY <4>1, <3>2, <1>8
    <3>4. /\ ptr + size \in Addrs /\ rem - size \in Nat \ {0}
          /\ (ptr + size) + (rem - size) <= MaxAddr + 1
      BY <2>2, <1>2, <1>3 DEF Addrs
    <3>5. /\ Table(Pieces(k, off, rem))
          /\ Cover(Pieces(k, off, rem)) = Cover(left) \union ((ptr + size)..k)
      <4>1. Table(left)
        BY <1>8
      <4> HIDE DEF left
      <4> DEFINE p == ptr + size
                 n == rem - size
      <4>2. Bytes(p, n) \intersect Cover(left) = {} /\ p \in Addrs /\ n \in Nat \ {0}
            /\ p + n <= MaxAddr + 1
        BY <3>3, <3>4
      <4> HIDE DEF p, n
      <4>3. /\ Table(Insert(left, p + n - 1, n))
            /\ Cover(Insert(left, p + n - 1, n)) = Cover(left) \union Bytes(p, n)
        BY <4>1, <4>2, Inserted
      <4> QED
        BY <4>3, <3>1, <3>2 DEF p, n
    <3>6. (Covered \ (ptr..k)) \union ((ptr + size)..k) = Covered \ Bytes(ptr, cut)
      BY <2>2, <1>1, <1>2, <1>3, <1>6 DEF Bytes
    <3> QED
      BY <3>5, <3>6, <1>8
  <2> QED
    BY <2>1, <2>2, <1>2, <1>3
<1> QED
  BY <1>3, <1>5, <1>6, <1>9
-----------------------------------------------------------------------------
(* The steps. *)

LEMMA MmapStep ==
    ASSUME IndInv, NEW p \in Addrs, NEW n \in 1..(MaxAddr + 1 - p), Mmap(p, n)
    PROVE  IndInv'
<1>1. /\ op = "idle" /\ op' = "idle" /\ ~alarm /\ alarm' = alarm /\ calls < MaxCalls
      /\ Bytes(p, n) \subseteq Addrs \ mapped
      /\ mapped' = mapped \union Bytes(p, n)
      /\ blocks' = Insert(blocks, p + n - 1, n)
      /\ aSize' = aSize + n /\ fSize' = fSize /\ calls' = calls + 1
      /\ ptr' = ptr /\ size' = size /\ into' = into /\ lo' = lo /\ before' = before
  BY DEF Mmap, range
<1>2. /\ MaxAddr \in Nat /\ MaxCalls \in Nat /\ p \in Nat
      /\ n \in Nat \ {0} /\ p + n <= MaxAddr + 1
  BY AddrAssumption DEF Addrs
<1>3. Table(blocks) /\ Covered = Cover(blocks) /\ Covered = mapped
  BY <1>1, TheTable DEF IndInv, Mirror
<1>4. Bytes(p, n) \intersect Cover(blocks) = {}
  BY <1>1, <1>3
<1>5. Table(blocks') /\ Cover(blocks') = Cover(blocks) \union Bytes(p, n)
  BY <1>1, <1>2, <1>3, <1>4, Inserted
<1>6. /\ Disjoint' /\ Covered' = Cover(blocks') /\ DOMAIN blocks' \subseteq Addrs
      /\ \A k \in DOMAIN blocks' : blocks'[k] \in 1..(k + 1)
  BY <1>5, NewTable
<1>7. MapTypeOK'
  <2>1. /\ mapped \subseteq Addrs /\ aSize \in Nat /\ fSize \in Nat
        /\ calls \in Nat /\ calls <= MaxCalls
    BY <1>2 DEF IndInv, MapTypeOK
  <2>2. mapped' \subseteq Addrs
    BY <2>1, <1>1
  <2>3. aSize' \in Nat /\ fSize' \in Nat
    BY <2>1, <1>1, <1>2
  <2>4. calls' \in 0..MaxCalls
    BY <2>1, <1>1, <1>2
  <2>5. mapped' \subseteq Addrs /\ aSize' \in Nat /\ fSize' \in Nat /\ calls' \in 0..MaxCalls
    BY <2>2, <2>3, <2>4
  <2>6. /\ op' = "idle" /\ alarm' \in BOOLEAN
        /\ ptr' \in 0..(MaxAddr + 1) /\ size' \in 0..(MaxAddr + 1)
        /\ into' \in [p : Addrs, n : 0..(MaxAddr + 1)]
        /\ lo' \in Addrs /\ before' \subseteq Addrs
    BY <1>1, Zenon DEF IndInv, MapTypeOK
  <2> QED
    BY <2>5, <2>6, <1>6 DEF MapTypeOK
<1>8. Conserved'
  <2>1. Cardinality(Covered') = Cardinality(Covered) + n
    <3>1. Cardinality(Cover(blocks) \union Bytes(p, n)) = Cardinality(Cover(blocks)) + n
      BY <1>2, <1>3, <1>4, CoverGrows
    <3>2. Covered' = Cover(blocks) \union Bytes(p, n)
      BY <1>5, <1>6, Zenon
    <3> QED
      BY <3>1, <3>2, <1>3, Zenon
  <2>2. aSize - fSize = Cardinality(Covered) /\ aSize \in Nat /\ fSize \in Nat
    BY DEF IndInv, Conserved, MapTypeOK
  <2> QED
    BY <2>1, <2>2, <1>1, <1>2 DEF Conserved
<1>9. Mirror'
  BY <1>1, <1>3, <1>5, <1>6 DEF Mirror
<1>10. InRange' /\ CutExact' /\ Kernel'
  BY <1>1 DEF InRange, CutExact, Kernel
<1> QED
  BY <1>6, <1>7, <1>8, <1>9, <1>10 DEF IndInv

LEMMA MunmapStep ==
    ASSUME IndInv, NEW p \in Addrs, NEW n \in 1..(MaxAddr + 1 - p), Munmap(p, n)
    PROVE  IndInv'
<1>1. /\ op = "idle" /\ op' = "remove" /\ ~alarm /\ alarm' = alarm
      /\ mapped' = mapped /\ blocks' = blocks /\ aSize' = aSize /\ fSize' = fSize
      /\ calls' = calls /\ into' = into
      /\ ptr' = p /\ size' = n /\ lo' = p /\ before' = Covered
  BY DEF Munmap, Begin, counters
<1>2. MaxAddr \in Nat /\ p \in Nat /\ p <= MaxAddr /\ n \in Nat /\ n > 0 /\ p + n <= MaxAddr + 1
  BY AddrAssumption DEF Addrs
<1>3. Covered' = Covered /\ Covered \subseteq Addrs
  BY <1>1 DEF Covered, Start
<1>4. MapTypeOK'
  BY <1>1, <1>2, <1>3 DEF IndInv, MapTypeOK
<1>5. Disjoint' /\ Conserved' /\ Mirror'
  BY <1>1, <1>3 DEF IndInv, Disjoint, Conserved, Mirror, Start
<1>6. InRange'
  BY <1>1, <1>2 DEF InRange
<1>7. CutExact'
  <2>1. lo'..(ptr' - 1) = {}
    BY <1>1, <1>2
  <2> QED
    BY <2>1, <1>1, <1>3 DEF CutExact
<1>8. Kernel'
  BY <1>1 DEF IndInv, Mirror, Kernel
<1> QED
  BY <1>4, <1>5, <1>6, <1>7, <1>8 DEF IndInv

LEMMA MremapStep ==
    ASSUME IndInv, NEW p \in Addrs, NEW n \in 1..(MaxAddr + 1 - p),
           NEW q \in Addrs, NEW k \in 1..(MaxAddr + 1 - q), Mremap(p, n, q, k)
    PROVE  IndInv'
<1>1. /\ op = "idle" /\ op' = "retrack" /\ ~alarm /\ alarm' = alarm /\ calls < MaxCalls
      /\ Bytes(p, n) \subseteq mapped
      /\ Bytes(q, k) \subseteq (Addrs \ mapped) \union (IF q = p THEN Bytes(p, n) ELSE {})
      /\ mapped' = (mapped \ Bytes(p, n)) \union Bytes(q, k)
      /\ blocks' = blocks /\ aSize' = aSize /\ fSize' = fSize /\ calls' = calls + 1
      /\ into' = [p |-> q, n |-> k]
      /\ ptr' = p /\ size' = n /\ lo' = p /\ before' = Covered
  BY DEF Mremap, Begin, counters
<1>2. /\ MaxAddr \in Nat /\ MaxCalls \in Nat
      /\ p \in Nat /\ p <= MaxAddr /\ n \in Nat /\ n > 0 /\ p + n <= MaxAddr + 1
      /\ q \in Nat /\ q <= MaxAddr /\ k \in Nat /\ k > 0 /\ q + k <= MaxAddr + 1
  BY AddrAssumption DEF Addrs
<1>3. Covered' = Covered /\ Covered \subseteq Addrs
  BY <1>1 DEF Covered, Start
<1>4. Bytes(p, n) \subseteq Addrs /\ Bytes(q, k) \subseteq Addrs
  BY <1>2 DEF Bytes, Addrs
<1>5. MapTypeOK'
  <2>1. into' \in [p : Addrs, n : 0..(MaxAddr + 1)]
    BY <1>1, <1>2
  <2>2. mapped' \subseteq Addrs
    BY <1>1, <1>4 DEF IndInv, MapTypeOK
  <2> QED
    BY <2>1, <2>2, <1>1, <1>2, <1>3 DEF IndInv, MapTypeOK
<1>6. Disjoint' /\ Conserved' /\ Mirror'
  BY <1>1, <1>3 DEF IndInv, Disjoint, Conserved, Mirror, Start
<1>7. InRange'
  BY <1>1, <1>2 DEF InRange
<1>8. CutExact'
  <2>1. lo'..(ptr' - 1) = {}
    BY <1>1, <1>2
  <2> QED
    BY <2>1, <1>1, <1>3 DEF CutExact
<1>9. Kernel'
  <2>1. Gone' = Bytes(p, n) /\ before' = mapped
    BY <1>1, Zenon DEF IndInv, Mirror, Gone, Bytes
  <2>2. into'.p = q /\ into'.n = k
    BY <1>1
  <2>3. Bytes(into'.p, into'.n) = Bytes(q, k)
    BY <2>2
  <2>4. Bytes(q, k) \intersect (mapped \ Bytes(p, n)) = {}
    BY <1>1
  <2>5. Bytes(into'.p, into'.n) = Bytes(into.p, into.n)'
    BY DEF Bytes
  <2> QED
    BY <2>1, <2>2, <2>3, <2>4, <1>1, <1>2 DEF Kernel
<1> QED
  BY <1>5, <1>6, <1>7, <1>8, <1>9 DEF IndInv

LEMMA CutStep ==
    ASSUME IndInv, Cut
    PROVE  IndInv'
<1>1. PICK k, off, rem, cut : /\ k = Min(After) /\ off = ptr - Start(k)
                              /\ rem = blocks[k] - off /\ cut = Smaller(rem, size)
  OBVIOUS
<1>2. /\ op # "idle" /\ Found /\ op' = op
      /\ blocks' = Pieces(k, off, rem) /\ fSize' = fSize + cut
      /\ ptr' = ptr + cut /\ size' = size - cut
      /\ mapped' = mapped /\ aSize' = aSize /\ into' = into /\ lo' = lo
      /\ before' = before /\ alarm' = alarm /\ calls' = calls
  BY <1>1 DEF Cut
<1>3. /\ cut \in Nat /\ 0 < cut /\ cut <= size
      /\ Bytes(ptr, cut) \subseteq Covered
      /\ Table(blocks') /\ Cover(blocks') = Covered \ Bytes(ptr, cut)
  BY <1>1, <1>2, Turn
<1>4. /\ Disjoint' /\ Covered' = Cover(blocks') /\ DOMAIN blocks' \subseteq Addrs
      /\ \A j \in DOMAIN blocks' : blocks'[j] \in 1..(j + 1)
  BY <1>3, NewTable
<1>5. /\ MaxAddr \in Nat /\ ptr \in Nat /\ size \in Nat /\ lo \in Nat
      /\ aSize \in Nat /\ fSize \in Nat
      /\ ~alarm /\ lo <= ptr /\ ptr + size <= MaxAddr + 1
  BY <1>2, Numbers DEF IndInv, InRange
<1>6. MapTypeOK'
  <2>1. /\ ptr' \in 0..(MaxAddr + 1) /\ size' \in 0..(MaxAddr + 1) /\ fSize' \in Nat
    BY <1>2, <1>3, <1>5
  <2> QED
    BY <2>1, <1>2, <1>4 DEF IndInv, MapTypeOK
<1>7. Conserved'
  <2>1. Covered = Cover(blocks)
    BY TheTable DEF IndInv
  <2>2. Cardinality(Covered') = Cardinality(Covered) - cut
    BY <2>1, <1>3, <1>4, <1>5, CoverShrinks
  <2>3. aSize - fSize = Cardinality(Covered) /\ Cardinality(Covered) \in Nat
    BY <2>1, CoverIsFinite DEF IndInv, Conserved
  <2> QED
    BY <2>2, <2>3, <1>2, <1>3, <1>5 DEF Conserved
<1>8. Mirror'
  BY <1>2 DEF Mirror
<1>9. InRange'
  BY <1>2, <1>3, <1>5 DEF InRange
<1>10. CutExact'
  <2>1. lo..(ptr - 1) \subseteq before /\ Covered = before \ (lo..(ptr - 1))
    BY <1>2 DEF IndInv, CutExact
  <2>2. lo'..(ptr' - 1) = (lo..(ptr - 1)) \union Bytes(ptr, cut)
    BY <1>2, <1>3, <1>5 DEF Bytes
  <2> QED
    BY <2>1, <2>2, <1>2, <1>3, <1>4 DEF CutExact
<1>11. Kernel'
  <2>1. Gone' = Gone
    <3>1. ptr' + size' - 1 = ptr + size - 1
      BY <1>2, <1>3, <1>5
    <3> QED
      BY <3>1, <1>2, Zenon DEF Gone
  <2> QED
    BY <2>1, <1>2 DEF IndInv, Kernel
<1> QED
  BY <1>4, <1>6, <1>7, <1>8, <1>9, <1>10, <1>11 DEF IndInv

LEMMA FailStep ==
    ASSUME IndInv, Fail
    PROVE  IndInv'
<1>1. /\ op' = "idle" /\ alarm' = TRUE /\ ptr' = 0 /\ size' = 0 /\ into' = NoBlock
      /\ lo' = 0 /\ before' = {}
      /\ mapped' = mapped /\ blocks' = blocks /\ aSize' = aSize /\ fSize' = fSize
      /\ calls' = calls
  BY DEF Fail, Return, counters
<1>2. Covered' = Covered
  BY <1>1 DEF Covered, Start
<1>3. MapTypeOK'
  BY <1>1, AddrAssumption DEF IndInv, MapTypeOK, NoBlock, Addrs
<1>4. Disjoint' /\ Conserved'
  BY <1>1, <1>2 DEF IndInv, Disjoint, Conserved, Start
<1>5. Mirror' /\ InRange' /\ CutExact' /\ Kernel'
  BY <1>1 DEF Mirror, InRange, CutExact, Kernel
<1> QED
  BY <1>3, <1>4, <1>5 DEF IndInv

LEMMA RemovedStep ==
    ASSUME IndInv, Removed
    PROVE  IndInv'
<1>1. /\ op = "remove" /\ size = 0 /\ mapped' = mapped \ (lo..(ptr - 1))
      /\ op' = "idle" /\ ptr' = 0 /\ size' = 0 /\ into' = NoBlock /\ lo' = 0 /\ before' = {}
      /\ blocks' = blocks /\ aSize' = aSize /\ fSize' = fSize
      /\ alarm' = alarm /\ calls' = calls
  BY DEF Removed, Return, counters
<1>2. Covered' = Covered
  BY <1>1 DEF Covered, Start
<1>3. MapTypeOK'
  BY <1>1, AddrAssumption DEF IndInv, MapTypeOK, NoBlock, Addrs
<1>4. Disjoint' /\ Conserved'
  BY <1>1, <1>2 DEF IndInv, Disjoint, Conserved, Start
<1>5. Mirror'
  <2>1. before = mapped /\ Covered = before \ (lo..(ptr - 1))
    BY <1>1 DEF IndInv, Kernel, CutExact
  <2> QED
    BY <2>1, <1>1, <1>2 DEF Mirror
<1>6. InRange' /\ CutExact' /\ Kernel'
  BY <1>1 DEF InRange, CutExact, Kernel
<1> QED
  BY <1>3, <1>4, <1>5, <1>6 DEF IndInv

LEMMA RetrackedStep ==
    ASSUME IndInv, Retracked
    PROVE  IndInv'
<1> DEFINE p == into.p
           n == into.n
<1>1. /\ op = "retrack" /\ size = 0
      /\ blocks' = Insert(blocks, p + n - 1, n) /\ aSize' = aSize + n
      /\ op' = "idle" /\ ptr' = 0 /\ size' = 0 /\ into' = NoBlock /\ lo' = 0 /\ before' = {}
      /\ mapped' = mapped /\ fSize' = fSize /\ alarm' = alarm /\ calls' = calls
  BY DEF Retracked, Return
<1>2. /\ p \in Addrs /\ p \in Nat /\ n \in Nat \ {0} /\ p + n <= MaxAddr + 1
      /\ MaxAddr \in Nat /\ ptr \in Nat
  BY <1>1, AddrAssumption, Numbers DEF IndInv, MapTypeOK, Kernel, Addrs
<1>3. Table(blocks) /\ Covered = Cover(blocks)
  BY TheTable DEF IndInv
<1>4. /\ Covered = before \ Gone
      /\ Bytes(p, n) \intersect Covered = {}
      /\ mapped = Covered \union Bytes(p, n)
  <2>1. Gone = lo..(ptr - 1)
    <3>1. ptr + size - 1 = ptr - 1
      BY <1>1, <1>2
    <3> QED
      BY <3>1, Zenon DEF Gone
  <2>2. Covered = before \ Gone
    BY <2>1, <1>1 DEF IndInv, CutExact
  <2> QED
    BY <2>2, <1>1 DEF IndInv, Kernel
<1> HIDE DEF p, n
<1>5. Table(blocks') /\ Cover(blocks') = Cover(blocks) \union Bytes(p, n)
  BY <1>1, <1>2, <1>3, <1>4, Inserted
<1>6. /\ Disjoint' /\ Covered' = Cover(blocks') /\ DOMAIN blocks' \subseteq Addrs
      /\ \A k \in DOMAIN blocks' : blocks'[k] \in 1..(k + 1)
  BY <1>5, NewTable
<1>7. MapTypeOK'
  BY <1>1, <1>2, <1>6, AddrAssumption DEF IndInv, MapTypeOK, NoBlock, Addrs
<1>8. Conserved'
  <2>1. Cardinality(Covered') = Cardinality(Covered) + n
    <3>1. Cardinality(Cover(blocks) \union Bytes(p, n)) = Cardinality(Cover(blocks)) + n
      BY <1>2, <1>3, <1>4, CoverGrows
    <3>2. Covered' = Cover(blocks) \union Bytes(p, n)
      BY <1>5, <1>6, Zenon
    <3> QED
      BY <3>1, <3>2, <1>3, Zenon
  <2>2. aSize - fSize = Cardinality(Covered) /\ aSize \in Nat /\ fSize \in Nat
    BY DEF IndInv, Conserved, MapTypeOK
  <2> QED
    BY <2>1, <2>2, <1>1, <1>2 DEF Conserved
<1>9. Mirror'
  BY <1>1, <1>3, <1>4, <1>5, <1>6 DEF Mirror
<1>10. InRange' /\ CutExact' /\ Kernel'
  BY <1>1 DEF InRange, CutExact, Kernel
<1> QED
  BY <1>6, <1>7, <1>8, <1>9, <1>10 DEF IndInv
-----------------------------------------------------------------------------
LEMMA Initially == MapInit => IndInv
<1> SUFFICES ASSUME MapInit PROVE IndInv
  OBVIOUS
<1>1. DOMAIN blocks = {} /\ Covered = {}
  BY DEF MapInit, Covered
<1>2. Cardinality({}) = 0
  BY FS_EmptySet
<1>3. MapTypeOK
  <2>1. into \in [p : Addrs, n : 0..(MaxAddr + 1)] /\ lo \in Addrs
    BY AddrAssumption DEF MapInit, NoBlock, Addrs
  <2>2. alarm \in BOOLEAN
    BY Zenon DEF MapInit
  <2>3. 0 \in 0..MaxCalls /\ 0 \in 0..(MaxAddr + 1)
    BY AddrAssumption
  <2>4. calls \in 0..MaxCalls /\ ptr \in 0..(MaxAddr + 1) /\ size \in 0..(MaxAddr + 1)
    BY <2>3, Zenon DEF MapInit
  <2> QED
    BY <1>1, <2>1, <2>2, <2>4 DEF MapInit, MapTypeOK
<1>4. Disjoint /\ Conserved /\ Mirror
  BY <1>1, <1>2 DEF MapInit, Disjoint, Conserved, Mirror
<1>5. InRange /\ CutExact /\ Kernel
  BY DEF MapInit, InRange, CutExact, Kernel
<1> QED
  BY <1>3, <1>4, <1>5 DEF IndInv

LEMMA Stutters == IndInv /\ UNCHANGED mapVars => IndInv'
<1> SUFFICES ASSUME IndInv, UNCHANGED mapVars PROVE IndInv'
  OBVIOUS
<1>1. /\ mapped' = mapped /\ blocks' = blocks /\ aSize' = aSize /\ fSize' = fSize
      /\ op' = op /\ ptr' = ptr /\ size' = size /\ into' = into /\ lo' = lo
      /\ before' = before /\ alarm' = alarm /\ calls' = calls
  BY DEF mapVars, counters, range
<1>2. Covered' = Covered /\ Gone' = Gone
  BY <1>1 DEF Covered, Start, Gone
<1>3. MapTypeOK' /\ Disjoint' /\ Conserved' /\ Mirror'
  BY <1>1, <1>2 DEF IndInv, MapTypeOK, Disjoint, Conserved, Mirror, Start
<1>4. InRange' /\ CutExact' /\ Kernel'
  BY <1>1, <1>2 DEF IndInv, InRange, CutExact, Kernel
<1> QED
  BY <1>3, <1>4 DEF IndInv

(* What is true of every state between two turns of the loop: see the      *)
(* parts of IndInv.                                                        *)
THEOREM Invariance == MapSpec => []IndInv
<1>1. IndInv /\ [MapNext]_mapVars => IndInv'
  <2> SUFFICES ASSUME IndInv, [MapNext]_mapVars PROVE IndInv'
    OBVIOUS
  <2>1. CASE Cut
    BY <2>1, CutStep
  <2>2. CASE Fail
    BY <2>2, FailStep
  <2>3. CASE Removed
    BY <2>3, RemovedStep
  <2>4. CASE Retracked
    BY <2>4, RetrackedStep
  <2>5. CASE Finished \/ UNCHANGED mapVars
    BY <2>5, Stutters DEF Finished
  <2>6. ASSUME NEW p \in Addrs, NEW n \in 1..(MaxAddr + 1 - p), Mmap(p, n)
        PROVE  IndInv'
    BY <2>6, MmapStep
  <2>7. ASSUME NEW p \in Addrs, NEW n \in 1..(MaxAddr + 1 - p), Munmap(p, n)
        PROVE  IndInv'
    BY <2>7, MunmapStep
  <2>8. ASSUME NEW p \in Addrs, NEW n \in 1..(MaxAddr + 1 - p),
               NEW q \in Addrs, NEW k \in 1..(MaxAddr + 1 - q), Mremap(p, n, q, k)
        PROVE  IndInv'
    BY <2>8, MremapStep
  <2> QED
    BY <2>1, <2>2, <2>3, <2>4, <2>5, <2>6, <2>7, <2>8, Zenon DEF MapNext, Loop
<1> QED
  BY <1>1, Initially, PTL DEF MapSpec

(* Memory::_orderedBlocks is a set of disjoint, non-empty blocks at every  *)
(* turn of the loops of remove_mapped and retrack_mapped; the counters     *)
(* differ by what it covers; between two calls that is what is mapped.     *)
THEOREM MappingsAreExact == MapSpec => []MappingsExact
<1>1. IndInv => MappingsExact
  BY DEF IndInv, MappingsExact
<1> QED
  BY <1>1, Invariance, PTL

(* The loop takes exactly the bytes out of the table that it has passed.   *)
THEOREM CutIsExact == MapSpec => []CutExact
<1>1. IndInv => CutExact
  BY DEF IndInv
<1> QED
  BY <1>1, Invariance, PTL

(* "no valid memory block" is thrown by remove_mapped and retrack_mapped   *)
(* if and only if the range has a byte that no block covered at the call.  *)
THEOREM AlarmIsExact == MapSpec => AlarmExact
<1> DEFINE A == op # "idle" /\ op' = "idle"
                   => (alarm' <=> ~(lo..(ptr + size - 1) \subseteq before))
<1>1. IndInv /\ [MapNext]_mapVars => [A]_mapVars
  <2> SUFFICES ASSUME IndInv, MapNext, op # "idle", op' = "idle"
               PROVE  alarm' <=> ~(lo..(ptr + size - 1) \subseteq before)
    BY DEF mapVars
  <2>0. /\ ptr \in Nat /\ size \in Nat /\ lo \in Nat /\ lo <= ptr /\ ~alarm
        /\ lo..(ptr - 1) \subseteq before
        /\ Covered = before \ (lo..(ptr - 1))
    BY Numbers DEF IndInv, InRange, CutExact
  <2>1. CASE Fail
    <3>1. ptr \notin Covered /\ alarm' = TRUE /\ size > 0
      BY <2>1, NoBlockFound DEF Fail
    <3>2. ptr \notin lo..(ptr - 1) /\ ptr \in lo..(ptr + size - 1)
      BY <2>0, <3>1
    <3> QED
      BY <3>1, <3>2, <2>0
  <2>2. CASE Removed \/ Retracked
    <3>1. size = 0 /\ alarm' = alarm
      BY <2>2 DEF Removed, Retracked
    <3>2. ptr + size - 1 = ptr - 1
      BY <3>1, <2>0
    <3> QED
      BY <3>1, <3>2, <2>0
  <2>3. ~Cut /\ ~Finished
    BY DEF Cut, Finished
  <2>4. \A p, n, q, k : ~Mmap(p, n) /\ ~Munmap(p, n) /\ ~Mremap(p, n, q, k)
    BY DEF Mmap, Munmap, Mremap
  <2> QED
    BY <2>1, <2>2, <2>3, <2>4, Zenon DEF MapNext, Loop
<1> QED
  BY <1>1, Invariance, PTL DEF MapSpec, AlarmExact
=============================================================================
