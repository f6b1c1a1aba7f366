------------------------- MODULE HeapTracker_proofs -------------------------
(***************************************************************************)
(* Proofs about HeapTracker, for every number of threads, addresses, sizes *)
(* and calls.                                                              *)
(*                                                                         *)
(* The counters (AccountsAreExact, LeaksAreFound) are right in whatever    *)
(* order the hooks run: Ledger says that they are the bytes and the blocks *)
(* of the table, and bounds them by the calls that are entered in them, so *)
(* that no difference wraps.  Sums over the table are a fold; what it does *)
(* is proved by induction over the subsets of a finite set (Smallest).     *)
(*                                                                         *)
(* The table and the alarm (TableIsExact, AlarmIsExact) are right only if  *)
(* a thread that reallocates is alone: between realloc and retrack another *)
(* thread may be given the old address, as the run HeapTrackerRace shows.  *)
(***************************************************************************)
EXTENDS HeapTracker, FiniteSetTheorems, WellFoundedInduction, TLAPS

(* What a thread may be about to do. *)
Steps == {Idle} \union [op : {"track"}, p : Addrs, n : Sizes, exempt : BOOLEAN]
                \union [op : {"free"}, p : Addrs, told : BOOLEAN]
                \union [op : {"retrack"}, old : Addrs, p : Addrs, n : Sizes,
                             exempt : BOOLEAN, alien : BOOLEAN]
Knowledge == [outside : SUBSET Addrs, stale : SUBSET Addrs, reused : BOOLEAN,
              foreign : BOOLEAN]
Stages == {"out", "init", "body", "measured"}
SizesOf(f) == DOMAIN f \subseteq Addrs /\ \A a \in DOMAIN f : f[a] \in Sizes

(* What every variable holds, with more detail than TypeOK. *)
Types ==
    /\ mode \in Modes
    /\ SizesOf(heap) /\ SizesOf(blocks) /\ IsFiniteSet(DOMAIN blocks)
    /\ pc \in [mode.threads -> Steps]
    /\ track \in BOOLEAN /\ alarm \in BOOLEAN /\ dead \in BOOLEAN /\ wild \in BOOLEAN
    /\ known \in Knowledge /\ count \in Counters /\ snap \in Counters
    /\ stage \in Stages /\ calls \in 0..MaxCalls /\ tests \in Nat /\ start \in Int
    /\ peak \in [bytes : Nat, blocks : Nat]

(* A hook is at work on one live block of the heap, and no other hook is.  *)
Hooks ==
    /\ \A t \in mode.threads : pc[t] # Idle => pc[t].p \in DOMAIN heap
    /\ \A t, u \in mode.threads :
          t # u /\ pc[t] # Idle /\ pc[u] # Idle => pc[t].p # pc[u].p
    /\ \A t \in mode.threads : pc[t].op \in {"track", "retrack"} => heap[pc[t].p] = pc[t].n
    /\ \A t \in mode.threads : pc[t].op = "retrack" => t \in mode.realloc

(* The allocations the counters do not know of yet. *)
Pending == {t \in mode.threads : pc[t].op \in {"track", "retrack"}}
Most == CHOOSE m \in 1..Word : MaxCalls * m < Word /\ \A n \in Sizes : n <= m

(* The counters add up to the table and stay in their range. *)
Balanced ==
    /\ count.aSize - count.fSize = Bytes(blocks)
    /\ count.aCount - count.fCount = Cardinality(DOMAIN blocks)
    /\ count.aSize <= (calls - Cardinality(Pending)) * Most
    /\ count.aCount <= calls - Cardinality(Pending)
    /\ count.maxCount = peak.blocks

(* Since the first snapshot the counters have moved as the tracked bytes,  *)
(* and the size maximum is that of the bytes tracked since then, but not   *)
(* at that moment.                                                         *)
InBody ==
    stage = "body" =>
       /\ snap.aSize - snap.fSize = start
       /\ mode.realloc = {} => snap.aSize <= count.aSize /\ snap.fSize <= count.fSize
       /\ peak.bytes = Larger(start, count.maxSize)

(* An address that comes back while its old entry is there upsets them.    *)
Ledger ==
    /\ IsFiniteSet(Pending) /\ Cardinality(Pending) <= calls
    /\ ~known.reused => Balanced /\ InBody

(* A thread that calls realloc is the only one: then no address can be     *)
(* given away between realloc and retrack.                                 *)
Alone == \A t \in mode.realloc : mode.threads = {t}

(* Tracking is on from Enter to Exit or to the alarm.                      *)
Watch == track <=> (stage # "out" /\ ~alarm)

(* The parts of the correspondence between the heap and the table. *)
OwnedMatch ==
    \A a \in Owned \ known.outside :
       a \in DOMAIN blocks /\ a \notin known.stale /\ (known.reused \/ blocks[a] = heap[a])
EntriesMatch ==
    \A a \in DOMAIN blocks : \/ a \in DOMAIN heap \union known.stale
                             \/ \E t \in mode.threads : pc[t].op = "retrack" /\ pc[t].old = a
KnownMatch ==
    /\ known.stale \subseteq DOMAIN blocks
    /\ known.outside \subseteq DOMAIN heap
    /\ known.outside \intersect DOMAIN blocks \subseteq known.stale
HookMatch(t) ==
    /\ pc[t].op = "track" => /\ pc[t].p \in DOMAIN blocks => pc[t].p \in known.stale
                             /\ pc[t].p \notin known.outside
    /\ pc[t].op = "free" /\ pc[t].told => pc[t].p \notin DOMAIN blocks
    /\ pc[t].op = "retrack" =>
          /\ pc[t].old \in DOMAIN blocks <=> ~pc[t].alien
          /\ pc[t].p \notin known.outside
          /\ \/ pc[t].p = pc[t].old
             \/ /\ pc[t].old \notin DOMAIN heap
                /\ pc[t].p \in DOMAIN blocks => pc[t].p \in known.stale
Matching ==
    ~alarm => OwnedMatch /\ EntriesMatch /\ KnownMatch /\ \A t \in mode.threads : HookMatch(t)

(* The sum of f over S, taken one element after the other. *)
Sum(f, S) == MapThenSumSet(LAMBDA a : f[a], S)
Pick(S) == CHOOSE x \in S : TRUE
Rest(S) == S \ {Pick(S)}
Sums(g, f, S) == g = [s \in SUBSET S |-> IF s = {} THEN 0 ELSE f[Pick(s)] + g[Rest(s)]]

(* Induction over the subsets of a finite set: of some of them, one is     *)
(* smallest.                                                               *)
LEMMA Smallest ==
    ASSUME NEW S, IsFiniteSet(S), NEW B \in SUBSET SUBSET S, B # {}
    PROVE  \E U \in B : \A V \in B : V \subseteq U => V = U
<1> DEFINE R == OpToRel(<, Nat)
           N == {Cardinality(V) : V \in B}
<1>1. IsWellFoundedOn(R, Nat)
  BY NatLessThanWellFounded
<1>2. \A x, y \in Nat : y < x => <<y, x>> \in R
  BY DEF OpToRel
<1>3. \A V \in B : IsFiniteSet(V) /\ Cardinality(V) \in Nat
  BY FS_Subset, FS_CardinalityType
<1>4. N \subseteq Nat /\ N # {}
  BY <1>3
<1>4a. \A n \in N : \E V \in B : Cardinality(V) = n
  OBVIOUS
<1>4b. \A V \in B : Cardinality(V) \in N
  OBVIOUS
<1> HIDE DEF R, N
<1>5. PICK n \in N : \A m \in N : ~(<<m, n>> \in R)
  BY <1>1, <1>4, WFMin
<1>6. PICK U \in B : Cardinality(U) = n
  BY <1>4a
<1>7. ASSUME NEW V \in B, V \subseteq U
      PROVE  V = U
  <2>1. Cardinality(V) <= Cardinality(U) /\ (Cardinality(V) = Cardinality(U) => V = U)
    BY <1>3, <1>7, FS_Subset
  <2>2. Cardinality(V) \in N /\ Cardinality(V) \in Nat /\ n \in Nat
    BY <1>3, <1>4, <1>4b
  <2>3. ~(Cardinality(V) < n)
    BY <1>2, <1>5, <2>2, Zenon
  <2> QED
    BY <1>6, <2>1, <2>2, <2>3
<1> QED
  BY <1>7

(* Taking an element leaves less. *)
LEMMA Picked ==
    ASSUME NEW S, S # {}
    PROVE  Pick(S) \in S /\ Rest(S) \subseteq S /\ Rest(S) # S
BY DEF Pick, Rest

(* What a sum is depends on nothing but the values that are summed up. *)
LEMMA Agree ==
    ASSUME NEW f, NEW f2, NEW S, NEW S2, NEW g, NEW g2, Sums(g, f, S), Sums(g2, f2, S2),
           NEW U, U \subseteq S, U \subseteq S2, IsFiniteSet(U), \A x \in U : f[x] = f2[x]
    PROVE  g[U] = g2[U]
<1> DEFINE B == {V \in SUBSET U : g[V] # g2[V]}
<1>0. SUFFICES ASSUME B # {} PROVE FALSE
  OBVIOUS
<1>1. B \in SUBSET SUBSET U /\ \A V \in SUBSET U : V \in B <=> g[V] # g2[V]
  OBVIOUS
<1> HIDE DEF B
<1>2. PICK V \in B : \A W \in B : W \subseteq V => W = V
  BY <1>0, <1>1, Smallest
<1>3. V \subseteq U /\ V \in SUBSET S /\ V \in SUBSET S2 /\ g[V] # g2[V]
  BY <1>1, <1>2
<1>4. /\ g[V] = IF V = {} THEN 0 ELSE f[Pick(V)] + g[Rest(V)]
      /\ g2[V] = IF V = {} THEN 0 ELSE f2[Pick(V)] + g2[Rest(V)]
  BY <1>3 DEF Sums
<1>5. V # {}
  BY <1>3, <1>4
<1>6. Rest(V) \subseteq V /\ Rest(V) # V /\ f[Pick(V)] = f2[Pick(V)]
  BY <1>3, <1>5, Picked
<1>7. g[Rest(V)] = g2[Rest(V)]
  BY <1>1, <1>2, <1>3, <1>6
<1> QED
  BY <1>3, <1>4, <1>5, <1>6, <1>7

(* There is a function that sums up every part of a finite set. *)
LEMMA SumsExist ==
    ASSUME NEW f, NEW S, IsFiniteSet(S)
    PROVE  \E g : Sums(g, f, S)
<1> DEFINE B == {V \in SUBSET S : ~\E g : Sums(g, f, V)}
<1>0. SUFFICES ASSUME B # {} PROVE FALSE
  OBVIOUS
<1>1. B \in SUBSET SUBSET S /\ \A V \in SUBSET S : V \in B <=> ~\E g : Sums(g, f, V)
  OBVIOUS
<1> HIDE DEF B
<1>2. PICK V \in B : \A W \in B : W \subseteq V => W = V
  BY <1>0, <1>1, Smallest
<1> DEFINE h(W) == CHOOSE g : Sums(g, f, W)
           G == [W \in SUBSET V |-> IF W = {} THEN 0 ELSE f[Pick(W)] + h(Rest(W))[Rest(W)]]
<1>3. ASSUME NEW W \in SUBSET V, W # V
      PROVE  Sums(h(W), f, W) /\ IsFiniteSet(W)
  <2>1. W \in SUBSET S /\ W \notin B
    BY <1>1, <1>2, <1>3
  <2> QED
    BY <1>1, <2>1, FS_Subset
<1>g. /\ G = [W \in SUBSET V |-> G[W]]
      /\ \A W \in SUBSET V : G[W] = IF W = {} THEN 0 ELSE f[Pick(W)] + h(Rest(W))[Rest(W)]
  OBVIOUS
<1> HIDE DEF G, h
<1>4. ASSUME NEW W \in SUBSET V, W # {}
      PROVE  G[Rest(W)] = h(Rest(W))[Rest(W)]
  <2> DEFINE X == Rest(W)
  <2>1. X \in SUBSET V /\ X # V
    BY <1>4, Picked
  <2>2. Sums(h(X), f, X) /\ IsFiniteSet(X)
    BY <1>3, <2>1
  <2>3. h(X)[X] = IF X = {} THEN 0 ELSE f[Pick(X)] + h(X)[Rest(X)]
    BY <2>2 DEF Sums
  <2>4. G[X] = IF X = {} THEN 0 ELSE f[Pick(X)] + h(Rest(X))[Rest(X)]
    BY <1>g, <2>1
  <2>5. CASE X = {}
    BY <2>3, <2>4, <2>5
  <2>6. CASE X # {}
    <3>1. Rest(X) \subseteq X /\ Rest(X) \in SUBSET V /\ Rest(X) # V
      BY <2>1, <2>6, Picked
    <3>2. Sums(h(Rest(X)), f, Rest(X)) /\ IsFiniteSet(Rest(X))
      BY <1>3, <3>1
    <3> HIDE DEF X
    <3>3. h(X)[Rest(X)] = h(Rest(X))[Rest(X)]
      BY <2>2, <3>1, <3>2, Agree
    <3>4. G[X] = h(X)[X]
      BY <2>3, <2>4, <2>6, <3>3
    <3> QED
      BY <3>4 DEF X
  <2> QED
    BY <2>5, <2>6
<1>5. Sums(G, f, V)
  <2>1. G = [W \in SUBSET V |-> IF W = {} THEN 0 ELSE f[Pick(W)] + G[Rest(W)]]
    BY <1>4, <1>g
  <2> QED
    BY <2>1 DEF Sums
<1> QED
  BY <1>1, <1>2, <1>5

(* The library's fold is that function. *)
LEMMA SumIs ==
    ASSUME NEW f, NEW S, IsFiniteSet(S), NEW g, Sums(g, f, S)
    PROVE  Sum(f, S) = g[S]
<1>1. \A k : Sums(k, f, S) => k[S] = g[S]
  BY Agree
<1> QED
  BY <1>1 DEF Sum, MapThenSumSet, MapThenFoldSet, Sums, Pick, Rest

(* So a sum is its first element and the sum of the rest, *)
LEMMA SumTurn ==
    ASSUME NEW f, NEW S, IsFiniteSet(S)
    PROVE  Sum(f, S) = IF S = {} THEN 0 ELSE f[Pick(S)] + Sum(f, Rest(S))
<1>1. PICK g : Sums(g, f, S)
  BY SumsExist
<1>2. g[S] = IF S = {} THEN 0 ELSE f[Pick(S)] + g[Rest(S)]
  BY <1>1 DEF Sums
<1>3. Sum(f, S) = g[S]
  BY <1>1, SumIs
<1>4. CASE S # {}
  <2>1. IsFiniteSet(Rest(S)) /\ Rest(S) \subseteq S
    BY FS_Subset DEF Rest
  <2>2. PICK k : Sums(k, f, Rest(S))
    BY <2>1, SumsExist
  <2>3. k[Rest(S)] = g[Rest(S)]
    BY <1>1, <2>1, <2>2, Agree
  <2>4. Sum(f, Rest(S)) = k[Rest(S)]
    BY <2>1, <2>2, SumIs
  <2> QED
    BY <1>2, <1>3, <1>4, <2>3, <2>4
<1> QED
  BY <1>2, <1>3, <1>4

(* the same for functions that agree on the set, *)
LEMMA SumSame ==
    ASSUME NEW f, NEW f2, NEW S, IsFiniteSet(S), \A x \in S : f[x] = f2[x]
    PROVE  Sum(f, S) = Sum(f2, S)
<1>1. PICK g : Sums(g, f, S)
  BY SumsExist
<1>2. PICK g2 : Sums(g2, f2, S)
  BY SumsExist
<1>3. g[S] = g2[S]
  BY <1>1, <1>2, Agree
<1> QED
  BY <1>1, <1>2, <1>3, SumIs

(* and a number. *)
LEMMA SumType ==
    ASSUME NEW f, NEW S, IsFiniteSet(S), \A x \in S : f[x] \in Nat
    PROVE  Sum(f, S) \in Nat
<1> DEFINE B == {V \in SUBSET S : Sum(f, V) \notin Nat}
<1>0. SUFFICES ASSUME B # {} PROVE FALSE
  OBVIOUS
<1>1. B \in SUBSET SUBSET S /\ \A V \in SUBSET S : V \in B <=> Sum(f, V) \notin Nat
  OBVIOUS
<1> HIDE DEF B
<1>2. PICK V \in B : \A W \in B : W \subseteq V => W = V
  BY <1>0, <1>1, Smallest
<1>3. Sum(f, V) = IF V = {} THEN 0 ELSE f[Pick(V)] + Sum(f, Rest(V))
  BY <1>1, <1>2, FS_Subset, SumTurn
<1>4. V # {}
  BY <1>1, <1>2, <1>3
<1>5. Sum(f, Rest(V)) \in Nat /\ f[Pick(V)] \in Nat
  BY <1>1, <1>2, <1>4, Picked
<1> QED
  BY <1>1, <1>2, <1>3, <1>4, <1>5

(* Any element may be taken last. *)
LEMMA SumSplit ==
    ASSUME NEW f, NEW S, IsFiniteSet(S), \A y \in S : f[y] \in Nat, NEW a \in S
    PROVE  Sum(f, S) = f[a] + Sum(f, S \ {a})
<1> DEFINE B == {V \in SUBSET S : \E y \in V : Sum(f, V) # f[y] + Sum(f, V \ {y})}
<1>0. SUFFICES ASSUME B # {} PROVE FALSE
  OBVIOUS
<1>1. B \in SUBSET SUBSET S /\ \A V \in SUBSET S : V \in B <=> \E y \in V : Sum(f, V) # f[y] + Sum(f, V \ {y})
  OBVIOUS
<1> HIDE DEF B
<1>2. PICK V \in B : \A W \in B : W \subseteq V => W = V
  BY <1>0, <1>1, Smallest
<1>3. PICK x \in V : Sum(f, V) # f[x] + Sum(f, V \ {x})
  BY <1>1, <1>2
<1> DEFINE y == Pick(V)
<1>4. V \subseteq S /\ IsFiniteSet(V) /\ y \in V
  BY <1>1, <1>2, <1>3, FS_Subset, Picked
<1>5. Sum(f, V) = f[y] + Sum(f, V \ {y})
  <2>1. Sum(f, V) = IF V = {} THEN 0 ELSE f[Pick(V)] + Sum(f, Rest(V))
    BY <1>4, SumTurn
  <2> QED
    BY <1>4, <2>1 DEF Rest
<1>6. x # y
  BY <1>3, <1>5
<1> HIDE DEF y
<1>7. Sum(f, V \ {y}) = f[x] + Sum(f, V \ {x, y})
  <2>1. V \ {y} \in SUBSET S /\ V \ {y} \subseteq V /\ V \ {y} # V /\ x \in V \ {y}
        /\ (V \ {y}) \ {x} = V \ {x, y}
    BY <1>4, <1>6
  <2> QED
    BY <1>1, <1>2, <2>1
<1>8. Sum(f, V \ {x}) = f[y] + Sum(f, V \ {x, y})
  <2>1. V \ {x} \in SUBSET S /\ V \ {x} \subseteq V /\ V \ {x} # V /\ y \in V \ {x}
        /\ (V \ {x}) \ {y} = V \ {x, y}
    BY <1>4, <1>6
  <2> QED
    BY <1>1, <1>2, <2>1
<1>9. Sum(f, V \ {x, y}) \in Nat /\ f[x] \in Nat /\ f[y] \in Nat
  <2>1. IsFiniteSet(V \ {x, y})
    BY <1>4, FS_Subset
  <2> QED
    BY <1>4, <2>1, SumType
<1> QED
  BY <1>3, <1>5, <1>7, <1>8, <1>9
-----------------------------------------------------------------------------
(* Tables. *)

(* The constants; Most bounds the size of a block. *)
LEMMA Bounds == /\ Word \in Nat \ {0} /\ Sizes \subseteq Nat /\ MaxCalls \in Nat
                /\ Most \in 1..Word /\ MaxCalls * Most < Word
                /\ \A n \in Sizes : n <= Most
BY HeapAssumption DEF Most

LEMMA BytesAre == \A f : Bytes(f) = Sum(f, DOMAIN f)
BY DEF Bytes, Sum

(* The bytes of a table are a number. *)
LEMMA BytesType ==
    ASSUME NEW f, SizesOf(f), IsFiniteSet(DOMAIN f)
    PROVE  Bytes(f) \in Nat
BY BytesAre, SumType, Bounds DEF SizesOf

(* A block is entered with its bytes ... *)
LEMMA BytesPut ==
    ASSUME NEW f, SizesOf(f), IsFiniteSet(DOMAIN f), NEW a \in Addrs, a \notin DOMAIN f,
           NEW n \in Sizes
    PROVE  /\ SizesOf(Put(f, a, n)) /\ DOMAIN Put(f, a, n) = DOMAIN f \union {a}
           /\ IsFiniteSet(DOMAIN Put(f, a, n))
           /\ Bytes(Put(f, a, n)) = Bytes(f) + n
           /\ Cardinality(DOMAIN Put(f, a, n)) = Cardinality(DOMAIN f) + 1
<1> DEFINE g == Put(f, a, n)
           S == DOMAIN f
<1>1. DOMAIN g = S \union {a} /\ g[a] = n /\ \A x \in S : g[x] = f[x]
  BY DEF Put
<1>2. SizesOf(g)
  BY <1>1 DEF SizesOf
<1>3. IsFiniteSet(DOMAIN g) /\ Cardinality(DOMAIN g) = Cardinality(S) + 1
  BY <1>1, FS_AddElement
<1> HIDE DEF g
<1>4. \A x \in S \union {a} : g[x] \in Nat
  BY <1>1, <1>2, Bounds DEF SizesOf
<1>5. Sum(g, S) = Sum(f, S)
  BY <1>1, SumSame
<1>6. Sum(g, S \union {a}) = g[a] + Sum(g, (S \union {a}) \ {a})
  <2>1. a \in S \union {a} /\ IsFiniteSet(S \union {a})
    BY <1>1, <1>3
  <2> QED
    BY <1>4, <2>1, SumSplit
<1>7. (S \union {a}) \ {a} = S
  OBVIOUS
<1>8. Bytes(g) = n + Bytes(f) /\ Bytes(f) \in Nat /\ n \in Nat
  BY <1>1, <1>5, <1>6, <1>7, BytesAre, BytesType, Bounds
<1> QED
  BY <1>1, <1>2, <1>3, <1>8 DEF g

(* ... and leaves with them. *)
LEMMA BytesDrop ==
    ASSUME NEW f, SizesOf(f), IsFiniteSet(DOMAIN f), NEW a \in DOMAIN f
    PROVE  /\ SizesOf(Drop(f, a)) /\ DOMAIN Drop(f, a) = DOMAIN f \ {a}
           /\ IsFiniteSet(DOMAIN Drop(f, a))
           /\ Bytes(Drop(f, a)) = Bytes(f) - f[a] /\ Bytes(Drop(f, a)) \in Nat
           /\ Cardinality(DOMAIN Drop(f, a)) = Cardinality(DOMAIN f) - 1
<1> DEFINE g == Drop(f, a)
           S == DOMAIN f
<1>1. DOMAIN g = S \ {a} /\ \A x \in S \ {a} : g[x] = f[x]
  BY DEF Drop
<1>2. SizesOf(g)
  BY <1>1 DEF SizesOf
<1>3. IsFiniteSet(DOMAIN g) /\ Cardinality(DOMAIN g) = Cardinality(S) - 1
  BY <1>1, FS_RemoveElement
<1> HIDE DEF g
<1>4. \A x \in S : f[x] \in Nat
  BY Bounds DEF SizesOf
<1>5. Sum(g, S \ {a}) = Sum(f, S \ {a})
  BY <1>1, <1>3, SumSame
<1>6. Sum(f, S) = f[a] + Sum(f, S \ {a})
  BY <1>4, SumSplit
<1>7. Bytes(g) \in Nat /\ f[a] \in Nat
  BY <1>2, <1>3, <1>4, BytesType
<1>8. Bytes(g) = Bytes(f) - f[a]
  BY <1>1, <1>5, <1>6, <1>7, BytesAre
<1> QED
  BY <1>1, <1>2, <1>3, <1>7, <1>8 DEF g

(* A table without a block has none. *)
LEMMA BytesEmpty == Bytes(Empty) = 0 /\ DOMAIN Empty = {} /\ Cardinality(DOMAIN Empty) = 0
                    /\ IsFiniteSet(DOMAIN Empty) /\ SizesOf(Empty)
<1>1. DOMAIN Empty = {}
  BY DEF Empty
<1>2. IsFiniteSet({}) /\ Cardinality({}) = 0
  BY FS_EmptySet
<1>3. Sum(Empty, {}) = 0
  BY <1>2, SumTurn
<1> QED
  BY <1>1, <1>2, <1>3, BytesAre DEF SizesOf

(* The heap is a table as well. *)
LEMMA PutSizes ==
    ASSUME NEW f, SizesOf(f), NEW a \in Addrs, NEW n \in Sizes
    PROVE  SizesOf(Put(f, a, n)) /\ DOMAIN Put(f, a, n) = DOMAIN f \union {a}
           /\ Put(f, a, n)[a] = n /\ \A x \in DOMAIN f \ {a} : Put(f, a, n)[x] = f[x]
BY DEF SizesOf, Put

LEMMA DropSizes ==
    ASSUME NEW f, SizesOf(f), NEW a
    PROVE  SizesOf(Drop(f, a)) /\ DOMAIN Drop(f, a) = DOMAIN f \ {a}
           /\ \A x \in DOMAIN f \ {a} : Drop(f, a)[x] = f[x]
BY DEF SizesOf, Drop

(* What is known of a thread that is inside a hook. *)
LEMMA StepFacts ==
    ASSUME NEW s \in Steps
    PROVE  /\ s.op \in {"idle", "track", "free", "retrack"}
           /\ s.op = "idle" <=> s = Idle
           /\ s.op = "track" => s.p \in Addrs /\ s.n \in Sizes /\ s.exempt \in BOOLEAN
           /\ s.op = "free" => s.p \in Addrs /\ s.told \in BOOLEAN
           /\ s.op = "retrack" => /\ s.p \in Addrs /\ s.n \in Sizes /\ s.old \in Addrs
                                  /\ s.exempt \in BOOLEAN /\ s.alien \in BOOLEAN
BY DEF Steps, Idle

-----------------------------------------------------------------------------
(* Types. *)

(* The steps, with the places the tracker exempts. *)
LEMMA Turns ==
    ASSUME [Next]_vars
    PROVE  \/ \E t \in mode.threads :
                \/ \E a \in Addrs :
                      \/ \E n \in Sizes, x \in BOOLEAN : Malloc(t, a, n, x) /\ (x => mode.outside)
                      \/ \E x \in BOOLEAN : Release(t, a, x) /\ dead' \in {dead, alarm' # alarm}
                      \/ WildFree(t, a) \/ ReallocZero(t, a)
                      \/ \E b \in Addrs, n \in Sizes, x \in BOOLEAN :
                            Realloc(t, a, b, n, x) /\ (x => mode.outside)
                \/ Track(t) \/ LibcFree(t) \/ Retrack(t)
           \/ Enter \/ FirstSnapshot \/ SecondSnapshot \/ Exit \/ UNCHANGED vars
<1>1. \A x \in Exempt : x \in BOOLEAN /\ (x => mode.outside)
  BY DEF Exempt
<1>2. ASSUME NEW t \in mode.threads, NEW a \in Addrs, NEW x \in BOOLEAN, Free(t, a, x)
      PROVE  Release(t, a, x) /\ dead' \in {dead, alarm' # alarm}
  BY <1>2 DEF Free
<1>3. ASSUME NEW t \in mode.threads, NEW a \in Addrs, Delete(t, a)
      PROVE  \E x \in BOOLEAN : Release(t, a, x) /\ dead' \in {dead, alarm' # alarm}
  BY <1>3 DEF Delete
<1> QED
  BY <1>1, <1>2, <1>3, Zenon DEF Next, HookStep, Done

(* What the hooks do to the counters leaves them numbers. *)
LEMMA CountTypes ==
    ASSUME NEW c \in Counters
    PROVE  /\ Counted(c) \in Counters
           /\ \A n, m \in Nat : /\ [c EXCEPT !.aSize = @ + n, !.aCount = @ + 1] \in Counters
                                /\ [c EXCEPT !.aSize = Minus(@ + n, m)] \in Counters
                                /\ [c EXCEPT !.fSize = @ + n, !.fCount = @ + 1] \in Counters
<1>1. \A x, y \in Nat : Minus(x, y) \in Nat
  BY Bounds DEF Minus
<1>2. \A x, y \in Nat : Larger(x, y) \in Nat
  BY DEF Larger
<1>3. Counted(c) \in Counters
  <2>1. Minus(c.aSize, c.fSize) \in Nat /\ Minus(c.aCount, c.fCount) \in Nat
    BY <1>1 DEF Counters
  <2>2. /\ Larger(c.maxSize, Minus(c.aSize, c.fSize)) \in Nat
        /\ Larger(c.maxCount, Minus(c.aCount, c.fCount)) \in Nat
    BY <1>2, <2>1 DEF Counters
  <2> QED
    BY <2>2 DEF Counters, Counted
<1>4. ASSUME NEW n \in Nat, NEW m \in Nat
      PROVE  /\ [c EXCEPT !.aSize = @ + n, !.aCount = @ + 1] \in Counters
             /\ [c EXCEPT !.fSize = @ + n, !.fCount = @ + 1] \in Counters
  <2>1. /\ c.aSize + n \in Nat /\ c.aCount + 1 \in Nat
        /\ c.fSize + n \in Nat /\ c.fCount + 1 \in Nat
    BY DEF Counters
  <2> QED
    BY <2>1 DEF Counters
<1>5. ASSUME NEW n \in Nat, NEW m \in Nat
      PROVE  [c EXCEPT !.aSize = Minus(@ + n, m)] \in Counters
  <2>0. c.aSize + n \in Nat
    BY DEF Counters
  <2>1. Minus(c.aSize + n, m) \in Nat
    BY <1>1, <2>0, Zenon
  <2> QED
    BY <2>1 DEF Counters
<1> QED
  BY <1>3, <1>4, <1>5

(* So do the peaks. *)
LEMMA MeasureType ==
    ASSUME NEW b, SizesOf(b), IsFiniteSet(DOMAIN b), Measure(b), peak \in [bytes : Nat, blocks : Nat]
    PROVE  peak' \in [bytes : Nat, blocks : Nat]
BY BytesType, FS_CardinalityType DEF Measure, Larger

(* Memory::remove leaves a table and numbers. *)
LEMMA RemoveType ==
    ASSUME Types, NEW a, NEW x \in BOOLEAN, Remove(a, x)
    PROVE  /\ SizesOf(blocks') /\ IsFiniteSet(DOMAIN blocks') /\ count' \in Counters
           /\ track' \in BOOLEAN /\ alarm' \in BOOLEAN
<1>1. CASE UNCHANGED <<blocks, count, track, alarm>>
  BY <1>1 DEF Types
<1>2. CASE a \in DOMAIN blocks /\ RemoveBlock(a) /\ UNCHANGED <<track, alarm>>
  <2>1. SizesOf(blocks') /\ IsFiniteSet(DOMAIN blocks')
    BY <1>2, BytesDrop DEF Types, RemoveBlock
  <2>2. blocks[a] \in Nat
    BY <1>2, Bounds DEF Types, SizesOf
  <2>3. count' \in Counters
    BY <1>2, <2>2, CountTypes DEF Types, RemoveBlock
  <2> QED
    BY <1>2, <2>1, <2>3 DEF Types
<1>3. CASE Alarm /\ UNCHANGED <<blocks, count>>
  BY <1>3 DEF Types, Alarm
<1> QED
  BY <1>1, <1>2, <1>3 DEF Remove

(* Every step keeps the types. *)
LEMMA TypesStep ==
    ASSUME Types, [Next]_vars
    PROVE  Types'
<1>0. /\ mode \in Modes /\ pc \in [mode.threads -> Steps] /\ known \in Knowledge
      /\ SizesOf(heap) /\ SizesOf(blocks) /\ IsFiniteSet(DOMAIN blocks)
      /\ count \in Counters /\ snap \in Counters /\ stage \in Stages
      /\ calls \in 0..MaxCalls /\ tests \in Nat /\ start \in Int /\ MaxCalls \in Nat
      /\ peak \in [bytes : Nat, blocks : Nat]
      /\ track \in BOOLEAN /\ alarm \in BOOLEAN /\ dead \in BOOLEAN /\ wild \in BOOLEAN
  BY Bounds DEF Types
<1>1. ASSUME NEW t \in mode.threads, NEW a \in Addrs, NEW n \in Sizes, NEW x \in BOOLEAN,
             Malloc(t, a, n, x), x => mode.outside
      PROVE  Types'
  <2>1. SizesOf(heap')
    BY <1>1, <1>0, PutSizes DEF Malloc
  <2>2. pc' \in [mode.threads -> Steps]
    BY <1>1, <1>0 DEF Malloc, Goto, Steps
  <2> QED
    BY <1>1, <1>0, <2>1, <2>2 DEF Malloc, Types, alarms
<1>2. ASSUME NEW t \in mode.threads, Track(t)
      PROVE  Types'
  <2>1. pc[t].p \in Addrs /\ pc[t].n \in Sizes /\ pc[t].n \in Nat
    BY <1>2, <1>0, StepFacts, Bounds DEF Track
  <2>2. pc' \in [mode.threads -> Steps]
    BY <1>2, <1>0 DEF Track, Goto, Steps
  <2>3. known' \in Knowledge
    BY <1>2, <1>0, <2>1 DEF Track, Knowledge
  <2>4. /\ SizesOf(blocks') /\ IsFiniteSet(DOMAIN blocks') /\ count' \in Counters
        /\ peak' \in [bytes : Nat, blocks : Nat]
    <3>1. CASE ~(track /\ ~pc[t].exempt)
      BY <1>2, <1>0, <3>1 DEF Track
    <3>2. CASE track /\ ~pc[t].exempt
      <4>1. /\ blocks' = Insert(blocks, pc[t].p, pc[t].n) /\ Measure(blocks')
            /\ count' = Counted([count EXCEPT !.aSize = count.aSize + pc[t].n,
                                             !.aCount = count.aCount + 1])
        BY <1>2, <3>2 DEF Track
      <4>2. SizesOf(blocks') /\ IsFiniteSet(DOMAIN blocks')
        BY <1>0, <2>1, <4>1, BytesPut DEF Insert
      <4>3. count' \in Counters
        BY <1>0, <2>1, <4>1, CountTypes
      <4> QED
        BY <1>0, <4>1, <4>2, <4>3, MeasureType
    <3> QED
      BY <3>1, <3>2
  <2> QED
    BY <1>2, <1>0, <2>2, <2>3, <2>4 DEF Track, Types, alarms, bounds
<1>3. ASSUME NEW t \in mode.threads, NEW a \in Addrs, NEW x \in BOOLEAN, Release(t, a, x),
             dead' \in {dead, alarm' # alarm}
      PROVE  Types'
  <2>1. /\ SizesOf(blocks') /\ IsFiniteSet(DOMAIN blocks') /\ count' \in Counters
        /\ track' \in BOOLEAN /\ alarm' \in BOOLEAN
    BY <1>3, RemoveType DEF Release
  <2>2. pc' \in [mode.threads -> Steps]
    <3>1. [op |-> "free", p |-> a, told |-> track] \in Steps /\ Idle \in Steps
      BY <1>3, <1>0 DEF Steps
    <3> QED
      BY <1>3, <1>0, <3>1 DEF Release, Goto
  <2>3. known' \in Knowledge
    BY <1>3, <1>0 DEF Release, Knowledge
  <2> QED
    <3>1. dead' \in BOOLEAN
      BY <1>3, <1>0
    <3> QED
      BY <1>3, <1>0, <2>1, <2>2, <2>3, <3>1 DEF Release, Types, bounds
<1>4. ASSUME NEW t \in mode.threads, LibcFree(t)
      PROVE  Types'
  <2>1. pc' \in [mode.threads -> Steps] /\ pc[t].p \in Addrs
    BY <1>4, <1>0, StepFacts DEF LibcFree, Goto, Steps
  <2>2. SizesOf(heap')
    BY <1>4, <1>0, DropSizes DEF LibcFree
  <2>3. known' \in Knowledge
    BY <1>4, <1>0, <2>1 DEF LibcFree, Knowledge
  <2> QED
    BY <1>4, <1>0, <2>1, <2>2, <2>3 DEF LibcFree, Types, bounds, alarms
<1>5. ASSUME NEW t \in mode.threads, NEW a \in Addrs, WildFree(t, a)
      PROVE  Types'
  <2>1. /\ SizesOf(blocks') /\ IsFiniteSet(DOMAIN blocks') /\ count' \in Counters
        /\ track' \in BOOLEAN /\ alarm' \in BOOLEAN
    BY <1>5, RemoveType DEF WildFree
  <2>2. dead' \in BOOLEAN
    BY <1>5 DEF WildFree
  <2> QED
    BY <1>5, <1>0, <2>1, <2>2 DEF WildFree, Types, bounds
<1>6. ASSUME NEW t \in mode.threads, NEW a \in Addrs, ReallocZero(t, a)
      PROVE  Types'
  <2>1. SizesOf(heap')
    BY <1>6, <1>0, DropSizes DEF ReallocZero
  <2>2. known' \in Knowledge
    BY <1>6, <1>0 DEF ReallocZero, Knowledge
  <2> QED
    BY <1>6, <1>0, <2>1, <2>2 DEF ReallocZero, Types, alarms
<1>7. ASSUME NEW t \in mode.threads, NEW a \in Addrs, NEW b \in Addrs, NEW n \in Sizes,
             NEW x \in BOOLEAN, Realloc(t, a, b, n, x), x => mode.outside
      PROVE  Types'
  <2>1. SizesOf(heap')
    BY <1>7, <1>0, DropSizes, PutSizes DEF Realloc
  <2>2. pc' \in [mode.threads -> Steps]
    <3> DEFINE s == [op |-> "retrack", old |-> a, p |-> b, n |-> n, exempt |-> x,
                     alien |-> a \in known.outside \ known.stale]
    <3>1. s \in Steps
      BY <1>7 DEF Steps
    <3>2. pc' = [pc EXCEPT ![t] = s]
      BY <1>7 DEF Realloc, Goto
    <3> HIDE DEF s
    <3> QED
      BY <1>0, <3>1, <3>2
  <2>3. known' \in Knowledge
    BY <1>7, <1>0 DEF Realloc, Knowledge
  <2> QED
    BY <1>7, <1>0, <2>1, <2>2, <2>3 DEF Realloc, Types, alarms
<1>8. ASSUME NEW t \in mode.threads, Retrack(t)
      PROVE  Types'
  <2>1. pc[t].p \in Addrs /\ pc[t].n \in Sizes /\ pc[t].n \in Nat
    BY <1>8, <1>0, StepFacts, Bounds DEF Retrack
  <2>2. pc' \in [mode.threads -> Steps]
    BY <1>8, <1>0 DEF Retrack, Goto, Steps
  <2>3. known' \in Knowledge
    <3>1. known' = Retold(pc[t]) /\ pc[t] \in Steps /\ pc[t].op = "retrack"
      BY <1>8, <1>0 DEF Retrack
    <3>2. pc[t].old \in Addrs /\ pc[t].alien \in BOOLEAN /\ pc[t].exempt \in BOOLEAN
      BY <3>1, StepFacts
    <3>3. CASE track /\ pc[t].old \in DOMAIN blocks
      BY <1>0, <3>1, <3>3 DEF Retold, Knowledge
    <3>4. CASE ~(track /\ pc[t].old \in DOMAIN blocks)
      BY <1>0, <2>1, <3>1, <3>2, <3>4 DEF Retold, Knowledge
    <3> QED
      BY <3>3, <3>4
  <2>4. /\ SizesOf(blocks') /\ IsFiniteSet(DOMAIN blocks') /\ count' \in Counters
        /\ peak' \in [bytes : Nat, blocks : Nat] /\ track' \in BOOLEAN /\ alarm' \in BOOLEAN
    <3>1. CASE UNCHANGED <<blocks, count, track, alarm, peak>>
      BY <1>0, <3>1
    <3>2. CASE Alarm /\ UNCHANGED <<blocks, count, peak>>
      BY <1>0, <3>2 DEF Alarm
    <3>3. CASE /\ pc[t].old \in DOMAIN blocks
               /\ RetrackBlock(pc[t].old, pc[t].p, pc[t].n)
               /\ Measure(blocks') /\ UNCHANGED <<track, alarm>>
      <4> DEFINE d == Drop(blocks, pc[t].old)
      <4>1. SizesOf(d) /\ IsFiniteSet(DOMAIN d) /\ blocks[pc[t].old] \in Nat
        BY <1>0, <3>3, BytesDrop, Bounds DEF SizesOf
      <4>2. /\ blocks' = Insert(d, pc[t].p, pc[t].n)
            /\ count' = Counted([count EXCEPT !.aSize = Minus(count.aSize + pc[t].n,
                                                          blocks[pc[t].old])])
        BY <3>3 DEF RetrackBlock
      <4> HIDE DEF d
      <4>3. SizesOf(blocks') /\ IsFiniteSet(DOMAIN blocks')
        BY <2>1, <4>1, <4>2, BytesPut DEF Insert
      <4>4. count' \in Counters
        BY <1>0, <2>1, <4>1, <4>2, CountTypes
      <4> QED
        BY <1>0, <3>3, <4>3, <4>4, MeasureType
    <3> QED
      BY <1>8, <3>1, <3>2, <3>3 DEF Retrack
  <2>5. dead' \in BOOLEAN
    BY <1>8, <1>0 DEF Retrack
  <2> QED
    BY <1>8, <1>0, <2>2, <2>3, <2>4, <2>5 DEF Retrack, Types, bounds
<1>9. CASE Enter
  <2>1. snap' \in Counters
    BY <1>9 DEF Enter, Counters, Zero
  <2> QED
    BY <1>9, <1>0, <2>1 DEF Enter, Types, alarms, bounds, Stages
<1>10. CASE FirstSnapshot
  <2>0. Bytes(blocks) \in Nat
    BY <1>0, BytesType
  <2>1. count' \in Counters /\ peak' \in [bytes : Nat, blocks : Nat]
    BY <1>10, <1>0, <2>0 DEF FirstSnapshot, Counters
  <2>2. start' \in Int
    BY <1>10, <2>0 DEF FirstSnapshot
  <2> QED
    BY <1>10, <1>0, <2>1, <2>2 DEF FirstSnapshot, Types, alarms, bounds, Stages
<1>11. CASE SecondSnapshot
  <2>1. \A x, y \in Nat : Minus(x, y) \in Nat
    BY Bounds DEF Minus
  <2>2. snap' \in Counters
    BY <1>11, <1>0, <2>1 DEF SecondSnapshot, Counters
  <2>3. start' \in Int
    BY <1>11, <1>0, BytesType DEF SecondSnapshot
  <2> QED
    BY <1>11, <1>0, <2>2, <2>3 DEF SecondSnapshot, Types, alarms, bounds, Stages
<1>12. CASE Exit
  BY <1>12, <1>0 DEF Exit, Types, alarms, bounds, Stages
<1>13. CASE UNCHANGED vars
  BY <1>13, <1>0 DEF vars, Types, alarms, bounds
<1> QED
  BY <1>1, <1>2, <1>3, <1>4, <1>5, <1>6, <1>7, <1>8, <1>9, <1>10, <1>11, <1>12,
     <1>13, Turns

(* The type invariant of the module follows. *)
LEMMA TypesImplyTypeOK == Types => TypeOK
<1> SUFFICES ASSUME Types PROVE TypeOK
  OBVIOUS
<1>1. \A t \in mode.threads : pc[t].op \in {"idle", "track", "retrack", "free"}
  BY StepFacts DEF Types
<1>2. {track, alarm, dead, wild, known.reused, known.foreign} \subseteq BOOLEAN
  <2>1. known.reused \in BOOLEAN /\ known.foreign \in BOOLEAN
    BY DEF Types, Knowledge
  <2> QED
    BY <2>1 DEF Types
<1> QED
  BY <1>1, <1>2 DEF Types, TypeOK, SizesOf, Stages

-----------------------------------------------------------------------------
(* Hooks. *)

(* One thread goes on, and the blocks of the others stay as they are. *)
LEMMA HooksMove ==
    ASSUME Types, Hooks, NEW t \in mode.threads, NEW s,
           mode' = mode, pc' = [pc EXCEPT ![t] = s],
           \A u \in mode.threads \ {t} : pc[u] # Idle =>
              pc[u].p \in DOMAIN heap' /\ heap'[pc[u].p] = heap[pc[u].p],
           s # Idle => /\ s.p \in DOMAIN heap'
                       /\ \A u \in mode.threads \ {t} : pc[u] # Idle => pc[u].p # s.p
                       /\ s.op \in {"track", "retrack"} => heap'[s.p] = s.n
                       /\ s.op = "retrack" => t \in mode.realloc,
           s.op = "idle" <=> s = Idle
    PROVE  Hooks'
<1>1. pc'[t] = s /\ \A u \in mode.threads \ {t} : pc'[u] = pc[u]
  BY DEF Types
<1>2. \A u \in mode.threads : pc[u].op = "idle" <=> pc[u] = Idle
  BY StepFacts DEF Types
<1>3. \A u \in mode'.threads : pc'[u] # Idle => pc'[u].p \in DOMAIN heap'
  BY <1>1
<1>4. \A u \in mode'.threads : pc'[u].op \in {"track", "retrack"} => heap'[pc'[u].p] = pc'[u].n
  BY <1>1, <1>2 DEF Hooks
<1>5. \A u \in mode'.threads : pc'[u].op = "retrack" => u \in mode'.realloc
  BY <1>1 DEF Hooks, Idle
<1>6. \A u, v \in mode'.threads :
         u # v /\ pc'[u] # Idle /\ pc'[v] # Idle => pc'[u].p # pc'[v].p
  BY <1>1 DEF Hooks
<1> QED
  BY <1>3, <1>4, <1>5, <1>6 DEF Hooks

(* A block in the hands of the program is in no hook. *)
LEMMA OwnedFacts ==
    ASSUME NEW a
    PROVE  a \in Owned <=> /\ a \in DOMAIN heap
                           /\ \A t \in mode.threads : pc[t] # Idle => pc[t].p # a
BY DEF Owned

(* Every step keeps the hooks apart. *)
LEMMA HooksStep ==
    ASSUME Types, Hooks, [Next]_vars
    PROVE  Hooks'
<1>0. /\ SizesOf(heap) /\ pc \in [mode.threads -> Steps]
      /\ \A u \in mode.threads : pc[u] # Idle => pc[u].p \in DOMAIN heap
  BY DEF Types, Hooks
<1>b. \A u \in mode.threads : pc[u].op = "idle" <=> pc[u] = Idle
  BY <1>0, StepFacts
<1>i. Idle.op = "idle"
  BY DEF Idle
<1>1. ASSUME NEW t \in mode.threads, NEW a \in Addrs, NEW n \in Sizes, NEW x \in BOOLEAN,
             Malloc(t, a, n, x), x => mode.outside
      PROVE  Hooks'
  <2> DEFINE s == [op |-> "track", p |-> a, n |-> n, exempt |-> x]
  <2>1. mode' = mode /\ pc' = [pc EXCEPT ![t] = s] /\ heap' = Put(heap, a, n) /\ a \notin DOMAIN heap
    BY <1>1 DEF Malloc, Goto
  <2>2. DOMAIN heap' = DOMAIN heap \union {a} /\ heap'[a] = n
        /\ \A y \in DOMAIN heap \ {a} : heap'[y] = heap[y]
    <3>1. /\ DOMAIN Put(heap, a, n) = DOMAIN heap \union {a} /\ Put(heap, a, n)[a] = n
          /\ \A y \in DOMAIN heap \ {a} : Put(heap, a, n)[y] = heap[y]
      BY DEF Put
    <3> QED
      BY <2>1, <3>1
  <2>3. s.p = a /\ s.n = n /\ s.op = "track"
    OBVIOUS
  <2> HIDE DEF s
  <2> QED
    BY <2>1, <2>2, <2>3, <1>0, <1>i, HooksMove
<1>2. ASSUME NEW t \in mode.threads, Track(t)
      PROVE  Hooks'
  <2>1. mode' = mode /\ pc' = [pc EXCEPT ![t] = Idle] /\ heap' = heap
    BY <1>2 DEF Track, Goto
  <2> QED
    BY <2>1, <1>0, <1>i, HooksMove
<1>3. ASSUME NEW t \in mode.threads, NEW a \in Addrs, NEW x \in BOOLEAN, Release(t, a, x),
             dead' \in {dead, alarm' # alarm}
      PROVE  Hooks'
  <2> DEFINE s == [op |-> "free", p |-> a, told |-> track]
  <2>1. /\ mode' = mode /\ heap' = heap /\ a \in Owned
        /\ pc' = [pc EXCEPT ![t] = Idle] \/ pc' = [pc EXCEPT ![t] = s]
    BY <1>3 DEF Release, Goto
  <2>2. s.p = a /\ s.op = "free" /\ s # Idle
    BY <1>i
  <2> HIDE DEF s
  <2>3. CASE pc' = [pc EXCEPT ![t] = Idle]
    BY <2>1, <2>3, <1>0, <1>i, HooksMove
  <2>4. CASE pc' = [pc EXCEPT ![t] = s]
    BY <2>1, <2>2, <2>4, <1>0, <1>i, HooksMove, OwnedFacts
  <2> QED
    BY <2>1, <2>3, <2>4
<1>4. ASSUME NEW t \in mode.threads, LibcFree(t)
      PROVE  Hooks'
  <2>1. /\ mode' = mode /\ pc' = [pc EXCEPT ![t] = Idle] /\ heap' = Drop(heap, pc[t].p)
        /\ pc[t] # Idle
    BY <1>4, <1>i DEF LibcFree, Goto
  <2>2. DOMAIN heap' = DOMAIN heap \ {pc[t].p}
        /\ \A y \in DOMAIN heap \ {pc[t].p} : heap'[y] = heap[y]
    BY <2>1, <1>0, DropSizes
  <2>3. \A u \in mode.threads \ {t} : pc[u] # Idle => pc[u].p # pc[t].p
    BY <2>1 DEF Hooks
  <2> QED
    BY <2>1, <2>2, <2>3, <1>0, <1>i, HooksMove
<1>5. ASSUME NEW t \in mode.threads, NEW a \in Addrs, WildFree(t, a)
      PROVE  Hooks'
  BY <1>5 DEF WildFree, Hooks
<1>6. ASSUME NEW t \in mode.threads, NEW a \in Addrs, ReallocZero(t, a)
      PROVE  Hooks'
  <2>1. /\ mode' = mode /\ pc' = pc /\ heap' = Drop(heap, a) /\ a \in Owned
    BY <1>6 DEF ReallocZero
  <2>2. DOMAIN heap' = DOMAIN heap \ {a} /\ \A y \in DOMAIN heap \ {a} : heap'[y] = heap[y]
    BY <2>1, <1>0, DropSizes
  <2>3. \A u \in mode.threads : pc[u] # Idle => pc[u].p # a
    BY <2>1, OwnedFacts
  <2> QED
    BY <2>1, <2>2, <2>3, <1>b DEF Hooks
<1>7. ASSUME NEW t \in mode.threads, NEW a \in Addrs, NEW b \in Addrs, NEW n \in Sizes,
             NEW x \in BOOLEAN, Realloc(t, a, b, n, x), x => mode.outside
      PROVE  Hooks'
  <2> DEFINE s == [op |-> "retrack", old |-> a, p |-> b, n |-> n, exempt |-> x,
                   alien |-> a \in known.outside \ known.stale]
  <2>1. /\ mode' = mode /\ pc' = [pc EXCEPT ![t] = s] /\ heap' = Put(Drop(heap, a), b, n)
        /\ a \in Owned /\ (b = a \/ b \notin DOMAIN heap) /\ t \in mode.realloc
    BY <1>7 DEF Realloc, Goto
  <2>2. /\ DOMAIN heap' = (DOMAIN heap \ {a}) \union {b} /\ heap'[b] = n
        /\ \A y \in DOMAIN heap \ {a, b} : heap'[y] = heap[y]
    <3> DEFINE d == Drop(heap, a)
    <3>1. SizesOf(d) /\ DOMAIN d = DOMAIN heap \ {a} /\ \A y \in DOMAIN heap \ {a} : d[y] = heap[y]
      BY <1>0, DropSizes
    <3> HIDE DEF d
    <3>2. /\ DOMAIN Put(d, b, n) = DOMAIN d \union {b} /\ Put(d, b, n)[b] = n
          /\ \A y \in DOMAIN d \ {b} : Put(d, b, n)[y] = d[y]
      BY DEF Put
    <3>3. heap' = Put(d, b, n)
      BY <2>1 DEF d
    <3> QED
      BY <3>1, <3>2, <3>3
  <2>3. \A u \in mode.threads : pc[u] # Idle => pc[u].p # a /\ pc[u].p # b
    BY <2>1, <1>0, OwnedFacts
  <2>4. s.p = b /\ s.n = n /\ s.op = "retrack"
    OBVIOUS
  <2> HIDE DEF s
  <2> QED
    BY <2>1, <2>2, <2>3, <2>4, <1>0, <1>i, HooksMove
<1>8. ASSUME NEW t \in mode.threads, Retrack(t)
      PROVE  Hooks'
  <2>1. mode' = mode /\ pc' = [pc EXCEPT ![t] = Idle] /\ heap' = heap
    BY <1>8 DEF Retrack, Goto
  <2> QED
    BY <2>1, <1>0, <1>i, HooksMove
<1>9. CASE Enter
  BY <1>9 DEF Enter, Hooks
<1>10. CASE FirstSnapshot
  BY <1>10 DEF FirstSnapshot, Hooks
<1>11. CASE SecondSnapshot
  BY <1>11 DEF SecondSnapshot, Hooks
<1>12. CASE Exit
  BY <1>12 DEF Exit, Hooks
<1>13. CASE UNCHANGED vars
  BY <1>13 DEF vars, Hooks
<1> QED
  BY <1>1, <1>2, <1>3, <1>4, <1>5, <1>6, <1>7, <1>8, <1>9, <1>10, <1>11, <1>12,
     <1>13, Turns

-----------------------------------------------------------------------------
(* The counters. *)

(* Multiples. *)
LEMMA Times ==
    ASSUME NEW k \in Nat, NEW j \in Nat, k <= j, NEW m \in Nat
    PROVE  /\ k * m \in Nat /\ j * m \in Nat /\ k * m <= j * m
           /\ (k + 1) * m = k * m + m
<1>1. PICK i \in Nat : j = k + i
  <2>1. j - k \in Nat /\ j = k + (j - k)
    OBVIOUS
  <2> QED
    BY <2>1
<1>2. (k + i) * m = k * m + i * m /\ i * m \in Nat /\ k * m \in Nat /\ (k + 1) * m = k * m + m
  OBVIOUS
<1>3. j * m = k * m + i * m
  BY <1>1, <1>2
<1> QED
  BY <1>2, <1>3

(* A difference that fits is the difference. *)
LEMMA NoWrap ==
    ASSUME NEW x \in Nat, NEW y \in Nat, y <= x, x - y < Word
    PROVE  Minus(x, y) = x - y
<1>1. \A w \in Nat \ {0}, z \in Nat : z < w => z % w = z
  OBVIOUS
<1>2. x - y \in Nat
  OBVIOUS
<1> QED
  BY <1>1, <1>2, Bounds, Zenon DEF Minus

(* A hook that starts, goes on to the tracker, or is over. *)
LEMMA PendingMore ==
    ASSUME Types, IsFiniteSet(Pending), NEW t \in mode.threads, NEW s, mode' = mode,
           pc' = [pc EXCEPT ![t] = s], s.op \in {"track", "retrack"},
           pc[t].op \notin {"track", "retrack"}
    PROVE  IsFiniteSet(Pending') /\ Cardinality(Pending') = Cardinality(Pending) + 1
<1>1. Pending' = Pending \union {t} /\ t \notin Pending
  BY DEF Types, Pending
<1> QED
  BY <1>1, FS_AddElement

LEMMA PendingLess ==
    ASSUME Types, IsFiniteSet(Pending), NEW t \in mode.threads, NEW s, mode' = mode,
           pc' = [pc EXCEPT ![t] = s], s.op \notin {"track", "retrack"},
           pc[t].op \in {"track", "retrack"}
    PROVE  IsFiniteSet(Pending') /\ Cardinality(Pending') = Cardinality(Pending) - 1
<1>1. Pending' = Pending \ {t} /\ t \in Pending
  BY DEF Types, Pending
<1> QED
  BY <1>1, FS_RemoveElement

LEMMA PendingSame ==
    ASSUME Types, NEW t \in mode.threads, NEW s, mode' = mode,
           pc' = [pc EXCEPT ![t] = s], s.op \notin {"track", "retrack"},
           pc[t].op \notin {"track", "retrack"}
    PROVE  Pending' = Pending
BY DEF Types, Pending

(* What the counters say, once what was allocated is entered in them.      *)
LEMMA Balance ==
    ASSUME Types, Types', NEW k \in Nat, k <= MaxCalls,
           count.aSize' - count.fSize' = Bytes(blocks'),
           count.aCount' - count.fCount' = Cardinality(DOMAIN blocks'),
           count.aSize' <= k * Most, count.aCount' <= k
    PROVE  /\ Minus(count.aSize', count.fSize') = Bytes(blocks')
           /\ Minus(count.aCount', count.fCount') = Cardinality(DOMAIN blocks')
<1>1. /\ Bytes(blocks') \in Nat /\ Cardinality(DOMAIN blocks') \in Nat
      /\ count.aSize' \in Nat /\ count.fSize' \in Nat /\ count.aCount' \in Nat
      /\ count.fCount' \in Nat
  BY BytesType, FS_CardinalityType DEF Types, Counters
<1>2. k * Most <= MaxCalls * Most /\ MaxCalls * Most < Word /\ k * Most \in Nat
      /\ MaxCalls * Most \in Nat /\ Word \in Nat
  BY Bounds, Times
<1>3. k < Word
  <2>1. Most \in Nat /\ Most >= 1
    BY Bounds
  <2>2. \A q \in Nat : q >= 1 => k <= k * q
    OBVIOUS
  <2> QED
    BY <2>1, <2>2, <1>2
<1>4. /\ count.aSize' - count.fSize' < Word /\ count.fSize' <= count.aSize'
      /\ count.aCount' - count.fCount' < Word /\ count.fCount' <= count.aCount'
  BY <1>1, <1>2, <1>3
<1> QED
  BY <1>1, <1>4, NoWrap

(* The largest of three does not depend on which two are compared first.   *)
LEMMA LargerThree ==
    \A x, y, z \in Int : Larger(Larger(x, y), z) = Larger(x, Larger(y, z))
BY DEF Larger

(* Nothing that the counters are about has changed. *)
LEMMA LedgerSame ==
    ASSUME Types, Ledger, Pending' = Pending, count' = count, blocks' = blocks, mode' = mode,
           calls <= calls', calls' \in Nat,
           known.reused' = known.reused, peak' = peak, snap' = snap, start' = start,
           stage' = stage
    PROVE  Ledger'
<1>1. Cardinality(Pending) \in Nat /\ calls \in Nat /\ Most \in Nat
  BY FS_CardinalityType, Bounds DEF Ledger, Types
<1>2. Bytes(blocks') = Bytes(blocks)
  BY DEF Bytes
<1> DEFINE k == calls - Cardinality(Pending)
           j == calls' - Cardinality(Pending)
<1>3. k \in Nat /\ j \in Nat /\ k <= j
  BY <1>1 DEF Ledger
<1>4. k * Most <= j * Most /\ k * Most \in Nat /\ j * Most \in Nat
  BY <1>1, <1>3, Times
<1>5. count.aSize \in Nat /\ count.aCount \in Nat
  BY DEF Types, Counters
<1>6. Balanced => Balanced'
  <2> SUFFICES ASSUME Balanced PROVE Balanced'
    OBVIOUS
  <2>1. count.aSize' <= j * Most /\ count.aCount' <= j
    BY <1>3, <1>4, <1>5 DEF Balanced
  <2> QED
    BY <1>2, <2>1 DEF Balanced
<1>7. InBody => InBody'
  BY DEF InBody
<1> QED
  BY <1>1, <1>6, <1>7 DEF Ledger

(* Memory::track: the block and its bytes are entered together.            *)
LEMMA TrackLedger ==
    ASSUME Types, Types', Ledger, NEW t \in mode.threads, Track(t)
    PROVE  Ledger'
<1> DEFINE P == Cardinality(Pending)
           k == calls - P
           p == pc[t].p
           n == pc[t].n
<1>0. /\ p \in Addrs /\ n \in Sizes /\ n \in Nat /\ n <= Most /\ calls \in 0..MaxCalls
      /\ MaxCalls \in Nat /\ Most \in Nat /\ calls' = calls
  BY StepFacts, Bounds DEF Types, Track, bounds
<1>1. IsFiniteSet(Pending') /\ Cardinality(Pending') = P - 1 /\ P \in Nat /\ P - 1 \in Nat
  <2>1. pc' = [pc EXCEPT ![t] = Idle] /\ Idle.op = "idle" /\ pc[t].op = "track" /\ mode' = mode
    BY DEF Track, Goto, Idle
  <2>2. IsFiniteSet(Pending') /\ Cardinality(Pending') = P - 1
    BY <2>1, PendingLess DEF Ledger
  <2> QED
    BY <2>2, FS_CardinalityType DEF Ledger
<1>2. k \in Nat /\ k + 1 <= MaxCalls /\ calls' - Cardinality(Pending') = k + 1
      /\ Cardinality(Pending') <= calls'
  BY <1>0, <1>1 DEF Ledger
<1>3. (k + 1) * Most = k * Most + Most /\ k * Most \in Nat
  BY <1>0, <1>2, Times
<1>4. /\ count.aSize \in Nat /\ count.aCount \in Nat /\ count.fSize \in Nat
      /\ count.fCount \in Nat /\ snap.aSize \in Nat /\ snap.fSize \in Nat
      /\ Bytes(blocks) \in Nat /\ Cardinality(DOMAIN blocks) \in Nat
  BY BytesType, FS_CardinalityType DEF Types, Counters
<1> HIDE DEF P, k, p, n
<1>5. CASE ~(track /\ ~pc[t].exempt)
  <2>1. /\ count' = count /\ blocks' = blocks /\ peak' = peak
        /\ known.reused' = known.reused /\ mode' = mode /\ snap' = snap /\ start' = start
        /\ stage' = stage
    BY <1>5 DEF Track, Types, Knowledge
  <2>2. Bytes(blocks') = Bytes(blocks)
    BY <2>1 DEF Bytes
  <2>3. Balanced => Balanced'
    <3> SUFFICES ASSUME Balanced PROVE Balanced'
      OBVIOUS
    <3>1. count.aSize <= k * Most /\ count.aCount <= k
      BY DEF Balanced, k, P
    <3>2. count.aSize <= (k + 1) * Most /\ count.aCount <= k + 1
      BY <3>1, <1>0, <1>2, <1>3, <1>4
    <3> QED
      BY <1>2, <2>1, <2>2, <3>2 DEF Balanced
  <2>4. InBody => InBody'
    BY <2>1 DEF InBody
  <2> QED
    BY <1>1, <1>2, <2>1, <2>3, <2>4 DEF Ledger
<1>6. CASE track /\ ~pc[t].exempt
  <2>1. /\ blocks' = Insert(blocks, p, n) /\ Measure(blocks') /\ mode' = mode
        /\ count' = Counted([count EXCEPT !.aSize = count.aSize + n,
                                          !.aCount = count.aCount + 1])
        /\ snap' = snap /\ start' = start /\ stage' = stage
        /\ known' = IF p \in DOMAIN blocks
                    THEN [known EXCEPT !.reused = TRUE, !.stale = known.stale \ {p}]
                    ELSE known
    BY <1>6 DEF Track, p, n
  <2>2. SUFFICES ASSUME ~known.reused' PROVE Balanced' /\ InBody'
    BY <1>1, <1>2 DEF Ledger
  <2>3. p \notin DOMAIN blocks /\ known' = known /\ blocks' = Put(blocks, p, n)
    <3>1. p \notin DOMAIN blocks
      BY <2>1, <2>2 DEF Types, Knowledge
    <3> QED
      BY <2>1, <3>1 DEF Insert
  <2>4. Balanced /\ InBody
    BY <2>2, <2>3 DEF Ledger
  <2>5. /\ Bytes(blocks') = Bytes(blocks) + n
        /\ Cardinality(DOMAIN blocks') = Cardinality(DOMAIN blocks) + 1
    BY <1>0, <2>3, BytesPut DEF Types
  <2>6. /\ count'.aSize = count.aSize + n /\ count'.aCount = count.aCount + 1
        /\ count'.fSize = count.fSize /\ count'.fCount = count.fCount
        /\ count'.maxSize = Larger(count.maxSize, Minus(count'.aSize, count'.fSize))
        /\ count'.maxCount = Larger(count.maxCount, Minus(count'.aCount, count'.fCount))
    BY <2>1 DEF Types, Counters, Counted
  <2>7. /\ count'.aSize - count'.fSize = Bytes(blocks')
        /\ count'.aCount - count'.fCount = Cardinality(DOMAIN blocks')
        /\ count'.aSize <= (k + 1) * Most /\ count'.aCount <= k + 1
    <3>1. /\ count.aSize - count.fSize = Bytes(blocks)
          /\ count.aCount - count.fCount = Cardinality(DOMAIN blocks)
          /\ count.aSize <= k * Most /\ count.aCount <= k
      BY <2>4 DEF Balanced, k, P
    <3> QED
      BY <3>1, <2>5, <2>6, <1>0, <1>2, <1>3, <1>4
  <2>8. /\ Minus(count'.aSize, count'.fSize) = Bytes(blocks')
        /\ Minus(count'.aCount, count'.fCount) = Cardinality(DOMAIN blocks')
    <3>1. k + 1 \in Nat /\ k + 1 <= MaxCalls
      BY <1>2
    <3> QED
      BY <2>7, <3>1, Balance
  <2>9. count'.maxCount = peak'.blocks
    BY <2>1, <2>4, <2>6, <2>8 DEF Measure, Balanced
  <2>10. Balanced'
    BY <1>2, <2>7, <2>9 DEF Balanced
  <2>11. InBody'
    <3>1. SUFFICES ASSUME stage = "body" PROVE InBody'
      BY <2>1 DEF InBody
    <3>2. peak'.bytes = Larger(start', count'.maxSize)
      <4>1. /\ peak.bytes = Larger(start, count.maxSize) /\ start' = start
            /\ peak'.bytes = Larger(peak.bytes, Bytes(blocks'))
            /\ count'.maxSize = Larger(count.maxSize, Bytes(blocks'))
        BY <2>1, <2>4, <2>6, <2>8, <3>1 DEF InBody, Measure
      <4>2. start \in Int /\ count.maxSize \in Int /\ Bytes(blocks') \in Int
        BY <1>0, <1>4, <2>5 DEF Types, Counters
      <4> QED
        BY <4>1, <4>2, LargerThree
    <3> QED
      BY <1>0, <1>4, <2>1, <2>4, <2>6, <3>1, <3>2 DEF InBody
  <2> QED
    BY <2>10, <2>11
<1> QED
  BY <1>5, <1>6

(* Memory::retrack: the old block leaves with its bytes, the new one comes. *)
LEMMA RetrackLedger ==
    ASSUME Types, Types', Hooks, Ledger, NEW t \in mode.threads, Retrack(t)
    PROVE  Ledger'
<1> DEFINE P == Cardinality(Pending)
           k == calls - P
           p == pc[t].p
           o == pc[t].old
           n == pc[t].n
           d == Drop(blocks, o)
<1>0. /\ p \in Addrs /\ n \in Sizes /\ n \in Nat /\ n <= Most /\ calls \in 0..MaxCalls
      /\ MaxCalls \in Nat /\ Most \in Nat /\ calls' = calls
  <2>1. pc[t] \in Steps /\ pc[t].op = "retrack" /\ calls \in 0..MaxCalls /\ calls' = calls
    BY DEF Types, Retrack, bounds
  <2>2. p \in Addrs /\ n \in Sizes
    BY <2>1, StepFacts
  <2> HIDE DEF p, n
  <2>3. n \in Nat /\ n <= Most /\ MaxCalls \in Nat /\ Most \in Nat
    BY <2>2, Bounds
  <2> QED
    BY <2>1, <2>2, <2>3
<1>1. IsFiniteSet(Pending') /\ Cardinality(Pending') = P - 1 /\ P \in Nat /\ P - 1 \in Nat
  <2>1. pc' = [pc EXCEPT ![t] = Idle] /\ Idle.op = "idle" /\ pc[t].op = "retrack" /\ mode' = mode
    BY DEF Retrack, Goto, Idle
  <2>2. IsFiniteSet(Pending') /\ Cardinality(Pending') = P - 1
    BY <2>1, PendingLess DEF Ledger
  <2> QED
    BY <2>2, FS_CardinalityType DEF Ledger
<1>2. k \in Nat /\ k + 1 <= MaxCalls /\ calls' - Cardinality(Pending') = k + 1
      /\ Cardinality(Pending') <= calls'
  BY <1>0, <1>1 DEF Ledger
<1>3. (k + 1) * Most = k * Most + Most /\ k * Most \in Nat
  BY <1>0, <1>2, Times
<1>4. /\ count.aSize \in Nat /\ count.aCount \in Nat /\ count.fSize \in Nat
      /\ count.fCount \in Nat /\ snap.aSize \in Nat /\ snap.fSize \in Nat
      /\ Bytes(blocks) \in Nat /\ Cardinality(DOMAIN blocks) \in Nat
  BY BytesType, FS_CardinalityType DEF Types, Counters
<1> HIDE DEF P, k, p, n
<1>5. CASE UNCHANGED <<blocks, count, peak>> /\ (~track \/ o \notin DOMAIN blocks)
  <2>1. /\ count' = count /\ blocks' = blocks /\ peak' = peak
        /\ mode' = mode /\ snap' = snap /\ start' = start /\ stage' = stage
    BY <1>5 DEF Retrack
  <2>2. Bytes(blocks') = Bytes(blocks)
    BY <2>1 DEF Bytes
  <2>3. Balanced => Balanced'
    <3> SUFFICES ASSUME Balanced PROVE Balanced'
      OBVIOUS
    <3>1. count.aSize <= k * Most /\ count.aCount <= k
      BY DEF Balanced, k, P
    <3>2. count.aSize <= (k + 1) * Most /\ count.aCount <= k + 1
      BY <3>1, <1>0, <1>2, <1>3, <1>4
    <3> QED
      BY <1>2, <2>1, <2>2, <3>2 DEF Balanced
  <2>4. InBody => InBody'
    BY <2>1 DEF InBody
  <2>5. known.reused => known.reused'
    BY DEF Retrack, Retold, Types, Knowledge
  <2> QED
    BY <1>1, <1>2, <2>3, <2>4, <2>5 DEF Ledger
<1>6. CASE track /\ o \in DOMAIN blocks
  <2>1. /\ blocks' = Insert(d, p, n) /\ Measure(blocks') /\ mode' = mode
        /\ count' = Counted([count EXCEPT !.aSize = Minus(count.aSize + n, blocks[o])])
        /\ snap' = snap /\ start' = start /\ stage' = stage
        /\ known' = [known EXCEPT !.reused = known.reused \/ (p # o /\ p \in DOMAIN blocks),
                                  !.stale = known.stale \ {o, p}]
    BY <1>6 DEF Retrack, RetrackBlock, Retold, p, n
  <2>2. SUFFICES ASSUME ~known.reused' PROVE Balanced' /\ InBody'
    BY <1>1, <1>2 DEF Ledger
  <2>3. ~(p # o /\ p \in DOMAIN blocks) /\ ~known.reused
    BY <2>1, <2>2 DEF Types, Knowledge
  <2>4. Balanced /\ InBody
    BY <2>2, <2>3 DEF Ledger
  <2>5. /\ SizesOf(d) /\ DOMAIN d = DOMAIN blocks \ {o} /\ IsFiniteSet(DOMAIN d)
        /\ Bytes(d) = Bytes(blocks) - blocks[o] /\ Bytes(d) \in Nat
        /\ Cardinality(DOMAIN d) = Cardinality(DOMAIN blocks) - 1
        /\ blocks[o] \in Nat
    BY <1>6, BytesDrop, Bounds DEF Types, SizesOf
  <2> HIDE DEF d
  <2>6. p \notin DOMAIN d /\ blocks' = Put(d, p, n)
    BY <2>1, <2>3, <2>5 DEF Insert
  <2>7. /\ Bytes(blocks') = Bytes(d) + n
        /\ Cardinality(DOMAIN blocks') = Cardinality(DOMAIN d) + 1
    BY <1>0, <2>5, <2>6, BytesPut
  <2>8. /\ count'.aSize = Minus(count.aSize + n, blocks[o]) /\ count'.aCount = count.aCount
        /\ count'.fSize = count.fSize /\ count'.fCount = count.fCount
        /\ count'.maxSize = Larger(count.maxSize, Minus(count'.aSize, count'.fSize))
        /\ count'.maxCount = Larger(count.maxCount, Minus(count'.aCount, count'.fCount))
    BY <2>1 DEF Types, Counters, Counted
  <2>9. /\ count.aSize - count.fSize = Bytes(blocks)
        /\ count.aCount - count.fCount = Cardinality(DOMAIN blocks)
        /\ count.aSize <= k * Most /\ count.aCount <= k
    BY <2>4 DEF Balanced, k, P
  <2>10. count'.aSize = count.aSize + n - blocks[o]
    <3>1. (k + 1) * Most < Word
      <4>1. (k + 1) * Most <= MaxCalls * Most /\ (k + 1) * Most \in Nat /\ MaxCalls * Most \in Nat
        BY <1>0, <1>2, Times
      <4> QED
        BY <4>1, Bounds
    <3>2. count.aSize + n \in Nat /\ blocks[o] <= count.aSize + n
          /\ count.aSize + n - blocks[o] < Word
      BY <3>1, <2>5, <2>9, <1>0, <1>2, <1>3, <1>4, Bounds
    <3> DEFINE x == count.aSize + n
               y == blocks[o]
    <3>3. x \in Nat /\ y \in Nat /\ y <= x /\ x - y < Word /\ count'.aSize = Minus(x, y)
      BY <3>2, <2>5, <2>8, <1>0, <1>4
    <3> HIDE DEF x, y
    <3>4. count'.aSize = x - y
      BY <3>3, NoWrap
    <3> QED
      BY <3>4, <2>5, <1>0, <1>4 DEF x, y
  <2>11. /\ count'.aSize - count'.fSize = Bytes(blocks')
         /\ count'.aCount - count'.fCount = Cardinality(DOMAIN blocks')
         /\ count'.aSize <= (k + 1) * Most /\ count'.aCount <= k + 1
    BY <2>5, <2>7, <2>8, <2>9, <2>10, <1>0, <1>2, <1>3, <1>4
  <2>12. /\ Minus(count'.aSize, count'.fSize) = Bytes(blocks')
         /\ Minus(count'.aCount, count'.fCount) = Cardinality(DOMAIN blocks')
    <3>1. k + 1 \in Nat /\ k + 1 <= MaxCalls
      BY <1>2
    <3> QED
      BY <2>11, <3>1, Balance
  <2>13. count'.maxCount = peak'.blocks
    BY <2>1, <2>4, <2>8, <2>12 DEF Measure, Balanced
  <2>14. Balanced'
    BY <1>2, <2>11, <2>13 DEF Balanced
  <2>15. InBody'
    <3>1. mode'.realloc # {}
      BY <2>1 DEF Hooks, Retrack
    <3>2. stage = "body" => peak'.bytes = Larger(start', count'.maxSize)
      <4>1. SUFFICES ASSUME stage = "body" PROVE peak'.bytes = Larger(start', count'.maxSize)
        OBVIOUS
      <4>2. /\ peak.bytes = Larger(start, count.maxSize) /\ start' = start
            /\ peak'.bytes = Larger(peak.bytes, Bytes(blocks'))
            /\ count'.maxSize = Larger(count.maxSize, Bytes(blocks'))
        BY <2>1, <2>4, <2>8, <2>12, <4>1 DEF InBody, Measure
      <4>3. start \in Int /\ count.maxSize \in Int /\ Bytes(blocks') \in Int
        BY <1>0, <1>4, <2>5, <2>7 DEF Types, Counters
      <4> QED
        BY <4>2, <4>3, LargerThree
    <3> QED
      BY <2>1, <2>4, <3>1, <3>2 DEF InBody
  <2> QED
    BY <2>14, <2>15
<1> QED
  BY <1>5, <1>6 DEF Retrack, Alarm

(* Memory::remove: a block leaves with its bytes, or nothing happens.      *)
LEMMA RemoveLedger ==
    ASSUME Types, Types', Ledger, NEW a, NEW x, Remove(a, x), Pending' = Pending,
           mode' = mode, calls' = calls, known.reused' = known.reused,
           peak' = peak, snap' = snap, start' = start, stage' = stage
    PROVE  Ledger'
<1>0. calls \in Nat
  BY Bounds DEF Types
<1>1. CASE blocks' = blocks /\ count' = count
  BY <1>0, <1>1, LedgerSame
<1>2. CASE a \in DOMAIN blocks /\ RemoveBlock(a)
  <2>1. /\ Bytes(blocks') = Bytes(blocks) - blocks[a]
        /\ Cardinality(DOMAIN blocks') = Cardinality(DOMAIN blocks) - 1
        /\ blocks[a] \in Nat /\ Bytes(blocks) \in Nat /\ Cardinality(DOMAIN blocks) \in Nat
    BY <1>2, BytesDrop, BytesType, FS_CardinalityType, Bounds DEF RemoveBlock, Types, SizesOf
  <2>2. /\ count'.fSize = count.fSize + blocks[a] /\ count'.fCount = count.fCount + 1
        /\ count'.aSize = count.aSize /\ count'.aCount = count.aCount
        /\ count'.maxSize = count.maxSize /\ count'.maxCount = count.maxCount
        /\ count.fSize \in Nat /\ count.fCount \in Nat /\ count.aSize \in Nat
        /\ count.aCount \in Nat /\ snap.fSize \in Nat
    BY <1>2 DEF RemoveBlock, Types, Counters
  <2>3. Balanced => Balanced'
    <3> SUFFICES ASSUME Balanced PROVE Balanced'
      OBVIOUS
    <3>1. /\ count'.aSize - count'.fSize = Bytes(blocks')
          /\ count'.aCount - count'.fCount = Cardinality(DOMAIN blocks')
      BY <2>1, <2>2 DEF Balanced
    <3> QED
      BY <2>2, <3>1 DEF Balanced
  <2>4. InBody => InBody'
    BY <2>1, <2>2 DEF InBody
  <2> QED
    BY <2>3, <2>4 DEF Ledger
<1> QED
  BY <1>1, <1>2 DEF Remove

(* A call that is not entered in the counters yet.                         *)
LEMMA CallLedger ==
    ASSUME Types, Types', Ledger, NEW t \in mode.threads, NEW st,
           mode' = mode, pc' = [pc EXCEPT ![t] = st], st.op \in {"track", "retrack"},
           pc[t].op = "idle", blocks' = blocks, count' = count, peak' = peak, snap' = snap,
           start' = start, stage' = stage, known.reused' = known.reused,
           calls' = calls + 1
    PROVE  Ledger'
<1>1. IsFiniteSet(Pending') /\ Cardinality(Pending') = Cardinality(Pending) + 1
  BY PendingMore DEF Ledger
<1>2. calls \in Nat /\ Cardinality(Pending) \in Nat
  BY Bounds, FS_CardinalityType DEF Types, Ledger
<1>3. Bytes(blocks') = Bytes(blocks)
  BY DEF Bytes
<1>4. calls' - Cardinality(Pending') = calls - Cardinality(Pending)
      /\ (Cardinality(Pending) <= calls => Cardinality(Pending') <= calls')
  BY <1>1, <1>2
<1>5. Balanced => Balanced'
  <2>1. (calls' - Cardinality(Pending')) * Most = (calls - Cardinality(Pending)) * Most
    BY <1>4
  <2> QED
    BY <1>3, <1>4, <2>1 DEF Balanced
<1>6. InBody => InBody'
  BY DEF InBody
<1> QED
  BY <1>1, <1>4, <1>5, <1>6 DEF Ledger

(* Every step keeps the counters and the table together. *)
LEMMA LedgerStep ==
    ASSUME Types, Hooks, Ledger, [Next]_vars
    PROVE  Ledger'
<1>0. Types' /\ Types /\ Ledger /\ Hooks /\ calls \in Nat /\ calls' \in Nat
      /\ pc \in [mode.threads -> Steps]
  BY TypesStep, Bounds DEF Types
<1>1. ASSUME NEW t \in mode.threads, NEW a \in Addrs, NEW n \in Sizes, NEW x \in BOOLEAN,
             Malloc(t, a, n, x), x => mode.outside
      PROVE  Ledger'
  <2>1. /\ mode' = mode /\ pc' = [pc EXCEPT ![t] = [op |-> "track", p |-> a, n |-> n, exempt |-> x]]
        /\ pc[t].op = "idle"
    BY <1>1 DEF Malloc, Goto, MayCall, Idle
  <2>2. /\ blocks' = blocks /\ count' = count /\ peak' = peak /\ snap' = snap /\ start' = start
        /\ stage' = stage /\ known' = known /\ calls' = calls + 1
    BY <1>1 DEF Malloc
  <2> QED
    BY <1>0, <2>1, <2>2, CallLedger
<1>2. ASSUME NEW t \in mode.threads, Track(t)
      PROVE  Ledger'
  BY <1>2, <1>0, TrackLedger
<1>3. ASSUME NEW t \in mode.threads, NEW a \in Addrs, NEW x \in BOOLEAN, Release(t, a, x),
             dead' \in {dead, alarm' # alarm}
      PROVE  Ledger'
  <2>1. Pending' = Pending
    <3>1. pc[t].op = "idle" /\ mode' = mode
      BY <1>3 DEF Release, MayCall, Idle
    <3>2. CASE pc' = [pc EXCEPT ![t] = Idle]
      BY <1>0, <3>1, <3>2, PendingSame DEF Idle
    <3>3. CASE pc' = [pc EXCEPT ![t] = [op |-> "free", p |-> a, told |-> track]]
      BY <1>0, <3>1, <3>3, PendingSame
    <3> QED
      BY <1>3, <3>2, <3>3 DEF Release, Goto
  <2>2. known.reused' = known.reused
    BY <1>3 DEF Release, Types, Knowledge
  <2> QED
    BY <1>3, <1>0, <2>1, <2>2, RemoveLedger DEF Release, bounds
<1>4. ASSUME NEW t \in mode.threads, LibcFree(t)
      PROVE  Ledger'
  <2>1. Pending' = Pending
    <3>1. pc[t].op = "free" /\ mode' = mode /\ pc' = [pc EXCEPT ![t] = Idle] /\ Idle.op = "idle"
      BY <1>4 DEF LibcFree, Goto, Idle
    <3> QED
      BY <3>1, PendingSame
  <2>2. known.reused' = known.reused
    BY <1>4 DEF LibcFree, Types, Knowledge
  <2> QED
    BY <1>4, <1>0, <2>1, <2>2, LedgerSame DEF LibcFree, bounds
<1>5. ASSUME NEW t \in mode.threads, NEW a \in Addrs, WildFree(t, a)
      PROVE  Ledger'
  <2>1. Pending' = Pending
    BY <1>5 DEF WildFree, Pending
  <2> QED
    BY <1>5, <1>0, <2>1, RemoveLedger DEF WildFree, bounds
<1>6. ASSUME NEW t \in mode.threads, NEW a \in Addrs, ReallocZero(t, a)
      PROVE  Ledger'
  <2>1. Pending' = Pending
    BY <1>6 DEF ReallocZero, Pending
  <2>2. known.reused' = known.reused
    BY <1>6 DEF ReallocZero, Types, Knowledge
  <2>3. calls' = calls + 1
    BY <1>6 DEF ReallocZero
  <2> QED
    BY <1>6, <1>0, <2>1, <2>2, <2>3, LedgerSame DEF ReallocZero
<1>7. ASSUME NEW t \in mode.threads, NEW a \in Addrs, NEW b \in Addrs, NEW n \in Sizes,
             NEW x \in BOOLEAN, Realloc(t, a, b, n, x), x => mode.outside
      PROVE  Ledger'
  <2>1. /\ mode' = mode /\ pc' = [pc EXCEPT ![t] = [op |-> "retrack", old |-> a, p |-> b, n |-> n, exempt |-> x,
                              alien |-> a \in known.outside \ known.stale]]
        /\ pc[t].op = "idle"
    BY <1>7 DEF Realloc, Goto, MayCall, Idle
  <2>2. /\ blocks' = blocks /\ count' = count /\ peak' = peak /\ snap' = snap /\ start' = start
        /\ stage' = stage /\ known.reused' = known.reused /\ calls' = calls + 1
    BY <1>7 DEF Realloc, Types, Knowledge
  <2> QED
    BY <1>0, <2>1, <2>2, CallLedger
<1>8. ASSUME NEW t \in mode.threads, Retrack(t)
      PROVE  Ledger'
  BY <1>8, <1>0, RetrackLedger
<1>9. CASE Enter
  <2>1. Pending' = Pending /\ blocks' = blocks /\ mode' = mode /\ calls' = calls /\ known' = known
    BY <1>9 DEF Enter, Pending, bounds
  <2>2. Bytes(blocks') = Bytes(blocks) /\ Bytes(blocks) \in Nat
    <3>1. Bytes(blocks') = Bytes(blocks)
      BY <2>1 DEF Bytes
    <3> QED
      BY <3>1, BytesType DEF Types
  <2>3. Balanced' = Balanced /\ InBody'
    BY <1>9, <2>1, <2>2 DEF Enter, Balanced, InBody
  <2> QED
    BY <2>1, <2>3 DEF Ledger
<1>10. CASE FirstSnapshot
  <2>1. Pending' = Pending /\ blocks' = blocks /\ mode' = mode /\ calls' = calls /\ known' = known
    BY <1>10 DEF FirstSnapshot, Pending, bounds
  <2>2. Bytes(blocks') = Bytes(blocks) /\ Bytes(blocks) \in Nat
    <3>1. Bytes(blocks') = Bytes(blocks)
      BY <2>1 DEF Bytes
    <3> QED
      BY <3>1, BytesType DEF Types
  <2>3. /\ count'.aSize = count.aSize /\ count'.fSize = count.fSize
        /\ count'.aCount = count.aCount /\ count'.fCount = count.fCount
        /\ count'.maxSize = 0 /\ count'.maxCount = count.maxCount /\ snap' = count'
        /\ start' = Bytes(blocks) /\ peak'.bytes = Bytes(blocks) /\ peak'.blocks = peak.blocks
        /\ count.aSize \in Nat /\ count.fSize \in Nat
    BY <1>10 DEF FirstSnapshot, Types, Counters
  <2>4. Balanced => Balanced'
    BY <2>1, <2>2, <2>3 DEF Balanced
  <2>5. Balanced => InBody'
    <3>1. peak'.bytes = Larger(start', count'.maxSize)
      BY <2>2, <2>3 DEF Larger
    <3> QED
      BY <2>1, <2>2, <2>3, <3>1 DEF Balanced, InBody
  <2> QED
    BY <2>1, <2>4, <2>5 DEF Ledger
<1>11. CASE SecondSnapshot
  <2>1. Pending' = Pending /\ blocks' = blocks /\ mode' = mode /\ calls' = calls /\ known' = known
    BY <1>11 DEF SecondSnapshot, Pending, bounds
  <2>2. Bytes(blocks') = Bytes(blocks) /\ Bytes(blocks) \in Nat
    <3>1. Bytes(blocks') = Bytes(blocks)
      BY <2>1 DEF Bytes
    <3> QED
      BY <3>1, BytesType DEF Types
  <2>3. Balanced' = Balanced /\ InBody'
    BY <1>11, <2>1, <2>2 DEF SecondSnapshot, Balanced, InBody
  <2> QED
    BY <2>1, <2>3 DEF Ledger
<1>12. CASE Exit
  <2>1. Pending' = Pending /\ blocks' = blocks /\ mode' = mode /\ calls' = calls /\ known' = known
    BY <1>12 DEF Exit, Pending, bounds
  <2>2. Bytes(blocks') = Bytes(blocks) /\ Bytes(blocks) \in Nat
    <3>1. Bytes(blocks') = Bytes(blocks)
      BY <2>1 DEF Bytes
    <3> QED
      BY <3>1, BytesType DEF Types
  <2>3. Balanced' = Balanced /\ InBody'
    BY <1>12, <2>1, <2>2 DEF Exit, Balanced, InBody
  <2> QED
    BY <2>1, <2>3 DEF Ledger
<1>13. CASE UNCHANGED vars
  <2>1. Pending' = Pending
    BY <1>13 DEF vars, Pending
  <2> QED
    BY <1>13, <1>0, <2>1, LedgerSame DEF vars, bounds
<1> QED
  BY <1>1, <1>2, <1>3, <1>4, <1>5, <1>6, <1>7, <1>8, <1>9, <1>10, <1>11, <1>12,
     <1>13, Turns

(* Remainders. *)
LEMMA Wraps ==
    ASSUME NEW x \in Int
    PROVE  x % Word \in 0..(Word - 1) /\ \E q \in Int : x % Word = x + q * Word
<1>0. Word \in Nat \ {0}
  BY Bounds
<1>1. x % Word \in 0..(Word - 1)
  BY <1>0
<1>2. x = Word * (x \div Word) + (x % Word) /\ x \div Word \in Int
  BY <1>0
<1>3. x % Word = x + (-(x \div Word)) * Word /\ -(x \div Word) \in Int
  BY <1>0, <1>1, <1>2
<1> QED
  BY <1>1, <1>3

LEMMA WrapsOnce ==
    ASSUME NEW a \in 0..(Word - 1), NEW b \in 0..(Word - 1), NEW k \in Int, a = b + k * Word
    PROVE  a = b
<1>0. Word \in Nat \ {0}
  BY Bounds
<1>1. CASE k = 0
  BY <1>0, <1>1
<1>2. CASE k >= 1
  <2>1. k * Word >= Word
    BY <1>0, <1>2
  <2> QED
    BY <1>0, <2>1
<1>3. CASE k <= -1
  <2>1. k * Word <= -Word
    BY <1>0, <1>3
  <2> QED
    BY <1>0, <2>1
<1> QED
  BY <1>1, <1>2, <1>3

(* The difference of two differences is right up to the width of size_t.   *)
LEMMA Difference ==
    ASSUME NEW a1 \in Nat, NEW a0 \in Nat, NEW f1 \in Nat, NEW f0 \in Nat
    PROVE  Minus(Minus(a1, a0), Minus(f1, f0)) = ((a1 - f1) - (a0 - f0)) % Word
<1> DEFINE a == Minus(a1, a0)
           f == Minus(f1, f0)
           z == (a1 - f1) - (a0 - f0)
<1>0. Word \in Nat \ {0} /\ z \in Int /\ a1 - a0 \in Int /\ f1 - f0 \in Int
  BY Bounds
<1>1. PICK i \in Int : a = (a1 - a0) + i * Word
  BY <1>0, Wraps, Zenon DEF Minus
<1>2. PICK j \in Int : f = (f1 - f0) + j * Word
  BY <1>0, Wraps, Zenon DEF Minus
<1> HIDE DEF a, f
<1>3. a \in Int /\ f \in Int /\ a - f \in Int
  BY <1>0, <1>1, <1>2
<1>4. /\ Minus(a, f) \in 0..(Word - 1)
      /\ \E k \in Int : Minus(a, f) = (a - f) + k * Word
  BY <1>3, Wraps, Zenon DEF Minus
<1>5. PICK k \in Int : Minus(a, f) = (a - f) + k * Word
  BY <1>4
<1>6. z % Word \in 0..(Word - 1) /\ \E l \in Int : z % Word = z + l * Word
  BY <1>0, Wraps, Zenon
<1> HIDE DEF z
<1>7. PICK l \in Int : z % Word = z + l * Word
  BY <1>6
<1>8. z = (a1 - a0) - (f1 - f0)
  BY DEF z
<1> DEFINE d == Minus(a, f)
           r == z % Word
           q == i - j + k - l
<1>9. d = r + q * Word
  <2>1. /\ i * Word \in Int /\ j * Word \in Int /\ k * Word \in Int /\ l * Word \in Int
        /\ (i - j + k - l) * Word = i * Word - j * Word + k * Word - l * Word
    BY <1>0
  <2>2. d = (a - f) + k * Word /\ r = z + l * Word
    BY <1>5, <1>7
  <2> HIDE DEF d, r
  <2> QED
    BY <2>1, <2>2, <1>0, <1>1, <1>2, <1>3, <1>8
<1>10. d \in 0..(Word - 1) /\ r \in 0..(Word - 1) /\ q \in Int
  BY <1>4, <1>6
<1> HIDE DEF d, r, q
<1>11. d = r
  BY <1>9, <1>10, WrapsOnce
<1> QED
  BY <1>11 DEF d, r, a, f, z

(* That an address came back while its old entry was there is not forgotten. *)
LEMMA ReusedStays ==
    ASSUME Types, [Next]_vars
    PROVE  known.reused => known.reused'
<1>0. known \in Knowledge
  BY DEF Types
<1>1. ASSUME NEW t \in mode.threads, NEW a \in Addrs, NEW n \in Sizes, NEW x \in BOOLEAN,
             Malloc(t, a, n, x), x => mode.outside
      PROVE  known.reused => known.reused'
  BY <1>1, <1>0 DEF Malloc, Knowledge
<1>2. ASSUME NEW t \in mode.threads, Track(t)
      PROVE  known.reused => known.reused'
  BY <1>2, <1>0 DEF Track, Knowledge
<1>3. ASSUME NEW t \in mode.threads, NEW a \in Addrs, NEW x \in BOOLEAN, Release(t, a, x),
             dead' \in {dead, alarm' # alarm}
      PROVE  known.reused => known.reused'
  BY <1>3, <1>0 DEF Release, Knowledge
<1>4. ASSUME NEW t \in mode.threads, LibcFree(t)
      PROVE  known.reused => known.reused'
  BY <1>4, <1>0 DEF LibcFree, Knowledge
<1>5. ASSUME NEW t \in mode.threads, NEW a \in Addrs, WildFree(t, a)
      PROVE  known.reused => known.reused'
  BY <1>5, <1>0 DEF WildFree, Knowledge
<1>6. ASSUME NEW t \in mode.threads, NEW a \in Addrs, ReallocZero(t, a)
      PROVE  known.reused => known.reused'
  BY <1>6, <1>0 DEF ReallocZero, Knowledge
<1>7. ASSUME NEW t \in mode.threads, NEW a \in Addrs, NEW b \in Addrs, NEW n \in Sizes,
             NEW x \in BOOLEAN, Realloc(t, a, b, n, x), x => mode.outside
      PROVE  known.reused => known.reused'
  BY <1>7, <1>0 DEF Realloc, Knowledge
<1>8. ASSUME NEW t \in mode.threads, Retrack(t)
      PROVE  known.reused => known.reused'
  BY <1>8, <1>0 DEF Retrack, Retold, Knowledge
<1>9. CASE Enter
  BY <1>9, <1>0 DEF Enter, Knowledge
<1>10. CASE FirstSnapshot
  BY <1>10, <1>0 DEF FirstSnapshot, Knowledge
<1>11. CASE SecondSnapshot
  BY <1>11, <1>0 DEF SecondSnapshot, Knowledge
<1>12. CASE Exit
  BY <1>12, <1>0 DEF Exit, Knowledge
<1>13. CASE UNCHANGED vars
  BY <1>13, <1>0 DEF vars, Knowledge
<1> QED
  BY <1>1, <1>2, <1>3, <1>4, <1>5, <1>6, <1>7, <1>8, <1>9, <1>10, <1>11, <1>12,
     <1>13, Turns

(* The second snapshot leaves the growth of the tracked bytes behind. *)
LEMMA LeakStep ==
    ASSUME Types, Ledger, LeakExact, [Next]_vars
    PROVE  LeakExact'
<1>0. known.reused => known.reused'
  BY ReusedStays
<1>1. ASSUME NEW t \in mode.threads, NEW a \in Addrs, NEW n \in Sizes, NEW x \in BOOLEAN,
             Malloc(t, a, n, x), x => mode.outside
      PROVE  LeakExact'
  BY <1>1, <1>0 DEF Malloc, LeakExact, Leak
<1>2. ASSUME NEW t \in mode.threads, Track(t)
      PROVE  LeakExact'
  BY <1>2, <1>0 DEF Track, LeakExact, Leak
<1>3. ASSUME NEW t \in mode.threads, NEW a \in Addrs, NEW x \in BOOLEAN, Release(t, a, x),
             dead' \in {dead, alarm' # alarm}
      PROVE  LeakExact'
  BY <1>3, <1>0 DEF Release, LeakExact, Leak
<1>4. ASSUME NEW t \in mode.threads, LibcFree(t)
      PROVE  LeakExact'
  BY <1>4, <1>0 DEF LibcFree, LeakExact, Leak
<1>5. ASSUME NEW t \in mode.threads, NEW a \in Addrs, WildFree(t, a)
      PROVE  LeakExact'
  BY <1>5, <1>0 DEF WildFree, LeakExact, Leak
<1>6. ASSUME NEW t \in mode.threads, NEW a \in Addrs, ReallocZero(t, a)
      PROVE  LeakExact'
  BY <1>6, <1>0 DEF ReallocZero, LeakExact, Leak
<1>7. ASSUME NEW t \in mode.threads, NEW a \in Addrs, NEW b \in Addrs, NEW n \in Sizes,
             NEW x \in BOOLEAN, Realloc(t, a, b, n, x), x => mode.outside
      PROVE  LeakExact'
  BY <1>7, <1>0 DEF Realloc, LeakExact, Leak
<1>8. ASSUME NEW t \in mode.threads, Retrack(t)
      PROVE  LeakExact'
  BY <1>8, <1>0 DEF Retrack, LeakExact, Leak
<1>9. CASE Enter
  BY <1>9 DEF Enter, LeakExact
<1>10. CASE FirstSnapshot
  BY <1>10 DEF FirstSnapshot, LeakExact
<1>11. CASE SecondSnapshot
  <2> DEFINE a1 == count.aSize
             a0 == snap.aSize
             f1 == count.fSize
             f0 == snap.fSize
  <2>0. a1 \in Nat /\ a0 \in Nat /\ f1 \in Nat /\ f0 \in Nat /\ start \in Int /\ Bytes(blocks) \in Nat
    BY BytesType DEF Types, Counters
  <2>1. /\ snap'.aSize = Minus(a1, a0) /\ snap'.fSize = Minus(f1, f0)
        /\ start' = Bytes(blocks) - start /\ known' = known /\ stage = "body" /\ mode' = mode
    BY <1>11 DEF SecondSnapshot
  <2>2. SUFFICES ASSUME ~known.reused
                 PROVE  /\ mode'.realloc = {} => (Leak' <=> start' > 0)
                        /\ Minus(snap'.aSize, snap'.fSize) = start' % Word
    BY <2>1 DEF LeakExact
  <2>3. /\ a1 - f1 = Bytes(blocks) /\ a0 - f0 = start /\ a1 < Word
        /\ mode.realloc = {} => a0 <= a1 /\ f0 <= f1
    <3>1. Balanced /\ InBody
      BY <2>2 DEF Ledger
    <3>2. /\ calls - Cardinality(Pending) \in Nat /\ calls - Cardinality(Pending) <= MaxCalls
          /\ Most \in Nat /\ MaxCalls \in Nat
      BY FS_CardinalityType, Bounds DEF Ledger, Types
    <3>3. /\ (calls - Cardinality(Pending)) * Most <= MaxCalls * Most /\ MaxCalls * Most < Word
          /\ (calls - Cardinality(Pending)) * Most \in Nat /\ MaxCalls * Most \in Nat
      BY <3>2, Times, Bounds
    <3>4. Word \in Nat
      BY Bounds
    <3> QED
      BY <3>1, <3>3, <3>4, <2>0, <2>1 DEF Balanced, InBody
  <2>4. Minus(snap'.aSize, snap'.fSize) = start' % Word
    <3> HIDE DEF a1, a0, f1, f0
    <3>1. Minus(Minus(a1, a0), Minus(f1, f0)) = ((a1 - f1) - (a0 - f0)) % Word
      BY <2>0, Difference
    <3> QED
      BY <3>1, <2>1, <2>3
  <2>5. mode'.realloc = {} => (Leak' <=> start' > 0)
    <3> SUFFICES ASSUME mode.realloc = {} PROVE Leak' <=> start' > 0
      BY <2>1
    <3> HIDE DEF a1, a0, f1, f0
    <3>1. a1 - a0 < Word /\ f1 - f0 < Word /\ a0 <= a1 /\ f0 <= f1
      BY <2>0, <2>3, Bounds
    <3>2. Minus(a1, a0) = a1 - a0 /\ Minus(f1, f0) = f1 - f0
      BY <2>0, <3>1, NoWrap
    <3> QED
      BY <3>1, <3>2, <2>0, <2>1, <2>3 DEF Leak
  <2> QED
    BY <2>4, <2>5
<1>12. CASE Exit
  BY <1>12 DEF Exit, LeakExact
<1>13. CASE UNCHANGED vars
  BY <1>13, <1>0 DEF vars, LeakExact, Leak
<1> QED
  BY <1>1, <1>2, <1>3, <1>4, <1>5, <1>6, <1>7, <1>8, <1>9, <1>10, <1>11, <1>12,
     <1>13, Turns

-----------------------------------------------------------------------------
(* What every test may rely on. *)

LEMMA CountingInit == Init => Types /\ Hooks /\ Ledger /\ LeakExact
<1> SUFFICES ASSUME Init PROVE Types /\ Hooks /\ Ledger /\ LeakExact
  OBVIOUS
<1>1. /\ mode \in Modes /\ heap = Empty /\ blocks = Empty /\ pc = [t \in mode.threads |-> Idle]
      /\ count = Zero /\ snap = Zero /\ stage = "out" /\ known = Known /\ calls = 0 /\ tests = 0
      /\ start = 0 /\ peak = [bytes |-> 0, blocks |-> 0]
      /\ track = FALSE /\ alarm = FALSE /\ dead = FALSE /\ wild = FALSE
  BY DEF Init
<1>2. Types
  <2>1. Zero \in Counters /\ Known \in Knowledge /\ Idle \in Steps
    BY DEF Zero, Counters, Known, Knowledge, Steps
  <2>2. pc \in [mode.threads -> Steps] /\ calls \in 0..MaxCalls
    BY <1>1, <2>1, Bounds
  <2>3. peak \in [bytes : Nat, blocks : Nat] /\ tests \in Nat /\ start \in Int
    BY <1>1
  <2> QED
    BY <1>1, <2>1, <2>2, <2>3, BytesEmpty DEF Types, Stages
<1>3. Hooks
  BY <1>1 DEF Hooks, Idle
<1>4. Pending = {} /\ IsFiniteSet(Pending) /\ Cardinality(Pending) = 0
  <2>1. Pending = {}
    BY <1>1 DEF Pending, Idle
  <2> QED
    BY <2>1, FS_EmptySet
<1>5. Ledger
  <2>1. 0 * Most = 0
    BY Bounds
  <2>2. Balanced
    BY <1>1, <1>4, <2>1, BytesEmpty DEF Balanced, Zero
  <2> QED
    BY <1>1, <1>4, <2>2 DEF Ledger, InBody
<1>6. LeakExact
  BY <1>1 DEF LeakExact
<1> QED
  BY <1>2, <1>3, <1>5, <1>6

THEOREM Invariance == Spec => [](Types /\ Hooks /\ Ledger /\ LeakExact)
<1>1. Types /\ Hooks /\ Ledger /\ LeakExact /\ [Next]_vars
      => (Types /\ Hooks /\ Ledger /\ LeakExact)'
  BY TypesStep, HooksStep, LedgerStep, LeakStep
<1> QED
  BY <1>1, CountingInit, PTL DEF Spec

(* In whatever order the hooks of the threads come, the counters add up to *)
(* the table of blocks; the largest number of blocks is that of the table; *)
(* and the largest number of bytes tracked since the first snapshot is the *)
(* maximum the tracker keeps or what was tracked at that snapshot, which   *)
(* the tracker leaves out, whichever is larger.                            *)
THEOREM AccountsAreExact == Spec => []AccountingExact
<1>1. Types /\ Ledger => AccountingExact
  BY TypesImplyTypeOK DEF Ledger, Balanced, InBody, AccountingExact
<1> QED
  BY <1>1, Invariance, PTL

(* The leak check reports a test exactly if it leaves more tracked bytes   *)
(* behind than it found, up to the width of size_t if it reallocates.      *)
THEOREM LeaksAreFound == Spec => []LeakExact
<1> QED
  BY Invariance, PTL

-----------------------------------------------------------------------------
(* The table. *)

LEMMA RemoveCases ==
    ASSUME NEW a, NEW x, Remove(a, x)
    PROVE  \/ /\ UNCHANGED <<blocks, track, alarm>>
              /\ ~track \/ a \notin DOMAIN blocks
           \/ /\ UNCHANGED <<track, alarm>> /\ track
              /\ a \in DOMAIN blocks /\ blocks' = Drop(blocks, a)
           \/ /\ track /\ ~x /\ a \notin DOMAIN blocks /\ blocks' = blocks
              /\ alarm' = TRUE /\ track' = FALSE
BY Zenon DEF Remove, RemoveBlock, Alarm

(* Where one thread reallocates, no other does anything.                   *)
LEMMA NoRetrack ==
    ASSUME Hooks, Alone, NEW t \in mode.threads, pc[t].op # "retrack"
    PROVE  \A u \in mode.threads : pc[u].op # "retrack"
BY DEF Hooks, Alone

(* Tracking is switched off by the alarm and with the test only. *)
LEMMA WatchStep ==
    ASSUME Types, Watch, [Next]_vars
    PROVE  Watch'
<1>0. track \in BOOLEAN /\ alarm \in BOOLEAN /\ (track <=> (stage # "out" /\ ~alarm))
  BY DEF Types, Watch
<1>a. ASSUME stage' = stage, UNCHANGED <<track, alarm>> \/ (alarm' = TRUE /\ track' = FALSE)
      PROVE  Watch'
  BY <1>0, <1>a DEF Watch
<1>1. ASSUME NEW t \in mode.threads, NEW a \in Addrs, NEW n \in Sizes, NEW x \in BOOLEAN,
             Malloc(t, a, n, x), x => mode.outside
      PROVE  Watch'
  BY <1>1, <1>a DEF Malloc, alarms
<1>2. ASSUME NEW t \in mode.threads, Track(t)
      PROVE  Watch'
  BY <1>2, <1>a DEF Track, alarms
<1>3. ASSUME NEW t \in mode.threads, NEW a \in Addrs, NEW x \in BOOLEAN, Release(t, a, x),
             dead' \in {dead, alarm' # alarm}
      PROVE  Watch'
  BY <1>3, <1>a, RemoveCases DEF Release
<1>4. ASSUME NEW t \in mode.threads, LibcFree(t)
      PROVE  Watch'
  BY <1>4, <1>a DEF LibcFree, alarms
<1>5. ASSUME NEW t \in mode.threads, NEW a \in Addrs, WildFree(t, a)
      PROVE  Watch'
  BY <1>5, <1>a, RemoveCases DEF WildFree
<1>6. ASSUME NEW t \in mode.threads, NEW a \in Addrs, ReallocZero(t, a)
      PROVE  Watch'
  BY <1>6, <1>a DEF ReallocZero, alarms
<1>7. ASSUME NEW t \in mode.threads, NEW a \in Addrs, NEW b \in Addrs, NEW n \in Sizes,
             NEW x \in BOOLEAN, Realloc(t, a, b, n, x), x => mode.outside
      PROVE  Watch'
  BY <1>7, <1>a DEF Realloc, alarms
<1>8. ASSUME NEW t \in mode.threads, Retrack(t)
      PROVE  Watch'
  <2>1. UNCHANGED <<track, alarm>> \/ (alarm' = TRUE /\ track' = FALSE)
    BY <1>8, Zenon DEF Retrack, Alarm
  <2> QED
    BY <1>8, <1>a, <2>1 DEF Retrack
<1>9. CASE Enter
  BY <1>9, <1>0 DEF Enter, Watch, alarms
<1>10. CASE FirstSnapshot
  BY <1>10, <1>0 DEF FirstSnapshot, Watch, alarms
<1>11. CASE SecondSnapshot
  BY <1>11, <1>0 DEF SecondSnapshot, Watch, alarms
<1>12. CASE Exit
  BY <1>12, <1>0 DEF Exit, Watch, alarms
<1>13. CASE UNCHANGED vars
  BY <1>13, <1>0 DEF vars, Watch, alarms
<1> QED
  BY <1>1, <1>2, <1>3, <1>4, <1>5, <1>6, <1>7, <1>8, <1>9, <1>10, <1>11, <1>12,
     <1>13, Turns

(* The alarm is given where it should be. *)
LEMMA AlarmStep ==
    ASSUME Types, Hooks, Alone, Watch, Matching, AlarmExact, [Next]_vars
    PROVE  AlarmExact'
<1>0. /\ pc \in [mode.threads -> Steps] /\ known \in Knowledge /\ alarm \in BOOLEAN
      /\ track \in BOOLEAN /\ wild \in BOOLEAN
  BY DEF Types
<1>w. track <=> (stage # "out" /\ ~alarm)
  BY DEF Watch
<1>1. ASSUME NEW t \in mode.threads, NEW a \in Addrs, NEW n \in Sizes, NEW x \in BOOLEAN,
             Malloc(t, a, n, x), x => mode.outside
      PROVE  AlarmExact'
  <2>1. wild' = wild /\ known'.foreign = known.foreign /\ alarm' = alarm
    BY <1>1, <1>0 DEF Malloc, Knowledge, alarms
  <2> QED
    BY <2>1 DEF AlarmExact
<1>2. ASSUME NEW t \in mode.threads, Track(t)
      PROVE  AlarmExact'
  <2>1. wild' = wild /\ known'.foreign = known.foreign /\ alarm' = alarm
    BY <1>2, <1>0 DEF Track, Knowledge, alarms
  <2> QED
    BY <2>1 DEF AlarmExact
<1>3. ASSUME NEW t \in mode.threads, NEW a \in Addrs, NEW x \in BOOLEAN, Release(t, a, x),
             dead' \in {dead, alarm' # alarm}
      PROVE  AlarmExact'
  <2>1. known'.foreign = (known.foreign \/ (track /\ ~x /\ a \in known.outside \ known.stale))
    BY <1>3, <1>0 DEF Release, Knowledge
  <2>2. wild' = wild
    BY <1>3 DEF Release
  <2>3. CASE UNCHANGED <<blocks, track, alarm>> /\ (~track \/ a \notin DOMAIN blocks) /\ ~(track /\ ~x)
    BY <2>1, <2>2, <2>3 DEF AlarmExact
  <2>4. CASE UNCHANGED <<track, alarm>> /\ track /\ a \in DOMAIN blocks
    <3>1. a \notin known.outside \ known.stale
      BY <2>4, <1>w DEF Matching, KnownMatch
    <3> QED
      BY <2>1, <2>2, <2>4, <3>1 DEF AlarmExact
  <2>5. CASE track /\ ~x /\ a \notin DOMAIN blocks /\ alarm' = TRUE
    <3>1. a \in known.outside \ known.stale
      BY <1>3, <2>5, <1>w DEF Matching, OwnedMatch, KnownMatch, Release
    <3> QED
      BY <2>1, <2>5, <3>1 DEF AlarmExact
  <2>6. \/ UNCHANGED <<blocks, track, alarm>> /\ (~track \/ a \notin DOMAIN blocks) /\ ~(track /\ ~x)
        \/ UNCHANGED <<track, alarm>> /\ track /\ a \in DOMAIN blocks
        \/ track /\ ~x /\ a \notin DOMAIN blocks /\ alarm' = TRUE
    <3>1. Remove(a, x)
      BY <1>3 DEF Release
    <3> QED
      BY <3>1, Zenon DEF Remove, Alarm
  <2> QED
    BY <2>3, <2>4, <2>5, <2>6
<1>4. ASSUME NEW t \in mode.threads, LibcFree(t)
      PROVE  AlarmExact'
  <2>1. wild' = wild /\ known'.foreign = known.foreign /\ alarm' = alarm
    BY <1>4, <1>0 DEF LibcFree, Knowledge, alarms
  <2> QED
    BY <2>1 DEF AlarmExact
<1>5. ASSUME NEW t \in mode.threads, NEW a \in Addrs, WildFree(t, a)
      PROVE  AlarmExact'
  <2>1. Remove(a, FALSE) /\ wild' = TRUE /\ track /\ a \notin DOMAIN heap \union known.stale
        /\ pc[t] = Idle
    BY <1>5 DEF WildFree, MayCall
  <2>2. \A u \in mode.threads : pc[u].op # "retrack"
    BY <2>1, NoRetrack DEF Idle
  <2>3. a \notin DOMAIN blocks
    BY <2>1, <2>2, <1>w DEF Matching, EntriesMatch
  <2>4. alarm' = TRUE
    BY <2>1, <2>3, Zenon DEF Remove, Alarm
  <2> QED
    BY <2>1, <2>4 DEF AlarmExact
<1>6. ASSUME NEW t \in mode.threads, NEW a \in Addrs, ReallocZero(t, a)
      PROVE  AlarmExact'
  <2>1. wild' = wild /\ known'.foreign = known.foreign /\ alarm' = alarm
    BY <1>6, <1>0 DEF ReallocZero, Knowledge, alarms
  <2> QED
    BY <2>1 DEF AlarmExact
<1>7. ASSUME NEW t \in mode.threads, NEW a \in Addrs, NEW b \in Addrs, NEW n \in Sizes,
             NEW x \in BOOLEAN, Realloc(t, a, b, n, x), x => mode.outside
      PROVE  AlarmExact'
  <2>1. wild' = wild /\ known'.foreign = known.foreign /\ alarm' = alarm
    BY <1>7, <1>0 DEF Realloc, Knowledge, alarms
  <2> QED
    BY <2>1 DEF AlarmExact
<1>8. ASSUME NEW t \in mode.threads, Retrack(t)
      PROVE  AlarmExact'
  <2>1. wild' = wild /\ known' = Retold(pc[t]) /\ pc[t].op = "retrack"
    BY <1>8 DEF Retrack
  <2>2. CASE track /\ pc[t].old \in DOMAIN blocks
    <3>1. alarm' = alarm /\ known'.foreign = known.foreign
      BY <1>8, <2>1, <2>2, <1>0 DEF Retrack, Retold, Knowledge
    <3> QED
      BY <2>1, <3>1 DEF AlarmExact
  <2>3. CASE ~(track /\ pc[t].old \in DOMAIN blocks)
    <3>1. known'.foreign = (known.foreign \/ (track /\ ~pc[t].exempt /\ pc[t].alien))
      BY <2>1, <2>3, <1>0 DEF Retold, Knowledge
    <3>2. CASE track /\ ~pc[t].exempt
      <4>1. pc[t].alien
        BY <2>1, <2>3, <3>2, <1>w DEF Matching, HookMatch
      <4>2. alarm' = TRUE
        BY <1>8, <2>3, <3>2, Zenon DEF Retrack, Alarm
      <4> QED
        BY <3>1, <3>2, <4>1, <4>2 DEF AlarmExact
    <3>3. CASE ~(track /\ ~pc[t].exempt)
      <4>1. alarm' = alarm
        BY <1>8, <2>3, <3>3, Zenon DEF Retrack
      <4> QED
        BY <2>1, <3>1, <3>3, <4>1 DEF AlarmExact
    <3> QED
      BY <3>2, <3>3
  <2> QED
    BY <2>2, <2>3
<1>9. CASE Enter
  <2>1. wild' = wild /\ known'.foreign = known.foreign /\ alarm' = alarm
    BY <1>9, <1>0 DEF Enter, Knowledge, alarms
  <2> QED
    BY <2>1 DEF AlarmExact
<1>10. CASE FirstSnapshot
  <2>1. wild' = wild /\ known'.foreign = known.foreign /\ alarm' = alarm
    BY <1>10, <1>0 DEF FirstSnapshot, Knowledge, alarms
  <2> QED
    BY <2>1 DEF AlarmExact
<1>11. CASE SecondSnapshot
  <2>1. wild' = wild /\ known'.foreign = known.foreign /\ alarm' = alarm
    BY <1>11, <1>0 DEF SecondSnapshot, Knowledge, alarms
  <2> QED
    BY <2>1 DEF AlarmExact
<1>12. CASE Exit
  <2>1. wild' = wild /\ known'.foreign = known.foreign /\ alarm' = alarm
    BY <1>12, <1>0 DEF Exit, Knowledge, alarms
  <2> QED
    BY <2>1 DEF AlarmExact
<1>13. CASE UNCHANGED vars
  BY <1>13 DEF vars, alarms, AlarmExact
<1> QED
  BY <1>1, <1>2, <1>3, <1>4, <1>5, <1>6, <1>7, <1>8, <1>9, <1>10, <1>11, <1>12,
     <1>13, Turns

(* Every step keeps the table and the heap in correspondence. *)
LEMMA MatchStep ==
    ASSUME Types, Hooks, Alone, Watch, Matching, [Next]_vars
    PROVE  Matching'
<1>0. /\ mode \in Modes /\ pc \in [mode.threads -> Steps] /\ known \in Knowledge
      /\ SizesOf(heap) /\ SizesOf(blocks) /\ track \in BOOLEAN /\ alarm \in BOOLEAN
  BY DEF Types
<1>s. \A u \in mode.threads : pc[u].op = "idle" <=> pc[u] = Idle
  BY <1>0, StepFacts
<1>i. Idle.op = "idle"
  BY DEF Idle
<1>w. track <=> (stage # "out" /\ ~alarm)
  BY DEF Watch
<1>m. ~alarm => OwnedMatch /\ EntriesMatch /\ KnownMatch /\ \A u \in mode.threads : HookMatch(u)
  BY DEF Matching
<1> SUFFICES ASSUME ~alarm'
             PROVE  /\ OwnedMatch' /\ EntriesMatch' /\ KnownMatch'
                    /\ \A u \in mode'.threads : HookMatch(u)'
  BY DEF Matching
<1>1. ASSUME NEW t \in mode.threads, NEW a \in Addrs, NEW n \in Sizes, NEW x \in BOOLEAN,
             Malloc(t, a, n, x), x => mode.outside
      PROVE  OwnedMatch' /\ EntriesMatch' /\ KnownMatch'
            /\ \A u \in mode'.threads : HookMatch(u)'
  <2> DEFINE st == [op |-> "track", p |-> a, n |-> n, exempt |-> x]
  <2>1. /\ mode' = mode /\ blocks' = blocks /\ known' = known /\ ~alarm /\ pc[t] = Idle
        /\ heap' = Put(heap, a, n) /\ a \notin DOMAIN heap /\ pc' = [pc EXCEPT ![t] = st]
    BY <1>1 DEF Malloc, Goto, MayCall, alarms
  <2>2. OwnedMatch /\ EntriesMatch /\ KnownMatch /\ \A u \in mode.threads : HookMatch(u)
    BY <1>m, <2>1
  <2>3. DOMAIN heap' = DOMAIN heap \union {a} /\ \A y \in DOMAIN heap : heap'[y] = heap[y]
    BY <2>1 DEF Put
  <2>4. /\ st.p = a /\ st.op = "track" /\ pc'[t] = st /\ st # Idle
        /\ \A u \in mode.threads \ {t} : pc'[u] = pc[u]
    BY <1>0, <1>i, <2>1
  <2> HIDE DEF st
  <2>5. \A u \in mode.threads : pc[u].op # "retrack"
    BY <2>1, <1>i, NoRetrack
  <2>6. a \in DOMAIN blocks => a \in known.stale
    BY <2>1, <2>2, <2>5 DEF EntriesMatch
  <2>7. \A y \in Owned' : y \in Owned /\ heap'[y] = heap[y]
    BY <2>1, <2>3, <2>4, <1>i DEF Owned
  <2>11. OwnedMatch'
    BY <2>1, <2>2, <2>7 DEF OwnedMatch
  <2>12. EntriesMatch'
    BY <2>1, <2>2, <2>3, <2>5 DEF EntriesMatch
  <2>13. KnownMatch'
    BY <2>1, <2>2, <2>3 DEF KnownMatch
  <2>14. ASSUME NEW u \in mode.threads PROVE HookMatch(u)'
    BY <2>1, <2>2, <2>3, <2>4, <2>5, <2>6 DEF HookMatch, KnownMatch
  <2> QED
    BY <2>1, <2>11, <2>12, <2>13, <2>14
<1>2. ASSUME NEW t \in mode.threads, Track(t)
      PROVE  OwnedMatch' /\ EntriesMatch' /\ KnownMatch'
            /\ \A u \in mode'.threads : HookMatch(u)'
  <2> DEFINE p == pc[t].p
  <2>1. /\ mode' = mode /\ heap' = heap /\ ~alarm /\ pc[t].op = "track" /\ pc[t] # Idle
        /\ pc' = [pc EXCEPT ![t] = Idle]
    BY <1>2, <1>i DEF Track, Goto, alarms
  <2>2. OwnedMatch /\ EntriesMatch /\ KnownMatch /\ \A u \in mode.threads : HookMatch(u)
    BY <1>m, <2>1
  <2>3. pc'[t] = Idle /\ \A u \in mode.threads \ {t} : pc'[u] = pc[u]
    BY <1>0, <2>1
  <2>4. \A u \in mode.threads : pc[u].op # "retrack"
    BY <2>1, NoRetrack
  <2>5. /\ p \in DOMAIN heap /\ heap[p] = pc[t].n
        /\ \A u \in mode.threads \ {t} : pc[u] # Idle => pc[u].p # p
    BY <2>1 DEF Hooks
  <2>6. (p \in DOMAIN blocks => p \in known.stale) /\ p \notin known.outside
    BY <2>1, <2>2 DEF HookMatch
  <2> HIDE DEF p
  <2>7. \A y \in Owned' : y # p => y \in Owned
    BY <2>1, <2>3 DEF Owned, p
  <2>8. CASE ~(track /\ ~pc[t].exempt)
    <3>1. /\ blocks' = blocks /\ known'.outside = known.outside \union {p}
          /\ known'.stale = known.stale /\ known'.reused = known.reused
      BY <1>2, <2>8, <1>0 DEF Track, Knowledge, p
    <3>2. OwnedMatch'
      BY <3>1, <2>1, <2>2, <2>7 DEF OwnedMatch
    <3>3. EntriesMatch'
      BY <3>1, <2>1, <2>2, <2>4 DEF EntriesMatch
    <3>4. KnownMatch'
      BY <3>1, <2>1, <2>2, <2>5, <2>6 DEF KnownMatch
    <3>5. ASSUME NEW u \in mode.threads PROVE HookMatch(u)'
      BY <3>1, <2>1, <2>2, <2>3, <2>5, <1>i, <1>s DEF HookMatch
    <3> QED
      BY <2>1, <3>2, <3>3, <3>4, <3>5
  <2>9. CASE track /\ ~pc[t].exempt /\ p \in DOMAIN blocks
    <3>1. /\ blocks' = blocks /\ known'.outside = known.outside
          /\ known'.stale = known.stale \ {p} /\ known'.reused = TRUE
      BY <1>2, <2>9, <1>0 DEF Track, Knowledge, Insert, p
    <3>2. OwnedMatch'
      BY <3>1, <2>1, <2>2, <2>7, <2>9 DEF OwnedMatch
    <3>3. EntriesMatch'
      BY <3>1, <2>1, <2>2, <2>4, <2>5 DEF EntriesMatch
    <3>4. KnownMatch'
      BY <3>1, <2>1, <2>2, <2>6 DEF KnownMatch
    <3>5. ASSUME NEW u \in mode.threads PROVE HookMatch(u)'
      BY <3>1, <2>1, <2>2, <2>3, <2>4, <2>5, <1>i, <1>s DEF HookMatch
    <3> QED
      BY <2>1, <3>2, <3>3, <3>4, <3>5
  <2>10. CASE track /\ ~pc[t].exempt /\ p \notin DOMAIN blocks
    <3>1. blocks' = Put(blocks, p, pc[t].n) /\ known' = known
      BY <1>2, <2>10, <1>0 DEF Track, Insert, p
    <3>2. /\ DOMAIN blocks' = DOMAIN blocks \union {p} /\ blocks'[p] = pc[t].n
          /\ \A y \in DOMAIN blocks : blocks'[y] = blocks[y]
      BY <3>1, <2>10 DEF Put
    <3>3. OwnedMatch'
      <4>1. p \notin known.stale
        BY <2>2, <2>10 DEF KnownMatch
      <4> QED
        BY <3>1, <3>2, <4>1, <2>1, <2>2, <2>5, <2>7 DEF OwnedMatch
    <3>4. EntriesMatch'
      BY <3>1, <3>2, <2>1, <2>2, <2>4, <2>5 DEF EntriesMatch
    <3>5. KnownMatch'
      BY <3>1, <3>2, <2>1, <2>2, <2>6 DEF KnownMatch
    <3>6. ASSUME NEW u \in mode.threads PROVE HookMatch(u)'
      BY <3>1, <3>2, <2>1, <2>2, <2>3, <2>4, <2>5, <1>i, <1>s DEF HookMatch
    <3> QED
      BY <2>1, <3>3, <3>4, <3>5, <3>6
  <2> QED
    BY <2>8, <2>9, <2>10
<1>3. ASSUME NEW t \in mode.threads, NEW a \in Addrs, NEW x \in BOOLEAN, Release(t, a, x),
             dead' \in {dead, alarm' # alarm}
      PROVE  OwnedMatch' /\ EntriesMatch' /\ KnownMatch'
            /\ \A u \in mode'.threads : HookMatch(u)'
  <2> DEFINE st == [op |-> "free", p |-> a, told |-> track]
  <2>1. /\ mode' = mode /\ heap' = heap /\ pc[t] = Idle /\ a \in Owned /\ Remove(a, x)
        /\ known'.outside = known.outside /\ known'.reused = known.reused
        /\ known'.stale = IF track THEN known.stale \ {a} ELSE known.stale
    BY <1>3, <1>0 DEF Release, MayCall, Knowledge
  <2>a. /\ alarm' = alarm /\ ~alarm
        /\ \/ blocks' = blocks /\ (~track \/ a \notin DOMAIN blocks)
           \/ track /\ a \in DOMAIN blocks /\ blocks' = Drop(blocks, a)
    BY <2>1, RemoveCases
  <2>b. pc' = [pc EXCEPT ![t] = st]
    BY <1>3, <2>a DEF Release, Goto
  <2>2. OwnedMatch /\ EntriesMatch /\ KnownMatch /\ \A u \in mode.threads : HookMatch(u)
    BY <1>m, <2>a
  <2>4. /\ st.p = a /\ st.op = "free" /\ pc'[t] = st /\ st # Idle /\ st.told = track
        /\ \A u \in mode.threads \ {t} : pc'[u] = pc[u]
    BY <1>0, <1>i, <2>b
  <2> HIDE DEF st
  <2>5. \A u \in mode.threads : pc[u].op # "retrack"
    BY <2>1, <1>i, NoRetrack
  <2>6. \A u \in mode.threads : pc[u] # Idle => pc[u].p # a
    BY <2>1 DEF Owned
  <2>7. \A y \in Owned' : y \in Owned /\ y # a
    BY <2>1, <2>4, <1>i DEF Owned
  <2>8. /\ known'.stale \subseteq known.stale /\ known.stale \subseteq known'.stale \union {a}
        /\ DOMAIN blocks' \subseteq DOMAIN blocks /\ DOMAIN blocks \subseteq DOMAIN blocks' \union {a}
        /\ track => a \notin DOMAIN blocks' /\ a \notin known'.stale
        /\ ~track => blocks' = blocks /\ known'.stale = known.stale
        /\ \A y \in DOMAIN blocks \ {a} : blocks'[y] = blocks[y]
    BY <2>1, <2>a DEF Drop
  <2>11. OwnedMatch'
    BY <2>1, <2>2, <2>7, <2>8 DEF OwnedMatch
  <2>12. EntriesMatch'
    BY <2>1, <2>2, <2>5, <2>8 DEF EntriesMatch, Owned
  <2>13. KnownMatch'
    BY <2>1, <2>2, <2>8 DEF KnownMatch
  <2>14. ASSUME NEW u \in mode.threads PROVE HookMatch(u)'
    <3>1. CASE u = t
      BY <3>1, <2>4, <2>8 DEF HookMatch
    <3>2. CASE u # t
      <4>1. pc'[u] = pc[u] /\ pc[u].op # "retrack" /\ HookMatch(u) /\ (pc[u] # Idle => pc[u].p # a)
        BY <3>2, <2>2, <2>4, <2>5, <2>6
      <4> QED
        BY <4>1, <2>1, <2>8, <1>i, <1>s DEF HookMatch
    <3> QED
      BY <3>1, <3>2
  <2> QED
    BY <2>1, <2>11, <2>12, <2>13, <2>14
<1>4. ASSUME NEW t \in mode.threads, LibcFree(t)
      PROVE  OwnedMatch' /\ EntriesMatch' /\ KnownMatch'
            /\ \A u \in mode'.threads : HookMatch(u)'
  <2> DEFINE p == pc[t].p
  <2>1. /\ mode' = mode /\ heap' = Drop(heap, p) /\ ~alarm /\ pc[t].op = "free" /\ pc[t] # Idle
        /\ pc' = [pc EXCEPT ![t] = Idle] /\ blocks' = blocks
        /\ known'.outside = known.outside \ {p} /\ known'.reused = known.reused
        /\ known'.stale = IF p \in DOMAIN blocks /\ ~pc[t].told THEN known.stale \union {p}
                          ELSE known.stale
    BY <1>4, <1>0, <1>i DEF LibcFree, Goto, Knowledge, alarms
  <2>2. OwnedMatch /\ EntriesMatch /\ KnownMatch /\ \A u \in mode.threads : HookMatch(u)
    BY <1>m, <2>1
  <2>3. pc'[t] = Idle /\ \A u \in mode.threads \ {t} : pc'[u] = pc[u]
    BY <1>0, <2>1
  <2>4. \A u \in mode.threads : pc[u].op # "retrack"
    BY <2>1, NoRetrack
  <2>5. p \in DOMAIN heap /\ \A u \in mode.threads \ {t} : pc[u] # Idle => pc[u].p # p
    BY <2>1 DEF Hooks
  <2>6. p \in DOMAIN blocks => p \in known'.stale
    BY <2>1, <2>2 DEF HookMatch
  <2> HIDE DEF p
  <2>7. DOMAIN heap' = DOMAIN heap \ {p} /\ \A y \in DOMAIN heap \ {p} : heap'[y] = heap[y]
    BY <2>1 DEF Drop
  <2>8. \A y \in Owned' : y # p /\ y \in Owned /\ heap'[y] = heap[y]
    BY <2>1, <2>3, <2>7 DEF Owned, p
  <2>11. OwnedMatch'
    BY <2>1, <2>2, <2>8 DEF OwnedMatch
  <2>12. EntriesMatch'
    BY <2>1, <2>2, <2>4, <2>6, <2>7 DEF EntriesMatch
  <2>13. KnownMatch'
    BY <2>1, <2>2, <2>6, <2>7 DEF KnownMatch
  <2>14. ASSUME NEW u \in mode.threads PROVE HookMatch(u)'
    <3>1. CASE u = t
      BY <3>1, <2>3, <1>i DEF HookMatch
    <3>2. CASE u # t
      <4>1. pc'[u] = pc[u] /\ pc[u].op # "retrack" /\ HookMatch(u) /\ (pc[u] # Idle => pc[u].p # p)
        BY <3>2, <2>2, <2>3, <2>4, <2>5
      <4> QED
        BY <4>1, <2>1, <1>i, <1>s DEF HookMatch
    <3> QED
      BY <3>1, <3>2
  <2> QED
    BY <2>1, <2>11, <2>12, <2>13, <2>14
<1>5. ASSUME NEW t \in mode.threads, NEW a \in Addrs, WildFree(t, a)
      PROVE  OwnedMatch' /\ EntriesMatch' /\ KnownMatch'
            /\ \A u \in mode'.threads : HookMatch(u)'
  <2>1. /\ Remove(a, FALSE) /\ track /\ a \notin DOMAIN heap \union known.stale /\ pc[t] = Idle
        /\ ~alarm
    BY <1>5, RemoveCases, <1>w DEF WildFree, MayCall
  <2>2. \A u \in mode.threads : pc[u].op # "retrack"
    BY <2>1, <1>i, NoRetrack
  <2>3. a \notin DOMAIN blocks
    BY <2>1, <2>2, <1>m DEF EntriesMatch
  <2>4. alarm' = TRUE
    BY <2>1, <2>3, Zenon DEF Remove, Alarm
  <2> QED
    BY <2>4
<1>6. ASSUME NEW t \in mode.threads, NEW a \in Addrs, ReallocZero(t, a)
      PROVE  OwnedMatch' /\ EntriesMatch' /\ KnownMatch'
            /\ \A u \in mode'.threads : HookMatch(u)'
  <2>1. /\ mode' = mode /\ heap' = Drop(heap, a) /\ ~alarm /\ pc[t] = Idle /\ pc' = pc
        /\ blocks' = blocks /\ t \in mode.realloc /\ a \in Owned
        /\ known'.outside = known.outside \ {a} /\ known'.reused = known.reused
        /\ known'.stale = IF a \in DOMAIN blocks THEN known.stale \union {a} ELSE known.stale
    BY <1>6, <1>0 DEF ReallocZero, MayCall, Knowledge, alarms
  <2>2. OwnedMatch /\ EntriesMatch /\ KnownMatch
    BY <1>m, <2>1
  <2>a. mode.threads = {t}
    BY <2>1 DEF Alone
  <2>7. DOMAIN heap' = DOMAIN heap \ {a} /\ \A y \in DOMAIN heap \ {a} : heap'[y] = heap[y]
    BY <2>1 DEF Drop
  <2>8. \A y \in Owned' : y # a /\ y \in Owned /\ heap'[y] = heap[y]
    BY <2>1, <2>7 DEF Owned
  <2>11. OwnedMatch'
    BY <2>1, <2>2, <2>8 DEF OwnedMatch
  <2>12. EntriesMatch'
    BY <2>1, <2>2, <2>7 DEF EntriesMatch
  <2>13. KnownMatch'
    BY <2>1, <2>2, <2>7 DEF KnownMatch
  <2>14. ASSUME NEW u \in mode.threads PROVE HookMatch(u)'
    BY <2>1, <2>a, <1>i DEF HookMatch
  <2> QED
    BY <2>1, <2>11, <2>12, <2>13, <2>14
<1>7. ASSUME NEW t \in mode.threads, NEW a \in Addrs, NEW b \in Addrs, NEW n \in Sizes,
             NEW x \in BOOLEAN, Realloc(t, a, b, n, x), x => mode.outside
      PROVE  OwnedMatch' /\ EntriesMatch' /\ KnownMatch'
            /\ \A u \in mode'.threads : HookMatch(u)'
  <2> DEFINE st == [op |-> "retrack", old |-> a, p |-> b, n |-> n, exempt |-> x,
                    alien |-> a \in known.outside \ known.stale]
  <2>1. /\ mode' = mode /\ heap' = Put(Drop(heap, a), b, n) /\ ~alarm /\ pc[t] = Idle
        /\ pc' = [pc EXCEPT ![t] = st] /\ blocks' = blocks /\ t \in mode.realloc /\ a \in Owned
        /\ known'.outside = known.outside \ {a} /\ known'.stale = known.stale
        /\ known'.reused = known.reused /\ (b = a \/ b \notin DOMAIN heap)
    BY <1>7, <1>0 DEF Realloc, MayCall, Goto, Knowledge, alarms
  <2>2. OwnedMatch /\ EntriesMatch /\ KnownMatch
    BY <1>m, <2>1
  <2>a. mode.threads = {t}
    BY <2>1 DEF Alone
  <2>3. /\ st.p = b /\ st.old = a /\ st.op = "retrack"
        /\ st.alien <=> a \in known.outside \ known.stale
    OBVIOUS
  <2> HIDE DEF st
  <2>4. /\ st.p = b /\ st.old = a /\ st.op = "retrack" /\ pc'[t] = st /\ st # Idle
        /\ st.alien <=> a \in known.outside \ known.stale
    BY <1>0, <1>i, <2>1, <2>3
  <2>b. a \in DOMAIN heap /\ (a \in DOMAIN blocks <=> a \notin known.outside \ known.stale)
    BY <2>1, <2>2 DEF Owned, OwnedMatch, KnownMatch
  <2>5. b \in DOMAIN blocks => b = a \/ b \in known.stale
    BY <2>1, <2>2, <2>a, <1>i DEF EntriesMatch
  <2>6. b \notin known'.outside
    BY <2>1, <2>2 DEF KnownMatch
  <2>7. /\ DOMAIN heap' = (DOMAIN heap \ {a}) \union {b}
        /\ \A y \in DOMAIN heap \ {a, b} : heap'[y] = heap[y]
    BY <2>1 DEF Drop, Put
  <2>8. \A y \in Owned' : y # b /\ y # a /\ y \in Owned /\ heap'[y] = heap[y]
    BY <2>1, <2>4, <2>7, <2>a DEF Owned
  <2>11. OwnedMatch'
    BY <2>1, <2>2, <2>8 DEF OwnedMatch
  <2>12. EntriesMatch'
    BY <2>1, <2>2, <2>4, <2>7, <2>a, <1>i DEF EntriesMatch
  <2>13. KnownMatch'
    BY <2>1, <2>2, <2>7 DEF KnownMatch
  <2>14. ASSUME NEW u \in mode.threads PROVE HookMatch(u)'
    BY <2>1, <2>4, <2>5, <2>6, <2>7, <2>a, <2>b DEF HookMatch
  <2> QED
    BY <2>1, <2>11, <2>12, <2>13, <2>14
<1>8. ASSUME NEW t \in mode.threads, Retrack(t)
      PROVE  OwnedMatch' /\ EntriesMatch' /\ KnownMatch'
            /\ \A u \in mode'.threads : HookMatch(u)'
  <2> DEFINE p == pc[t].p
             o == pc[t].old
             d == Drop(blocks, o)
  <2>1. /\ mode' = mode /\ heap' = heap /\ pc[t].op = "retrack" /\ pc[t] # Idle
        /\ pc' = [pc EXCEPT ![t] = Idle] /\ ~alarm
    <3>1. alarm' = alarm \/ alarm' = TRUE
      BY <1>8, Zenon DEF Retrack, Alarm
    <3> QED
      BY <1>8, <3>1, <1>i DEF Retrack, Goto
  <2>a. mode.threads = {t}
    BY <2>1 DEF Hooks, Alone
  <2>2. OwnedMatch /\ EntriesMatch /\ KnownMatch /\ HookMatch(t)
    BY <1>m, <2>1
  <2>3. pc'[t] = Idle
    BY <1>0, <2>1
  <2>4. /\ p \in DOMAIN heap /\ heap[p] = pc[t].n /\ p \notin known.outside
        /\ p = o \/ (o \notin DOMAIN heap /\ (p \in DOMAIN blocks => p \in known.stale))
    BY <2>1, <2>2 DEF HookMatch, Hooks
  <2>8. \A y \in Owned' : y \in DOMAIN heap /\ (y # p => y \in Owned)
    BY <2>1, <2>3, <2>a DEF Owned
  <2>9. \A y \in Owned' : y # p => y # o
    BY <2>4, <2>8
  <2>14. ASSUME NEW u \in mode.threads PROVE HookMatch(u)'
    BY <2>3, <2>a, <1>i DEF HookMatch
  <2>15. CASE track /\ o \in DOMAIN blocks
    <3>1. /\ blocks' = Insert(d, p, pc[t].n)
          /\ known' = [known EXCEPT !.reused = known.reused \/ (p # o /\ p \in DOMAIN blocks),
                                    !.stale = known.stale \ {o, p}]
      BY <1>8, <2>15 DEF Retrack, RetrackBlock, Retold
    <3>2. /\ known'.outside = known.outside /\ known'.stale = known.stale \ {o, p}
          /\ known.reused => known'.reused
          /\ p # o /\ p \in DOMAIN blocks => known'.reused
      BY <3>1, <1>0 DEF Knowledge
    <3>3. /\ DOMAIN blocks' = (DOMAIN blocks \ {o}) \union {p}
          /\ \A y \in DOMAIN blocks \ {o, p} : blocks'[y] = blocks[y]
          /\ (p # o /\ p \in DOMAIN blocks) \/ blocks'[p] = pc[t].n
      <4>1. DOMAIN d = DOMAIN blocks \ {o} /\ \A y \in DOMAIN blocks \ {o} : d[y] = blocks[y]
        BY DEF Drop
      <4> HIDE DEF d
      <4> QED
        BY <3>1, <4>1 DEF Insert, Put
    <3> HIDE DEF p, o, d
    <3>4. OwnedMatch'
      <4> SUFFICES ASSUME NEW y \in Owned' \ known'.outside
                   PROVE  /\ y \in DOMAIN blocks' /\ y \notin known'.stale
                          /\ known'.reused \/ blocks'[y] = heap'[y]
        BY DEF OwnedMatch
      <4>1. CASE y = p
        BY <4>1, <2>1, <2>4, <3>2, <3>3
      <4>2. CASE y # p
        BY <4>2, <2>1, <2>2, <2>8, <2>9, <3>2, <3>3 DEF OwnedMatch
      <4> QED
        BY <4>1, <4>2
    <3>5. EntriesMatch'
      BY <2>1, <2>2, <2>4, <2>a, <3>2, <3>3 DEF EntriesMatch, o
    <3>6. KnownMatch'
      BY <2>1, <2>2, <2>4, <3>2, <3>3 DEF KnownMatch
    <3> QED
      BY <2>1, <2>14, <3>4, <3>5, <3>6
  <2>16. CASE ~(track /\ o \in DOMAIN blocks)
    <3>1. blocks' = blocks /\ known' = Retold(pc[t])
      BY <1>8, <2>16, Zenon DEF Retrack
    <3>2. /\ known'.outside = known.outside \union {p} /\ known'.reused = known.reused
          /\ known'.stale = known.stale \union ({o} \intersect DOMAIN blocks)
      BY <2>16, <3>1, <1>0 DEF Retold, Knowledge
    <3> HIDE DEF p, o, d
    <3>4. OwnedMatch'
      BY <2>1, <2>2, <2>8, <2>9, <3>1, <3>2 DEF OwnedMatch
    <3>5. EntriesMatch'
      BY <2>1, <2>2, <2>a, <3>1, <3>2 DEF EntriesMatch, o
    <3>6. KnownMatch'
      BY <2>1, <2>2, <2>4, <3>1, <3>2 DEF KnownMatch
    <3> QED
      BY <2>1, <2>14, <3>4, <3>5, <3>6
  <2> QED
    BY <2>15, <2>16
<1>9. CASE Enter
  <2>1. /\ mode' = mode /\ heap' = heap /\ blocks' = blocks /\ pc' = pc /\ known' = known
        /\ ~alarm
    BY <1>9 DEF Enter, alarms
  <2>2. Owned' = Owned
    BY <2>1 DEF Owned
  <2> QED
    BY <2>1, <2>2, <1>m DEF OwnedMatch, EntriesMatch, KnownMatch, HookMatch
<1>10. CASE FirstSnapshot
  <2>1. /\ mode' = mode /\ heap' = heap /\ blocks' = blocks /\ pc' = pc /\ known' = known
        /\ ~alarm
    BY <1>10 DEF FirstSnapshot, alarms
  <2>2. Owned' = Owned
    BY <2>1 DEF Owned
  <2> QED
    BY <2>1, <2>2, <1>m DEF OwnedMatch, EntriesMatch, KnownMatch, HookMatch
<1>11. CASE SecondSnapshot
  <2>1. /\ mode' = mode /\ heap' = heap /\ blocks' = blocks /\ pc' = pc /\ known' = known
        /\ ~alarm
    BY <1>11 DEF SecondSnapshot, alarms
  <2>2. Owned' = Owned
    BY <2>1 DEF Owned
  <2> QED
    BY <2>1, <2>2, <1>m DEF OwnedMatch, EntriesMatch, KnownMatch, HookMatch
<1>12. CASE Exit
  <2>1. /\ mode' = mode /\ heap' = heap /\ blocks' = blocks /\ pc' = pc /\ known' = known
        /\ ~alarm
    BY <1>12 DEF Exit, alarms
  <2>2. Owned' = Owned
    BY <2>1 DEF Owned
  <2> QED
    BY <2>1, <2>2, <1>m DEF OwnedMatch, EntriesMatch, KnownMatch, HookMatch
<1>13. CASE UNCHANGED vars
  <2>1. /\ mode' = mode /\ heap' = heap /\ blocks' = blocks /\ pc' = pc /\ known' = known
        /\ ~alarm
    BY <1>13 DEF vars, alarms
  <2>2. Owned' = Owned
    BY <2>1 DEF Owned
  <2> QED
    BY <2>1, <2>2, <1>m DEF OwnedMatch, EntriesMatch, KnownMatch, HookMatch
<1> QED
  BY <1>1, <1>2, <1>3, <1>4, <1>5, <1>6, <1>7, <1>8, <1>9, <1>10, <1>11, <1>12,
     <1>13, Turns

-----------------------------------------------------------------------------
(* The table and the alarm. *)

Settled == Types /\ Hooks /\ Alone /\ Watch /\ Matching /\ AlarmExact

(* What the threads do is decided once. *)
LEMMA ModeStays ==
    ASSUME [Next]_vars
    PROVE  mode' = mode
<1>1. ASSUME NEW t \in mode.threads, NEW a \in Addrs, NEW n \in Sizes, NEW x \in BOOLEAN,
             Malloc(t, a, n, x), x => mode.outside
      PROVE  mode' = mode
  BY <1>1 DEF Malloc
<1>2. ASSUME NEW t \in mode.threads, Track(t)
      PROVE  mode' = mode
  BY <1>2 DEF Track
<1>3. ASSUME NEW t \in mode.threads, NEW a \in Addrs, NEW x \in BOOLEAN, Release(t, a, x),
             dead' \in {dead, alarm' # alarm}
      PROVE  mode' = mode
  BY <1>3 DEF Release
<1>4. ASSUME NEW t \in mode.threads, LibcFree(t)
      PROVE  mode' = mode
  BY <1>4 DEF LibcFree
<1>5. ASSUME NEW t \in mode.threads, NEW a \in Addrs, WildFree(t, a)
      PROVE  mode' = mode
  BY <1>5 DEF WildFree
<1>6. ASSUME NEW t \in mode.threads, NEW a \in Addrs, ReallocZero(t, a)
      PROVE  mode' = mode
  BY <1>6 DEF ReallocZero
<1>7. ASSUME NEW t \in mode.threads, NEW a \in Addrs, NEW b \in Addrs, NEW n \in Sizes,
             NEW x \in BOOLEAN, Realloc(t, a, b, n, x), x => mode.outside
      PROVE  mode' = mode
  BY <1>7 DEF Realloc
<1>8. ASSUME NEW t \in mode.threads, Retrack(t)
      PROVE  mode' = mode
  BY <1>8 DEF Retrack
<1>9. CASE Enter
  BY <1>9 DEF Enter
<1>10. CASE FirstSnapshot
  BY <1>10 DEF FirstSnapshot
<1>11. CASE SecondSnapshot
  BY <1>11 DEF SecondSnapshot
<1>12. CASE Exit
  BY <1>12 DEF Exit
<1>13. CASE UNCHANGED vars
  BY <1>13 DEF vars
<1> QED
  BY <1>1, <1>2, <1>3, <1>4, <1>5, <1>6, <1>7, <1>8, <1>9, <1>10, <1>11, <1>12,
     <1>13, Turns

LEMMA SettledInit == Init /\ Alone => Settled
<1> SUFFICES ASSUME Init, Alone PROVE Settled
  OBVIOUS
<1>1. Types /\ Hooks
  BY CountingInit
<1>2. /\ heap = Empty /\ blocks = Empty /\ pc = [t \in mode.threads |-> Idle] /\ stage = "out"
      /\ known = Known /\ track = FALSE /\ alarm = FALSE /\ wild = FALSE
  BY DEF Init
<1>3. Watch
  BY <1>2 DEF Watch, Known, Idle
<1>4. Matching
  BY <1>2, BytesEmpty DEF Matching, OwnedMatch, EntriesMatch, KnownMatch, HookMatch, Known, Idle,
                          Owned
<1>5. AlarmExact
  BY <1>2 DEF AlarmExact, Known
<1> QED
  BY <1>1, <1>3, <1>4, <1>5 DEF Settled

(* Where a thread that reallocates is alone, all of this is invariant.     *)
THEOREM Agreement == Spec /\ Alone => []Settled
<1>1. Settled /\ [Next]_vars => Settled'
  BY TypesStep, HooksStep, ModeStays, WatchStep, MatchStep, AlarmStep DEF Settled, Alone
<1> QED
  BY <1>1, SettledInit, PTL DEF Spec

(* As long as no alarm has stopped the tracking, the table of blocks lists *)
(* the live blocks of the program with their sizes, and nothing else.      *)
THEOREM TableIsExact == Spec /\ Alone => []TableExact
<1>1. Settled => TableExact
  BY DEF Settled, Matching, OwnedMatch, EntriesMatch, TableExact
<1> QED
  BY <1>1, Agreement, PTL

(* "no valid memory block" is thrown if the test freed what was not        *)
(* allocated, or freed or reallocated what the tracker had been kept from  *)
(* seeing (which is no fault of the test), and else not.                   *)
THEOREM AlarmIsExact == Spec /\ Alone => []AlarmExact
<1>1. Settled => AlarmExact
  BY DEF Settled
<1> QED
  BY <1>1, Agreement, PTL
=============================================================================
