---------------------------- MODULE MappedBlocks ----------------------------
(***************************************************************************)
(* The tracker's table of memory mappings: track_mapped, remove_mapped and *)
(* retrack_mapped, with the hooks for mmap, munmap and mremap.  A mapping  *)
(* may be unmapped or moved in parts, and a range may span several         *)
(* mappings, so the table of blocks (Memory::_orderedBlocks, keyed by the  *)
(* last byte) is cut along the range, one block per turn of a loop.  The   *)
(* loop runs under the mutex; its turns are steps here so that what holds  *)
(* between them can be stated.                                             *)
(*                                                                         *)
(* The caller is never exempt code (for which remove_mapped and            *)
(* retrack_mapped return without the exception: src/src/memory.cpp:384),   *)
(* ranges are not rounded to pages, and munmap does not fail.              *)
(***************************************************************************)
EXTENDS Integers, FiniteSetsExt

CONSTANTS
    MaxAddr,    \* addresses are 0 .. MaxAddr
    MaxCalls    \* bound on the calls of mmap and mremap

ASSUME AddrAssumption == MaxAddr \in Nat /\ MaxCalls \in Nat

VARIABLES
    mapped,     \* the kernel: the bytes that are mapped
    blocks,     \* Memory::_orderedBlocks: last byte -> size
    aSize,      \* _allocateSize
    fSize,      \* _freeSize
    op,         \* "idle", or the tracker function that is running
    ptr, size,  \* its range, as far as it is still to be removed
    into,       \* where retrack_mapped puts the new block
    alarm,      \* "no valid memory block" was thrown
    calls,
    lo,         \* where the range began
    before      \* the bytes the table covered then

counters == <<aSize, fSize>>
range == <<ptr, size, into, lo, before>>
mapVars == <<mapped, blocks, counters, op, range, alarm, calls>>

Addrs == 0..MaxAddr
Bytes(p, n) == p..(p + n - 1)
Start(k) == k - blocks[k] + 1
Covered == {a \in Addrs : \E k \in DOMAIN blocks : Start(k) <= a /\ a <= k}

(* std::map::insert *)
Insert(f, k, n) == [x \in DOMAIN f \union {k} |-> IF x \in DOMAIN f THEN f[x] ELSE n]
Erase(f, k) == [x \in DOMAIN f \ {k} |-> f[x]]

NoBlock == [p |-> 0, n |-> 0]

MapInit == /\ mapped = {} /\ blocks = [k \in {} |-> 0]
        /\ aSize = 0 /\ fSize = 0 /\ alarm = FALSE /\ calls = 0
        /\ op = "idle" /\ ptr = 0 /\ size = 0 /\ into = NoBlock
        /\ lo = 0 /\ before = {}
-----------------------------------------------------------------------------
(* mmap without MAP_FIXED, then track_mapped. *)
Mmap(p, n) ==
    /\ op = "idle" /\ ~alarm /\ calls < MaxCalls
    /\ Bytes(p, n) \subseteq Addrs \ mapped
    /\ mapped' = mapped \union Bytes(p, n)
    /\ blocks' = Insert(blocks, p + n - 1, n)
    /\ aSize' = aSize + n
    /\ calls' = calls + 1
    /\ UNCHANGED <<fSize, op, range, alarm>>

Begin(p, n) == ptr' = p /\ size' = n /\ lo' = p /\ before' = Covered

(* The tracker function is left, and its locals with it. *)
Return == op' = "idle" /\ ptr' = 0 /\ size' = 0 /\ into' = NoBlock /\ lo' = 0 /\ before' = {}

(* munmap of any range: first remove_mapped, then the kernel. *)
Munmap(p, n) ==
    /\ op = "idle" /\ ~alarm /\ Bytes(p, n) \subseteq Addrs
    /\ op' = "remove" /\ Begin(p, n)
    /\ UNCHANGED <<mapped, blocks, counters, into, alarm, calls>>

(* mremap: first the kernel moves, grows or shrinks a mapped range, then   *)
(* retrack_mapped.                                                         *)
Mremap(p, n, q, k) ==
    /\ op = "idle" /\ ~alarm /\ calls < MaxCalls
    /\ Bytes(p, n) \subseteq mapped
    /\ Bytes(q, k) \subseteq (Addrs \ mapped) \union (IF q = p THEN Bytes(p, n) ELSE {})
    /\ mapped' = (mapped \ Bytes(p, n)) \union Bytes(q, k)
    /\ op' = "retrack" /\ Begin(p, n) /\ into' = [p |-> q, n |-> k]
    /\ calls' = calls + 1
    /\ UNCHANGED <<blocks, counters, alarm>>
-----------------------------------------------------------------------------
(* lower_bound(ptr): the first block that does not end before ptr. *)
After == {k \in DOMAIN blocks : k >= ptr}
Found == size > 0 /\ After # {} /\ Start(Min(After)) <= ptr

Smaller(x, y) == IF x < y THEN x ELSE y

(* Mutant: what lies behind the range is dropped. *)
Pieces_NoRest(k, off, rem) ==
    LET rest == Erase(blocks, k)
    IN  IF off > 0 THEN Insert(rest, ptr - 1, off) ELSE rest

(* Mutant: the rest keeps one byte of the range. *)
Pieces_OneMore(k, off, rem) ==
    LET rest == Erase(blocks, k)
        left == IF off > 0 THEN Insert(rest, ptr - 1, off) ELSE rest
    IN  IF rem > size THEN Insert(left, k, rem - size + 1) ELSE left

(* The table without the part of block k that is in the range: what lies   *)
(* before ptr stays, and what lies behind the range.                       *)
Pieces(k, off, rem) ==
    LET rest == Erase(blocks, k)
        left == IF off > 0 THEN Insert(rest, ptr - 1, off) ELSE rest
    IN  IF rem > size THEN Insert(left, k, rem - size) ELSE left

(* Mutant: the loop does not advance over a block it removed. *)
Cut_Stays ==
    /\ op # "idle" /\ Found
    /\ LET k == Min(After)
           off == ptr - Start(k)
           rem == blocks[k] - off
           cut == Smaller(rem, size)
       IN  /\ blocks' = Pieces(k, off, rem)
           /\ fSize' = fSize + cut
           /\ size' = size - cut
    /\ UNCHANGED <<mapped, aSize, op, ptr, into, lo, before, alarm, calls>>

(* One turn of the loop; off is 0 if the range begins with the block.  The *)
(* turn that empties the range moves ptr too, which the code leaves where  *)
(* it is and does not read again.                                          *)
Cut == /\ op # "idle" /\ Found
       /\ LET k == Min(After)
              off == ptr - Start(k)
              rem == blocks[k] - off
              cut == Smaller(rem, size)
          IN  /\ blocks' = Pieces(k, off, rem)
              /\ fSize' = fSize + cut
              /\ ptr' = ptr + cut /\ size' = size - cut
       /\ UNCHANGED <<mapped, aSize, op, into, lo, before, alarm, calls>>

(* The range has a byte no block covers: exitAll and the exception.  What  *)
(* was cut off before stays cut off.                                       *)
Fail == /\ op # "idle" /\ ~Found /\ size > 0
        /\ alarm' = TRUE /\ Return
        /\ UNCHANGED <<mapped, blocks, counters, calls>>

(* remove_mapped returns and the kernel unmaps the range. *)
Removed == /\ op = "remove" /\ ~Found /\ size = 0
           /\ mapped' = mapped \ (lo..(ptr - 1))
           /\ Return
           /\ UNCHANGED <<blocks, counters, alarm, calls>>

(* retrack_mapped enters the new block. *)
Retracked == /\ op = "retrack" /\ ~Found /\ size = 0
             /\ blocks' = Insert(blocks, into.p + into.n - 1, into.n)
             /\ aSize' = aSize + into.n
             /\ Return
             /\ UNCHANGED <<mapped, fSize, alarm, calls>>

Finished == op = "idle" /\ alarm /\ UNCHANGED mapVars

Loop == Cut \/ Fail \/ Removed \/ Retracked
MapNext == \/ Loop \/ Finished
        \/ \E p \in Addrs : \E n \in 1..(MaxAddr + 1 - p) :
              \/ Mmap(p, n) \/ Munmap(p, n)
              \/ \E q \in Addrs : \E k \in 1..(MaxAddr + 1 - q) : Mremap(p, n, q, k)

MapSpec == MapInit /\ [][MapNext]_mapVars
-----------------------------------------------------------------------------
MapTypeOK ==
    /\ mapped \subseteq Addrs
    /\ DOMAIN blocks \subseteq Addrs
    /\ \A k \in DOMAIN blocks : blocks[k] \in 1..(k + 1)
    /\ aSize \in Nat /\ fSize \in Nat /\ calls \in 0..MaxCalls
    /\ op \in {"idle", "remove", "retrack"} /\ alarm \in BOOLEAN
    /\ ptr \in 0..(MaxAddr + 1) /\ size \in 0..(MaxAddr + 1)
    /\ into \in [p : Addrs, n : 0..(MaxAddr + 1)]
    /\ lo \in Addrs /\ before \subseteq Addrs

Disjoint == \A j, k \in DOMAIN blocks : j < k => j < Start(k)
Conserved == aSize - fSize = Cardinality(Covered)
Mirror == op = "idle" /\ ~alarm => Covered = mapped

(* The table is always a set of non-empty blocks of which no two share a   *)
(* byte, although ranges are cut out of it and entered across blocks; it   *)
(* covers what was allocated and not freed, and between two calls exactly  *)
(* the mapped bytes.                                                       *)
MappingsExact == MapTypeOK /\ Disjoint /\ Conserved /\ Mirror

(* Between two turns exactly the bytes from lo to ptr are gone, all of     *)
(* them bytes the table had; so the function removes the range it was      *)
(* given, no more and no less.                                             *)
CutExact ==
    op # "idle" => /\ lo..(ptr - 1) \subseteq before
                   /\ Covered = before \ (lo..(ptr - 1))

(* The exception is thrown exactly when a byte of the range is in no block. *)
AlarmExact ==
    [][op # "idle" /\ op' = "idle"
          => (alarm' <=> ~(lo..(ptr + size - 1) \subseteq before))]_mapVars
=============================================================================
