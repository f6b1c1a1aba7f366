----------------------------- MODULE HeapTracker -----------------------------
(***************************************************************************)
(* The memory tracker: the malloc family of memory_hooks.cpp, the block    *)
(* table and counters of Memory (track, retrack, remove), and the          *)
(* resource snapshots that the leak check and the memory limits read.      *)
(*                                                                         *)
(* A hook calls libc and the tracker one after the other and holds no lock *)
(* across the two, so other threads run in between; the tracker itself     *)
(* works under a mutex.  The test's threads use their memory correctly,    *)
(* except for WildFree.  In the mode "outside" the process also allocates  *)
(* and frees while no test runs (globals, and what a test in process       *)
(* keeps), and the runtime library does so at the places the tracker       *)
(* exempts.                                                                *)
(***************************************************************************)
EXTENDS Integers, FiniteSetsExt

CONSTANTS
    Addrs,      \* the addresses malloc may return
    Sizes,      \* the sizes asked for
    Modes,      \* threads: those that allocate; realloc: those that realloc;
                \* outside: the process and its runtime library also allocate
    MaxCalls,   \* bound on the calls of malloc and realloc
    MaxTests,   \* bound on the tests run one after the other in process
    Word        \* the range of size_t

ASSUME HeapAssumption ==
    /\ Sizes \subseteq Nat /\ MaxCalls \in Nat /\ MaxTests \in Nat
    /\ Word \in Nat \ {0}
    \* A size_t counts whatever the calls ask for together.
    /\ \E m \in 1..Word : MaxCalls * m < Word /\ \A n \in Sizes : n <= m
    /\ \A m \in Modes : /\ m.realloc \subseteq m.threads
                        /\ m.outside \in BOOLEAN

VARIABLES
    mode,       \* what the threads do
    heap,       \* libc: the size of each live block
    blocks,     \* Memory::_blocks
    pc,         \* what each thread is about to do inside a hook
    track,      \* Memory::_track
    count,      \* Memory's counters
    snap,       \* Test::_usedResources
    stage,      \* the test: "out", "init", "body" or "measured"
    alarm,      \* "no valid memory block" was thrown
    dead,       \* and could not leave operator delete: the process aborts
    wild,       \* the test freed something that was not allocated
    known,      \* what the tracker was not told, see Known
    calls, tests,
    start,      \* tracked bytes at the first snapshot
    peak        \* the most bytes tracked since then (and at that moment),
                \* the most blocks ever

bounds == <<calls, tests>>
alarms == <<alarm, dead, wild>>
vars == <<mode, heap, blocks, pc, track, count, snap, stage, alarms, known, bounds,
          start, peak>>

(* Why the table may differ from the heap.  outside: live blocks allocated *)
(* while tracking was off, or by exempt code.  stale: entries whose block  *)
(* was freed without the tracker.  reused: such an address has been handed *)
(* out again.  foreign: a test freed or reallocated a block from outside.  *)
Known == [outside |-> {}, stale |-> {}, reused |-> FALSE, foreign |-> FALSE]

Idle == [op |-> "idle"]
Empty == [a \in {} |-> 0]
Put(f, a, n) == [x \in DOMAIN f \union {a} |-> IF x = a THEN n ELSE f[x]]
Drop(f, a) == [x \in DOMAIN f \ {a} |-> f[x]]
Bytes(f) == MapThenSumSet(LAMBDA a : f[a], DOMAIN f)
Larger(x, y) == IF x > y THEN x ELSE y
Minus(x, y) == (x - y) % Word       \* the difference of two size_t

(* unordered_map::insert does nothing if the key is there. *)
Insert(f, a, n) == IF a \in DOMAIN f THEN f ELSE Put(f, a, n)

Zero == [aSize |-> 0, fSize |-> 0, aCount |-> 0, fCount |-> 0, maxSize |-> 0,
         maxCount |-> 0]

Init == /\ mode \in Modes
        /\ heap = Empty /\ blocks = Empty
        /\ pc = [t \in mode.threads |-> Idle]
        /\ track = FALSE /\ count = Zero /\ snap = Zero /\ stage = "out"
        /\ alarm = FALSE /\ dead = FALSE /\ wild = FALSE
        /\ known = Known /\ calls = 0 /\ tests = 0
        /\ start = 0 /\ peak = [bytes |-> 0, blocks |-> 0]

(* The blocks in the hands of the program: not inside a hook. *)
Owned == {a \in DOMAIN heap :
            \A t \in mode.threads : pc[t] # Idle => pc[t].p # a}

Goto(t, step) == pc' = [pc EXCEPT ![t] = step]

(* Is the caller one of the places in the C library and in libgomp whose   *)
(* allocations (or deallocations) are not tracked?                         *)
Exempt == IF mode.outside THEN BOOLEAN ELSE {FALSE}

MayCall(t) == pc[t] = Idle /\ (stage # "out" \/ mode.outside) /\ ~dead
-----------------------------------------------------------------------------
(* malloc, calloc, memalign, posix_memalign, valloc, pvalloc, aligned_alloc, *)
(* realloc(NULL) and every operator new: first libc, then Memory::track.   *)
Malloc(t, a, n, exempt) ==
    /\ MayCall(t) /\ calls < MaxCalls
    /\ a \notin DOMAIN heap
    /\ heap' = Put(heap, a, n)
    /\ Goto(t, [op |-> "track", p |-> a, n |-> n, exempt |-> exempt])
    /\ calls' = calls + 1
    /\ UNCHANGED <<mode, blocks, track, count, snap, stage, alarms, known, tests,
                   start, peak>>

(* The counters after an allocation; the maxima are taken over them. *)
Counted(c) == [c EXCEPT !.maxSize = Larger(@, Minus(c.aSize, c.fSize)),
                        !.maxCount = Larger(@, Minus(c.aCount, c.fCount))]

Measure(b) == peak' = [bytes |-> Larger(peak.bytes, Bytes(b)),
                       blocks |-> Larger(peak.blocks, Cardinality(DOMAIN b))]

(* Mutant: the count is forgotten. *)
Track_NoCount(t) ==
    /\ pc[t].op = "track"
    /\ IF track /\ ~pc[t].exempt
       THEN /\ blocks' = Insert(blocks, pc[t].p, pc[t].n)
            /\ count' = Counted([count EXCEPT !.aSize = @ + pc[t].n])
            /\ Measure(blocks')
       ELSE UNCHANGED <<blocks, count, peak>>
    /\ known' = IF ~track \/ pc[t].exempt THEN [known EXCEPT !.outside = @ \union {pc[t].p}]
                ELSE IF pc[t].p \in DOMAIN blocks
                THEN [known EXCEPT !.reused = TRUE, !.stale = @ \ {pc[t].p}]
                ELSE known
    /\ Goto(t, Idle)
    /\ UNCHANGED <<mode, heap, track, snap, stage, alarms, bounds, start>>

(* Memory::track *)
Track(t) ==
    /\ pc[t].op = "track"
    /\ IF track /\ ~pc[t].exempt
       THEN /\ blocks' = Insert(blocks, pc[t].p, pc[t].n)
            /\ count' = Counted([count EXCEPT !.aSize = @ + pc[t].n, !.aCount = @ + 1])
            /\ Measure(blocks')
       ELSE UNCHANGED <<blocks, count, peak>>
    /\ known' = IF ~track \/ pc[t].exempt THEN [known EXCEPT !.outside = @ \union {pc[t].p}]
                ELSE IF pc[t].p \in DOMAIN blocks
                THEN [known EXCEPT !.reused = TRUE, !.stale = @ \ {pc[t].p}]
                ELSE known
    /\ Goto(t, Idle)
    /\ UNCHANGED <<mode, heap, track, snap, stage, alarms, bounds, start>>

(* sandbox().exitAll() and the SandboxFatalException. *)
Alarm == alarm' = TRUE /\ track' = FALSE

(* Mutant: the block stays in the table. *)
RemoveBlock_Keeps(a) ==
    /\ UNCHANGED blocks
    /\ count' = [count EXCEPT !.fSize = @ + blocks[a], !.fCount = @ + 1]

RemoveBlock(a) ==
    /\ blocks' = Drop(blocks, a)
    /\ count' = [count EXCEPT !.fSize = @ + blocks[a], !.fCount = @ + 1]

(* Memory::remove, which forgives exempt code a block it does not know. *)
Remove(a, exempt) ==
    IF ~track \/ (exempt /\ a \notin DOMAIN blocks) THEN UNCHANGED <<blocks, count, track, alarm>>
    ELSE IF a \in DOMAIN blocks THEN RemoveBlock(a) /\ UNCHANGED <<track, alarm>>
    ELSE Alarm /\ UNCHANGED <<blocks, count>>

(* free: first Memory::remove, then libc, unless remove throws. *)
Release(t, a, exempt) ==
    /\ MayCall(t) /\ a \in Owned
    /\ Remove(a, exempt)
    /\ known' = [known EXCEPT !.foreign = @ \/ (track /\ ~exempt /\ a \in known.outside \ known.stale),
                              !.stale = IF track THEN @ \ {a} ELSE @]
    /\ Goto(t, IF alarm' # alarm THEN Idle ELSE [op |-> "free", p |-> a, told |-> track])
    /\ UNCHANGED <<mode, heap, snap, stage, wild, bounds, start, peak>>

Free(t, a, exempt) == Release(t, a, exempt) /\ UNCHANGED dead

(* Every operator delete is free behind a noexcept, which lets no          *)
(* exception out.                                                          *)
Delete(t, a) == Release(t, a, FALSE) /\ dead' = (alarm' # alarm)

LibcFree(t) ==
    /\ pc[t].op = "free"
    /\ heap' = Drop(heap, pc[t].p)
    /\ known' = [known EXCEPT !.outside = @ \ {pc[t].p},
                              !.stale = IF pc[t].p \in DOMAIN blocks /\ ~pc[t].told
                                        THEN @ \union {pc[t].p} ELSE @]
    /\ Goto(t, Idle)
    /\ UNCHANGED <<mode, blocks, track, count, snap, stage, alarms, bounds, start,
                   peak>>

(* The test frees an address that holds no block.  (One that died without  *)
(* the tracker is found in the table, and left to libc's own check.)       *)
WildFree(t, a) ==
    /\ MayCall(t) /\ track /\ a \notin DOMAIN heap \union known.stale
    /\ Remove(a, FALSE) /\ wild' = TRUE /\ dead' \in {FALSE, alarm' # alarm}
    /\ UNCHANGED <<mode, heap, pc, snap, stage, known, bounds, start, peak>>

(* realloc(a, 0): libc frees and returns NULL, and nobody is told.         *)
ReallocZero(t, a) ==
    /\ t \in mode.realloc /\ MayCall(t) /\ calls < MaxCalls /\ a \in Owned
    /\ heap' = Drop(heap, a)
    /\ known' = [known EXCEPT !.outside = @ \ {a},
                              !.stale = IF a \in DOMAIN blocks THEN @ \union {a} ELSE @]
    /\ calls' = calls + 1
    /\ UNCHANGED <<mode, blocks, pc, track, count, snap, stage, alarms, tests, start,
                   peak>>

(* realloc, reallocarray: libc first, and from here on the old address may *)
(* be given to another thread.  alien: the block is one the table does not *)
(* have, because it is from outside.                                       *)
Realloc(t, a, b, n, exempt) ==
    /\ t \in mode.realloc /\ MayCall(t) /\ calls < MaxCalls
    /\ a \in Owned /\ (b = a \/ b \notin DOMAIN heap)
    /\ heap' = Put(Drop(heap, a), b, n)
    /\ Goto(t, [op |-> "retrack", old |-> a, p |-> b, n |-> n, exempt |-> exempt,
                alien |-> a \in known.outside \ known.stale])
    /\ known' = [known EXCEPT !.outside = @ \ {a}]
    /\ calls' = calls + 1
    /\ UNCHANGED <<mode, blocks, track, count, snap, stage, alarms, tests, start, peak>>

RetrackBlock(old, new, n) ==
    /\ blocks' = Insert(Drop(blocks, old), new, n)
    /\ count' = Counted([count EXCEPT !.aSize = Minus(@ + n, blocks[old])])

(* What a retrack leaves of what the table does not know.  The block is    *)
(* one from outside if it is not entered; its old entry, if there is one   *)
(* and tracking is off, has lost its block; and the new address may have   *)
(* an entry already, whose block died without the tracker.                 *)
Retold(c) ==
    IF track /\ c.old \in DOMAIN blocks
    THEN [known EXCEPT !.reused = @ \/ (c.p # c.old /\ c.p \in DOMAIN blocks),
                       !.stale = @ \ {c.old, c.p}]
    ELSE [known EXCEPT !.outside = @ \union {c.p},
                       !.stale = @ \union ({c.old} \intersect DOMAIN blocks),
                       !.foreign = @ \/ (track /\ ~c.exempt /\ c.alien)]

(* Memory::retrack, which forgives exempt code a block it does not know.   *)
(* reallocarray lets no exception out.                                     *)
Retrack(t) ==
    /\ pc[t].op = "retrack"
    /\ IF track /\ pc[t].old \in DOMAIN blocks
       THEN /\ RetrackBlock(pc[t].old, pc[t].p, pc[t].n)
            /\ Measure(blocks')
            /\ UNCHANGED <<track, alarm>>
       ELSE /\ IF track /\ ~pc[t].exempt THEN Alarm ELSE UNCHANGED <<track, alarm>>
            /\ UNCHANGED <<blocks, count, peak>>
    /\ dead' \in {dead, dead \/ alarm' # alarm}
    /\ known' = Retold(pc[t])
    /\ Goto(t, Idle)
    /\ UNCHANGED <<mode, heap, snap, stage, wild, bounds, start>>
-----------------------------------------------------------------------------
(* The test's own thread. *)

(* Sandbox::enter; a new test has a new ResourceSnapshot. *)
Enter == /\ stage = "out" /\ tests < MaxTests /\ ~alarm
         /\ \A t \in mode.threads : pc[t] = Idle
         /\ stage' = "init" /\ track' = TRUE /\ snap' = Zero
         /\ tests' = tests + 1
         /\ UNCHANGED <<mode, heap, blocks, pc, count, alarms, known, calls, start, peak>>

(* Mutant: the first call stores nothing. *)
FirstSnapshot_NoBase ==
    /\ stage = "init" /\ stage' = "body"
    /\ count' = [count EXCEPT !.maxSize = 0] /\ UNCHANGED snap
    /\ start' = Bytes(blocks) /\ peak' = [peak EXCEPT !.bytes = Bytes(blocks)]
    /\ UNCHANGED <<mode, heap, blocks, pc, track, alarms, known, bounds>>

(* resourceSnapshot: the first call resets the size maximum, not that of   *)
(* the blocks.                                                             *)
FirstSnapshot ==
    /\ stage = "init" /\ stage' = "body"
    /\ count' = [count EXCEPT !.maxSize = 0] /\ snap' = count'
    /\ start' = Bytes(blocks) /\ peak' = [peak EXCEPT !.bytes = Bytes(blocks)]
    /\ UNCHANGED <<mode, heap, blocks, pc, track, alarms, known, bounds>>

(* The second call leaves the differences in the snapshot. *)
SecondSnapshot ==
    /\ stage = "body" /\ stage' = "measured"
    /\ snap' = [aSize |-> Minus(count.aSize, snap.aSize),
                fSize |-> Minus(count.fSize, snap.fSize),
                aCount |-> Minus(count.aCount, snap.aCount),
                fCount |-> Minus(count.fCount, snap.fCount),
                maxSize |-> count.maxSize, maxCount |-> count.maxCount]
    /\ start' = Bytes(blocks) - start
    /\ UNCHANGED <<mode, heap, blocks, pc, track, count, alarms, known, bounds, peak>>

(* Sandbox::exit; the test has joined its threads. *)
Exit == /\ stage = "measured" /\ ~dead /\ \A t \in mode.threads : pc[t] = Idle
        /\ stage' = "out" /\ track' = FALSE
        /\ UNCHANGED <<mode, heap, blocks, pc, count, snap, alarms, known, bounds, start,
                       peak>>

Done == (stage = "out" \/ dead) /\ UNCHANGED vars

HookStep(t) ==
    \/ \E a \in Addrs : \/ \E n \in Sizes, x \in Exempt : Malloc(t, a, n, x)
                        \/ \E x \in Exempt : Free(t, a, x)
                        \/ Delete(t, a)
                        \/ WildFree(t, a) \/ ReallocZero(t, a)
                        \/ \E b \in Addrs, n \in Sizes, x \in Exempt : Realloc(t, a, b, n, x)
    \/ Track(t) \/ LibcFree(t) \/ Retrack(t)
Next == \/ \E t \in mode.threads : HookStep(t)
        \/ Enter \/ FirstSnapshot \/ SecondSnapshot \/ Exit \/ Done

Spec == Init /\ [][Next]_vars
-----------------------------------------------------------------------------
Counters == [aSize : Nat, fSize : Nat, aCount : Nat, fCount : Nat, maxSize : Nat,
             maxCount : Nat]

TypeOK ==
    /\ mode \in Modes
    /\ DOMAIN heap \subseteq Addrs /\ \A a \in DOMAIN heap : heap[a] \in Sizes
    /\ DOMAIN blocks \subseteq Addrs /\ \A a \in DOMAIN blocks : blocks[a] \in Sizes
    /\ \A t \in mode.threads : pc[t].op \in {"idle", "track", "retrack", "free"}
    /\ {track, alarm, dead, wild, known.reused, known.foreign} \subseteq BOOLEAN
    /\ count \in Counters /\ snap \in Counters
    /\ stage \in {"out", "init", "body", "measured"}

(* The table mirrors the heap: every block in the hands of the program is  *)
(* in it with its size, unless it was allocated while tracking was off or  *)
(* by exempt code; an entry whose block is not live is one a hook is busy  *)
(* with, or one that died while tracking was off or in realloc(p, 0).      *)
TableExact ==
    ~alarm =>
        /\ \A a \in Owned \ known.outside :
              a \in DOMAIN blocks /\ (known.reused \/ blocks[a] = heap[a])
        /\ \A a \in DOMAIN blocks : \/ a \in DOMAIN heap \union known.stale
                                   \/ \E t \in mode.threads :
                                         pc[t].op = "retrack" /\ pc[t].old = a

(* Whatever the order of the hooks, the counters add up to the table, and  *)
(* the maxima the second snapshot reads are those of the tracked blocks in *)
(* the whole life of the process, and of the tracked bytes since the first *)
(* snapshot, with one exception: what was tracked at that moment does not  *)
(* count (src/include/dtest_core/memory.h:88 resets to 0), so that the     *)
(* report is too low if no allocation reaches that level again.  Only an   *)
(* address that comes back while its old entry is still in the table       *)
(* upsets them: insert does nothing and the counters go on.                *)
AccountingExact ==
    /\ TypeOK
    /\ ~known.reused =>
        /\ count.aSize - count.fSize = Bytes(blocks)
        /\ count.aCount - count.fCount = Cardinality(DOMAIN blocks)
        /\ count.maxCount = peak.blocks
        /\ stage = "body" => peak.bytes = Larger(start, count.maxSize)

(* _checkMemoryLeak *)
Leak == snap.aSize > snap.fSize

(* A leak is reported exactly if the tracked bytes have grown between the  *)
(* two snapshots (README: PASS_WITH_MEMORY_LEAK, "has a memory leak"); in  *)
(* a test with realloc the difference is right modulo the width of size_t  *)
(* only: one that shrinks an older block is said to leak.                  *)
LeakExact ==
    stage = "measured" /\ ~known.reused =>
        /\ mode.realloc = {} => (Leak <=> start > 0)
        /\ Minus(snap.aSize, snap.fSize) = start % Word

(* A test is stopped with "no valid memory block" if it freed one that was *)
(* not valid, or if code that is not exempt freed or reallocated one from  *)
(* before tracking began or of exempt code (which is valid, but the table  *)
(* does not have it: src/src/memory.cpp:166 and 296), and for no other     *)
(* reason.                                                                 *)
AlarmExact == alarm <=> wild \/ known.foreign

(* memory.cpp throws "no valid memory block at ..." only if there is none: *)
(* a test that frees nothing but its own blocks is not stopped.            *)
NoFalseAlarm == alarm => wild \/ known.foreign
=============================================================================
