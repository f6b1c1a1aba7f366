------------------------------ MODULE Network ------------------------------
(***************************************************************************)
(* The network hooks (send, sendto, recv, recvfrom), the traffic counters  *)
(* they keep, and the faulty network, which swallows datagrams in "holes". *)
(*                                                                         *)
(* A hook asks canSend, calls libc and then counts, and holds no lock      *)
(* across the three.  Threads of a body, and threads it has left behind,   *)
(* use the network; the body's own thread also calls the framework, whose  *)
(* messages go through the same hooks.                                     *)
(***************************************************************************)
EXTENDS Integers, Sequences

CONSTANTS
    Threads,
    Main,       \* the thread that runs the test
    Size,       \* the size of what is sent and received
    Faulty,     \* the tests run one after the other: .faultyNetwork or not
    Chance,     \* _chance is more than 0
    Hole,       \* _holeDuration, in ticks of the clock
    Word        \* the range of size_t

ASSUME NetworkAssumption ==
    /\ Main \in Threads /\ Size \in Nat /\ Hole \in Nat /\ Word \in Nat \ {0}
    /\ Chance \in BOOLEAN /\ Faulty \in Seq(BOOLEAN)

Tests == DOMAIN Faulty

VARIABLES
    test, stage,    \* the test, and how far Sandbox::run has got with it
    track,          \* Network::_track
    locked,         \* Network::_locked of each thread
    depth,          \* how deep each thread is in calls of the framework
    probabilistic,  \* Network::_probabilistic
    hole,           \* ticks until _holeEndTime of each thread has passed
    pc,             \* where each thread is in a hook
    count,          \* _sendSize, _sendCount, _recvSize, _recvCount
    snap,           \* Test::_usedResources.network
    own             \* the traffic of the body between the snapshots

settings == <<test, stage, track, probabilistic>>
vars == <<settings, locked, depth, hole, pc, count, snap, own>>

Idle == [at |-> "idle"]
Zero == [sSize |-> 0, sCount |-> 0, rSize |-> 0, rCount |-> 0]
Plus(x, n) == (x + n) % Word

Minus(x, y) == (x - y) % Word

Difference(c, d) == [f \in DOMAIN c |-> Minus(c[f], d[f])]
Sent(c, n) == [c EXCEPT !.sSize = Plus(@, n), !.sCount = Plus(@, 1)]
Received(c, n) == [c EXCEPT !.rSize = Plus(@, n), !.rCount = Plus(@, 1)]

Init == /\ test = 0 /\ stage = "out" /\ track = FALSE /\ probabilistic = FALSE
        /\ locked = [t \in Threads |-> 0] /\ depth = [t \in Threads |-> 0]
        /\ hole = [t \in Threads |-> 0] /\ pc = [t \in Threads |-> Idle]
        /\ count = Zero /\ snap = Zero /\ own = Zero
-----------------------------------------------------------------------------
(* The thread that runs the test. *)

Quiet == pc[Main] = Idle /\ depth[Main] = 0

(* Sandbox::enter: trackActivity(true); the thread is a new one. *)
Enter == /\ stage = "out" /\ test + 1 \in Tests
         /\ test' = test + 1 /\ stage' = "entered" /\ track' = TRUE
         /\ hole' = [hole EXCEPT ![Main] = 0]
         /\ snap' = Zero
         /\ UNCHANGED <<probabilistic, locked, depth, pc, count, own>>

(* Mutant: the faulty network of the last test stays on. *)
Configure_KeepsFault ==
    /\ stage = "entered" /\ stage' = "configured"
    /\ probabilistic' = (probabilistic \/ Faulty[test])
    /\ UNCHANGED <<test, track, locked, depth, hole, pc, count, snap, own>>

(* UnitTest::_configure and DistributedUnitTest::_configure *)
Configure == /\ stage = "entered" /\ stage' = "configured"
             /\ probabilistic' = Faulty[test]
             /\ UNCHANGED <<test, track, locked, depth, hole, pc, count, snap, own>>

(* resourceSnapshot: the differences to what the snapshot holds. *)
FirstSnapshot == /\ stage = "configured" /\ stage' = "body"
                 /\ snap' = Difference(count, snap) /\ own' = Zero
                 /\ UNCHANGED <<test, track, probabilistic, locked, depth, hole, pc, count>>

SecondSnapshot == /\ stage = "body" /\ Quiet /\ stage' = "measured"
                  /\ snap' = Difference(count, snap)
                  /\ UNCHANGED <<test, track, probabilistic, locked, depth, hole, pc,
                                 count, own>>

(* Sandbox::exit *)
Exit == /\ stage = "measured"
        /\ stage' = "out" /\ track' = FALSE
        /\ UNCHANGED <<test, probabilistic, locked, depth, hole, pc, count, snap, own>>

(* An exception leaves the body: exitAll. *)
Throw == /\ stage = "body" /\ Quiet
         /\ stage' = "out" /\ track' = FALSE
         /\ UNCHANGED <<test, probabilistic, locked, depth, hole, pc, count, snap, own>>

(* A call of the framework, and inside it the operations of Message. *)
Lock == /\ stage = "body" /\ pc[Main] = Idle /\ depth[Main] < 2
        /\ depth' = [depth EXCEPT ![Main] = @ + 1]
        /\ locked' = [locked EXCEPT ![Main] = @ + 1]
        /\ UNCHANGED <<settings, hole, pc, count, snap, own>>

(* Mutant: the lock is a flag. *)
Unlock_Flag == /\ pc[Main] = Idle /\ depth[Main] > 0
               /\ depth' = [depth EXCEPT ![Main] = @ - 1]
               /\ locked' = [locked EXCEPT ![Main] = 0]
               /\ UNCHANGED <<settings, hole, pc, count, snap, own>>

Unlock == /\ pc[Main] = Idle /\ depth[Main] > 0
          /\ depth' = [depth EXCEPT ![Main] = @ - 1]
          /\ locked' = [locked EXCEPT ![Main] = @ - 1]
          /\ UNCHANGED <<settings, hole, pc, count, snap, own>>
-----------------------------------------------------------------------------
(* The hooks. *)

(* A body's own thread is alive in its body; others may outlive it. *)
MayCall(t) == pc[t] = Idle /\ test > 0 /\ (t = Main => stage = "body")

(* Network::_enter *)
Tracks(t) == track /\ locked[t] = 0

(* The framework sends over streams, a body over anything; its thread and  *)
(* another one suffice to mix the two.                                     *)
Kinds(t) == IF depth[t] > 0 THEN {"stream"} ELSE {"stream", "datagram"}

Send(t, kind, go) == pc' = [pc EXCEPT ![t] = [at |-> "send", kind |-> kind, go |-> go]]

(* canSend lets the call through without a look at the holes. *)
Unaffected(t, kind) == kind = "stream" \/ ~probabilistic \/ ~Tracks(t)

CanSend(t, kind) ==
    /\ MayCall(t) /\ kind \in Kinds(t) /\ Unaffected(t, kind)
    /\ Send(t, kind, TRUE)
    /\ UNCHANGED <<settings, locked, depth, hole, count, snap, own>>

(* frand() < _chance *)
Through(t) ==
    /\ MayCall(t) /\ ~Unaffected(t, "datagram") /\ "datagram" \in Kinds(t)
    /\ hole[t] = 0 /\ Chance
    /\ Send(t, "datagram", TRUE)
    /\ UNCHANGED <<settings, locked, depth, hole, count, snap, own>>

(* frand() may be exactly 1, so this happens for every chance; the clock   *)
(* must pass the end of the new hole, which may be its beginning.          *)
OpenHole(t) ==
    /\ MayCall(t) /\ ~Unaffected(t, "datagram") /\ "datagram" \in Kinds(t)
    /\ hole[t] = 0
    /\ \E d \in 0..Hole : hole' = [hole EXCEPT ![t] = d + 1]
    /\ Send(t, "datagram", FALSE)
    /\ UNCHANGED <<settings, locked, depth, count, snap, own>>

(* Mutant: a send in a hole makes the hole longer. *)
InHole_Extends(t) ==
    /\ MayCall(t) /\ ~Unaffected(t, "datagram") /\ "datagram" \in Kinds(t)
    /\ hole[t] > 0
    /\ hole' = [hole EXCEPT ![t] = Hole + 1]
    /\ Send(t, "datagram", FALSE)
    /\ UNCHANGED <<settings, locked, depth, count, snap, own>>

InHole(t) ==
    /\ MayCall(t) /\ ~Unaffected(t, "datagram") /\ "datagram" \in Kinds(t)
    /\ hole[t] > 0
    /\ Send(t, "datagram", FALSE)
    /\ UNCHANGED <<settings, locked, depth, hole, count, snap, own>>

Tick == /\ \E t \in Threads : hole[t] > 0
        /\ hole' = [t \in Threads |-> IF hole[t] > 0 THEN hole[t] - 1 ELSE 0]
        /\ UNCHANGED <<settings, locked, depth, pc, count, snap, own>>

Result(t, dir, n) == pc' = [pc EXCEPT ![t] = [at |-> dir, n |-> n]]

(* libc's send or sendto, which may fail (-1, counted as 0), or nothing:   *)
(* a swallowed datagram counts as sent.                                    *)
Carry(t) == /\ pc[t].at = "send"
            /\ \E n \in IF pc[t].go THEN {Size, 0} ELSE {Size} : Result(t, "sent", n)
            /\ UNCHANGED <<settings, locked, depth, hole, count, snap, own>>

(* libc's recv or recvfrom, an end of file or failure included. *)
Receive(t) == /\ MayCall(t)
              /\ \E n \in {Size, 0} : Result(t, "received", n)
              /\ UNCHANGED <<settings, locked, depth, hole, count, snap, own>>

(* Is the call traffic of the test's body, between the snapshots? *)
Own(t) == stage = "body" /\ depth[t] = 0

(* The call is over and counted, if tracking is still (or again) on. *)
TrackSend(t) ==
    /\ pc[t].at = "sent"
    /\ count' = IF Tracks(t) THEN Sent(count, pc[t].n) ELSE count
    /\ own' = IF Own(t) THEN Sent(own, pc[t].n) ELSE own
    /\ pc' = [pc EXCEPT ![t] = Idle]
    /\ UNCHANGED <<settings, locked, depth, hole, snap>>

TrackRecv(t) ==
    /\ pc[t].at = "received"
    /\ count' = IF Tracks(t) THEN Received(count, pc[t].n) ELSE count
    /\ own' = IF Own(t) THEN Received(own, pc[t].n) ELSE own
    /\ pc' = [pc EXCEPT ![t] = Idle]
    /\ UNCHANGED <<settings, locked, depth, hole, snap>>
-----------------------------------------------------------------------------
Hook(t) == \/ \E kind \in {"stream", "datagram"} : CanSend(t, kind)
           \/ Through(t) \/ OpenHole(t) \/ InHole(t) \/ Carry(t) \/ Receive(t)
           \/ TrackSend(t) \/ TrackRecv(t)
Next == \/ Enter \/ Configure \/ FirstSnapshot \/ SecondSnapshot \/ Exit \/ Throw
        \/ Lock \/ Unlock \/ Tick
        \/ \E t \in Threads : Hook(t)

(* A call of libc returns, the clock advances, and a chance that comes     *)
(* again and again is taken.                                               *)
Spec == /\ Init /\ [][Next]_vars
        /\ WF_vars(Tick)
        /\ \A t \in Threads : /\ WF_vars(Carry(t) \/ TrackSend(t) \/ TrackRecv(t))
                              /\ SF_vars(Through(t))
-----------------------------------------------------------------------------
Counters == [sSize : 0..(Word - 1), sCount : 0..(Word - 1), rSize : 0..(Word - 1),
             rCount : 0..(Word - 1)]

TypeOK ==
    /\ test \in Tests \union {0}
    /\ stage \in {"out", "entered", "configured", "body", "measured"}
    /\ track \in BOOLEAN /\ probabilistic \in BOOLEAN
    /\ locked \in [Threads -> 0..2] /\ depth \in [Threads -> 0..2]
    /\ hole \in [Threads -> 0..(Hole + 1)]
    /\ \A t \in Threads : pc[t].at \in {"idle", "send", "sent", "received"}
    /\ count \in Counters /\ snap \in Counters /\ own \in Counters

(* The network report of a test is the traffic of its body between the     *)
(* snapshots, swallowed datagrams and failed calls included: nothing of    *)
(* the framework's own messages, of an earlier test, or of a thread that   *)
(* calls after the end.  (And no lock is given back twice.)                *)
TrafficExact == TypeOK /\ (stage = "measured" => snap = own)

(* Only a test's own datagrams are swallowed, and only while a test is     *)
(* tracked whose configuration asked for it (for a thread left behind: the *)
(* last test that was configured).  The framework's messages never are.    *)
Dropped(t) == pc[t].at = "send" /\ ~pc[t].go
LossIsAskedFor ==
    [][\A t \in Threads : Dropped(t)' /\ ~Dropped(t) =>
          /\ pc'[t].kind = "datagram" /\ depth[t] = 0 /\ stage # "out"
          /\ Faulty[IF stage = "entered" THEN test - 1 ELSE test]]_vars

(* Holes end: a thread that goes on sending datagrams in a faulty network  *)
(* gets one through again and again, if the chance is not 0.               *)
EventuallyThrough ==
    Chance => \A t \in Threads :
        []<>Dropped(t) => []<>(pc[t].at = "send" /\ pc[t].go)
=============================================================================
