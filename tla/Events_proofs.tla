--------------------------- MODULE Events_proofs ---------------------------
(***************************************************************************)
(* Proofs about Events, for any workers, any bodies and any series of      *)
(* tests: no notification is lost or invented, the driver's messages come  *)
(* in order, and dtest_wait() is a barrier, as long as the tests before    *)
(* used up their events.                                                   *)
(*                                                                         *)
(* The argument counts.  What a body has sent so far is the number of      *)
(* its operations of that kind behind it (Upto); each such notification    *)
(* or message is on its way, counted, or used up.  Where the two bodies of *)
(* a round take what they are sent (Consumed), the counts leave nothing    *)
(* over at the end, and so the next round starts with empty queues.        *)
(***************************************************************************)
EXTENDS Events, FiniteSetTheorems, SequenceTheorems, TLAPS

(* The operations of a kind before the n-th, and how many they are. *)
Upto(s, n, op) == {i \in 1..(n - 1) : s[i].op = op}
All(s, op) == {i \in DOMAIN s : s[i].op = op}

(* Nothing is left of an earlier test; this test leaves nothing either. *)
Untouched == round = 1 \/ Clean
Tidy == Clean /\ Consumed(round)

(* Only allocated workers run a body, and a wait() is at a wait operation. *)
Places ==
    /\ dpc = "waiting" => DOp("wait")
    /\ \A w \in Workers : wpc[w] # "done" => w \in allocated
    /\ \A w \in Workers : wpc[w] = "main" => wpos[w] = 1 /\ got[w] = <<>>
    /\ IsFiniteSet(inbox)

(* The connections to a worker: RUN_TEST comes first, then what the driver *)
(* has sent in this round, in this order.  A worker that is not remote     *)
(* knows no other round.                                                   *)
Wires(w) ==
    /\ \A r \in Rounds : r > round \/ (r = round /\ w \notin allocated) => chan[w][r] = <<>>
    /\ w \notin Remote => /\ \A r \in Rounds \ {round} : chan[w][r] = <<>>
                          /\ mcount[w] = 0 /\ mmsgs[w] = <<>>
    /\ \A r \in Rounds : \A i \in DOMAIN chan[w][r] :
          chan[w][r][i].kind = "RUN_TEST" => i = 1 /\ r = round /\ wpc[w] = "main"
    /\ wpc[w] = "main" => chan[w][round] # <<>> /\ chan[w][round][1].kind = "RUN_TEST"
    /\ \A i \in DOMAIN chan[w][round] :
          chan[w][round][i].round = round /\ chan[w][round][i].pos < dpos
    /\ \A i, j \in DOMAIN chan[w][round] : i < j => chan[w][round][i].pos < chan[w][round][j].pos

(* What a worker has of earlier rounds: nothing, if they left nothing. *)
Quiet(w) ==
    Untouched => /\ \A r \in Rounds \ {round} : chan[w][r] = <<>>
                 /\ wpc[w] # "done" \/ w \notin allocated \/ Tidy
                        => mcount[w] = 0 /\ mmsgs[w] = <<>>

(* A worker that has nothing of another round. *)
Mine(w) == w \in allocated /\ (w \in Remote => Untouched)

(* Messages of round r in the order in which they were sent, before p. *)
Ascending(s, r, p) == /\ \A i \in DOMAIN s : s[i].round = r /\ s[i].pos < p
                      /\ \A i, j \in DOMAIN s : i < j => s[i].pos < s[j].pos
Before(s, t) == \A i \in DOMAIN s, j \in DOMAIN t : s[i].pos < t[j].pos

(* Before the body begins, all that was sent is on its way ... *)
Awaiting(w) ==
    Mine(w) /\ wpc[w] = "main" =>
       /\ Cardinality(OnWire(w, "NOTIFY")) = Cardinality(DDone("notify"))
       /\ Cardinality(OnWire(w, "USER_MESSAGE")) = Cardinality(DDone("send"))

(* ... while it runs, on its way, counted or used up, and in order; ...    *)
UsedUp(w) == UNION {{i} \X (1..Uses(i)) : i \in WDone(w, "wait")}
Notifications(w) ==
    Mine(w) /\ wpc[w] = "body" =>
       /\ Waited(w) + wcount[w] + Cardinality(OnWire(w, "NOTIFY"))
            = Cardinality(DDone("notify"))
       /\ IsFiniteSet(UsedUp(w))
       /\ Tidy => Waited(w) = Cardinality(WDone(w, "wait"))

Messages(w) ==
    Mine(w) /\ wpc[w] = "body" =>
       /\ Len(got[w]) + Len(wmsgs[w]) + Cardinality(OnWire(w, "USER_MESSAGE"))
            = Cardinality(DDone("send"))
       /\ Tidy => Len(got[w]) = Cardinality(WDone(w, "recv"))
       /\ Ascending(got[w] \o wmsgs[w], round, dpos)
       /\ Before(got[w] \o wmsgs[w], chan[w][round])

(* ... and when it is over, in a tidy round, there is nothing left.        *)
Used(w) ==
    Tidy /\ w \in allocated /\ wpc[w] = "done" =>
       /\ chan[w][round] = <<>>
       /\ Cardinality(DDone("notify")) = Count(DriverScript[round], "notify")
       /\ Cardinality(DDone("send")) = Count(DriverScript[round], "send")

(* What comes to the driver was sent by the workers of this test. *)
Senders ==
    Untouched => /\ \A m \in inbox : /\ m.round = round /\ m.id \in allocated
                                     /\ m.pos < wpos[m.id]
                 /\ pulled \subseteq allocated

(* The full waits of the driver that have pulled worker w. *)
FullWaits(n) == {i \in Upto(DriverScript[round], n, "wait") : DriverScript[round][i].n = 0}
Waiting(w) == dpc = "waiting" /\ w \in pulled /\ DriverScript[round][dpos].n = 0
Pulled(w) == IF Waiting(w) THEN Cardinality(FullWaits(dpos)) + 1
                           ELSE Cardinality(FullWaits(dpos))
Barrier == Untouched /\ dpc # "over" => \A w \in allocated : Pulled(w) <= pulls[w]

(* What the barrier was for the body holds on when the body is over. *)
Kept == dpc = "over" => BarrierHolds

(* The messages to the driver are counted all together. *)
Posted == {x \in allocated \X (1..Len(WorkerScript[round])) : x[2] \in WDone(x[1], "send")}
Arriving == {m \in inbox : m.kind = "USER_MESSAGE"}
Received ==
    Untouched /\ dpc # "over" =>
       Cardinality(Arriving) + Len(dmsgs) + Cardinality(DDone("recv")) = Cardinality(Posted)

(* When the driver's body is over in a tidy round, it has taken all that   *)
(* the workers send in this round.                                         *)
Drained ==
    Tidy /\ dpc = "over" =>
       /\ inbox = {}
       /\ \A w \in allocated :
             /\ Notified(w) = Count(WorkerScript[round], "notify")
             /\ Cardinality(WDone(w, "send")) = Count(WorkerScript[round], "send")

DriverInv == /\ Senders /\ DriverNotifyConserved /\ Barrier /\ Kept /\ Received
             /\ Drained
WorkerInv(w) == Quiet(w) /\ Awaiting(w) /\ Notifications(w) /\ Messages(w) /\ Used(w)
IndInv == /\ TypeOK /\ Places /\ \A w \in Workers : Wires(w)
          /\ DriverInv /\ \A w \in Workers : WorkerInv(w)
-----------------------------------------------------------------------------
(* Counting. *)

(* What an operation is. *)
LEMMA OperationFacts ==
    ASSUME NEW o \in Operations
    PROVE  o.op \in {"notify", "send", "recv", "wait"} /\ (o.op = "wait" => o.n \in Nat)
BY DEF Operations, Notify, Send, Recv

(* The operations before the n-th are some of all, ... *)
LEMMA Counting ==
    ASSUME NEW s \in Seq(Operations), NEW n \in 1..(Len(s) + 1), NEW op
    PROVE  /\ Upto(s, n, op) \subseteq All(s, op) /\ Upto(s, n, op) \subseteq 1..Len(s)
           /\ IsFiniteSet(All(s, op)) /\ IsFiniteSet(Upto(s, n, op))
           /\ Cardinality(Upto(s, n, op)) \in Nat /\ Cardinality(All(s, op)) \in Nat
           /\ Cardinality(Upto(s, n, op)) <= Cardinality(All(s, op))
           /\ Cardinality(Upto(s, n, op)) = Cardinality(All(s, op)) => Upto(s, n, op) = All(s, op)
<1>1. Len(s) \in Nat /\ DOMAIN s = 1..Len(s)
  BY LenProperties
<1>2. Upto(s, n, op) \subseteq All(s, op) /\ Upto(s, n, op) \subseteq 1..Len(s)
  BY <1>1 DEF Upto, All
<1>3. IsFiniteSet(1..Len(s))
  BY <1>1, FS_Interval
<1>4. All(s, op) \subseteq 1..Len(s)
  BY <1>1 DEF All
<1>5. IsFiniteSet(All(s, op))
  BY <1>3, <1>4, FS_Subset
<1>6. /\ IsFiniteSet(Upto(s, n, op))
      /\ Cardinality(Upto(s, n, op)) <= Cardinality(All(s, op))
      /\ Cardinality(Upto(s, n, op)) = Cardinality(All(s, op)) => Upto(s, n, op) = All(s, op)
  BY <1>2, <1>5, FS_Subset
<1> QED
  BY <1>2, <1>5, <1>6, FS_CardinalityType

(* one more when the n-th is of the kind, ... *)
LEMMA CountNext ==
    ASSUME NEW s \in Seq(Operations), NEW n \in 1..Len(s), NEW o, s[n].op = o
    PROVE  /\ \A op : op # o => Upto(s, n + 1, op) = Upto(s, n, op)
           /\ Upto(s, n + 1, o) = Upto(s, n, o) \union {n} /\ n \notin Upto(s, n, o)
           /\ Cardinality(Upto(s, n + 1, o)) = Cardinality(Upto(s, n, o)) + 1
           /\ Cardinality(Upto(s, n, o)) < Cardinality(All(s, o))
<1>1. Len(s) \in Nat
  BY LenProperties
<1>2. n + 1 \in 1..(Len(s) + 1) /\ n \in 1..(Len(s) + 1)
  BY <1>1
<1>3. \A op : op # o => Upto(s, n + 1, op) = Upto(s, n, op)
  BY <1>1 DEF Upto
<1>4. Upto(s, n + 1, o) = Upto(s, n, o) \union {n} /\ n \notin Upto(s, n, o)
  BY <1>1 DEF Upto
<1>5. IsFiniteSet(Upto(s, n, o)) /\ Cardinality(Upto(s, n, o)) \in Nat
  BY <1>2, Counting
<1>6. Cardinality(Upto(s, n + 1, o)) = Cardinality(Upto(s, n, o)) + 1
  BY <1>4, <1>5, FS_AddElement
<1>7. Cardinality(Upto(s, n + 1, o)) <= Cardinality(All(s, o)) /\ Cardinality(All(s, o)) \in Nat
  BY <1>2, Counting
<1> QED
  BY <1>3, <1>4, <1>5, <1>6, <1>7

(* none at first, and all at the end. *)
LEMMA CountEnds ==
    ASSUME NEW s \in Seq(Operations), NEW op
    PROVE  /\ Upto(s, 1, op) = {} /\ Cardinality(Upto(s, 1, op)) = 0
           /\ Upto(s, Len(s) + 1, op) = All(s, op)
           /\ Count(s, op) = Cardinality(All(s, op))
<1>1. Len(s) \in Nat /\ DOMAIN s = 1..Len(s)
  BY LenProperties
<1>2. Upto(s, 1, op) = {}
  BY DEF Upto
<1>3. Upto(s, Len(s) + 1, op) = All(s, op)
  BY <1>1 DEF Upto, All
<1> QED
  BY <1>2, <1>3, FS_EmptySet DEF Count, All

(* The messages of a kind in a sequence. *)
Kinds(s, k) == {i \in DOMAIN s : s[i].kind = k}

(* They can be counted. *)
LEMMA KindsType ==
    ASSUME NEW S, NEW s \in Seq(S), NEW k
    PROVE  IsFiniteSet(Kinds(s, k)) /\ Cardinality(Kinds(s, k)) \in Nat
           /\ (Cardinality(Kinds(s, k)) = 0 => Kinds(s, k) = {})
<1>1. Len(s) \in Nat /\ Kinds(s, k) \subseteq 1..Len(s)
  BY LenProperties DEF Kinds
<1>1a. IsFiniteSet(1..Len(s))
  BY <1>1, FS_Interval
<1>2. IsFiniteSet(Kinds(s, k))
  BY <1>1, <1>1a, FS_Subset
<1> QED
  BY <1>2, FS_CardinalityType, FS_EmptySet

(* A message comes last. *)
LEMMA KindsAppend ==
    ASSUME NEW S, NEW s \in Seq(S), NEW m \in S, NEW k
    PROVE  Cardinality(Kinds(Append(s, m), k))
             = IF m.kind = k THEN Cardinality(Kinds(s, k)) + 1 ELSE Cardinality(Kinds(s, k))
<1> DEFINE t == Append(s, m)
<1>1. /\ Len(s) \in Nat /\ DOMAIN s = 1..Len(s) /\ DOMAIN t = 1..(Len(s) + 1)
      /\ t[Len(s) + 1] = m /\ \A i \in 1..Len(s) : t[i] = s[i]
  BY AppendProperties, LenProperties
<1>2. IsFiniteSet(Kinds(s, k)) /\ Len(s) + 1 \notin Kinds(s, k)
  <2>1. IsFiniteSet(Kinds(s, k))
    BY KindsType
  <2> QED
    BY <1>1, <2>1 DEF Kinds
<1> HIDE DEF t
<1>3. CASE m.kind = k
  <2>1. Kinds(t, k) = Kinds(s, k) \union {Len(s) + 1}
    BY <1>1, <1>3 DEF Kinds
  <2>2. Cardinality(Kinds(s, k) \union {Len(s) + 1}) = Cardinality(Kinds(s, k)) + 1
    BY <1>2, FS_AddElement
  <2> QED
    BY <1>3, <2>1, <2>2 DEF t
<1>4. CASE m.kind # k
  <2>1. Kinds(t, k) = Kinds(s, k)
    BY <1>1, <1>4 DEF Kinds
  <2> QED
    BY <1>4, <2>1 DEF t
<1> QED
  BY <1>3, <1>4

(* The first message leaves. *)
LEMMA KindsTail ==
    ASSUME NEW S, NEW s \in Seq(S), s # <<>>, NEW k
    PROVE  Cardinality(Kinds(Tail(s), k))
             = IF s[1].kind = k THEN Cardinality(Kinds(s, k)) - 1 ELSE Cardinality(Kinds(s, k))
<1> DEFINE t == Tail(s)
           f == [i \in Kinds(t, k) |-> i + 1]
<1>1. /\ Len(s) \in Nat /\ Len(s) > 0 /\ DOMAIN s = 1..Len(s) /\ DOMAIN t = 1..(Len(s) - 1)
      /\ \A i \in 1..(Len(s) - 1) : t[i] = s[i + 1]
      /\ t \in Seq(S)
  BY HeadTailProperties, LenProperties, EmptySeq
<1>2. f \in Bijection(Kinds(t, k), Kinds(s, k) \ {1})
  <2>1. \A i \in Kinds(t, k) : i \in Nat /\ i + 1 \in Kinds(s, k) \ {1}
    BY <1>1 DEF Kinds
  <2>2. \A j \in Kinds(s, k) \ {1} : j - 1 \in Kinds(t, k) /\ j = (j - 1) + 1
    BY <1>1 DEF Kinds
  <2>3. f \in [Kinds(t, k) -> Kinds(s, k) \ {1}]
    BY <2>1
  <2>4. \A i, j \in Kinds(t, k) : f[i] = f[j] => i = j
    BY <2>1
  <2>5. \A j \in Kinds(s, k) \ {1} : \E i \in Kinds(t, k) : f[i] = j
    BY <2>2
  <2> QED
    BY <2>3, <2>4, <2>5 DEF Bijection, Injection, Surjection, IsInjective
<1>3. IsFiniteSet(Kinds(s, k)) /\ IsFiniteSet(Kinds(t, k)) /\ IsFiniteSet(Kinds(s, k) \ {1})
  BY <1>1, KindsType, FS_Subset
<1>4. Cardinality(Kinds(t, k)) = Cardinality(Kinds(s, k) \ {1})
  <2>1. ExistsBijection(Kinds(t, k), Kinds(s, k) \ {1})
    BY <1>2 DEF ExistsBijection
  <2> QED
    BY <1>3, <2>1, FS_Bijection
<1>5. CASE s[1].kind = k
  <2>1. 1 \in Kinds(s, k)
    BY <1>1, <1>5 DEF Kinds
  <2> QED
    BY <1>3, <1>4, <1>5, <2>1, FS_RemoveElement
<1>6. CASE s[1].kind # k
  <2>1. Kinds(s, k) \ {1} = Kinds(s, k)
    BY <1>6 DEF Kinds
  <2> QED
    BY <1>4, <1>6, <2>1
<1> QED
  BY <1>5, <1>6

(* No messages. *)
LEMMA KindsEmpty ==
    ASSUME NEW k
    PROVE  Kinds(<<>>, k) = {} /\ Cardinality(Kinds(<<>>, k)) = 0
<1>1. Kinds(<<>>, k) = {}
  BY DEF Kinds
<1> QED
  BY <1>1, FS_EmptySet
-----------------------------------------------------------------------------
(* Types. *)

(* What a scenario is. *)
LEMMA ScenarioFacts ==
    ASSUME NEW s \in Scenarios
    PROVE  /\ Len(s.alloc) \in Nat /\ 1 \in 1..Len(s.alloc)
           /\ \A r \in 1..Len(s.alloc) :
                 /\ s.alloc[r] \subseteq Workers /\ IsFiniteSet(s.alloc[r])
                 /\ Cardinality(s.alloc[r]) \in Nat
                 /\ s.driver[r] \in Seq(Operations) /\ s.worker[r] \in Seq(Operations)
                 /\ Len(s.driver[r]) \in Nat /\ Len(s.worker[r]) \in Nat
           /\ s.dtimeout \in BOOLEAN /\ s.wtimeout \in BOOLEAN
<1>1. /\ s.alloc \in Seq(SUBSET Workers) /\ Len(s.alloc) > 0
      /\ s.driver \in Seq(Seq(Operations)) /\ s.worker \in Seq(Seq(Operations))
      /\ Len(s.driver) = Len(s.alloc) /\ Len(s.worker) = Len(s.alloc)
      /\ s.dtimeout \in BOOLEAN /\ s.wtimeout \in BOOLEAN
  BY EventsAssumption
<1>2. Len(s.alloc) \in Nat /\ 1 \in 1..Len(s.alloc)
  BY <1>1, LenProperties
<1>3. ASSUME NEW r \in 1..Len(s.alloc)
      PROVE  /\ s.alloc[r] \subseteq Workers /\ IsFiniteSet(s.alloc[r])
             /\ Cardinality(s.alloc[r]) \in Nat
             /\ s.driver[r] \in Seq(Operations) /\ s.worker[r] \in Seq(Operations)
             /\ Len(s.driver[r]) \in Nat /\ Len(s.worker[r]) \in Nat
  <2>1. s.alloc[r] \subseteq Workers
    BY <1>1, ElementOfSeq
  <2>2. s.driver[r] \in Seq(Operations) /\ s.worker[r] \in Seq(Operations)
    BY <1>1, ElementOfSeq
  <2>3. IsFiniteSet(s.alloc[r]) /\ Cardinality(s.alloc[r]) \in Nat
    BY <2>1, EventsAssumption, FS_Subset, FS_CardinalityType
  <2> QED
    BY <2>1, <2>2, <2>3, LenProperties
<1> QED
  BY <1>1, <1>2, <1>3

(* ... and its present round. *)
LEMMA Facts ==
    ASSUME TypeOK
    PROVE  /\ Len(Alloc) \in Nat /\ round \in 1..Len(Alloc) /\ round \in Nat
           /\ allocated \subseteq Workers /\ IsFiniteSet(allocated)
           /\ Cardinality(allocated) \in Nat
           /\ DriverScript[round] \in Seq(Operations) /\ WorkerScript[round] \in Seq(Operations)
           /\ Len(DriverScript[round]) \in Nat /\ Len(WorkerScript[round]) \in Nat
           /\ sc.dtimeout \in BOOLEAN /\ sc.wtimeout \in BOOLEAN
<1>1. sc \in Scenarios /\ round \in 1..Len(sc.alloc)
  BY DEF TypeOK, Rounds, Alloc
<1> QED
  BY <1>1, ScenarioFacts DEF Alloc, DriverScript, WorkerScript, allocated

(* The operation the driver's body has come to. *)
LEMMA DriverAt ==
    ASSUME TypeOK, NEW op, DOp(op)
    PROVE  /\ dpos \in 1..Len(DriverScript[round]) /\ dpos \in Nat
           /\ dpos + 1 \in 1..(Len(DriverScript[round]) + 1)
           /\ DriverScript[round][dpos] \in Operations /\ DriverScript[round][dpos].op = op
           /\ op = "wait" => DriverScript[round][dpos].n \in Nat /\ Needed \in Nat
<1>1. dpos \in 1..Len(DriverScript[round]) /\ dpos \in Nat
      /\ dpos + 1 \in 1..(Len(DriverScript[round]) + 1) /\ DriverScript[round][dpos].op = op
  BY Facts DEF TypeOK, DOp
<1>2. DriverScript[round][dpos] \in Operations
  BY <1>1, Facts, ElementOfSeq
<1>3. op = "wait" => DriverScript[round][dpos].n \in Nat
  BY <1>1, <1>2, OperationFacts
<1> QED
  BY <1>1, <1>2, <1>3, Facts DEF Needed

(* The same for a worker. *)
LEMMA WorkerAt ==
    ASSUME TypeOK, NEW w \in Workers, NEW op, WOp(w, op)
    PROVE  /\ wpos[w] \in 1..Len(WorkerScript[round]) /\ wpos[w] \in Nat
           /\ wpos[w] + 1 \in 1..(Len(WorkerScript[round]) + 1)
           /\ WorkerScript[round][wpos[w]] \in Operations
           /\ WorkerScript[round][wpos[w]].op = op
           /\ op = "wait" => /\ WorkerScript[round][wpos[w]].n \in Nat
                             /\ WNeeded(w) \in Nat \ {0} /\ WNeeded(w) = Uses(wpos[w])
<1>0. wpos[w] \in 1..(Len(WorkerScript[round]) + 1) /\ Len(WorkerScript[round]) \in Nat
  BY Facts DEF TypeOK
<1>1. wpos[w] \in 1..Len(WorkerScript[round]) /\ wpos[w] \in Nat
      /\ wpos[w] + 1 \in 1..(Len(WorkerScript[round]) + 1)
      /\ WorkerScript[round][wpos[w]].op = op
  BY <1>0 DEF WOp
<1>2. WorkerScript[round][wpos[w]] \in Operations
  BY <1>1, Facts, ElementOfSeq
<1>3. op = "wait" => WorkerScript[round][wpos[w]].n \in Nat
  BY <1>1, <1>2, OperationFacts
<1> QED
  BY <1>1, <1>2, <1>3 DEF WNeeded, Uses

(* A message on the wire is read. *)
LEMMA Reading ==
    ASSUME TypeOK, NEW w \in Workers, NEW r \in Rounds, Readable(w, r)
    PROVE  /\ chan[w][r] \in Seq(FromDriver) /\ Head(chan[w][r]) \in FromDriver
           /\ Head(chan[w][r]) = chan[w][r][1] /\ Tail(chan[w][r]) \in Seq(FromDriver)
           /\ Head(chan[w][r]).kind \in {"RUN_TEST", "NOTIFY", "USER_MESSAGE"}
           /\ Read(w, r) => /\ chan' \in [Workers -> [Rounds -> Seq(FromDriver)]]
                            /\ chan'[w][r] = Tail(chan[w][r])
                            /\ \A q \in Rounds : q # r => chan'[w][q] = chan[w][q]
                            /\ \A v \in Workers : v # w => chan'[v] = chan[v]
<1>1. chan \in [Workers -> [Rounds -> Seq(FromDriver)]] /\ chan[w][r] # <<>>
  BY DEF TypeOK, Readable
<1>2. /\ chan[w][r] \in Seq(FromDriver) /\ Head(chan[w][r]) \in FromDriver
      /\ Head(chan[w][r]) = chan[w][r][1] /\ Tail(chan[w][r]) \in Seq(FromDriver)
  BY <1>1, HeadTailProperties
<1>3. Head(chan[w][r]).kind \in {"RUN_TEST", "NOTIFY", "USER_MESSAGE"}
  BY <1>2 DEF FromDriver
<1>4. ASSUME Read(w, r)
      PROVE  /\ chan' \in [Workers -> [Rounds -> Seq(FromDriver)]]
             /\ chan'[w][r] = Tail(chan[w][r])
             /\ \A q \in Rounds : q # r => chan'[w][q] = chan[w][q]
             /\ \A v \in Workers : v # w => chan'[v] = chan[v]
  <2>1. chan' = [chan EXCEPT ![w] = [chan[w] EXCEPT ![r] = Tail(chan[w][r])]]
    BY <1>4 DEF Read
  <2>2. chan[w] \in [Rounds -> Seq(FromDriver)]
    BY <1>1
  <2>3. [chan[w] EXCEPT ![r] = Tail(chan[w][r])] \in [Rounds -> Seq(FromDriver)]
    BY <1>2, <2>2
  <2> QED
    BY <1>1, <2>1, <2>2, <2>3
<1> QED
  BY <1>2, <1>3, <1>4

(* The driver sends to all workers of this test. *)
LEMMA Sending ==
    ASSUME TypeOK, NEW k \in {"NOTIFY", "USER_MESSAGE"}, ToAll(k)
    PROVE  /\ ToWorker(k) \in FromDriver /\ ToWorker(k).kind = k /\ ToWorker(k).round = round
           /\ ToWorker(k).pos = dpos
           /\ chan' \in [Workers -> [Rounds -> Seq(FromDriver)]]
           /\ \A w \in Workers : w \notin allocated => chan'[w] = chan[w]
           /\ \A w \in allocated : /\ chan'[w][round] = Append(chan[w][round], ToWorker(k))
                                   /\ \A q \in Rounds : q # round => chan'[w][q] = chan[w][q]
<1>1. /\ chan \in [Workers -> [Rounds -> Seq(FromDriver)]] /\ round \in Rounds /\ dpos \in Nat
      /\ allocated \subseteq Workers
  BY Facts DEF TypeOK
<1>2. ToWorker(k) \in FromDriver /\ ToWorker(k).kind = k /\ ToWorker(k).round = round
      /\ ToWorker(k).pos = dpos
  BY <1>1 DEF ToWorker, FromDriver
<1>3. ASSUME NEW w \in Workers
      PROVE  [chan[w] EXCEPT ![round] = Append(@, ToWorker(k))] \in [Rounds -> Seq(FromDriver)]
  BY <1>1, <1>2, AppendProperties
<1>4. chan' \in [Workers -> [Rounds -> Seq(FromDriver)]]
  BY <1>1, <1>3 DEF ToAll
<1> QED
  BY <1>1, <1>2, <1>4 DEF ToAll

(* What wait() makes of an event keeps its types. *)
LEMMA PullType ==
    ASSUME TypeOK, NEW w \in Workers, NEW c \in Nat, Pull(w, c)
    PROVE  /\ dcount' \in [Workers -> Nat] /\ pulls' \in [Workers -> Nat]
           /\ pulled' \subseteq Workers \union {Phantom}
<1>0. dcount \in [Workers -> Nat] /\ pulls \in [Workers -> Nat]
      /\ pulled \subseteq Workers \union {Phantom}
  BY DEF TypeOK
<1>1. dcount \in [Workers -> Nat] /\ pulls \in [Workers -> Nat]
      /\ pulled \subseteq Workers \union {Phantom} /\ pulls[w] + 1 \in Nat
  BY <1>0
<1>2. CASE dpc = "waiting" /\ c > 0 /\ w \notin pulled
  <2>1. c - 1 \in Nat
    BY <1>2
  <2> QED
    BY <1>1, <1>2, <2>1 DEF Pull
<1>3. CASE ~(dpc = "waiting" /\ c > 0 /\ w \notin pulled)
  BY <1>1, <1>3 DEF Pull
<1> QED
  BY <1>2, <1>3

(* Every step keeps the types. *)
LEMMA TypeStep ==
    ASSUME TypeOK, Places, [Next]_vars
    PROVE  TypeOK'
<1>1. CASE DNotify
  <2>f. sc' = sc /\ round' = round /\ Rounds' = Rounds
        /\ FromDriver' = FromDriver /\ ToDriver' = ToDriver
        /\ DriverScript' = DriverScript /\ WorkerScript' = WorkerScript
    BY <1>1 DEF DNotify, Rounds, Alloc, FromDriver, ToDriver, DriverScript, WorkerScript
  <2>1. dpos' \in 1..(Len(DriverScript[round]) + 1)
    BY <1>1, DriverAt DEF DNotify, DNext
  <2>2. chan' \in [Workers -> [Rounds -> Seq(FromDriver)]]
    BY <1>1, Sending DEF DNotify
  <2> QED
    BY <1>1, <2>f, <2>1, <2>2 DEF DNotify, TypeOK, driver, wchild
<1>2. CASE DSend
  <2>f. sc' = sc /\ round' = round /\ Rounds' = Rounds
        /\ FromDriver' = FromDriver /\ ToDriver' = ToDriver
        /\ DriverScript' = DriverScript /\ WorkerScript' = WorkerScript
    BY <1>2 DEF DSend, Rounds, Alloc, FromDriver, ToDriver, DriverScript, WorkerScript
  <2>1. dpos' \in 1..(Len(DriverScript[round]) + 1)
    BY <1>2, DriverAt DEF DSend, DNext
  <2>2. chan' \in [Workers -> [Rounds -> Seq(FromDriver)]]
    BY <1>2, Sending DEF DSend
  <2> QED
    BY <1>2, <2>f, <2>1, <2>2 DEF DSend, TypeOK, driver, wchild
<1>3. CASE DWait
  <2>f. sc' = sc /\ round' = round /\ Rounds' = Rounds
        /\ FromDriver' = FromDriver /\ ToDriver' = ToDriver
        /\ DriverScript' = DriverScript /\ WorkerScript' = WorkerScript
    BY <1>3 DEF DWait, Rounds, Alloc, FromDriver, ToDriver, DriverScript, WorkerScript
  <2>1. PICK S \in SUBSET {w \in allocated : dcount[w] > 0} :
           /\ pulled' = S
           /\ dcount' = [w \in Workers |-> IF w \in S THEN dcount[w] - 1 ELSE dcount[w]]
           /\ pulls' = [w \in Workers |-> IF w \in S THEN pulls[w] + 1 ELSE pulls[w]]
    BY <1>3 DEF DWait
  <2>2. \A w \in Workers : dcount[w] \in Nat /\ pulls[w] \in Nat
    BY DEF TypeOK
  <2>3. \A w \in S : dcount[w] > 0 /\ w \in Workers
    BY <2>1, Facts
  <2>4. dcount' \in [Workers -> Nat] /\ pulls' \in [Workers -> Nat] /\ pulled' \subseteq Workers
    BY <2>1, <2>2, <2>3
  <2> QED
    BY <1>3, <2>f, <2>4 DEF DWait, TypeOK, driver, wchild
<1>4. CASE DWaitEnd
  <2>f. sc' = sc /\ round' = round /\ Rounds' = Rounds
        /\ FromDriver' = FromDriver /\ ToDriver' = ToDriver
        /\ DriverScript' = DriverScript /\ WorkerScript' = WorkerScript
    BY <1>4 DEF DWaitEnd, Rounds, Alloc, FromDriver, ToDriver, DriverScript, WorkerScript
  <2>1. dpos' \in 1..(Len(DriverScript[round]) + 1)
    BY <1>4, DriverAt DEF DWaitEnd, DNext, Places
  <2> QED
    BY <1>4, <2>f, <2>1 DEF DWaitEnd, TypeOK, driver, wchild
<1>5. CASE DRecv
  <2>f. sc' = sc /\ round' = round /\ Rounds' = Rounds
        /\ FromDriver' = FromDriver /\ ToDriver' = ToDriver
        /\ DriverScript' = DriverScript /\ WorkerScript' = WorkerScript
    BY <1>5 DEF DRecv, Rounds, Alloc, FromDriver, ToDriver, DriverScript, WorkerScript
  <2>1. dpos' \in 1..(Len(DriverScript[round]) + 1)
    BY <1>5, DriverAt DEF DRecv, DNext
  <2>2. dmsgs' \in Seq(ToDriver)
    BY <1>5, HeadTailProperties DEF DRecv, TypeOK
  <2> QED
    BY <1>5, <2>f, <2>1, <2>2 DEF DRecv, TypeOK, driver, wchild
<1>6. CASE DEnd
  <2>f. sc' = sc /\ round' = round /\ Rounds' = Rounds
        /\ FromDriver' = FromDriver /\ ToDriver' = ToDriver
        /\ DriverScript' = DriverScript /\ WorkerScript' = WorkerScript
    BY <1>6 DEF DEnd, Rounds, Alloc, FromDriver, ToDriver, DriverScript, WorkerScript
  <2> QED
    BY <1>6, <2>f DEF DEnd, TypeOK, driver, wchild, DGone
<1>7. CASE DTimeout
  <2>f. sc' = sc /\ round' = round /\ Rounds' = Rounds
        /\ FromDriver' = FromDriver /\ ToDriver' = ToDriver
        /\ DriverScript' = DriverScript /\ WorkerScript' = WorkerScript
    BY <1>7 DEF DTimeout, Rounds, Alloc, FromDriver, ToDriver, DriverScript, WorkerScript
  <2> QED
    BY <1>7, <2>f DEF DTimeout, TypeOK, driver, wchild, DGone
<1>8. CASE NextRound
  <2>1. /\ round' = round + 1 /\ round < Len(Alloc) /\ sc' = sc
        /\ Rounds' = Rounds /\ Alloc' = Alloc
    BY <1>8 DEF NextRound, Rounds, Alloc
  <2>2. round' \in Rounds /\ round' \in Nat
    BY <2>1, Facts DEF Rounds
  <2>3. Len(DriverScript[round])' \in Nat /\ Len(WorkerScript[round])' \in Nat
    BY <2>1, <2>2, ScenarioFacts DEF TypeOK, Rounds, Alloc, DriverScript, WorkerScript
  <2>4. /\ dpc' = "body" /\ dpos' = 1 /\ dmsgs' = <<>> /\ pulled' = {}
        /\ dcount' = [w \in Workers |-> 0] /\ pulls' = [w \in Workers |-> 0]
        /\ wpos' = [w \in Workers |-> 1] /\ got' = [w \in Workers |-> <<>>]
        /\ UNCHANGED <<inbox, accepted, wcount, wmsgs>>
    BY <1>8 DEF NextRound
  <2>5. /\ wpc' \in [Workers -> {"main", "body", "done"}]
        /\ mcount' \in [Workers -> Nat] /\ mmsgs' \in [Workers -> Seq(FromDriver)]
    BY <1>8 DEF NextRound, TypeOK
  <2>6. chan' \in [Workers -> [Rounds -> Seq(FromDriver)]]
    <3>1. \A r \in Rounds : <<[kind |-> "RUN_TEST", round |-> r, pos |-> 0]>> \in Seq(FromDriver)
      BY DEF FromDriver
    <3>2. \A w \in Workers, r \in Rounds : chan[w][r] \in Seq(FromDriver)
      BY DEF TypeOK
    <3> QED
      BY <1>8, <3>1, <3>2, <2>1 DEF NextRound
  <2>7. FromDriver' = FromDriver /\ ToDriver' = ToDriver
    BY <2>1 DEF FromDriver, ToDriver
  <2>8. /\ dpos' \in 1..(Len(DriverScript[round])' + 1)
        /\ wpos' \in [Workers -> 1..(Len(WorkerScript[round])' + 1)]
    BY <2>3, <2>4
  <2>9. <<>> \in Seq(ToDriver) /\ <<>> \in Seq(FromDriver)
    OBVIOUS
  <2> QED
    BY <2>1, <2>2, <2>4, <2>5, <2>6, <2>7, <2>8, <2>9 DEF TypeOK
<1>9. ASSUME NEW m \in inbox, DAccept(m)
      PROVE  TypeOK'
  <2>f. sc' = sc /\ round' = round /\ Rounds' = Rounds
        /\ FromDriver' = FromDriver /\ ToDriver' = ToDriver
        /\ DriverScript' = DriverScript /\ WorkerScript' = WorkerScript
    BY <1>9 DEF DAccept, Rounds, Alloc, FromDriver, ToDriver, DriverScript, WorkerScript
  <2> QED
    BY <1>9, <2>f DEF DAccept, TypeOK, driver, wchild
<1>10. ASSUME NEW m \in inbox, DRecvNotify(m)
       PROVE  TypeOK'
  <2>f. sc' = sc /\ round' = round /\ Rounds' = Rounds
        /\ FromDriver' = FromDriver /\ ToDriver' = ToDriver
        /\ DriverScript' = DriverScript /\ WorkerScript' = WorkerScript
    BY <1>10 DEF DRecvNotify, Rounds, Alloc, FromDriver, ToDriver, DriverScript, WorkerScript
  <2>1. m \in ToDriver /\ m.id \in Workers /\ dcount[m.id] \in Nat /\ pulls[m.id] \in Nat
    BY DEF TypeOK, ToDriver
  <2>2. /\ dcount' \in [Workers -> Nat] /\ pulls' \in [Workers -> Nat]
        /\ pulled' \subseteq Workers \union {Phantom}
    <3>1. CASE m.id \in allocated
      <4>1. Pull(m.id, dcount[m.id] + 1) /\ dcount[m.id] + 1 \in Nat
        BY <1>10, <2>1, <3>1 DEF DRecvNotify
      <4> QED
        BY <2>1, <4>1, PullType
    <3>2. CASE m.id \notin allocated
      BY <1>10, <3>2 DEF DRecvNotify, TypeOK
    <3> QED
      BY <3>1, <3>2
  <2> QED
    BY <1>10, <2>f, <2>2 DEF DRecvNotify, TypeOK, driver, wchild
<1>11. ASSUME NEW m \in inbox, DRecvMessage(m)
       PROVE  TypeOK'
  <2>f. sc' = sc /\ round' = round /\ Rounds' = Rounds
        /\ FromDriver' = FromDriver /\ ToDriver' = ToDriver
        /\ DriverScript' = DriverScript /\ WorkerScript' = WorkerScript
    BY <1>11 DEF DRecvMessage, Rounds, Alloc, FromDriver, ToDriver, DriverScript, WorkerScript
  <2>1. m \in ToDriver /\ m.id \in Workers /\ dcount[m.id] \in Nat /\ pulls[m.id] \in Nat
    BY DEF TypeOK, ToDriver
  <2>2. /\ dcount' \in [Workers -> Nat] /\ pulls' \in [Workers -> Nat]
        /\ pulled' \subseteq Workers \union {Phantom}
        /\ dpc' \in {"body", "waiting", "over"}
        /\ accepted' \subseteq inbox' /\ inbox' \subseteq inbox
    <3>1. CASE m.id \in allocated
      BY <1>11, <2>1, <3>1, PullType DEF DRecvMessage, TypeOK
    <3>2. CASE m.id \notin allocated
      BY <1>11, <2>1, <3>2 DEF DRecvMessage, TypeOK
    <3> QED
      BY <3>1, <3>2
  <2>3. dmsgs' \in Seq(ToDriver)
    BY <1>11, <2>1, AppendProperties DEF DRecvMessage, TypeOK
  <2> QED
    BY <1>11, <2>f, <2>2, <2>3 DEF DRecvMessage, TypeOK, driver, wchild
<1>12. ASSUME NEW u \in Workers, NEW q \in Rounds, WBegin(u, q)
       PROVE  TypeOK'
  <2>f. sc' = sc /\ round' = round /\ Rounds' = Rounds
        /\ FromDriver' = FromDriver /\ ToDriver' = ToDriver
        /\ DriverScript' = DriverScript /\ WorkerScript' = WorkerScript
    BY <1>12 DEF WBegin, Rounds, Alloc, FromDriver, ToDriver, DriverScript, WorkerScript
  <2>1. chan' \in [Workers -> [Rounds -> Seq(FromDriver)]] /\ Head(chan[u][q]) \in FromDriver
    BY <1>12, Reading DEF WBegin
  <2>2. /\ wpos' \in [Workers -> 1..(Len(WorkerScript[round]) + 1)]
        /\ wcount' \in [Workers -> Nat] /\ wmsgs' \in [Workers -> Seq(FromDriver)]
        /\ got' \in [Workers -> Seq(FromDriver)]
    <3>1. /\ 1 \in 1..(Len(WorkerScript[round]) + 1) /\ mcount[u] \in Nat
          /\ mmsgs[u] \in Seq(FromDriver) /\ <<>> \in Seq(FromDriver)
      BY Facts DEF TypeOK
    <3> QED
      BY <1>12, <3>1 DEF WBegin, TypeOK
  <2> QED
    BY <1>12, <2>f, <2>1, <2>2 DEF WBegin, TypeOK, driver, wchild
<1>13. ASSUME NEW u \in Workers, NEW q \in Rounds, WEvent(u, q)
       PROVE  TypeOK'
  <2>f. sc' = sc /\ round' = round /\ Rounds' = Rounds
        /\ FromDriver' = FromDriver /\ ToDriver' = ToDriver
        /\ DriverScript' = DriverScript /\ WorkerScript' = WorkerScript
    BY <1>13 DEF WEvent, Rounds, Alloc, FromDriver, ToDriver, DriverScript, WorkerScript
  <2>1. chan' \in [Workers -> [Rounds -> Seq(FromDriver)]] /\ Head(chan[u][q]) \in FromDriver
    BY <1>13, Reading DEF WEvent
  <2>2. wcount' \in [Workers -> Nat] /\ wmsgs' \in [Workers -> Seq(FromDriver)]
    <3>1. wcount[u] \in Nat /\ wmsgs[u] \in Seq(FromDriver)
      BY DEF TypeOK
    <3>2. Append(wmsgs[u], Head(chan[u][q])) \in Seq(FromDriver) /\ wcount[u] + 1 \in Nat
      BY <2>1, <3>1, AppendProperties
    <3> QED
      BY <1>13, <3>2 DEF WEvent, TypeOK
  <2> QED
    BY <1>13, <2>f, <2>1, <2>2 DEF WEvent, TypeOK, driver, wchild
<1>14. ASSUME NEW u \in Workers, NEW q \in Rounds, WMainEvent(u, q)
       PROVE  TypeOK'
  <2>f. sc' = sc /\ round' = round /\ Rounds' = Rounds
        /\ FromDriver' = FromDriver /\ ToDriver' = ToDriver
        /\ DriverScript' = DriverScript /\ WorkerScript' = WorkerScript
    BY <1>14 DEF WMainEvent, Rounds, Alloc, FromDriver, ToDriver, DriverScript, WorkerScript
  <2>1. chan' \in [Workers -> [Rounds -> Seq(FromDriver)]] /\ Head(chan[u][q]) \in FromDriver
    BY <1>14, Reading DEF WMainEvent
  <2>2. mcount' \in [Workers -> Nat] /\ mmsgs' \in [Workers -> Seq(FromDriver)]
    <3>1. mcount[u] \in Nat /\ mmsgs[u] \in Seq(FromDriver)
      BY DEF TypeOK
    <3>2. Append(mmsgs[u], Head(chan[u][q])) \in Seq(FromDriver) /\ mcount[u] + 1 \in Nat
      BY <2>1, <3>1, AppendProperties
    <3> QED
      BY <1>14, <3>2 DEF WMainEvent, TypeOK
  <2> QED
    BY <1>14, <2>f, <2>1, <2>2 DEF WMainEvent, TypeOK, driver, wchild
<1>15. ASSUME NEW u \in Workers, NEW op, NEW k,
             <<op, k>> \in {<<"notify", "NOTIFY">>, <<"send", "USER_MESSAGE">>}, WSend(u, op, k)
       PROVE  TypeOK'
  <2>f. sc' = sc /\ round' = round /\ Rounds' = Rounds
        /\ FromDriver' = FromDriver /\ ToDriver' = ToDriver
        /\ DriverScript' = DriverScript /\ WorkerScript' = WorkerScript
    BY <1>15 DEF WSend, Rounds, Alloc, FromDriver, ToDriver, DriverScript, WorkerScript
  <2>1. wpos' \in [Workers -> 1..(Len(WorkerScript[round]) + 1)]
    BY <1>15, WorkerAt DEF WSend, WNext, TypeOK
  <2>2. Event(k, u) \in ToDriver
    BY <1>15, WorkerAt DEF WSend, Event, ToDriver, TypeOK
  <2> QED
    BY <1>15, <2>f, <2>1, <2>2 DEF WSend, TypeOK, driver, wchild
<1>16. ASSUME NEW u \in Workers, WWait(u)
       PROVE  TypeOK'
  <2>f. sc' = sc /\ round' = round /\ Rounds' = Rounds
        /\ FromDriver' = FromDriver /\ ToDriver' = ToDriver
        /\ DriverScript' = DriverScript /\ WorkerScript' = WorkerScript
    BY <1>16 DEF WWait, Rounds, Alloc, FromDriver, ToDriver, DriverScript, WorkerScript
  <2>1. wpos' \in [Workers -> 1..(Len(WorkerScript[round]) + 1)]
    BY <1>16, WorkerAt DEF WWait, WNext, TypeOK
  <2>2. wcount' \in [Workers -> Nat]
    <3>1. wcount[u] \in Nat /\ WNeeded(u) \in Nat /\ wcount[u] >= WNeeded(u)
      BY <1>16, WorkerAt DEF WWait, TypeOK
    <3>2. wcount[u] - WNeeded(u) \in Nat
      BY <3>1
    <3> QED
      BY <1>16, <3>2 DEF WWait, TypeOK
  <2> QED
    BY <1>16, <2>f, <2>1, <2>2 DEF WWait, TypeOK, driver, wchild
<1>17. ASSUME NEW u \in Workers, WRecv(u)
       PROVE  TypeOK'
  <2>f. sc' = sc /\ round' = round /\ Rounds' = Rounds
        /\ FromDriver' = FromDriver /\ ToDriver' = ToDriver
        /\ DriverScript' = DriverScript /\ WorkerScript' = WorkerScript
    BY <1>17 DEF WRecv, Rounds, Alloc, FromDriver, ToDriver, DriverScript, WorkerScript
  <2>1. wpos' \in [Workers -> 1..(Len(WorkerScript[round]) + 1)]
    BY <1>17, WorkerAt DEF WRecv, WNext, TypeOK
  <2>2. got' \in [Workers -> Seq(FromDriver)] /\ wmsgs' \in [Workers -> Seq(FromDriver)]
    <3>1. wmsgs[u] \in Seq(FromDriver) /\ wmsgs[u] # <<>> /\ got[u] \in Seq(FromDriver)
      BY <1>17 DEF WRecv, TypeOK
    <3>2. Append(got[u], Head(wmsgs[u])) \in Seq(FromDriver) /\ Tail(wmsgs[u]) \in Seq(FromDriver)
      BY <3>1, HeadTailProperties, AppendProperties
    <3> QED
      BY <1>17, <3>2 DEF WRecv, TypeOK
  <2> QED
    BY <1>17, <2>f, <2>1, <2>2 DEF WRecv, TypeOK, driver, wchild
<1>18. ASSUME NEW u \in Workers, WEnd(u)
       PROVE  TypeOK'
  <2>f. sc' = sc /\ round' = round /\ Rounds' = Rounds
        /\ FromDriver' = FromDriver /\ ToDriver' = ToDriver
        /\ DriverScript' = DriverScript /\ WorkerScript' = WorkerScript
    BY <1>18 DEF WEnd, Rounds, Alloc, FromDriver, ToDriver, DriverScript, WorkerScript
  <2> QED
    BY <1>18, <2>f DEF WEnd, TypeOK, driver, wchild
<1>19. CASE UNCHANGED vars
  <2>f. sc' = sc /\ round' = round /\ Rounds' = Rounds
        /\ FromDriver' = FromDriver /\ ToDriver' = ToDriver
        /\ DriverScript' = DriverScript /\ WorkerScript' = WorkerScript
    BY <1>19 DEF vars, Rounds, Alloc, FromDriver, ToDriver, DriverScript, WorkerScript
  <2> QED
    BY <1>19, <2>f DEF vars, TypeOK, driver, wchild
<1> QED
  BY <1>1, <1>2, <1>3, <1>4, <1>5, <1>6, <1>7, <1>8, <1>9, <1>10, <1>11, <1>12,
     <1>13, <1>14, <1>15, <1>16, <1>17, <1>18, <1>19 DEF Next, DriverStep,
     WorkerStep, PollAgain

-----------------------------------------------------------------------------
(* The bodies, and what a step is to one worker. *)

(* Bodies run on allocated workers, and a wait() at a wait operation. *)
LEMMA PlacesStep ==
    ASSUME TypeOK, Places, [Next]_vars
    PROVE  Places'
<1>1. CASE DNotify
  <2>1. dpc' = "waiting" => DOp("wait")'
    BY <1>1 DEF DNotify, Places, DOp, DriverScript, driver, wchild, DGone
  <2>2. /\ \A w \in Workers : wpc'[w] # "done" => w \in allocated'
        /\ \A w \in Workers : wpc'[w] = "main" => wpos'[w] = 1 /\ got'[w] = <<>>
    BY <1>1 DEF DNotify, Places, TypeOK, allocated, Alloc, driver, wchild
  <2>3. IsFiniteSet(inbox')
    BY <1>1 DEF DNotify, Places, driver, wchild, DGone
  <2> QED
    BY <2>1, <2>2, <2>3 DEF Places
<1>2. CASE DSend
  <2>1. dpc' = "waiting" => DOp("wait")'
    BY <1>2 DEF DSend, Places, DOp, DriverScript, driver, wchild, DGone
  <2>2. /\ \A w \in Workers : wpc'[w] # "done" => w \in allocated'
        /\ \A w \in Workers : wpc'[w] = "main" => wpos'[w] = 1 /\ got'[w] = <<>>
    BY <1>2 DEF DSend, Places, TypeOK, allocated, Alloc, driver, wchild
  <2>3. IsFiniteSet(inbox')
    BY <1>2 DEF DSend, Places, driver, wchild, DGone
  <2> QED
    BY <2>1, <2>2, <2>3 DEF Places
<1>3. CASE DWait
  <2>1. dpc' = "waiting" => DOp("wait")'
    BY <1>3 DEF DWait, Places, DOp, DriverScript, driver, wchild, DGone
  <2>2. /\ \A w \in Workers : wpc'[w] # "done" => w \in allocated'
        /\ \A w \in Workers : wpc'[w] = "main" => wpos'[w] = 1 /\ got'[w] = <<>>
    BY <1>3 DEF DWait, Places, TypeOK, allocated, Alloc, driver, wchild
  <2>3. IsFiniteSet(inbox')
    BY <1>3 DEF DWait, Places, driver, wchild, DGone
  <2> QED
    BY <2>1, <2>2, <2>3 DEF Places
<1>4. CASE DWaitEnd
  <2>1. dpc' = "waiting" => DOp("wait")'
    BY <1>4 DEF DWaitEnd, Places, DOp, DriverScript, driver, wchild, DGone
  <2>2. /\ \A w \in Workers : wpc'[w] # "done" => w \in allocated'
        /\ \A w \in Workers : wpc'[w] = "main" => wpos'[w] = 1 /\ got'[w] = <<>>
    BY <1>4 DEF DWaitEnd, Places, TypeOK, allocated, Alloc, driver, wchild
  <2>3. IsFiniteSet(inbox')
    BY <1>4 DEF DWaitEnd, Places, driver, wchild, DGone
  <2> QED
    BY <2>1, <2>2, <2>3 DEF Places
<1>5. CASE DRecv
  <2>1. dpc' = "waiting" => DOp("wait")'
    BY <1>5 DEF DRecv, Places, DOp, DriverScript, driver, wchild, DGone
  <2>2. /\ \A w \in Workers : wpc'[w] # "done" => w \in allocated'
        /\ \A w \in Workers : wpc'[w] = "main" => wpos'[w] = 1 /\ got'[w] = <<>>
    BY <1>5 DEF DRecv, Places, TypeOK, allocated, Alloc, driver, wchild
  <2>3. IsFiniteSet(inbox')
    BY <1>5 DEF DRecv, Places, driver, wchild, DGone
  <2> QED
    BY <2>1, <2>2, <2>3 DEF Places
<1>6. CASE DEnd
  <2>1. dpc' = "waiting" => DOp("wait")'
    BY <1>6 DEF DEnd, Places, DOp, DriverScript, driver, wchild, DGone
  <2>2. /\ \A w \in Workers : wpc'[w] # "done" => w \in allocated'
        /\ \A w \in Workers : wpc'[w] = "main" => wpos'[w] = 1 /\ got'[w] = <<>>
    BY <1>6 DEF DEnd, Places, TypeOK, allocated, Alloc, driver, wchild
  <2>3. IsFiniteSet(inbox')
    BY <1>6, FS_Subset DEF DEnd, Places, driver, wchild, DGone
  <2> QED
    BY <2>1, <2>2, <2>3 DEF Places
<1>7. CASE DTimeout
  <2>1. dpc' = "waiting" => DOp("wait")'
    BY <1>7 DEF DTimeout, Places, DOp, DriverScript, driver, wchild, DGone
  <2>2. /\ \A w \in Workers : wpc'[w] # "done" => w \in allocated'
        /\ \A w \in Workers : wpc'[w] = "main" => wpos'[w] = 1 /\ got'[w] = <<>>
    BY <1>7 DEF DTimeout, Places, TypeOK, allocated, Alloc, driver, wchild
  <2>3. IsFiniteSet(inbox')
    BY <1>7, FS_Subset DEF DTimeout, Places, driver, wchild, DGone
  <2> QED
    BY <2>1, <2>2, <2>3 DEF Places
<1>8. CASE NextRound
  <2>1. /\ dpc' = "body" /\ inbox' = inbox
        /\ wpc' = [w \in Workers |-> IF w \in Alloc[round'] THEN "main" ELSE "done"]
        /\ wpos' = [w \in Workers |-> 1] /\ got' = [w \in Workers |-> <<>>] /\ Alloc' = Alloc
    BY <1>8 DEF NextRound, Alloc
  <2> QED
    BY <2>1 DEF Places, allocated
<1>9. ASSUME NEW m \in inbox, DAccept(m)
      PROVE  Places'
  <2>1. dpc' = "waiting" => DOp("wait")'
    BY <1>9 DEF DAccept, Places, DOp, DriverScript, driver, wchild, DGone
  <2>2. /\ \A w \in Workers : wpc'[w] # "done" => w \in allocated'
        /\ \A w \in Workers : wpc'[w] = "main" => wpos'[w] = 1 /\ got'[w] = <<>>
    BY <1>9 DEF DAccept, Places, TypeOK, allocated, Alloc, driver, wchild
  <2>3. IsFiniteSet(inbox')
    BY <1>9 DEF DAccept, Places, driver, wchild, DGone
  <2> QED
    BY <2>1, <2>2, <2>3 DEF Places
<1>10. ASSUME NEW m \in inbox, DRecvNotify(m)
       PROVE  Places'
  <2>1. dpc' = "waiting" => DOp("wait")'
    BY <1>10 DEF DRecvNotify, Places, DOp, DriverScript, driver, wchild, DGone
  <2>2. /\ \A w \in Workers : wpc'[w] # "done" => w \in allocated'
        /\ \A w \in Workers : wpc'[w] = "main" => wpos'[w] = 1 /\ got'[w] = <<>>
    BY <1>10 DEF DRecvNotify, Places, TypeOK, allocated, Alloc, driver, wchild
  <2>3. IsFiniteSet(inbox')
    BY <1>10, FS_Subset DEF DRecvNotify, Places, driver, wchild, DGone
  <2> QED
    BY <2>1, <2>2, <2>3 DEF Places
<1>11. ASSUME NEW m \in inbox, DRecvMessage(m)
       PROVE  Places'
  <2>1. dpc' = "waiting" => DOp("wait")'
    BY <1>11 DEF DRecvMessage, Places, DOp, DriverScript, driver, wchild, DGone
  <2>2. /\ \A w \in Workers : wpc'[w] # "done" => w \in allocated'
        /\ \A w \in Workers : wpc'[w] = "main" => wpos'[w] = 1 /\ got'[w] = <<>>
    BY <1>11 DEF DRecvMessage, Places, TypeOK, allocated, Alloc, driver, wchild
  <2>3. IsFiniteSet(inbox')
    BY <1>11, FS_Subset DEF DRecvMessage, Places, driver, wchild, DGone
  <2> QED
    BY <2>1, <2>2, <2>3 DEF Places
<1>12. ASSUME NEW u \in Workers, NEW q \in Rounds, WBegin(u, q)
       PROVE  Places'
  <2>1. dpc' = "waiting" => DOp("wait")'
    BY <1>12 DEF WBegin, Places, DOp, DriverScript, driver, wchild, DGone
  <2>2. /\ \A w \in Workers : wpc'[w] # "done" => w \in allocated'
        /\ \A w \in Workers : wpc'[w] = "main" => wpos'[w] = 1 /\ got'[w] = <<>>
    BY <1>12 DEF WBegin, Places, TypeOK, allocated, Alloc, driver, wchild
  <2>3. IsFiniteSet(inbox')
    BY <1>12 DEF WBegin, Places, driver, wchild, DGone
  <2> QED
    BY <2>1, <2>2, <2>3 DEF Places
<1>13. ASSUME NEW u \in Workers, NEW q \in Rounds, WEvent(u, q)
       PROVE  Places'
  <2>1. dpc' = "waiting" => DOp("wait")'
    BY <1>13 DEF WEvent, Places, DOp, DriverScript, driver, wchild, DGone
  <2>2. /\ \A w \in Workers : wpc'[w] # "done" => w \in allocated'
        /\ \A w \in Workers : wpc'[w] = "main" => wpos'[w] = 1 /\ got'[w] = <<>>
    BY <1>13 DEF WEvent, Places, TypeOK, allocated, Alloc, driver, wchild
  <2>3. IsFiniteSet(inbox')
    BY <1>13 DEF WEvent, Places, driver, wchild, DGone
  <2> QED
    BY <2>1, <2>2, <2>3 DEF Places
<1>14. ASSUME NEW u \in Workers, NEW q \in Rounds, WMainEvent(u, q)
       PROVE  Places'
  <2>1. dpc' = "waiting" => DOp("wait")'
    BY <1>14 DEF WMainEvent, Places, DOp, DriverScript, driver, wchild, DGone
  <2>2. /\ \A w \in Workers : wpc'[w] # "done" => w \in allocated'
        /\ \A w \in Workers : wpc'[w] = "main" => wpos'[w] = 1 /\ got'[w] = <<>>
    BY <1>14 DEF WMainEvent, Places, TypeOK, allocated, Alloc, driver, wchild
  <2>3. IsFiniteSet(inbox')
    BY <1>14 DEF WMainEvent, Places, driver, wchild, DGone
  <2> QED
    BY <2>1, <2>2, <2>3 DEF Places
<1>15. ASSUME NEW u \in Workers, NEW op, NEW k,
             <<op, k>> \in {<<"notify", "NOTIFY">>, <<"send", "USER_MESSAGE">>}, WSend(u, op, k)
       PROVE  Places'
  <2>1. dpc' = "waiting" => DOp("wait")'
    BY <1>15 DEF WSend, Places, DOp, DriverScript, driver, wchild, DGone
  <2>a. wpc' = wpc /\ wpc[u] = "body" /\ allocated' = allocated
    BY <1>15 DEF WSend, allocated, Alloc, wchild
  <2>2. /\ \A w \in Workers : wpc'[w] # "done" => w \in allocated'
        /\ \A w \in Workers : wpc'[w] = "main" => wpos'[w] = 1 /\ got'[w] = <<>>
    BY <1>15, <2>a DEF WSend, WNext, Places, TypeOK, Alloc, driver, wchild
  <2>3. IsFiniteSet(inbox')
    BY <1>15, FS_AddElement DEF WSend, Places, driver, wchild, DGone
  <2> QED
    BY <2>1, <2>2, <2>3 DEF Places
<1>16. ASSUME NEW u \in Workers, WWait(u)
       PROVE  Places'
  <2>1. dpc' = "waiting" => DOp("wait")'
    BY <1>16 DEF WWait, Places, DOp, DriverScript, driver, wchild, DGone
  <2>a. wpc' = wpc /\ wpc[u] = "body" /\ allocated' = allocated
    BY <1>16 DEF WWait, allocated, Alloc, wchild
  <2>2. /\ \A w \in Workers : wpc'[w] # "done" => w \in allocated'
        /\ \A w \in Workers : wpc'[w] = "main" => wpos'[w] = 1 /\ got'[w] = <<>>
    BY <1>16, <2>a DEF WWait, WNext, Places, TypeOK, Alloc, driver, wchild
  <2>3. IsFiniteSet(inbox')
    BY <1>16 DEF WWait, Places, driver, wchild, DGone
  <2> QED
    BY <2>1, <2>2, <2>3 DEF Places
<1>17. ASSUME NEW u \in Workers, WRecv(u)
       PROVE  Places'
  <2>1. dpc' = "waiting" => DOp("wait")'
    BY <1>17 DEF WRecv, Places, DOp, DriverScript, driver, wchild, DGone
  <2>a. wpc' = wpc /\ wpc[u] = "body" /\ allocated' = allocated
    BY <1>17 DEF WRecv, allocated, Alloc, wchild
  <2>2. /\ \A w \in Workers : wpc'[w] # "done" => w \in allocated'
        /\ \A w \in Workers : wpc'[w] = "main" => wpos'[w] = 1 /\ got'[w] = <<>>
    BY <1>17, <2>a DEF WRecv, WNext, Places, TypeOK, Alloc, driver, wchild
  <2>3. IsFiniteSet(inbox')
    BY <1>17 DEF WRecv, Places, driver, wchild, DGone
  <2> QED
    BY <2>1, <2>2, <2>3 DEF Places
<1>18. ASSUME NEW u \in Workers, WEnd(u)
       PROVE  Places'
  <2>1. dpc' = "waiting" => DOp("wait")'
    BY <1>18 DEF WEnd, Places, DOp, DriverScript, driver, wchild, DGone
  <2>2. /\ \A w \in Workers : wpc'[w] # "done" => w \in allocated'
        /\ \A w \in Workers : wpc'[w] = "main" => wpos'[w] = 1 /\ got'[w] = <<>>
    BY <1>18 DEF WEnd, Places, TypeOK, allocated, Alloc, driver, wchild
  <2>3. IsFiniteSet(inbox')
    BY <1>18 DEF WEnd, Places, driver, wchild, DGone
  <2> QED
    BY <2>1, <2>2, <2>3 DEF Places
<1>19. CASE UNCHANGED vars
  BY <1>19 DEF vars, driver, wchild, Places, DOp, DriverScript, allocated, Alloc
<1> QED
  BY <1>1, <1>2, <1>3, <1>4, <1>5, <1>6, <1>7, <1>8, <1>9, <1>10, <1>11, <1>12,
     <1>13, <1>14, <1>15, <1>16, <1>17, <1>18, <1>19 DEF Next, DriverStep,
     WorkerStep, PollAgain


(* Nothing of worker w changes. *)
Still(w) == /\ wpc'[w] = wpc[w] /\ wpos'[w] = wpos[w] /\ wcount'[w] = wcount[w]
            /\ wmsgs'[w] = wmsgs[w] /\ got'[w] = got[w] /\ mcount'[w] = mcount[w]
            /\ mmsgs'[w] = mmsgs[w] /\ chan'[w] = chan[w]

(* The driver's body sends nothing. *)
Silent == /\ sc' = sc /\ round' = round
          /\ \/ dpos' = dpos
             \/ DOp("wait") /\ dpos' = dpos + 1
             \/ DOp("recv") /\ dpos' = dpos + 1
Aside(w) == Still(w) /\ Silent
OwnStep(w) == \/ \E r \in Rounds : WBegin(w, r) \/ WEvent(w, r) \/ WMainEvent(w, r)
              \/ WSend(w, "notify", "NOTIFY") \/ WSend(w, "send", "USER_MESSAGE")
              \/ WWait(w) \/ WRecv(w) \/ WEnd(w)

(* So every step is one of these. *)
LEMMA View ==
    ASSUME TypeOK, Places, [Next]_vars, NEW w \in Workers
    PROVE  NextRound \/ DNotify \/ DSend \/ Aside(w) \/ OwnStep(w)
<1>1. CASE DNotify
  BY <1>1
<1>2. CASE DSend
  BY <1>2
<1>3. CASE DWait
  BY <1>3 DEF DWait, Aside, Still, Silent, wchild, driver, DNext, Places
<1>4. CASE DWaitEnd
  BY <1>4 DEF DWaitEnd, Aside, Still, Silent, wchild, driver, DNext, Places
<1>5. CASE DRecv
  BY <1>5 DEF DRecv, Aside, Still, Silent, wchild, driver, DNext, Places
<1>6. CASE DEnd
  BY <1>6 DEF DEnd, Aside, Still, Silent, wchild, driver, DNext, Places
<1>7. CASE DTimeout
  BY <1>7 DEF DTimeout, Aside, Still, Silent, wchild, driver, DNext, Places
<1>8. CASE NextRound
  BY <1>8
<1>9. ASSUME NEW m \in inbox, DAccept(m)
      PROVE  NextRound \/ DNotify \/ DSend \/ Aside(w) \/ OwnStep(w)
  BY <1>9 DEF DAccept, Aside, Still, Silent, wchild, driver, DNext, Places
<1>10. ASSUME NEW m \in inbox, DRecvNotify(m)
       PROVE  NextRound \/ DNotify \/ DSend \/ Aside(w) \/ OwnStep(w)
  BY <1>10 DEF DRecvNotify, Aside, Still, Silent, wchild, driver, DNext, Places
<1>11. ASSUME NEW m \in inbox, DRecvMessage(m)
       PROVE  NextRound \/ DNotify \/ DSend \/ Aside(w) \/ OwnStep(w)
  BY <1>11 DEF DRecvMessage, Aside, Still, Silent, wchild, driver, DNext, Places
<1>12. ASSUME NEW u \in Workers, NEW q \in Rounds, WBegin(u, q)
       PROVE  NextRound \/ DNotify \/ DSend \/ Aside(w) \/ OwnStep(w)
  <2>1. CASE u = w
    BY <1>12, <2>1 DEF OwnStep
  <2>2. CASE u # w
    <3>1. chan'[w] = chan[w]
      BY <1>12, <2>2, Reading DEF WBegin
    <3> QED
      BY <1>12, <2>2, <3>1 DEF WBegin, Aside, Still, Silent, wchild, driver, TypeOK
  <2> QED
    BY <2>1, <2>2
<1>13. ASSUME NEW u \in Workers, NEW q \in Rounds, WEvent(u, q)
       PROVE  NextRound \/ DNotify \/ DSend \/ Aside(w) \/ OwnStep(w)
  <2>1. CASE u = w
    BY <1>13, <2>1 DEF OwnStep
  <2>2. CASE u # w
    <3>1. chan'[w] = chan[w]
      BY <1>13, <2>2, Reading DEF WEvent
    <3> QED
      BY <1>13, <2>2, <3>1 DEF WEvent, Aside, Still, Silent, wchild, driver, TypeOK
  <2> QED
    BY <2>1, <2>2
<1>14. ASSUME NEW u \in Workers, NEW q \in Rounds, WMainEvent(u, q)
       PROVE  NextRound \/ DNotify \/ DSend \/ Aside(w) \/ OwnStep(w)
  <2>1. CASE u = w
    BY <1>14, <2>1 DEF OwnStep
  <2>2. CASE u # w
    <3>1. chan'[w] = chan[w]
      BY <1>14, <2>2, Reading DEF WMainEvent
    <3> QED
      BY <1>14, <2>2, <3>1 DEF WMainEvent, Aside, Still, Silent, wchild, driver, TypeOK
  <2> QED
    BY <2>1, <2>2
<1>15. ASSUME NEW u \in Workers, NEW op, NEW k,
             <<op, k>> \in {<<"notify", "NOTIFY">>, <<"send", "USER_MESSAGE">>}, WSend(u, op, k)
       PROVE  NextRound \/ DNotify \/ DSend \/ Aside(w) \/ OwnStep(w)
  <2>1. CASE u = w
    BY <1>15, <2>1 DEF OwnStep
  <2>2. CASE u # w
    BY <1>15, <2>2 DEF WSend, WNext, Aside, Still, Silent, wchild, driver, TypeOK
  <2> QED
    BY <2>1, <2>2
<1>16. ASSUME NEW u \in Workers, WWait(u)
       PROVE  NextRound \/ DNotify \/ DSend \/ Aside(w) \/ OwnStep(w)
  <2>1. CASE u = w
    BY <1>16, <2>1 DEF OwnStep
  <2>2. CASE u # w
    BY <1>16, <2>2 DEF WWait, WNext, Aside, Still, Silent, wchild, driver, TypeOK
  <2> QED
    BY <2>1, <2>2
<1>17. ASSUME NEW u \in Workers, WRecv(u)
       PROVE  NextRound \/ DNotify \/ DSend \/ Aside(w) \/ OwnStep(w)
  <2>1. CASE u = w
    BY <1>17, <2>1 DEF OwnStep
  <2>2. CASE u # w
    BY <1>17, <2>2 DEF WRecv, WNext, Aside, Still, Silent, wchild, driver, TypeOK
  <2> QED
    BY <2>1, <2>2
<1>18. ASSUME NEW u \in Workers, WEnd(u)
       PROVE  NextRound \/ DNotify \/ DSend \/ Aside(w) \/ OwnStep(w)
  <2>1. CASE u = w
    BY <1>18, <2>1 DEF OwnStep
  <2>2. CASE u # w
    BY <1>18, <2>2 DEF WEnd, WNext, Aside, Still, Silent, wchild, driver, TypeOK
  <2> QED
    BY <2>1, <2>2
<1>19. CASE UNCHANGED vars
  BY <1>19 DEF vars, Aside, Still, Silent, wchild, driver
<1> QED
  BY <1>1, <1>2, <1>3, <1>4, <1>5, <1>6, <1>7, <1>8, <1>9, <1>10, <1>11, <1>12,
     <1>13, <1>14, <1>15, <1>16, <1>17, <1>18, <1>19 DEF Next, DriverStep,
     WorkerStep, PollAgain

-----------------------------------------------------------------------------
(* The connections. *)

(* Sequences whose positions ascend still do when a later one is appended  *)
(* or the first one taken.                                                 *)
LEMMA AppendFacts ==
    ASSUME NEW S, NEW s \in Seq(S), NEW m \in S
    PROVE  /\ Append(s, m) \in Seq(S) /\ Len(s) \in Nat /\ Len(Append(s, m)) = Len(s) + 1
           /\ DOMAIN s = 1..Len(s) /\ DOMAIN Append(s, m) = 1..(Len(s) + 1)
           /\ Append(s, m)[Len(s) + 1] = m /\ \A i \in 1..Len(s) : Append(s, m)[i] = s[i]
BY AppendProperties, LenProperties

LEMMA TailFacts ==
    ASSUME NEW S, NEW s \in Seq(S), s # <<>>
    PROVE  /\ Tail(s) \in Seq(S) /\ Len(s) \in Nat /\ Len(s) > 0 /\ Len(Tail(s)) = Len(s) - 1
           /\ DOMAIN s = 1..Len(s) /\ DOMAIN Tail(s) = 1..(Len(s) - 1)
           /\ Head(s) = s[1] /\ \A i \in 1..(Len(s) - 1) : Tail(s)[i] = s[i + 1]
BY HeadTailProperties, LenProperties, EmptySeq

(* The next message of the driver keeps the order, ... *)
LEMMA AscendingAppend ==
    ASSUME NEW s \in Seq(FromDriver), NEW m \in FromDriver, NEW p \in Nat, Ascending(s, m.round, p),
           m.pos = p
    PROVE  Ascending(Append(s, m), m.round, p + 1)
<1> DEFINE t == Append(s, m)
<1>1. /\ Len(s) \in Nat /\ DOMAIN s = 1..Len(s) /\ DOMAIN t = 1..(Len(s) + 1)
      /\ t[Len(s) + 1] = m /\ \A i \in 1..Len(s) : t[i] = s[i]
  BY AppendFacts
<1>1a. \A i \in DOMAIN s : s[i] \in FromDriver
  BY <1>1, ElementOfSeq
<1>2. \A i \in DOMAIN s : s[i].pos \in Nat
  BY <1>1a DEF FromDriver
<1> HIDE DEF t
<1>3. \A i \in DOMAIN t : i \in DOMAIN s \/ i = Len(s) + 1
  BY <1>1
<1>4. \A i \in DOMAIN t : t[i].round = m.round /\ t[i].pos < p + 1
  BY <1>1, <1>2, <1>3 DEF Ascending
<1>5. \A i, j \in DOMAIN t : i < j => t[i].pos < t[j].pos
  BY <1>1, <1>2, <1>3 DEF Ascending
<1> QED
  BY <1>4, <1>5 DEF Ascending, t

(* ... and so does taking the first one away. *)
LEMMA AscendingTail ==
    ASSUME NEW S, NEW s \in Seq(S), s # <<>>, NEW r, NEW p, Ascending(s, r, p)
    PROVE  Ascending(Tail(s), r, p)
BY TailFacts DEF Ascending

(* The driver sends to w. *)
LEMMA WiresSend ==
    ASSUME TypeOK, Places, NEW w \in Workers, Wires(w), NEW op, DOp(op), DNext,
           NEW k \in {"NOTIFY", "USER_MESSAGE"}, ToAll(k),
           UNCHANGED <<sc, round, wchild, mcount, mmsgs>>
    PROVE  Wires(w)'
<1>1. /\ Rounds' = Rounds /\ allocated' = allocated /\ Remote' = Remote /\ round' = round
      /\ wpc' = wpc /\ mcount' = mcount /\ mmsgs' = mmsgs /\ round \in Rounds
  BY DEF Rounds, allocated, Remote, Alloc, wchild, TypeOK
<1>2. dpos' = dpos + 1 /\ dpos \in Nat
  BY DriverAt DEF DNext
<1>3. CASE w \notin allocated
  <2>1. chan'[w] = chan[w] /\ chan[w][round] = <<>>
    BY <1>1, <1>3, Sending, Facts DEF Wires
  <2> QED
    BY <1>1, <1>3, <2>1, LenProperties DEF Wires
<1>4. CASE w \in allocated
  <2> DEFINE s == chan[w][round]
             m == ToWorker(k)
  <2>1. /\ m \in FromDriver /\ m.kind = k /\ m.round = round /\ m.pos = dpos
        /\ chan'[w][round] = Append(s, m)
        /\ \A q \in Rounds : q # round => chan'[w][q] = chan[w][q]
    BY <1>4, Sending
  <2>2. s \in Seq(FromDriver)
    BY <1>1 DEF TypeOK
  <2> HIDE DEF s, m
  <2>3. /\ Len(s) \in Nat /\ DOMAIN s = 1..Len(s) /\ DOMAIN Append(s, m) = 1..(Len(s) + 1)
        /\ Append(s, m)[Len(s) + 1] = m /\ \A i \in 1..Len(s) : Append(s, m)[i] = s[i]
    BY <2>1, <2>2, AppendFacts
  <2>4. Ascending(s, round, dpos)
    BY DEF Wires, Ascending, s
  <2>5. Ascending(Append(s, m), round, dpos + 1)
    BY <1>2, <2>1, <2>2, <2>4, AscendingAppend
  <2>6. /\ \A i \in DOMAIN Append(s, m) :
              Append(s, m)[i].kind = "RUN_TEST" => i = 1 /\ wpc[w] = "main"
        /\ wpc[w] = "main" => Append(s, m) # <<>> /\ Append(s, m)[1].kind = "RUN_TEST"
    <3>1. /\ \A i \in DOMAIN s : s[i].kind = "RUN_TEST" => i = 1 /\ wpc[w] = "main"
          /\ wpc[w] = "main" => s # <<>> /\ s[1].kind = "RUN_TEST"
      BY <1>1 DEF Wires, s
    <3>2. ASSUME NEW i \in DOMAIN Append(s, m), Append(s, m)[i].kind = "RUN_TEST"
          PROVE  i = 1 /\ wpc[w] = "main"
      <4>1. i \in DOMAIN s \/ i = Len(s) + 1
        BY <2>3
      <4> QED
        BY <2>1, <2>3, <3>1, <3>2, <4>1
    <3>3. ASSUME wpc[w] = "main"
          PROVE  Append(s, m) # <<>> /\ Append(s, m)[1].kind = "RUN_TEST"
      <4>1. Len(s) > 0
        BY <2>2, <2>3, <3>1, <3>3, EmptySeq
      <4>2. 1 \in DOMAIN Append(s, m) /\ Append(s, m)[1] = s[1]
        BY <2>3, <4>1
      <4> QED
        BY <3>1, <3>3, <4>2, EmptySeq
    <3> QED
      BY <3>2, <3>3
  <2>7. ASSUME NEW q \in Rounds
        PROVE  /\ q > round => chan'[w][q] = <<>>
               /\ \A i \in DOMAIN chan'[w][q] :
                     chan'[w][q][i].kind = "RUN_TEST" => i = 1 /\ q = round /\ wpc[w] = "main"
    <3>1. CASE q = round
      <4>1. chan'[w][q] = Append(s, m) /\ ~(q > round)
        BY <2>1, <3>1, Facts
      <4> QED
        BY <2>6, <3>1, <4>1
    <3>2. CASE q # round
      BY <2>1, <3>2 DEF Wires
    <3> QED
      BY <3>1, <3>2
  <2>8. w \notin Remote => /\ \A q \in Rounds \ {round} : chan'[w][q] = <<>>
                           /\ mcount[w] = 0 /\ mmsgs[w] = <<>>
    BY <2>1 DEF Wires
  <2> QED
    BY <1>1, <1>2, <1>4, <2>1, <2>5, <2>6, <2>7, <2>8 DEF Wires, Ascending
<1> QED
  BY <1>3, <1>4

(* The worker reads from round q. *)
LEMMA WiresRead ==
    ASSUME TypeOK, Places, NEW w \in Workers, Wires(w), NEW q \in Rounds, Readable(w, q), Read(w, q),
           UNCHANGED <<sc, round, driver>>,
           w \notin Remote => UNCHANGED <<mcount, mmsgs>>,
           wpc'[w] = wpc[w] \/ q = round, q = round => wpc'[w] # "main"
    PROVE  Wires(w)'
<1>1. /\ Rounds' = Rounds /\ allocated' = allocated /\ Remote' = Remote /\ round' = round
      /\ dpos' = dpos /\ round \in Rounds
  BY DEF Rounds, allocated, Remote, Alloc, driver, TypeOK
<1>2. /\ chan'[w][q] = Tail(chan[w][q]) /\ chan[w][q] \in Seq(FromDriver) /\ chan[w][q] # <<>>
      /\ \A r \in Rounds : r # q => chan'[w][r] = chan[w][r]
  BY Reading DEF Readable
<1>3. /\ DOMAIN chan'[w][q] = 1..(Len(chan[w][q]) - 1) /\ Len(chan[w][q]) \in Nat
      /\ DOMAIN chan[w][q] = 1..Len(chan[w][q])
      /\ \A i \in 1..(Len(chan[w][q]) - 1) : chan'[w][q][i] = chan[w][q][i + 1]
  BY <1>2, TailFacts
<1>4. \A r \in Rounds : r > round \/ (r = round /\ w \notin allocated) => chan'[w][r] = <<>>
  BY <1>2 DEF Wires
<1>5. w \notin Remote => /\ \A r \in Rounds \ {round} : chan'[w][r] = <<>>
                         /\ mcount'[w] = 0 /\ mmsgs'[w] = <<>>
  BY <1>2 DEF Wires
<1>6. ASSUME NEW r \in Rounds, NEW i \in DOMAIN chan'[w][r], chan'[w][r][i].kind = "RUN_TEST"
      PROVE  i = 1 /\ r = round /\ wpc'[w] = "main"
  <2>1. CASE r = q
    <3>0. i \in 1..(Len(chan[w][q]) - 1)
      BY <1>3, <1>6, <2>1
    <3>1. i + 1 \in 1..Len(chan[w][q]) /\ i + 1 # 1 /\ chan'[w][q][i] = chan[w][q][i + 1]
      BY <1>3, <3>0
    <3>2. i + 1 \in DOMAIN chan[w][q] /\ chan[w][q][i + 1].kind = "RUN_TEST"
      BY <1>3, <1>6, <2>1, <3>1
    <3> QED
      BY <3>1, <3>2 DEF Wires
  <2>2. CASE r # q
    <3>1. i = 1 /\ r = round /\ wpc[w] = "main"
      BY <1>2, <1>6, <2>2 DEF Wires
    <3>2. q > round => FALSE
      BY <1>2 DEF Wires
    <3>3. wpc'[w] = "main"
      BY <3>1, <2>2
    <3> QED
      BY <3>1, <3>3
  <2> QED
    BY <2>1, <2>2
<1>7. wpc'[w] = "main" => chan'[w][round] # <<>> /\ chan'[w][round][1].kind = "RUN_TEST"
  BY <1>1, <1>2 DEF Wires
<1>8. Ascending(chan'[w][round], round, dpos)
  <2>1. Ascending(chan[w][round], round, dpos)
    BY DEF Wires, Ascending
  <2>2. CASE q = round
    BY <1>2, <2>1, <2>2, AscendingTail
  <2>3. CASE q # round
    BY <1>1, <1>2, <2>1, <2>3
  <2> QED
    BY <2>2, <2>3
<1> QED
  BY <1>1, <1>4, <1>5, <1>6, <1>7, <1>8 DEF Wires, Ascending

(* What the next round finds. *)
LEMMA RoundFacts ==
    ASSUME TypeOK, Places, NextRound
    PROVE  /\ sc' = sc /\ Alloc' = Alloc /\ Rounds' = Rounds /\ Remote' = Remote
           /\ round' = round + 1 /\ round' \in Rounds /\ round \in Nat /\ round \in Rounds
           /\ allocated' \subseteq Workers
           /\ dpc = "over" /\ dpc' = "body" /\ dpos' = 1 /\ dmsgs' = <<>> /\ pulled' = {}
           /\ inbox' = inbox /\ accepted' = accepted
           /\ \A w \in Workers :
                 /\ wpc[w] = "done" /\ dcount'[w] = 0 /\ pulls'[w] = 0
                 /\ wpc'[w] = IF w \in allocated' THEN "main" ELSE "done"
                 /\ wpos'[w] = 1 /\ got'[w] = <<>>
                 /\ mcount'[w] = IF w \in Remote THEN mcount[w] ELSE 0
                 /\ mmsgs'[w] = IF w \in Remote THEN mmsgs[w] ELSE <<>>
                 /\ \A r \in Rounds : r # round' =>
                       chan'[w][r] = IF w \in Remote THEN chan[w][r] ELSE <<>>
                 /\ w \in allocated' =>
                       chan'[w][round'] = <<[kind |-> "RUN_TEST", round |-> round', pos |-> 0]>>
                 /\ w \notin allocated' =>
                       chan'[w][round'] = IF w \in Remote THEN chan[w][round'] ELSE <<>>
<1>1. /\ sc' = sc /\ Alloc' = Alloc /\ Rounds' = Rounds /\ Remote' = Remote
      /\ round' = round + 1 /\ round < Len(Alloc)
  BY DEF NextRound, Alloc, Rounds, Remote
<1>2. round' \in Rounds /\ round \in Nat /\ round \in Rounds
  BY <1>1, Facts DEF Rounds
<1>3. allocated' = Alloc[round'] /\ allocated' \subseteq Workers
  BY <1>1, <1>2, ScenarioFacts DEF allocated, TypeOK, Rounds, Alloc
<1>4. \A w \in Workers : wpc[w] = "done"
  BY DEF NextRound, Places
<1>5. ASSUME NEW w \in Workers
      PROVE  /\ \A r \in Rounds : r # round' =>
                   chan'[w][r] = IF w \in Remote THEN chan[w][r] ELSE <<>>
             /\ w \in allocated' =>
                   chan'[w][round'] = <<[kind |-> "RUN_TEST", round |-> round', pos |-> 0]>>
             /\ w \notin allocated' =>
                   chan'[w][round'] = IF w \in Remote THEN chan[w][round'] ELSE <<>>
  <2>1. chan'[w] = [r \in Rounds |->
              IF r = round' /\ w \in Alloc[r]
              THEN <<[kind |-> "RUN_TEST", round |-> r, pos |-> 0]>>
              ELSE IF w \in Remote THEN chan[w][r] ELSE <<>>]
    BY DEF NextRound
  <2> QED
    BY <1>2, <1>3, <2>1
<1> QED
  BY <1>1, <1>2, <1>3, <1>4, <1>5 DEF NextRound

(* A new connection begins with RUN_TEST. *)
LEMMA WiresNew ==
    ASSUME TypeOK, Places, NEW w \in Workers, Wires(w), NextRound
    PROVE  Wires(w)'
<1> DEFINE m == [kind |-> "RUN_TEST", round |-> round', pos |-> 0]
<1>1. \A r \in Rounds : r > round' => r > round
  BY RoundFacts DEF Rounds
<1>2. \A r \in Rounds : r > round => chan[w][r] = <<>>
  BY DEF Wires
<1>3. round' > round /\ Rounds' = Rounds /\ Remote' = Remote /\ dpos' = 1
  BY RoundFacts
<1>4. w \notin allocated' => chan'[w][round'] = <<>>
  BY <1>2, <1>3, RoundFacts
<1>5. \A r \in Rounds : r > round' \/ (r = round' /\ w \notin allocated') => chan'[w][r] = <<>>
  BY <1>1, <1>2, <1>4, RoundFacts
<1>6. \A r \in Rounds : \A i \in DOMAIN chan[w][r] : chan[w][r][i].kind # "RUN_TEST"
  BY RoundFacts DEF Wires
<1>7. ASSUME NEW r \in Rounds, NEW i \in DOMAIN chan'[w][r], chan'[w][r][i].kind = "RUN_TEST"
      PROVE  i = 1 /\ r = round' /\ wpc'[w] = "main"
  <2>1. CASE r = round' /\ w \in allocated'
    <3>1. chan'[w][r] = <<m>> /\ wpc'[w] = "main"
      BY <2>1, RoundFacts
    <3>2. DOMAIN <<m>> = {1}
      OBVIOUS
    <3> QED
      BY <1>7, <2>1, <3>1, <3>2
  <2>2. CASE ~(r = round' /\ w \in allocated')
    <3>1. chan'[w][r] = <<>> \/ chan'[w][r] = chan[w][r]
      BY <1>4, <2>2, RoundFacts
    <3>2. DOMAIN <<>> = {}
      OBVIOUS
    <3> QED
      BY <1>6, <1>7, <3>1, <3>2
  <2> QED
    BY <2>1, <2>2
<1>8. wpc'[w] = "main" => chan'[w][round'] # <<>> /\ chan'[w][round'][1].kind = "RUN_TEST"
  BY RoundFacts
<1>9. Ascending(chan'[w][round'], round', dpos')
  <2>1. CASE w \in allocated'
    <3>1. chan'[w][round'] = <<m>> /\ m.round = round' /\ m.pos = 0 /\ dpos' = 1
      BY <2>1, RoundFacts
    <3>2. DOMAIN <<m>> = {1} /\ <<m>>[1] = m
      OBVIOUS
    <3> HIDE DEF m
    <3> QED
      BY <3>1, <3>2 DEF Ascending
  <2>2. CASE w \notin allocated'
    BY <1>4, <2>2 DEF Ascending
  <2> QED
    BY <2>1, <2>2
<1>10. w \notin Remote => /\ \A r \in Rounds \ {round'} : chan'[w][r] = <<>>
                          /\ mcount'[w] = 0 /\ mmsgs'[w] = <<>>
  BY RoundFacts
<1> QED
  BY <1>3, <1>5, <1>7, <1>8, <1>9, <1>10 DEF Wires, Ascending

(* A step that leaves the worker alone. *)
LEMMA WiresAside ==
    ASSUME TypeOK, NEW w \in Workers, Wires(w), sc' = sc, round' = round,
           wpc'[w] = wpc[w], mcount'[w] = mcount[w], mmsgs'[w] = mmsgs[w], chan'[w] = chan[w],
           dpos' \in Nat, dpos' >= dpos
    PROVE  Wires(w)'
<1>1. /\ Rounds' = Rounds /\ allocated' = allocated /\ Remote' = Remote /\ round \in Rounds
      /\ dpos \in Nat
  BY DEF Rounds, allocated, Remote, Alloc, TypeOK
<1>2. \A i \in DOMAIN chan[w][round] : chan[w][round][i].pos \in Nat
  <2>1. chan[w][round] \in Seq(FromDriver)
    BY <1>1 DEF TypeOK
  <2>2. \A i \in DOMAIN chan[w][round] : chan[w][round][i] \in FromDriver
    BY <2>1, ElementOfSeq, LenProperties
  <2> QED
    BY <2>2 DEF FromDriver
<1>3. \A i \in DOMAIN chan[w][round] : chan[w][round][i].pos < dpos'
  <2>1. ASSUME NEW i \in DOMAIN chan[w][round]
        PROVE  chan[w][round][i].pos < dpos'
    <3>1. chan[w][round][i].pos \in Nat /\ chan[w][round][i].pos < dpos
      BY <1>2, <2>1 DEF Wires
    <3> QED
      BY <1>1, <3>1
  <2> QED
    BY <2>1
<1> QED
  BY <1>1, <1>3 DEF Wires

(* Every step keeps the connections in order. *)
LEMMA WiresStep ==
    ASSUME TypeOK, Places, [Next]_vars, NEW w \in Workers, Wires(w)
    PROVE  Wires(w)'
<1>1. CASE NextRound
  BY <1>1, WiresNew
<1>2. CASE DNotify
  BY <1>2, WiresSend DEF DNotify
<1>3. CASE DSend
  BY <1>3, WiresSend DEF DSend
<1>4. CASE Aside(w)
  <2>1. dpos \in Nat
    BY Facts DEF TypeOK
  <2>2. dpos' \in Nat /\ dpos' >= dpos
    BY <1>4, <2>1 DEF Aside, Silent
  <2> QED
    BY <1>4, <2>2, WiresAside DEF Aside, Still, Silent
<1>5. ASSUME NEW r \in Rounds, WBegin(w, r)
      PROVE  Wires(w)'
  <2>1. r = round
    <3>1. Readable(w, r) /\ Head(chan[w][r]).kind = "RUN_TEST"
      BY <1>5 DEF WBegin
    <3>2. 1 \in DOMAIN chan[w][r] /\ chan[w][r][1].kind = "RUN_TEST"
      BY <3>1, Reading, TailFacts DEF Readable
    <3> QED
      BY <3>2 DEF Wires
  <2>2. wpc'[w] = "body" /\ UNCHANGED <<sc, round, driver, mcount, mmsgs>> /\ Readable(w, r)
        /\ Read(w, r)
    BY <1>5 DEF WBegin, TypeOK
  <2> QED
    BY <2>1, <2>2, WiresRead
<1>6. ASSUME NEW r \in Rounds, WEvent(w, r)
      PROVE  Wires(w)'
  <2>1. wpc[w] = "body" /\ wpc'[w] = wpc[w] /\ UNCHANGED <<sc, round, driver, mcount, mmsgs>>
        /\ Readable(w, r) /\ Read(w, r)
    BY <1>6 DEF WEvent, WPolling
  <2> QED
    BY <2>1, WiresRead
<1>7. ASSUME NEW r \in Rounds, WMainEvent(w, r)
      PROVE  Wires(w)'
  <2>1. wpc'[w] = wpc[w] /\ UNCHANGED <<sc, round, driver>> /\ Readable(w, r) /\ Read(w, r)
        /\ w \in Remote /\ Head(chan[w][r]).kind # "RUN_TEST"
    BY <1>7 DEF WMainEvent, wchild
  <2>2. r = round => wpc[w] # "main"
    BY <2>1, Reading DEF Wires
  <2> QED
    BY <2>1, <2>2, WiresRead
<1>8. ASSUME \/ WSend(w, "notify", "NOTIFY") \/ WSend(w, "send", "USER_MESSAGE")
             \/ WWait(w) \/ WRecv(w) \/ WEnd(w)
      PROVE  Wires(w)'
  <2>1. /\ sc' = sc /\ round' = round /\ mcount' = mcount /\ mmsgs' = mmsgs /\ chan' = chan
        /\ dpos' = dpos /\ wpc[w] = "body" /\ wpc'[w] # "main"
        /\ \/ wpc' = wpc
           \/ wpc'[w] = "done"
    BY <1>8 DEF WSend, WWait, WRecv, WEnd, driver, TypeOK
  <2>2. /\ Rounds' = Rounds /\ allocated' = allocated /\ Remote' = Remote
    BY <2>1 DEF Rounds, allocated, Remote, Alloc
  <2> QED
    BY <2>1, <2>2 DEF Wires
<1> QED
  BY <1>1, <1>2, <1>3, <1>4, <1>5, <1>6, <1>7, <1>8, View DEF OwnStep
-----------------------------------------------------------------------------
(* Rounds, and what a worker's step is to the driver. *)

(* Within a round these mean the same before and after a step; *)
LEMMA SameRound ==
    ASSUME sc' = sc, round' = round
    PROVE  /\ (Untouched' <=> Untouched) /\ (Clean' <=> Clean) /\ (Tidy' <=> Tidy)
           /\ allocated' = allocated /\ Rounds' = Rounds /\ Remote' = Remote
           /\ DriverScript' = DriverScript /\ WorkerScript' = WorkerScript
           /\ (Consumed(round)' <=> Consumed(round))
           /\ (\A w : Mine(w)' <=> Mine(w))
<1>1. /\ allocated' = allocated /\ Rounds' = Rounds /\ Remote' = Remote /\ Alloc' = Alloc
      /\ DriverScript' = DriverScript /\ WorkerScript' = WorkerScript
  BY DEF allocated, Rounds, Remote, Alloc, DriverScript, WorkerScript
<1>2. \A r : Consumed(r)' <=> Consumed(r)
  BY <1>1 DEF Consumed, Count
<1>3. Clean' <=> Clean
  BY <1>2 DEF Clean
<1>4. Consumed(round)' <=> Consumed(round)
  BY <1>1 DEF Consumed, Count
<1>5. (Untouched' <=> Untouched) /\ (Tidy' <=> Tidy)
  BY <1>3, <1>4 DEF Untouched, Tidy
<1> QED
  BY <1>1, <1>3, <1>4, <1>5 DEF Mine

(* a later round is untouched only if the one before it was tidy. *)
LEMMA UntouchedNext ==
    ASSUME TypeOK, Places, NextRound, Untouched'
    PROVE  Tidy /\ Clean /\ Untouched
<1>1. round' = round + 1 /\ round \in Nat /\ round >= 1 /\ sc' = sc
  BY RoundFacts DEF Rounds
<1>2. \A r : Consumed(r)' <=> Consumed(r)
  BY <1>1 DEF Consumed, Count, DriverScript, WorkerScript, Alloc
<1>3. Clean'
  BY <1>1 DEF Untouched
<1>4. (\A r \in 1..round : Consumed(r)) /\ ~sc.dtimeout /\ ~sc.wtimeout
  BY <1>1, <1>2, <1>3 DEF Clean
<1>5. round \in 1..round /\ \A r \in 1..(round - 1) : r \in 1..round
  BY <1>1
<1> QED
  BY <1>4, <1>5 DEF Clean, Tidy, Untouched

(* What a body has done, as a count. *)
LEMMA DoneIs ==
    /\ \A op : DDone(op) = Upto(DriverScript[round], dpos, op)
    /\ \A w, op : WDone(w, op) = Upto(WorkerScript[round], wpos[w], op)
    /\ \A w : Notified(w) = Cardinality(Upto(WorkerScript[round], wpos[w], "notify"))
BY DEF DDone, WDone, Notified, Upto

LEMMA DoneType ==
    ASSUME TypeOK, NEW op
    PROVE  /\ Cardinality(DDone(op)) \in Nat /\ IsFiniteSet(DDone(op))
           /\ Cardinality(DDone(op)) <= Count(DriverScript[round], op)
           /\ Count(DriverScript[round], op) \in Nat /\ Count(WorkerScript[round], op) \in Nat
           /\ \A w \in Workers : /\ Cardinality(WDone(w, op)) \in Nat /\ IsFiniteSet(WDone(w, op))
                                 /\ Cardinality(WDone(w, op)) <= Count(WorkerScript[round], op)
                                 /\ WDone(w, op) \subseteq 1..Len(WorkerScript[round])
<1>1. /\ DriverScript[round] \in Seq(Operations) /\ WorkerScript[round] \in Seq(Operations)
      /\ dpos \in 1..(Len(DriverScript[round]) + 1)
      /\ \A w \in Workers : wpos[w] \in 1..(Len(WorkerScript[round]) + 1)
  BY Facts DEF TypeOK
<1>2. /\ Count(DriverScript[round], op) = Cardinality(All(DriverScript[round], op))
      /\ Count(WorkerScript[round], op) = Cardinality(All(WorkerScript[round], op))
  BY <1>1, CountEnds
<1>3. /\ Cardinality(Upto(DriverScript[round], dpos, op)) \in Nat
      /\ IsFiniteSet(Upto(DriverScript[round], dpos, op))
      /\ Cardinality(Upto(DriverScript[round], dpos, op))
            <= Cardinality(All(DriverScript[round], op))
      /\ Cardinality(All(DriverScript[round], op)) \in Nat
  BY <1>1, Counting
<1>4. ASSUME NEW n \in 1..(Len(WorkerScript[round]) + 1)
      PROVE  /\ Cardinality(Upto(WorkerScript[round], n, op)) \in Nat
             /\ IsFiniteSet(Upto(WorkerScript[round], n, op))
             /\ Upto(WorkerScript[round], n, op) \subseteq 1..Len(WorkerScript[round])
             /\ Cardinality(Upto(WorkerScript[round], n, op))
                   <= Cardinality(All(WorkerScript[round], op))
             /\ Cardinality(All(WorkerScript[round], op)) \in Nat
  BY <1>1, <1>4, Counting
<1>5. 1 \in 1..(Len(WorkerScript[round]) + 1)
  BY Facts
<1> QED
  BY <1>1, <1>2, <1>3, <1>4, <1>5, DoneIs, Zenon

(* The driver's body goes on by one operation, *)
LEMMA DriverDone ==
    ASSUME TypeOK, NEW o, DOp(o), DNext, sc' = sc, round' = round
    PROVE  /\ \A op : op # o => DDone(op)' = DDone(op)
           /\ Cardinality(DDone(o)') = Cardinality(DDone(o)) + 1
           /\ DDone(o)' = DDone(o) \union {dpos} /\ dpos \notin DDone(o)
           /\ Cardinality(DDone(o)) < Count(DriverScript[round], o)
           /\ dpos \in Nat /\ dpos' = dpos + 1
<1>1. /\ DriverScript[round] \in Seq(Operations) /\ dpos \in 1..Len(DriverScript[round])
      /\ DriverScript[round][dpos].op = o /\ dpos \in Nat
  BY Facts, DriverAt
<1>2. dpos' = dpos + 1 /\ DriverScript' = DriverScript
  BY SameRound DEF DNext
<1>3. \A op : DDone(op)' = Upto(DriverScript[round], dpos + 1, op)
  BY <1>2 DEF DDone, Upto
<1>4. \A op : op # o => Upto(DriverScript[round], dpos + 1, op)
                         = Upto(DriverScript[round], dpos, op)
  BY <1>1, CountNext
<1>4a. /\ Upto(DriverScript[round], dpos + 1, o)
            = Upto(DriverScript[round], dpos, o) \union {dpos}
       /\ dpos \notin Upto(DriverScript[round], dpos, o)
  <2>1. Upto(DriverScript[round], dpos + 1, o)
          = Upto(DriverScript[round], dpos, o) \union {dpos}
    BY <1>1, CountNext
  <2>2. dpos \notin Upto(DriverScript[round], dpos, o)
    BY <1>1 DEF Upto
  <2> QED
    BY <2>1, <2>2
<1>4b. Cardinality(Upto(DriverScript[round], dpos + 1, o))
         = Cardinality(Upto(DriverScript[round], dpos, o)) + 1
  BY <1>1, CountNext
<1>4c. Cardinality(Upto(DriverScript[round], dpos, o))
         < Cardinality(All(DriverScript[round], o))
  BY <1>1, CountNext
<1>5. Count(DriverScript[round], o) = Cardinality(All(DriverScript[round], o))
  BY <1>1, CountEnds
<1> QED
  BY <1>1, <1>2, <1>3, <1>4, <1>4a, <1>4b, <1>4c, <1>5, DoneIs

(* or a worker's does. *)
LEMMA WorkerDone ==
    ASSUME TypeOK, NEW u \in Workers, NEW o, WOp(u, o), WNext(u), sc' = sc, round' = round
    PROVE  /\ \A op : op # o => WDone(u, op)' = WDone(u, op)
           /\ \A w \in Workers : \A op : w # u => WDone(w, op)' = WDone(w, op)
           /\ Cardinality(WDone(u, o)') = Cardinality(WDone(u, o)) + 1
           /\ WDone(u, o)' = WDone(u, o) \union {wpos[u]} /\ wpos[u] \notin WDone(u, o)
           /\ Cardinality(WDone(u, o)) < Count(WorkerScript[round], o)
           /\ wpos[u] \in Nat /\ wpos'[u] = wpos[u] + 1
           /\ \A w \in Workers : w # u => wpos'[w] = wpos[w]
<1>1. /\ WorkerScript[round] \in Seq(Operations) /\ wpos[u] \in 1..Len(WorkerScript[round])
      /\ WorkerScript[round][wpos[u]].op = o /\ wpos[u] \in Nat
  BY Facts, WorkerAt
<1>2. /\ wpos'[u] = wpos[u] + 1 /\ WorkerScript' = WorkerScript
      /\ \A w \in Workers : w # u => wpos'[w] = wpos[w]
  BY SameRound DEF WNext, TypeOK
<1>3. \A op : WDone(u, op)' = Upto(WorkerScript[round], wpos[u] + 1, op)
  BY <1>2 DEF WDone, Upto
<1>4. \A op : op # o => Upto(WorkerScript[round], wpos[u] + 1, op)
                         = Upto(WorkerScript[round], wpos[u], op)
  BY <1>1, CountNext
<1>4a. /\ Upto(WorkerScript[round], wpos[u] + 1, o)
            = Upto(WorkerScript[round], wpos[u], o) \union {wpos[u]}
       /\ wpos[u] \notin Upto(WorkerScript[round], wpos[u], o)
  <2>1. Upto(WorkerScript[round], wpos[u] + 1, o)
          = Upto(WorkerScript[round], wpos[u], o) \union {wpos[u]}
    BY <1>1, CountNext
  <2>2. wpos[u] \notin Upto(WorkerScript[round], wpos[u], o)
    BY <1>1 DEF Upto
  <2> QED
    BY <2>1, <2>2
<1>4b. Cardinality(Upto(WorkerScript[round], wpos[u] + 1, o))
         = Cardinality(Upto(WorkerScript[round], wpos[u], o)) + 1
  BY <1>1, CountNext
<1>4c. Cardinality(Upto(WorkerScript[round], wpos[u], o))
         < Cardinality(All(WorkerScript[round], o))
  BY <1>1, CountNext
<1>5. Count(WorkerScript[round], o) = Cardinality(All(WorkerScript[round], o))
  BY <1>1, CountEnds
<1>6. \A w \in Workers : \A op : w # u => WDone(w, op)' = WDone(w, op)
  BY <1>2 DEF WDone
<1> QED
  BY <1>1, <1>2, <1>3, <1>4, <1>4a, <1>4b, <1>4c, <1>5, <1>6, DoneIs

(* To the driver, the steps of a worker that sends nothing are nothing. *)
Calm == /\ UNCHANGED <<sc, round, driver, inbox>>
        /\ \A w \in Workers : /\ WDone(w, "notify")' = WDone(w, "notify")
                              /\ WDone(w, "send")' = WDone(w, "send")
                              /\ wpos[w] \in Nat /\ wpos'[w] \in Nat /\ wpos'[w] >= wpos[w]

LEMMA CalmSteps ==
    ASSUME TypeOK, Places,
           \/ UNCHANGED vars
           \/ \E u \in Workers, q \in Rounds : WBegin(u, q) \/ WEvent(u, q) \/ WMainEvent(u, q)
           \/ \E u \in Workers : WWait(u) \/ WRecv(u) \/ WEnd(u)
    PROVE  Calm
<1>1. \A w \in Workers : wpos[w] \in Nat
  BY Facts DEF TypeOK
<1>2. ASSUME UNCHANGED <<sc, round, driver, inbox, wpos>>
      PROVE  Calm
  BY <1>1, <1>2, SameRound DEF Calm, WDone
<1>3. ASSUME UNCHANGED vars
      PROVE  Calm
  BY <1>2, <1>3 DEF vars, wchild
<1>4. ASSUME NEW u \in Workers, NEW q \in Rounds, WBegin(u, q)
      PROVE  Calm
  <2>1. wpos' = wpos
    BY <1>4 DEF WBegin, Places, TypeOK
  <2> QED
    BY <1>2, <1>4, <2>1 DEF WBegin
<1>5. ASSUME NEW u \in Workers, NEW q \in Rounds, WEvent(u, q) \/ WMainEvent(u, q)
      PROVE  Calm
  BY <1>2, <1>5 DEF WEvent, WMainEvent, wchild
<1>6. ASSUME NEW u \in Workers, WEnd(u)
      PROVE  Calm
  BY <1>2, <1>6 DEF WEnd
<1>7. ASSUME NEW u \in Workers, NEW o, o \notin {"notify", "send"}, WOp(u, o), WNext(u),
             UNCHANGED <<sc, round, driver, inbox>>
      PROVE  Calm
  <2>1. /\ \A op : op # o => WDone(u, op)' = WDone(u, op)
        /\ \A w \in Workers : \A op : w # u => WDone(w, op)' = WDone(w, op)
        /\ wpos[u] \in Nat /\ wpos'[u] = wpos[u] + 1
        /\ \A w \in Workers : w # u => wpos'[w] = wpos[w]
    BY <1>7, WorkerDone
  <2>2. \A w \in Workers : /\ WDone(w, "notify")' = WDone(w, "notify")
                           /\ WDone(w, "send")' = WDone(w, "send")
    BY <1>7, <2>1
  <2>3. \A w \in Workers : wpos'[w] \in Nat /\ wpos'[w] >= wpos[w]
    BY <1>1, <2>1
  <2> QED
    BY <1>1, <1>7, <2>2, <2>3 DEF Calm
<1>8. ASSUME NEW u \in Workers, WWait(u) \/ WRecv(u)
      PROVE  Calm
  <2>1. CASE WWait(u)
    BY <1>7, <2>1 DEF WWait
  <2>2. CASE WRecv(u)
    BY <1>7, <2>2 DEF WRecv
  <2> QED
    BY <1>8, <2>1, <2>2
<1> QED
  BY <1>3, <1>4, <1>5, <1>6, <1>8

(* What is on its way to the driver, counted by kind. *)
Notifies(w) == {m \in inbox : m.id = w /\ m.kind = "NOTIFY"}

LEMMA InboxCounts ==
    ASSUME Places
    PROVE  /\ \A w : IsFiniteSet(Notifies(w)) /\ Cardinality(Notifies(w)) \in Nat
           /\ IsFiniteSet(Arriving) /\ Cardinality(Arriving) \in Nat
<1>1. IsFiniteSet(inbox) /\ Arriving \subseteq inbox /\ \A w : Notifies(w) \subseteq inbox
  BY DEF Places, Arriving, Notifies
<1> QED
  BY <1>1, FS_Subset, FS_CardinalityType

(* One is taken ... *)
LEMMA TakeNotify ==
    ASSUME Places, NEW m \in inbox, m.kind = "NOTIFY", inbox' = inbox \ {m}
    PROVE  /\ Cardinality(Notifies(m.id)') = Cardinality(Notifies(m.id)) - 1
           /\ \A w : w # m.id => Notifies(w)' = Notifies(w)
           /\ Arriving' = Arriving
<1>1. Notifies(m.id)' = Notifies(m.id) \ {m} /\ m \in Notifies(m.id)
  BY DEF Notifies
<1>2. Cardinality(Notifies(m.id) \ {m}) = Cardinality(Notifies(m.id)) - 1
  BY <1>1, InboxCounts, FS_RemoveElement
<1> QED
  BY <1>1, <1>2 DEF Notifies, Arriving

LEMMA TakeMessage ==
    ASSUME Places, NEW m \in inbox, m.kind = "USER_MESSAGE", inbox' = inbox \ {m}
    PROVE  /\ Cardinality(Arriving') = Cardinality(Arriving) - 1
           /\ \A w : Notifies(w)' = Notifies(w)
<1>1. Arriving' = Arriving \ {m} /\ m \in Arriving
  BY DEF Arriving
<1>2. Cardinality(Arriving \ {m}) = Cardinality(Arriving) - 1
  BY <1>1, InboxCounts, FS_RemoveElement
<1> QED
  BY <1>1, <1>2 DEF Notifies

(* ... and one is sent, which is a new one. *)
LEMMA PutEvent ==
    ASSUME TypeOK, Places, Senders, Untouched, NEW u \in Workers, NEW op, NEW k,
           <<op, k>> \in {<<"notify", "NOTIFY">>, <<"send", "USER_MESSAGE">>}, WSend(u, op, k)
    PROVE  /\ u \in allocated /\ UNCHANGED <<sc, round, driver>> /\ WOp(u, op) /\ WNext(u)
           /\ inbox' = inbox \union {Event(k, u)} /\ Event(k, u) \notin inbox
           /\ Event(k, u).id = u /\ Event(k, u).kind = k /\ Event(k, u).round = round
           /\ Event(k, u).pos = wpos[u] /\ wpos[u] \in Nat
           /\ k = "NOTIFY" =>
                 /\ Cardinality(Notifies(u)') = Cardinality(Notifies(u)) + 1
                 /\ \A w : w # u => Notifies(w)' = Notifies(w)
                 /\ Arriving' = Arriving
           /\ k = "USER_MESSAGE" =>
                 /\ Cardinality(Arriving') = Cardinality(Arriving) + 1
                 /\ \A w : Notifies(w)' = Notifies(w)
<1> DEFINE e == Event(k, u)
<1>1. /\ u \in allocated /\ UNCHANGED <<sc, round, driver>> /\ WOp(u, op) /\ WNext(u)
      /\ inbox' = inbox \union {e}
  BY DEF WSend, Places
<1>2. e.id = u /\ e.kind = k /\ e.round = round /\ e.pos = wpos[u]
  BY DEF Event
<1>3. wpos[u] \in Nat
  BY Facts DEF TypeOK
<1> HIDE DEF e
<1>4. e \notin inbox
  BY <1>2, <1>3 DEF Senders
<1>5. ASSUME k = "NOTIFY"
      PROVE  /\ Cardinality(Notifies(u)') = Cardinality(Notifies(u)) + 1
             /\ \A w : w # u => Notifies(w)' = Notifies(w)
             /\ Arriving' = Arriving
  <2>1. Notifies(u)' = Notifies(u) \union {e} /\ e \notin Notifies(u)
    BY <1>1, <1>2, <1>4, <1>5 DEF Notifies
  <2>2. Cardinality(Notifies(u) \union {e}) = Cardinality(Notifies(u)) + 1
    BY <2>1, InboxCounts, FS_AddElement
  <2> QED
    BY <1>1, <1>2, <1>5, <2>1, <2>2 DEF Notifies, Arriving
<1>6. ASSUME k = "USER_MESSAGE"
      PROVE  /\ Cardinality(Arriving') = Cardinality(Arriving) + 1
             /\ \A w : Notifies(w)' = Notifies(w)
  <2>1. Arriving' = Arriving \union {e} /\ e \notin Arriving
    BY <1>1, <1>2, <1>4, <1>6 DEF Arriving
  <2>2. Cardinality(Arriving \union {e}) = Cardinality(Arriving) + 1
    BY <2>1, InboxCounts, FS_AddElement
  <2> QED
    BY <1>1, <1>2, <1>6, <2>1, <2>2 DEF Notifies
<1> QED
  BY <1>1, <1>2, <1>3, <1>4, <1>5, <1>6 DEF e
-----------------------------------------------------------------------------
(* The driver's side. *)

(* To the driver, a step is one of these. *)
Driving == \/ DNotify \/ DSend \/ DWait \/ DWaitEnd \/ DRecv \/ DEnd \/ DTimeout
           \/ \E m \in inbox : DAccept(m) \/ DRecvNotify(m) \/ DRecvMessage(m)
Sends(u) == WSend(u, "notify", "NOTIFY") \/ WSend(u, "send", "USER_MESSAGE")

LEMMA DriverView ==
    ASSUME TypeOK, Places, [Next]_vars
    PROVE  NextRound \/ Driving \/ (\E u \in Workers : Sends(u)) \/ Calm
<1>1. CASE UNCHANGED vars
  BY <1>1, CalmSteps
<1>2. CASE DriverStep \/ DTimeout \/ \E m \in inbox : DAccept(m)
  BY <1>2 DEF DriverStep, Driving
<1>3. CASE NextRound
  BY <1>3
<1>4. CASE PollAgain
  BY <1>1, <1>4 DEF PollAgain
<1>5. ASSUME NEW u \in Workers, WorkerStep(u)
      PROVE  Sends(u) \/ Calm
  BY <1>5, CalmSteps DEF WorkerStep, Sends
<1> QED
  BY <1>1, <1>2, <1>3, <1>4, <1>5 DEF Next

(* The driver's steps leave the workers' bodies and the round alone. *)
LEMMA DrivingKeeps ==
    ASSUME Driving
    PROVE  /\ sc' = sc /\ round' = round /\ wpos' = wpos /\ inbox' \subseteq inbox
           /\ dpc # "over"
           /\ \A op, w : WDone(w, op)' = WDone(w, op)
           /\ Posted' = Posted
<1>1. /\ sc' = sc /\ round' = round /\ wpos' = wpos /\ inbox' \subseteq inbox
      /\ dpc # "over"
  BY DEF Driving, DNotify, DSend, DWait, DWaitEnd, DRecv, DEnd, DTimeout, DGone, DAccept,
         DRecvNotify, DRecvMessage, Polling, wchild, driver
<1>2. \A op, w : WDone(w, op)' = WDone(w, op)
  BY <1>1, SameRound DEF WDone
<1> QED
  BY <1>1, <1>2, SameRound DEF Posted

(* A pulled notification goes from one count to another. *)
LEMMA PullCount ==
    ASSUME TypeOK, NEW w \in Workers, NEW c \in Nat, Pull(w, c)
    PROVE  /\ pulls'[w] + dcount'[w] = pulls[w] + c
           /\ \A v \in Workers : v # w => pulls'[v] = pulls[v] /\ dcount'[v] = dcount[v]
           /\ pulled' \subseteq pulled \union {w}
           /\ \A v \in Workers : \/ (v \in pulled' <=> v \in pulled) /\ pulls'[v] = pulls[v]
                                 \/ v \notin pulled /\ v \in pulled' /\ pulls'[v] = pulls[v] + 1
<1>1. dcount \in [Workers -> Nat] /\ pulls \in [Workers -> Nat]
  BY DEF TypeOK
<1>2. CASE dpc = "waiting" /\ c > 0 /\ w \notin pulled
  <2>1. /\ dcount' = [dcount EXCEPT ![w] = c - 1] /\ pulled' = pulled \union {w}
        /\ pulls' = [pulls EXCEPT ![w] = @ + 1]
    BY <1>2 DEF Pull
  <2> QED
    BY <1>1, <1>2, <2>1
<1>3. CASE ~(dpc = "waiting" /\ c > 0 /\ w \notin pulled)
  <2>1. /\ dcount' = [dcount EXCEPT ![w] = c] /\ pulled' = pulled /\ pulls' = pulls
    BY <1>3 DEF Pull
  <2> QED
    BY <1>1, <2>1
<1> QED
  BY <1>2, <1>3

(* What an event does, where all senders are of this test. *)
LEMMA EventOfNotify ==
    ASSUME TypeOK, Places, Senders, Untouched, NEW m \in inbox, DRecvNotify(m)
    PROVE  /\ m.id \in allocated /\ m.id \in Workers /\ m.kind = "NOTIFY"
           /\ Pull(m.id, dcount[m.id] + 1) /\ dcount[m.id] + 1 \in Nat
           /\ inbox' = inbox \ {m}
           /\ UNCHANGED <<sc, round, dpc, dpos, dmsgs, wpos>> /\ dpc # "over"
<1>1. m.id \in allocated /\ m.id \in Workers /\ dcount[m.id] \in Nat
  BY Facts DEF Senders, TypeOK
<1> QED
  BY <1>1 DEF DRecvNotify, Polling, wchild

LEMMA EventOfMessage ==
    ASSUME TypeOK, Places, Senders, Untouched, NEW m \in inbox, DRecvMessage(m)
    PROVE  /\ m.id \in allocated /\ m.id \in Workers /\ m.kind = "USER_MESSAGE"
           /\ Pull(m.id, dcount[m.id]) /\ dcount[m.id] \in Nat
           /\ inbox' = inbox \ {m} /\ dmsgs' = Append(dmsgs, m)
           /\ UNCHANGED <<sc, round, dpc, dpos, wpos>> /\ dpc # "over"
<1>1. m.id \in allocated /\ m.id \in Workers /\ dcount[m.id] \in Nat
  BY Facts DEF Senders, TypeOK
<1> QED
  BY <1>1 DEF DRecvMessage, Polling, wchild

(* Every event comes from a worker of this test. *)
LEMMA SendersStep ==
    ASSUME TypeOK, Places, Senders, Drained, [Next]_vars
    PROVE  Senders'
<1> SUFFICES ASSUME Untouched'
             PROVE  /\ \A m \in inbox' : m.round = round' /\ m.id \in allocated'
                                         /\ m.pos < wpos'[m.id]
                    /\ pulled' \subseteq allocated'
  BY DEF Senders
<1>1. CASE NextRound
  <2>1. inbox' = {} /\ pulled' = {}
    BY <1>1, UntouchedNext, RoundFacts DEF Drained
  <2> QED
    BY <2>1
<1>2. ASSUME UNCHANGED <<sc, round, wpos>>, inbox' \subseteq inbox,
             pulled' \subseteq pulled \union allocated
      PROVE  /\ \A m \in inbox' : m.round = round' /\ m.id \in allocated'
                                         /\ m.pos < wpos'[m.id]
             /\ pulled' \subseteq allocated'
  BY <1>2, SameRound DEF Senders
<1>3. CASE Driving
  <2>1. UNCHANGED <<sc, round, wpos>> /\ inbox' \subseteq inbox
    BY <1>3, DrivingKeeps
  <2>2. Untouched
    BY <2>1, SameRound
  <2>3. CASE DNotify \/ DSend \/ DWait \/ DWaitEnd \/ DRecv \/ DEnd \/ DTimeout
             \/ \E m \in inbox : DAccept(m)
    <3>1. pulled' \subseteq pulled \union allocated
      BY <2>3 DEF DNotify, DSend, DWait, DWaitEnd, DRecv, DEnd, DTimeout, DAccept, driver
    <3> QED
      BY <1>2, <2>1, <3>1
  <2>4. ASSUME NEW m \in inbox, DRecvNotify(m)
        PROVE  pulled' \subseteq pulled \union allocated
    BY <2>2, <2>4, EventOfNotify, PullCount
  <2>5. ASSUME NEW m \in inbox, DRecvMessage(m)
        PROVE  pulled' \subseteq pulled \union allocated
    BY <2>2, <2>5, EventOfMessage, PullCount
  <2> QED
    BY <1>2, <1>3, <2>1, <2>3, <2>4, <2>5 DEF Driving
<1>4. ASSUME NEW u \in Workers, NEW op, NEW k,
             <<op, k>> \in {<<"notify", "NOTIFY">>, <<"send", "USER_MESSAGE">>}, WSend(u, op, k)
      PROVE  /\ \A m \in inbox' : m.round = round' /\ m.id \in allocated'
                                  /\ m.pos < wpos'[m.id]
             /\ pulled' \subseteq allocated'
  <2>0. UNCHANGED <<sc, round, driver>>
    BY <1>4 DEF WSend
  <2>1. Untouched /\ allocated' = allocated /\ pulled' = pulled /\ round' = round
    BY <2>0, SameRound DEF driver
  <2>2. /\ u \in allocated /\ WNext(u) /\ wpos[u] \in Nat
        /\ inbox' = inbox \union {Event(k, u)}
        /\ Event(k, u).id = u /\ Event(k, u).round = round /\ Event(k, u).pos = wpos[u]
    BY <1>4, <2>1, PutEvent
  <2>3. /\ \A m \in inbox : m.round = round /\ m.id \in allocated /\ m.pos < wpos[m.id]
        /\ pulled \subseteq allocated
    BY <2>1 DEF Senders
  <2>4t. wpos \in [Workers -> 1..(Len(WorkerScript[round]) + 1)]
    BY DEF TypeOK
  <2>4. \A w \in Workers : wpos[w] \in Nat
    BY <2>4t
  <2>5. wpos'[u] = wpos[u] + 1 /\ \A w \in Workers : w # u => wpos'[w] = wpos[w]
    BY <2>2 DEF WNext, TypeOK
  <2>6. \A m \in inbox : m.id \in Workers /\ m.pos \in Nat
    BY DEF TypeOK, ToDriver
  <2>7. \A m \in inbox : m.pos < wpos'[m.id]
    BY <2>3, <2>4, <2>5, <2>6
  <2>8. Event(k, u).pos < wpos'[Event(k, u).id]
    BY <2>2, <2>5
  <2> QED
    BY <2>1, <2>2, <2>3, <2>7, <2>8
<1>5. CASE Calm
  <2>1. Untouched /\ allocated' = allocated /\ pulled' = pulled /\ round' = round /\ inbox' = inbox
    BY <1>5, SameRound DEF Calm, driver
  <2>2. \A w \in Workers : wpos[w] \in Nat /\ wpos'[w] \in Nat /\ wpos'[w] >= wpos[w]
    BY <1>5 DEF Calm
  <2>3. \A m \in inbox : m.id \in Workers /\ m.pos \in Nat
    BY DEF TypeOK, ToDriver
  <2> QED
    BY <2>1, <2>2, <2>3 DEF Senders
<1> QED
  BY <1>1, <1>3, <1>4, <1>5, DriverView DEF Sends

(* What the driver pulled, counted, and has not read of w is what w sent. *)
Balance(w) == pulls[w] + dcount[w] + Cardinality(Notifies(w)) = Notified(w)

LEMMA BalanceIs ==
    DriverNotifyConserved <=> (dpc # "over" /\ Untouched => \A w \in allocated : Balance(w))
BY DEF DriverNotifyConserved, Untouched, Balance, Notifies

(* The numbers in it. *)
LEMMA BalanceType ==
    ASSUME TypeOK, Places, NEW w \in Workers
    PROVE  pulls[w] \in Nat /\ dcount[w] \in Nat /\ Cardinality(Notifies(w)) \in Nat
           /\ Notified(w) \in Nat
<1>1. pulls[w] \in Nat /\ dcount[w] \in Nat
  BY DEF TypeOK
<1> QED
  BY <1>1, InboxCounts, DoneType DEF Notified

(* It is kept by every step. *)
LEMMA BalanceStep ==
    ASSUME TypeOK, Places, Senders, Drained, DriverNotifyConserved, TypeOK', [Next]_vars
    PROVE  DriverNotifyConserved'
<1> SUFFICES ASSUME dpc' # "over", Untouched', NEW w \in allocated'
             PROVE  Balance(w)'
  BY DEF DriverNotifyConserved, Untouched, Balance, Notifies
<1>1. CASE NextRound
  <2>1. inbox' = {} /\ pulls'[w] = 0 /\ dcount'[w] = 0 /\ wpos'[w] = 1
    BY <1>1, UntouchedNext, RoundFacts DEF Drained
  <2>2. WDone(w, "notify")' = {}
    BY <2>1 DEF WDone
  <2>3. Notifies(w)' = {}
    BY <2>1 DEF Notifies
  <2>4. Cardinality(WDone(w, "notify")') = 0 /\ Cardinality(Notifies(w)') = 0
    BY <2>2, <2>3, FS_EmptySet
  <2> QED
    BY <2>1, <2>4 DEF Balance, Notified
<1>2. ASSUME UNCHANGED <<sc, round>>
      PROVE  Untouched /\ w \in allocated /\ w \in Workers
  BY <1>2, SameRound, Facts
<1>3. ASSUME UNCHANGED <<sc, round>>, dpc # "over"
      PROVE  Balance(w)
  BY <1>2, <1>3, BalanceIs
<1>4. CASE Driving
  <2>1. /\ UNCHANGED <<sc, round>> /\ Untouched /\ w \in allocated /\ w \in Workers /\ Balance(w)
        /\ Notified(w)' = Notified(w)
    BY <1>2, <1>3, <1>4, DrivingKeeps DEF Notified
  <2>2. CASE DNotify \/ DSend \/ DWaitEnd \/ DRecv \/ \E m \in inbox : DAccept(m)
    <3>1. pulls' = pulls /\ dcount' = dcount /\ inbox' = inbox
      BY <2>2 DEF DNotify, DSend, DWaitEnd, DRecv, DAccept, driver
    <3> QED
      BY <2>1, <3>1 DEF Balance, Notifies
  <2>3. CASE DWait
    <3>1. PICK S \in SUBSET {v \in allocated : dcount[v] > 0} :
             /\ dcount' = [v \in Workers |-> IF v \in S THEN dcount[v] - 1 ELSE dcount[v]]
             /\ pulls' = [v \in Workers |-> IF v \in S THEN pulls[v] + 1 ELSE pulls[v]]
      BY <2>3 DEF DWait
    <3>2. inbox' = inbox
      BY <2>3 DEF DWait
    <3>3. pulls'[w] + dcount'[w] = pulls[w] + dcount[w]
      BY <2>1, <3>1, BalanceType
    <3>4. Notifies(w)' = Notifies(w)
      BY <3>2 DEF Notifies
    <3> QED
      BY <2>1, <3>3, <3>4 DEF Balance
  <2>4. CASE DEnd \/ DTimeout
    BY <2>4 DEF DEnd, DTimeout, DGone
  <2>5. ASSUME NEW m \in inbox, DRecvNotify(m)
        PROVE  Balance(w)'
    <3>1. /\ m.id \in Workers /\ m.kind = "NOTIFY" /\ Pull(m.id, dcount[m.id] + 1)
          /\ dcount[m.id] + 1 \in Nat /\ inbox' = inbox \ {m}
      BY <2>1, <2>5, EventOfNotify
    <3>2. CASE w = m.id
      <4>1. pulls'[w] + dcount'[w] = pulls[w] + (dcount[w] + 1)
        BY <3>1, <3>2, PullCount
      <4>2. Cardinality(Notifies(w)') = Cardinality(Notifies(w)) - 1
        BY <3>1, <3>2, TakeNotify
      <4>3. pulls'[w] \in Nat /\ dcount'[w] \in Nat
        BY <2>1 DEF TypeOK
      <4> QED
        BY <2>1, <4>1, <4>2, <4>3, BalanceType DEF Balance
    <3>3. CASE w # m.id
      <4>1. pulls'[w] = pulls[w] /\ dcount'[w] = dcount[w]
        BY <2>1, <3>1, <3>3, PullCount
      <4>2. Notifies(w)' = Notifies(w)
        BY <3>1, <3>3, TakeNotify
      <4> QED
        BY <2>1, <4>1, <4>2 DEF Balance
    <3> QED
      BY <3>2, <3>3
  <2>6. ASSUME NEW m \in inbox, DRecvMessage(m)
        PROVE  Balance(w)'
    <3>1. /\ m.id \in Workers /\ m.kind = "USER_MESSAGE" /\ Pull(m.id, dcount[m.id])
          /\ dcount[m.id] \in Nat /\ inbox' = inbox \ {m}
      BY <2>1, <2>6, EventOfMessage
    <3>2. pulls'[w] + dcount'[w] = pulls[w] + dcount[w]
      BY <2>1, <3>1, PullCount, BalanceType
    <3>3. Notifies(w)' = Notifies(w)
      BY <3>1, TakeMessage
    <3> QED
      BY <2>1, <3>2, <3>3 DEF Balance
  <2> QED
    BY <1>4, <2>2, <2>3, <2>4, <2>5, <2>6 DEF Driving
<1>5. ASSUME NEW u \in Workers, Sends(u)
      PROVE  Balance(w)'
  <2>0. UNCHANGED <<sc, round, driver>>
    BY <1>5 DEF Sends, WSend
  <2>1. /\ Untouched /\ w \in allocated /\ w \in Workers /\ Balance(w)
        /\ pulls' = pulls /\ dcount' = dcount
    BY <1>2, <1>3, <2>0 DEF driver
  <2>2. CASE WSend(u, "notify", "NOTIFY")
    <3>1. /\ WOp(u, "notify") /\ WNext(u) /\ Cardinality(Notifies(u)') = Cardinality(Notifies(u)) + 1
          /\ \A v : v # u => Notifies(v)' = Notifies(v)
      BY <2>1, <2>2, PutEvent
    <3>2. /\ Notified(u)' = Notified(u) + 1 /\ \A v \in Workers : v # u => Notified(v)' = Notified(v)
      BY <2>0, <3>1, WorkerDone DEF Notified
    <3>3. CASE w = u
      BY <2>1, <3>1, <3>2, <3>3, BalanceType DEF Balance
    <3>4. CASE w # u
      BY <2>1, <3>1, <3>2, <3>4 DEF Balance
    <3> QED
      BY <3>3, <3>4
  <2>3. CASE WSend(u, "send", "USER_MESSAGE")
    <3>1. WOp(u, "send") /\ WNext(u) /\ \A v : Notifies(v)' = Notifies(v)
      BY <2>1, <2>3, PutEvent
    <3>2. \A v \in Workers : WDone(v, "notify")' = WDone(v, "notify")
      BY <2>0, <3>1, WorkerDone
    <3> QED
      BY <2>1, <3>1, <3>2 DEF Balance, Notified
  <2> QED
    BY <1>5, <2>2, <2>3 DEF Sends
<1>6. CASE Calm
  <2>1. /\ UNCHANGED <<sc, round, driver, inbox>>
        /\ \A v \in Workers : WDone(v, "notify")' = WDone(v, "notify")
    BY <1>6 DEF Calm
  <2>2. /\ w \in Workers /\ Balance(w) /\ pulls' = pulls /\ dcount' = dcount
    BY <1>2, <1>3, <2>1 DEF driver
  <2> QED
    BY <2>1, <2>2 DEF Balance, Notified, Notifies
<1> QED
  BY <1>1, <1>4, <1>5, <1>6, DriverView

(* The full waits that have returned. *)
LEMMA FullWaitsType ==
    ASSUME TypeOK
    PROVE  /\ FullWaits(dpos) = {i \in DDone("wait") : DriverScript[round][i].n = 0}
           /\ IsFiniteSet(FullWaits(dpos)) /\ Cardinality(FullWaits(dpos)) \in Nat
           /\ Consumed(round) => FullWaits(dpos) = DDone("wait")
<1>1. FullWaits(dpos) = {i \in DDone("wait") : DriverScript[round][i].n = 0}
  BY DEF FullWaits, DDone, Upto
<1>2. IsFiniteSet(DDone("wait"))
  BY DoneType
<1>3. IsFiniteSet(FullWaits(dpos))
  BY <1>1, <1>2, FS_Subset
<1>4. ASSUME Consumed(round)
      PROVE  FullWaits(dpos) = DDone("wait")
  <2>1. \A i \in DOMAIN DriverScript[round] :
           DriverScript[round][i].op = "wait" => DriverScript[round][i].n = 0
    BY <1>4 DEF Consumed
  <2>2. DOMAIN DriverScript[round] = 1..Len(DriverScript[round])
    BY Facts, LenProperties
  <2>3. \A i \in 1..(dpos - 1) : i \in 1..Len(DriverScript[round])
    BY Facts DEF TypeOK
  <2> QED
    BY <1>1, <2>1, <2>2, <2>3 DEF DDone
<1> QED
  BY <1>1, <1>3, <1>4, FS_CardinalityType

(* They are one more when a wait() for all returns. *)
LEMMA FullWaitsNext ==
    ASSUME TypeOK, NEW o, DOp(o), DNext, sc' = sc, round' = round
    PROVE  /\ o = "wait" /\ DriverScript[round][dpos].n = 0 =>
                 Cardinality(FullWaits(dpos)') = Cardinality(FullWaits(dpos)) + 1
           /\ ~(o = "wait" /\ DriverScript[round][dpos].n = 0) => FullWaits(dpos)' = FullWaits(dpos)
<1>1. /\ \A op : op # o => DDone(op)' = DDone(op)
      /\ DDone(o)' = DDone(o) \union {dpos} /\ dpos \notin DDone(o)
  BY DriverDone
<1>2. DriverScript' = DriverScript
  BY SameRound
<1>3. FullWaits(dpos)' = {i \in DDone("wait")' : DriverScript[round][i].n = 0}
  BY <1>2 DEF FullWaits, DDone, Upto
<1>4. CASE o = "wait" /\ DriverScript[round][dpos].n = 0
  <2>1. FullWaits(dpos)' = FullWaits(dpos) \union {dpos} /\ dpos \notin FullWaits(dpos)
    BY <1>1, <1>3, <1>4, FullWaitsType
  <2>2. Cardinality(FullWaits(dpos) \union {dpos}) = Cardinality(FullWaits(dpos)) + 1
    BY <2>1, FullWaitsType, FS_AddElement
  <2> QED
    BY <1>4, <2>1, <2>2
<1>5. CASE ~(o = "wait" /\ DriverScript[round][dpos].n = 0)
  <2>1. CASE o = "wait"
    BY <1>1, <1>3, <1>5, <2>1, FullWaitsType
  <2>2. CASE o # "wait"
    <3>1. DDone("wait")' = DDone("wait")
      BY <1>1, <2>2
    <3> QED
      BY <1>3, <1>5, <3>1, FullWaitsType
  <2> QED
    BY <1>5, <2>1, <2>2
<1> QED
  BY <1>4, <1>5

(* A wait() for all returns when all workers of the test were pulled. *)
LEMMA AllPulled ==
    ASSUME TypeOK, Senders, Untouched, DWaitEnd, DriverScript[round][dpos].n = 0
    PROVE  pulled = allocated
<1>1. pulled \subseteq allocated /\ Cardinality(pulled) = Cardinality(allocated)
  BY DEF Senders, DWaitEnd, Needed
<1> QED
  BY <1>1, Facts, FS_Subset

(* Every returned wait() for all has pulled every worker. *)
LEMMA BarrierStep ==
    ASSUME TypeOK, Places, Senders, Drained, Barrier, [Next]_vars
    PROVE  Barrier'
<1> SUFFICES ASSUME Untouched', dpc' # "over", NEW w \in allocated'
             PROVE  Pulled(w)' <= pulls'[w]
  BY DEF Barrier
<1>1. CASE NextRound
  <2>1. pulls'[w] = 0 /\ dpc' = "body" /\ dpos' = 1
    BY <1>1, RoundFacts
  <2>2. FullWaits(dpos)' = {}
    BY <2>1 DEF FullWaits, Upto
  <2>3. Cardinality(FullWaits(dpos)') = 0
    BY <2>2, FS_EmptySet
  <2> QED
    BY <2>1, <2>3 DEF Pulled, Waiting
<1>2. ASSUME UNCHANGED <<sc, round>>
      PROVE  /\ Untouched /\ w \in allocated /\ w \in Workers
             /\ dpc # "over" => Pulled(w) <= pulls[w]
  BY <1>2, SameRound, Facts DEF Barrier
<1>3. ASSUME UNCHANGED <<sc, round, dpos>>
      PROVE  /\ FullWaits(dpos)' = FullWaits(dpos)
             /\ DriverScript[round][dpos]' = DriverScript[round][dpos]
  BY <1>3, SameRound DEF FullWaits, Upto
<1>4. Cardinality(FullWaits(dpos)) \in Nat /\ \A v \in Workers : pulls[v] \in Nat
  BY FullWaitsType DEF TypeOK
<1>5. ASSUME UNCHANGED <<sc, round, driver>>
      PROVE  Pulled(w)' <= pulls'[w]
  BY <1>2, <1>3, <1>5 DEF driver, Pulled, Waiting
<1>6. ASSUME UNCHANGED <<sc, round, dpos, dpc>>, dpc # "over",
             \/ (w \in pulled' <=> w \in pulled) /\ pulls'[w] = pulls[w]
             \/ w \notin pulled /\ w \in pulled' /\ pulls'[w] = pulls[w] + 1
      PROVE  Pulled(w)' <= pulls'[w]
  <2>1. Pulled(w) <= pulls[w] /\ w \in Workers
    BY <1>2, <1>6
  <2>2. FullWaits(dpos)' = FullWaits(dpos)
    BY <1>3, <1>6
  <2>3. CASE (w \in pulled' <=> w \in pulled) /\ pulls'[w] = pulls[w]
    <3>1. Waiting(w)' <=> Waiting(w)
      BY <1>3, <1>6, <2>3 DEF Waiting
    <3> QED
      BY <2>1, <2>2, <2>3, <3>1 DEF Pulled
  <2>4. CASE w \notin pulled /\ w \in pulled' /\ pulls'[w] = pulls[w] + 1
    BY <1>4, <2>1, <2>2, <2>4 DEF Pulled, Waiting
  <2> QED
    BY <1>6, <2>3, <2>4
<1>7. CASE Driving
  <2>1. UNCHANGED <<sc, round>> /\ dpc # "over"
    BY <1>7, DrivingKeeps
  <2>2. Untouched /\ w \in allocated /\ w \in Workers /\ Pulled(w) <= pulls[w]
    BY <1>2, <2>1
  <2>3. ASSUME NEW o \in {"notify", "send", "recv"}, DOp(o), DNext, dpc' = "body", pulls' = pulls
        PROVE  Pulled(w)' <= pulls'[w]
    <3>1. FullWaits(dpos)' = FullWaits(dpos)
      BY <2>1, <2>3, FullWaitsNext
    <3>2. Pulled(w)' = Cardinality(FullWaits(dpos))
      BY <2>3, <3>1 DEF Pulled, Waiting
    <3> QED
      BY <1>4, <2>2, <2>3, <3>2 DEF Pulled
  <2>4. CASE DNotify \/ DSend \/ DRecv
    BY <2>3, <2>4 DEF DNotify, DSend, DRecv
  <2>5. CASE DWait
    <3>1. PICK S \in SUBSET {v \in allocated : dcount[v] > 0} :
             /\ pulled' = S
             /\ pulls' = [v \in Workers |-> IF v \in S THEN pulls[v] + 1 ELSE pulls[v]]
      BY <2>5 DEF DWait
    <3>2. dpc = "body" /\ dpos' = dpos
      BY <2>5 DEF DWait
    <3>3. Cardinality(FullWaits(dpos)) <= pulls[w] /\ FullWaits(dpos)' = FullWaits(dpos)
      BY <1>3, <2>1, <2>2, <3>2 DEF Pulled, Waiting
    <3>4. pulls'[w] = IF w \in pulled' THEN pulls[w] + 1 ELSE pulls[w]
      BY <2>2, <3>1
    <3> QED
      BY <1>4, <2>2, <3>3, <3>4 DEF Pulled, Waiting
  <2>6. CASE DWaitEnd
    <3>1. dpc = "waiting" /\ dpc' = "body" /\ pulls' = pulls /\ DNext /\ DOp("wait")
      BY <2>6 DEF DWaitEnd, Places
    <3>2. Pulled(w)' = Cardinality(FullWaits(dpos)')
      BY <3>1 DEF Pulled, Waiting
    <3>3. CASE DriverScript[round][dpos].n = 0
      <4>1. w \in pulled
        BY <2>2, <2>6, <3>3, AllPulled
      <4>2. Pulled(w) = Cardinality(FullWaits(dpos)) + 1
        BY <3>1, <3>3, <4>1 DEF Pulled, Waiting
      <4>3. Cardinality(FullWaits(dpos)') = Cardinality(FullWaits(dpos)) + 1
        BY <2>1, <3>1, <3>3, FullWaitsNext
      <4> QED
        BY <2>2, <3>1, <3>2, <4>2, <4>3
    <3>4. CASE DriverScript[round][dpos].n # 0
      <4>1. Pulled(w) = Cardinality(FullWaits(dpos))
        BY <3>4 DEF Pulled, Waiting
      <4>2. FullWaits(dpos)' = FullWaits(dpos)
        BY <2>1, <3>1, <3>4, FullWaitsNext
      <4> QED
        BY <2>2, <3>1, <3>2, <4>1, <4>2
    <3> QED
      BY <3>3, <3>4
  <2>7. CASE DEnd \/ DTimeout
    BY <2>7 DEF DEnd, DTimeout, DGone
  <2>8. ASSUME NEW m \in inbox, DAccept(m)
        PROVE  Pulled(w)' <= pulls'[w]
    BY <1>5, <2>8 DEF DAccept
  <2>9. ASSUME NEW m \in inbox, DRecvNotify(m)
        PROVE  Pulled(w)' <= pulls'[w]
    <3>1. UNCHANGED <<sc, round, dpos, dpc>> /\ m.id \in Workers /\ Pull(m.id, dcount[m.id] + 1)
          /\ dcount[m.id] + 1 \in Nat
      BY <2>2, <2>9, EventOfNotify
    <3>2. \/ (w \in pulled' <=> w \in pulled) /\ pulls'[w] = pulls[w]
          \/ w \notin pulled /\ w \in pulled' /\ pulls'[w] = pulls[w] + 1
      BY <2>2, <3>1, PullCount
    <3> QED
      BY <1>6, <2>1, <3>1, <3>2
  <2>10. ASSUME NEW m \in inbox, DRecvMessage(m)
         PROVE  Pulled(w)' <= pulls'[w]
    <3>1. UNCHANGED <<sc, round, dpos, dpc>> /\ m.id \in Workers /\ Pull(m.id, dcount[m.id])
          /\ dcount[m.id] \in Nat
      BY <2>2, <2>10, EventOfMessage
    <3>2. \/ (w \in pulled' <=> w \in pulled) /\ pulls'[w] = pulls[w]
          \/ w \notin pulled /\ w \in pulled' /\ pulls'[w] = pulls[w] + 1
      BY <2>2, <3>1, PullCount
    <3> QED
      BY <1>6, <2>1, <3>1, <3>2
  <2> QED
    BY <1>7, <2>4, <2>5, <2>6, <2>7, <2>8, <2>9, <2>10 DEF Driving
<1>8. ASSUME NEW u \in Workers, Sends(u)
      PROVE  Pulled(w)' <= pulls'[w]
  BY <1>5, <1>8 DEF Sends, WSend
<1>9. CASE Calm
  BY <1>5, <1>9 DEF Calm
<1> QED
  BY <1>1, <1>7, <1>8, <1>9, DriverView

(* So a wait() for all is a barrier while the body runs, ... *)
LEMMA BarrierNow ==
    ASSUME TypeOK, Places, Barrier, DriverNotifyConserved, Kept
    PROVE  BarrierHolds
<1> SUFFICES ASSUME Untouched, dpc # "over", NEW w \in allocated
             PROVE  Cardinality(FullWaits(dpos)) <= Notified(w)
  BY FullWaitsType DEF Kept, BarrierHolds, DriverWaitsForThisTest, Untouched
<1>1. w \in Workers
  BY Facts
<1>2. Pulled(w) <= pulls[w] /\ Balance(w)
  BY BalanceIs DEF Barrier
<1> QED
  BY <1>1, <1>2, BalanceType, FullWaitsType DEF Pulled, Balance

(* ... and when it is over. *)
LEMMA KeptStep ==
    ASSUME TypeOK, Places, BarrierHolds, Senders, Kept, [Next]_vars
    PROVE  Kept'
<1> SUFFICES ASSUME dpc' = "over", Untouched', NEW w \in allocated'
             PROVE  Cardinality({i \in DDone("wait")' : DriverScript'[round'][i].n = 0})
                      <= Notified(w)'
  BY DEF Kept, BarrierHolds, DriverWaitsForThisTest, Untouched
<1>1. ASSUME UNCHANGED <<sc, round, dpos>>, Notified(w)' \in Nat, Notified(w)' >= Notified(w)
      PROVE  Cardinality({i \in DDone("wait")' : DriverScript'[round'][i].n = 0}) <= Notified(w)'
  <2>1. Untouched /\ w \in allocated /\ w \in Workers
    BY <1>1, SameRound, Facts
  <2>2. Cardinality({i \in DDone("wait") : DriverScript[round][i].n = 0}) <= Notified(w)
    BY <2>1 DEF BarrierHolds, DriverWaitsForThisTest, Untouched
  <2>3. {i \in DDone("wait")' : DriverScript'[round'][i].n = 0}
          = {i \in DDone("wait") : DriverScript[round][i].n = 0}
    BY <1>1, SameRound DEF DDone
  <2>4. Cardinality({i \in DDone("wait") : DriverScript[round][i].n = 0}) \in Nat
    BY FullWaitsType
  <2>5. Notified(w) \in Nat
    BY <2>1, BalanceType
  <2>6. Cardinality({i \in DDone("wait") : DriverScript[round][i].n = 0}) <= Notified(w)'
    BY <1>1, <2>2, <2>4, <2>5
  <2> QED
    BY <2>3, <2>6, Zenon
<1>2. CASE NextRound
  BY <1>2, RoundFacts
<1>3. CASE Driving
  <2>1. /\ UNCHANGED <<sc, round>> /\ dpc # "over"
        /\ WDone(w, "notify")' = WDone(w, "notify")
    BY <1>3, DrivingKeeps
  <2>2. Untouched /\ w \in Workers
    BY <2>1, SameRound, Facts
  <2>3. dpos' = dpos
    BY <1>3, <2>1, <2>2 DEF Driving, DNotify, DSend, DWait, DWaitEnd, DRecv, DEnd, DTimeout, DAccept,
                      DRecvNotify, DRecvMessage, driver
  <2>4. Notified(w) \in Nat /\ Notified(w)' = Notified(w)
    BY <2>1, <2>2, BalanceType DEF Notified
  <2> QED
    BY <1>1, <2>1, <2>3, <2>4
<1>4. ASSUME NEW u \in Workers, NEW op,
             WSend(u, op, IF op = "notify" THEN "NOTIFY" ELSE "USER_MESSAGE")
      PROVE  Cardinality({i \in DDone("wait")' : DriverScript'[round'][i].n = 0}) <= Notified(w)'
  <2>1. UNCHANGED <<sc, round, driver>> /\ WOp(u, op) /\ WNext(u)
    BY <1>4 DEF WSend
  <2>2. w \in Workers
    BY <2>1, SameRound, Facts
  <2>3. Notified(w) \in Nat
    BY <2>2, BalanceType
  <2>4. Notified(w)' = Notified(w) \/ Notified(w)' = Notified(w) + 1
    BY <2>1, <2>2, WorkerDone DEF Notified
  <2> QED
    BY <1>1, <2>1, <2>3, <2>4 DEF driver
<1>5. ASSUME NEW u \in Workers, Sends(u)
      PROVE  Cardinality({i \in DDone("wait")' : DriverScript'[round'][i].n = 0}) <= Notified(w)'
  BY <1>4, <1>5 DEF Sends
<1>6. CASE Calm
  <2>1. /\ UNCHANGED <<sc, round, driver>>
        /\ \A v \in Workers : WDone(v, "notify")' = WDone(v, "notify")
    BY <1>6 DEF Calm
  <2>2. w \in Workers
    BY <2>1, SameRound, Facts
  <2>3. Notified(w) \in Nat /\ Notified(w)' = Notified(w)
    BY <2>1, <2>2, BalanceType DEF Notified
  <2> QED
    BY <1>1, <2>1, <2>3 DEF driver
<1> QED
  BY <1>2, <1>3, <1>5, <1>6, DriverView

(* All messages the workers sent are some of all they have to send. *)
LEMMA PostedType ==
    ASSUME TypeOK
    PROVE  /\ IsFiniteSet(Posted) /\ Cardinality(Posted) \in Nat
           /\ Posted \subseteq allocated \X All(WorkerScript[round], "send")
           /\ IsFiniteSet(allocated \X All(WorkerScript[round], "send"))
           /\ Cardinality(allocated \X All(WorkerScript[round], "send"))
                = Cardinality(allocated) * Count(WorkerScript[round], "send")
<1> DEFINE A == All(WorkerScript[round], "send")
<1>1. /\ WorkerScript[round] \in Seq(Operations) /\ IsFiniteSet(allocated)
      /\ allocated \subseteq Workers /\ Len(WorkerScript[round]) \in Nat
  BY Facts
<1>2. IsFiniteSet(A)
  <2>1. 1 \in 1..(Len(WorkerScript[round]) + 1)
    BY <1>1
  <2> QED
    BY <1>1, <2>1, Counting
<1>3. Count(WorkerScript[round], "send") = Cardinality(A)
  BY <1>1, CountEnds
<1>4. Posted \subseteq allocated \X A
  <2>1. \A w \in Workers : WDone(w, "send") \subseteq A
    <3>1. \A w \in Workers : wpos[w] \in 1..(Len(WorkerScript[round]) + 1)
      BY DEF TypeOK
    <3> QED
      BY <1>1, <3>1, Counting, DoneIs
  <2> QED
    BY <1>1, <2>1 DEF Posted
<1>5. IsFiniteSet(allocated \X A)
      /\ Cardinality(allocated \X A) = Cardinality(allocated) * Cardinality(A)
  BY <1>1, <1>2, FS_Product
<1>6. IsFiniteSet(Posted)
  BY <1>4, <1>5, FS_Subset
<1> QED
  BY <1>3, <1>4, <1>5, <1>6, FS_CardinalityType

(* One more is sent. *)
LEMMA PostedNext ==
    ASSUME TypeOK, NEW u \in allocated, WOp(u, "send"), WNext(u), sc' = sc, round' = round
    PROVE  Cardinality(Posted') = Cardinality(Posted) + 1
<1>0. u \in Workers /\ allocated' = allocated /\ WorkerScript' = WorkerScript /\ round' = round
  BY Facts, SameRound
<1>1. /\ WDone(u, "send")' = WDone(u, "send") \union {wpos[u]} /\ wpos[u] \notin WDone(u, "send")
      /\ \A w \in Workers : w # u => WDone(w, "send")' = WDone(w, "send")
  BY <1>0, WorkerDone
<1>2. wpos[u] \in 1..Len(WorkerScript[round]) /\ allocated \subseteq Workers
  BY <1>0, WorkerAt, Facts
<1>3. Posted' = {x \in allocated \X (1..Len(WorkerScript[round])) : x[2] \in WDone(x[1], "send")'}
  BY <1>0 DEF Posted
<1>4. Posted' = Posted \union {<<u, wpos[u]>>}
  BY <1>0, <1>1, <1>2, <1>3 DEF Posted
<1>5. <<u, wpos[u]>> \notin Posted
  BY <1>1 DEF Posted
<1> QED
  BY <1>4, <1>5, PostedType, FS_AddElement

(* Each is on its way, queued, or received. *)
Sum == Cardinality(Arriving) + Len(dmsgs) + Cardinality(DDone("recv")) = Cardinality(Posted)

LEMMA ReceivedStep ==
    ASSUME TypeOK, Places, Senders, Drained, Received, [Next]_vars
    PROVE  Received'
<1> SUFFICES ASSUME dpc' # "over", Untouched'
             PROVE  Sum'
  BY DEF Received, Sum
<1>0. /\ Cardinality(Arriving) \in Nat /\ Cardinality(DDone("recv")) \in Nat
      /\ Cardinality(Posted) \in Nat
  BY InboxCounts, DoneType, PostedType
<1>0a. dmsgs \in Seq(ToDriver) /\ Len(dmsgs) \in Nat
  BY LenProperties DEF TypeOK
<1>1. CASE NextRound
  <2>1. inbox' = {} /\ dmsgs' = <<>> /\ dpos' = 1 /\ \A w \in Workers : wpos'[w] = 1
    BY <1>1, UntouchedNext, RoundFacts DEF Drained
  <2>2. DDone("recv")' = {} /\ Arriving' = {}
    BY <2>1 DEF DDone, Arriving
  <2>3. \A w \in Workers : WDone(w, "send")' = {}
    BY <2>1 DEF WDone
  <2>4. Posted' = {}
    BY <1>1, <2>3, RoundFacts DEF Posted
  <2>5. /\ Cardinality(DDone("recv")') = 0 /\ Cardinality(Arriving') = 0
        /\ Cardinality(Posted') = 0 /\ Len(dmsgs') = 0
    BY <2>1, <2>2, <2>4, FS_EmptySet
  <2> QED
    BY <2>5 DEF Sum
<1>2. ASSUME UNCHANGED <<sc, round>>, dpc # "over"
      PROVE  Untouched /\ Sum
  BY <1>2, SameRound DEF Received, Sum
<1>3. ASSUME UNCHANGED <<sc, round, dpos, dmsgs, inbox>>, dpc # "over", Posted' = Posted
      PROVE  Sum'
  <2>1. DDone("recv")' = DDone("recv") /\ Arriving' = Arriving
    BY <1>3, SameRound DEF DDone, Arriving
  <2> QED
    BY <1>2, <1>3, <2>1 DEF Sum
<1>4. CASE Driving
  <2>1. UNCHANGED <<sc, round>> /\ dpc # "over" /\ Posted' = Posted /\ Untouched /\ Sum
    BY <1>2, <1>4, DrivingKeeps
  <2>2. ASSUME NEW o \in {"notify", "send", "wait"}, DOp(o), DNext, UNCHANGED <<dmsgs, inbox>>
        PROVE  Sum'
    <3>1. DDone("recv")' = DDone("recv") /\ Arriving' = Arriving
      BY <2>1, <2>2, DriverDone DEF Arriving
    <3> QED
      BY <2>1, <2>2, <3>1 DEF Sum
  <2>3. CASE DNotify \/ DSend \/ DWaitEnd
    BY <2>2, <2>3 DEF DNotify, DSend, DWaitEnd, Places
  <2>4. CASE DWait \/ \E m \in inbox : DAccept(m)
    BY <1>3, <2>1, <2>4 DEF DWait, DAccept, driver
  <2>5. CASE DRecv
    <3>1. DOp("recv") /\ DNext /\ dmsgs # <<>> /\ dmsgs' = Tail(dmsgs) /\ inbox' = inbox
      BY <2>5 DEF DRecv
    <3>2. Cardinality(DDone("recv")') = Cardinality(DDone("recv")) + 1 /\ Arriving' = Arriving
      BY <2>1, <3>1, DriverDone DEF Arriving
    <3>3. Len(dmsgs') = Len(dmsgs) - 1
      BY <1>0a, <3>1, TailFacts
    <3> QED
      BY <1>0, <1>0a, <2>1, <3>2, <3>3 DEF Sum
  <2>6. CASE DEnd \/ DTimeout
    BY <2>6 DEF DEnd, DTimeout, DGone
  <2>7. ASSUME NEW m \in inbox, DRecvNotify(m)
        PROVE  Sum'
    <3>1. /\ m.kind = "NOTIFY" /\ inbox' = inbox \ {m} /\ UNCHANGED <<dpos, dmsgs>>
      BY <2>1, <2>7, EventOfNotify
    <3>2. Arriving' = Arriving /\ DDone("recv")' = DDone("recv")
      BY <2>1, <3>1, TakeNotify, SameRound DEF DDone
    <3> QED
      BY <2>1, <3>1, <3>2 DEF Sum
  <2>8. ASSUME NEW m \in inbox, DRecvMessage(m)
        PROVE  Sum'
    <3>1. /\ m.kind = "USER_MESSAGE" /\ inbox' = inbox \ {m} /\ dpos' = dpos
          /\ dmsgs' = Append(dmsgs, m) /\ m \in ToDriver
      BY <2>1, <2>8, EventOfMessage DEF TypeOK
    <3>2. Cardinality(Arriving') = Cardinality(Arriving) - 1 /\ DDone("recv")' = DDone("recv")
      BY <2>1, <3>1, TakeMessage, SameRound DEF DDone
    <3>3. Len(dmsgs') = Len(dmsgs) + 1
      BY <1>0a, <3>1, AppendFacts
    <3> QED
      BY <1>0, <1>0a, <2>1, <3>2, <3>3 DEF Sum
  <2> QED
    BY <1>4, <2>3, <2>4, <2>5, <2>6, <2>7, <2>8 DEF Driving
<1>5. ASSUME NEW u \in Workers, Sends(u)
      PROVE  Sum'
  <2>0. UNCHANGED <<sc, round, dpc, dpos, dmsgs>>
    BY <1>5 DEF Sends, WSend, driver
  <2>1. dpc # "over" /\ Untouched /\ Sum
    BY <1>2, <2>0
  <2>2. CASE WSend(u, "notify", "NOTIFY")
    <3>1. /\ WOp(u, "notify") /\ WNext(u) /\ Arriving' = Arriving
      BY <2>1, <2>2, PutEvent
    <3>2. \A w \in Workers : WDone(w, "send")' = WDone(w, "send")
      BY <2>0, <3>1, WorkerDone
    <3>3. Posted' = Posted
      BY <2>0, <3>2, SameRound, Facts DEF Posted
    <3>4. DDone("recv")' = DDone("recv")
      BY <2>0, SameRound DEF DDone
    <3> QED
      BY <2>0, <2>1, <3>1, <3>3, <3>4 DEF Sum
  <2>3. CASE WSend(u, "send", "USER_MESSAGE")
    <3>1. /\ u \in allocated /\ WOp(u, "send") /\ WNext(u)
          /\ Cardinality(Arriving') = Cardinality(Arriving) + 1
      BY <2>1, <2>3, PutEvent
    <3>2. Cardinality(Posted') = Cardinality(Posted) + 1
      BY <2>0, <3>1, PostedNext
    <3>3. DDone("recv")' = DDone("recv")
      BY <2>0, SameRound DEF DDone
    <3> QED
      BY <1>0, <1>0a, <2>0, <2>1, <3>1, <3>2, <3>3 DEF Sum
  <2> QED
    BY <1>5, <2>2, <2>3 DEF Sends
<1>6. CASE Calm
  <2>1. /\ UNCHANGED <<sc, round, dpc, dpos, dmsgs, inbox>>
        /\ \A w \in Workers : WDone(w, "send")' = WDone(w, "send")
    BY <1>6 DEF Calm, driver
  <2>2. Posted' = Posted
    BY <2>1, SameRound, Facts DEF Posted
  <2> QED
    BY <1>3, <2>1, <2>2
<1> QED
  BY <1>1, <1>4, <1>5, <1>6, DriverView

(* At the end of a tidy round nothing is left for the driver, ... *)
LEMMA EndCounts ==
    ASSUME TypeOK, Places, Senders, DriverNotifyConserved, Barrier, Received, Tidy, DEnd
    PROVE  /\ inbox = {}
           /\ \A w \in allocated :
                 /\ Notified(w) = Count(WorkerScript[round], "notify")
                 /\ Cardinality(WDone(w, "send")) = Count(WorkerScript[round], "send")
<1>1. /\ Untouched /\ Consumed(round) /\ dpc = "body" /\ dpos > Len(DriverScript[round])
      /\ Alloc[round] = allocated
  BY DEF Tidy, Untouched, DEnd, allocated
<1>2. \A op : Cardinality(DDone(op)) = Count(DriverScript[round], op)
  <2>0. Len(DriverScript[round]) \in Nat /\ DriverScript[round] \in Seq(Operations)
    BY Facts
  <2>0a. dpos \in 1..(Len(DriverScript[round]) + 1)
    BY DEF TypeOK
  <2>1. dpos = Len(DriverScript[round]) + 1 /\ DriverScript[round] \in Seq(Operations)
    BY <1>1, <2>0, <2>0a
  <2> QED
    BY <2>1, CountEnds, DoneIs
<1>3. ASSUME NEW w \in allocated
      PROVE  Notified(w) = Count(WorkerScript[round], "notify") /\ Notifies(w) = {}
  <2>1. w \in Workers /\ Pulled(w) <= pulls[w] /\ Balance(w)
    BY <1>1, Facts, BalanceIs DEF Barrier
  <2>2. Pulled(w) = Cardinality(DDone("wait"))
    BY <1>1, FullWaitsType DEF Pulled, Waiting
  <2>3. Cardinality(DDone("wait")) = Count(WorkerScript[round], "notify")
    BY <1>1, <1>2 DEF Consumed
  <2>4. Notified(w) <= Count(WorkerScript[round], "notify")
        /\ Count(WorkerScript[round], "notify") \in Nat
    BY <2>1, DoneType DEF Notified
  <2>5. Notified(w) = Count(WorkerScript[round], "notify") /\ Cardinality(Notifies(w)) = 0
    BY <2>1, <2>2, <2>3, <2>4, BalanceType DEF Balance
  <2> QED
    BY <2>5, InboxCounts, FS_EmptySet
<1> DEFINE A == All(WorkerScript[round], "send")
           S == allocated \X A
<1>4. Arriving = {} /\ Posted = S
  <2>1. Cardinality(Arriving) + Len(dmsgs) + Cardinality(DDone("recv")) = Cardinality(Posted)
    BY <1>1 DEF Received
  <2>2. Cardinality(DDone("recv")) = Count(WorkerScript[round], "send") * Cardinality(allocated)
    BY <1>1, <1>2 DEF Consumed
  <2>3. Cardinality(S) = Cardinality(allocated) * Count(WorkerScript[round], "send")
    BY PostedType
  <2>3a. Count(WorkerScript[round], "send") \in Nat /\ Cardinality(allocated) \in Nat
    BY Facts, DoneType
  <2>4. Cardinality(DDone("recv")) = Cardinality(S) /\ Cardinality(S) \in Nat
    BY <2>2, <2>3, <2>3a
  <2>5. Cardinality(Posted) <= Cardinality(S) /\ Cardinality(Posted) \in Nat
        /\ (Cardinality(Posted) = Cardinality(S) => Posted = S)
    BY PostedType, FS_Subset
  <2>6. Cardinality(Arriving) \in Nat /\ Len(dmsgs) \in Nat
    BY InboxCounts, LenProperties DEF TypeOK
  <2>7. Cardinality(Arriving) = 0 /\ Cardinality(Posted) = Cardinality(S)
    BY <2>1, <2>4, <2>5, <2>6
  <2> QED
    BY <2>5, <2>7, InboxCounts, FS_EmptySet
<1>5. ASSUME NEW w \in allocated
      PROVE  Cardinality(WDone(w, "send")) = Count(WorkerScript[round], "send")
  <2>1. A \subseteq WDone(w, "send")
    <3>1. \A i \in A : <<w, i>> \in Posted
      BY <1>4
    <3> QED
      BY <3>1 DEF Posted
  <2>2. WDone(w, "send") \subseteq A
    <3>1. wpos[w] \in 1..(Len(WorkerScript[round]) + 1) /\ WorkerScript[round] \in Seq(Operations)
      BY Facts DEF TypeOK
    <3> QED
      BY <3>1, Counting, DoneIs
  <2>3. Count(WorkerScript[round], "send") = Cardinality(A)
    BY Facts, CountEnds
  <2>4. WDone(w, "send") = A
    BY <2>1, <2>2
  <2> QED
    BY <2>3, <2>4
<1>6. inbox = {}
  <2>1. \A m \in inbox : m.id \in allocated /\ m.kind \in {"NOTIFY", "USER_MESSAGE"}
    BY <1>1 DEF Senders, TypeOK, ToDriver
  <2>2. \A m \in inbox : m \in Notifies(m.id) \/ m \in Arriving
    BY <2>1 DEF Notifies, Arriving
  <2> QED
    BY <1>3, <1>4, <2>1, <2>2
<1> QED
  BY <1>3, <1>5, <1>6

(* ... and it stays so. *)
LEMMA DrainedStep ==
    ASSUME TypeOK, Places, Senders, DriverNotifyConserved, Barrier, Received, Drained, [Next]_vars
    PROVE  Drained'
<1> DEFINE Rest == /\ inbox' = {}
                   /\ \A w \in allocated' :
                         /\ Notified(w)' = Count(WorkerScript[round], "notify")'
                         /\ Cardinality(WDone(w, "send")') = Count(WorkerScript[round], "send")'
<1> SUFFICES ASSUME Tidy', dpc' = "over"
             PROVE  Rest
  BY DEF Drained
<1>1. CASE NextRound
  BY <1>1, RoundFacts
<1>2. ASSUME UNCHANGED <<sc, round>>
      PROVE  Tidy /\ Untouched /\ allocated' = allocated /\ ~sc.dtimeout /\ ~sc.wtimeout
             /\ \A op : Count(WorkerScript[round], op)' = Count(WorkerScript[round], op)
  <2>1. Tidy
    BY <1>2, SameRound
  <2>2. \A op : Count(WorkerScript[round], op)' = Count(WorkerScript[round], op)
    BY <1>2, SameRound DEF Count
  <2> QED
    BY <1>2, <2>1, <2>2, SameRound DEF Tidy, Untouched, Clean
<1>3. CASE Driving
  <2>1. /\ UNCHANGED <<sc, round>> /\ dpc # "over" /\ inbox' \subseteq inbox
        /\ \A op, w : WDone(w, op)' = WDone(w, op)
    BY <1>3, DrivingKeeps
  <2>2. CASE DEnd
    <3>1. /\ inbox' = {}
          /\ \A w \in allocated :
                /\ Notified(w) = Count(WorkerScript[round], "notify")
                /\ Cardinality(WDone(w, "send")) = Count(WorkerScript[round], "send")
      BY <1>2, <2>1, <2>2, EndCounts
    <3> QED
      BY <1>2, <2>1, <3>1 DEF Notified
  <2>3. CASE DTimeout
    BY <1>2, <2>1, <2>3 DEF DTimeout
  <2>4. CASE \E m \in inbox : DRecvMessage(m)
    BY <1>2, <2>1, <2>4, EventOfMessage
  <2>5. CASE \E m \in inbox : DRecvNotify(m)
    BY <1>2, <2>1, <2>5, EventOfNotify
  <2> QED
    BY <1>3, <2>1, <2>2, <2>3, <2>4, <2>5
       DEF Driving, DNotify, DSend, DWait, DWaitEnd, DRecv, DAccept, driver
<1>4. ASSUME NEW u \in Workers, Sends(u)
      PROVE  Rest
  <2>1. UNCHANGED <<sc, round, driver>> /\ u \in allocated
    BY <1>4 DEF Sends, WSend, Places
  <2>2. Tidy /\ dpc = "over"
    BY <1>2, <2>1 DEF driver
  <2>3. /\ Notified(u) = Count(WorkerScript[round], "notify")
        /\ Cardinality(WDone(u, "send")) = Count(WorkerScript[round], "send")
    BY <2>1, <2>2 DEF Drained
  <2>4. ASSUME NEW op \in {"notify", "send"}, WOp(u, op), WNext(u)
        PROVE  FALSE
    <3>1. Cardinality(WDone(u, op)) < Count(WorkerScript[round], op)
      BY <2>1, <2>4, WorkerDone
    <3>2. Count(WorkerScript[round], op) \in Nat
      BY DoneType
    <3>3. CASE op = "notify"
      BY <2>3, <3>1, <3>2, <3>3 DEF Notified
    <3>4. CASE op = "send"
      BY <2>3, <3>1, <3>2, <3>4
    <3> QED
      BY <2>4, <3>3, <3>4
  <2> QED
    BY <1>4, <2>4 DEF Sends, WSend
<1>5. CASE Calm
  <2>1. /\ UNCHANGED <<sc, round, driver, inbox>>
        /\ \A w \in Workers : /\ WDone(w, "notify")' = WDone(w, "notify")
                              /\ WDone(w, "send")' = WDone(w, "send")
    BY <1>5 DEF Calm
  <2>2. Tidy /\ dpc = "over"
    BY <1>2, <2>1 DEF driver
  <2>3. /\ inbox = {} /\ allocated \subseteq Workers
        /\ \A w \in allocated :
              /\ Notified(w) = Count(WorkerScript[round], "notify")
              /\ Cardinality(WDone(w, "send")) = Count(WorkerScript[round], "send")
    BY <2>2, Facts DEF Drained
  <2> QED
    BY <1>2, <2>1, <2>3 DEF Notified
<1> QED
  BY <1>1, <1>3, <1>4, <1>5, DriverView

-----------------------------------------------------------------------------
(* The workers' side. *)

(* A worker that has nothing of another round reads from this one's        *)
(* connection.                                                             *)
LEMMA OnlyRound ==
    ASSUME TypeOK, NEW w \in Workers, Wires(w), Quiet(w), NEW r \in Rounds, Readable(w, r),
           w \in Remote => Untouched
    PROVE  r = round
BY DEF Wires, Quiet, Readable

(* What is on the wire is of three kinds. *)
LEMMA WireFacts ==
    ASSUME TypeOK, NEW w \in Workers
    PROVE  /\ round \in Rounds /\ chan[w][round] \in Seq(FromDriver)
           /\ \A k : /\ OnWire(w, k) = Kinds(chan[w][round], k)
                     /\ Cardinality(OnWire(w, k)) \in Nat
           /\ \A i \in DOMAIN chan[w][round] :
                 chan[w][round][i].kind \in {"RUN_TEST", "NOTIFY", "USER_MESSAGE"}
<1>1. round \in Rounds /\ chan[w][round] \in Seq(FromDriver)
  BY DEF TypeOK
<1>2. \A k : OnWire(w, k) = Kinds(chan[w][round], k)
  BY DEF OnWire, Kinds
<1>3. \A k : Cardinality(Kinds(chan[w][round], k)) \in Nat
  BY <1>1, KindsType
<1>4. \A i \in DOMAIN chan[w][round] : chan[w][round][i] \in FromDriver
  BY <1>1, ElementOfSeq, LenProperties
<1> QED
  BY <1>1, <1>2, <1>3, <1>4 DEF FromDriver

(* Reading from this round's connection takes one of a kind, *)
LEMMA ReadKinds ==
    ASSUME TypeOK, NEW w \in Workers, Readable(w, round), Read(w, round), round' = round
    PROVE  \A k : Cardinality(OnWire(w, k)')
                    = IF Head(chan[w][round]).kind = k THEN Cardinality(OnWire(w, k)) - 1
                                                       ELSE Cardinality(OnWire(w, k))
<1>1. /\ round \in Rounds /\ chan[w][round] \in Seq(FromDriver) /\ chan[w][round] # <<>>
      /\ \A k : OnWire(w, k) = Kinds(chan[w][round], k)
  BY WireFacts DEF Readable
<1>2. chan'[w][round] = Tail(chan[w][round]) /\ Head(chan[w][round]) = chan[w][round][1]
  BY <1>1, Reading
<1>3. \A k : OnWire(w, k)' = Kinds(Tail(chan[w][round]), k)
  BY <1>2 DEF OnWire, Kinds
<1>4. \A k : Cardinality(Kinds(Tail(chan[w][round]), k))
               = IF chan[w][round][1].kind = k THEN Cardinality(Kinds(chan[w][round], k)) - 1
                                               ELSE Cardinality(Kinds(chan[w][round], k))
  BY <1>1, KindsTail
<1> QED
  BY <1>1, <1>2, <1>3, <1>4

(* sending adds one. *)
LEMMA SendKinds ==
    ASSUME TypeOK, NEW w \in allocated, NEW k \in {"NOTIFY", "USER_MESSAGE"}, ToAll(k),
           round' = round
    PROVE  /\ Cardinality(OnWire(w, k)') = Cardinality(OnWire(w, k)) + 1
           /\ \A j : j # k => Cardinality(OnWire(w, j)') = Cardinality(OnWire(w, j))
<1>0. w \in Workers
  BY Facts
<1>1. /\ round \in Rounds /\ chan[w][round] \in Seq(FromDriver)
      /\ \A j : OnWire(w, j) = Kinds(chan[w][round], j)
  BY <1>0, WireFacts
<1>2. /\ chan'[w][round] = Append(chan[w][round], ToWorker(k))
      /\ ToWorker(k) \in FromDriver /\ ToWorker(k).kind = k
  BY Sending
<1>3. \A j : OnWire(w, j)' = Kinds(Append(chan[w][round], ToWorker(k)), j)
  BY <1>2 DEF OnWire, Kinds
<1>4. \A j : Cardinality(Kinds(Append(chan[w][round], ToWorker(k)), j))
               = IF ToWorker(k).kind = j THEN Cardinality(Kinds(chan[w][round], j)) + 1
                                         ELSE Cardinality(Kinds(chan[w][round], j))
  BY <1>1, <1>2, KindsAppend
<1> QED
  BY <1>1, <1>2, <1>3, <1>4

(* What the driver has done, as a worker sees it. *)
LEMMA SendCounts ==
    ASSUME TypeOK, DNotify \/ DSend, NEW w \in Workers, w \in allocated
    PROVE  /\ sc' = sc /\ round' = round /\ wchild' = wchild
           /\ Cardinality(OnWire(w, "NOTIFY")') - Cardinality(OnWire(w, "NOTIFY"))
                = Cardinality(DDone("notify")') - Cardinality(DDone("notify"))
           /\ Cardinality(OnWire(w, "USER_MESSAGE")') - Cardinality(OnWire(w, "USER_MESSAGE"))
                = Cardinality(DDone("send")') - Cardinality(DDone("send"))
           /\ \A k : Cardinality(OnWire(w, k)') \in Nat
           /\ \A op : Cardinality(DDone(op)') \in Nat
<1>1. /\ \A k : Cardinality(OnWire(w, k)) \in Nat
      /\ \A op : Cardinality(DDone(op)) \in Nat
  BY WireFacts, DoneType
<1>2. CASE DNotify
  <2>1. /\ sc' = sc /\ round' = round /\ wchild' = wchild /\ ToAll("NOTIFY") /\ DOp("notify") /\ DNext
    BY <1>2 DEF DNotify
  <2>2. /\ Cardinality(OnWire(w, "NOTIFY")') = Cardinality(OnWire(w, "NOTIFY")) + 1
        /\ \A j : j # "NOTIFY" => Cardinality(OnWire(w, j)') = Cardinality(OnWire(w, j))
    BY <2>1, SendKinds
  <2>3. /\ Cardinality(DDone("notify")') = Cardinality(DDone("notify")) + 1
        /\ \A op : op # "notify" => DDone(op)' = DDone(op)
    BY <2>1, DriverDone
  <2>4. Cardinality(DDone("send")') = Cardinality(DDone("send"))
    BY <2>3
  <2> QED
    BY <1>1, <2>1, <2>2, <2>3, <2>4
<1>3. CASE DSend
  <2>1. /\ sc' = sc /\ round' = round /\ wchild' = wchild /\ ToAll("USER_MESSAGE") /\ DOp("send")
        /\ DNext
    BY <1>3 DEF DSend
  <2>2. /\ Cardinality(OnWire(w, "USER_MESSAGE")') = Cardinality(OnWire(w, "USER_MESSAGE")) + 1
        /\ \A j : j # "USER_MESSAGE" => Cardinality(OnWire(w, j)') = Cardinality(OnWire(w, j))
    BY <2>1, SendKinds
  <2>3. /\ Cardinality(DDone("send")') = Cardinality(DDone("send")) + 1
        /\ \A op : op # "send" => DDone(op)' = DDone(op)
    BY <2>1, DriverDone
  <2>4. Cardinality(DDone("notify")') = Cardinality(DDone("notify"))
    BY <2>3
  <2> QED
    BY <1>1, <2>1, <2>2, <2>3, <2>4
<1> QED
  BY <1>2, <1>3

(* Where the driver sends nothing, it has sent what it had. *)
LEMMA SilentCounts ==
    ASSUME TypeOK, Silent
    PROVE  /\ DDone("notify")' = DDone("notify") /\ DDone("send")' = DDone("send")
           /\ dpos \in Nat /\ dpos' \in Nat /\ dpos' >= dpos
<1>1. sc' = sc /\ round' = round /\ dpos \in Nat
  BY Facts DEF Silent, TypeOK
<1>2. CASE dpos' = dpos
  BY <1>1, <1>2, SameRound DEF DDone
<1>3. ASSUME NEW o \in {"wait", "recv"}, DOp(o), dpos' = dpos + 1
      PROVE  DDone("notify")' = DDone("notify") /\ DDone("send")' = DDone("send")
  BY <1>1, <1>3, DriverDone DEF DNext
<1> QED
  BY <1>1, <1>2, <1>3 DEF Silent

(* A worker's own step is silent. *)
LEMMA OwnFacts ==
    ASSUME TypeOK, NEW w \in Workers, OwnStep(w)
    PROVE  /\ Silent /\ sc' = sc /\ round' = round /\ dpos' = dpos /\ driver' = driver
           /\ DDone("notify")' = DDone("notify") /\ DDone("send")' = DDone("send")
<1>1. sc' = sc /\ round' = round /\ driver' = driver
  BY DEF OwnStep, WBegin, WEvent, WMainEvent, WSend, WWait, WRecv, WEnd
<1>2. dpos' = dpos
  BY <1>1 DEF driver
<1>3. Silent
  BY <1>1, <1>2 DEF Silent
<1> QED
  BY <1>1, <1>2, <1>3, SilentCounts

(* Nothing is left of an earlier round. *)
LEMMA QuietStep ==
    ASSUME TypeOK, Places, [Next]_vars, NEW w \in Workers, Wires(w), Quiet(w), Used(w)
    PROVE  Quiet(w)'
<1> SUFFICES ASSUME Untouched'
             PROVE  /\ \A r \in Rounds' \ {round'} : chan'[w][r] = <<>>
                    /\ wpc'[w] # "done" \/ w \notin allocated' \/ Tidy'
                           => mcount'[w] = 0 /\ mmsgs'[w] = <<>>
  BY DEF Quiet
<1>0. round \in Rounds
  BY DEF TypeOK
<1>1. CASE NextRound
  <2>1. Tidy /\ Untouched /\ wpc[w] = "done" /\ Rounds' = Rounds /\ Remote' = Remote
    BY <1>1, UntouchedNext, RoundFacts
  <2>2. chan[w][round] = <<>>
    BY <1>0, <2>1 DEF Used, Wires
  <2>3. /\ \A r \in Rounds : chan[w][r] = <<>>
        /\ mcount[w] = 0 /\ mmsgs[w] = <<>>
    BY <2>1, <2>2 DEF Quiet
  <2> QED
    BY <1>1, <2>1, <2>3, RoundFacts
<1>2. ASSUME UNCHANGED <<sc, round>>
      PROVE  /\ Untouched /\ Rounds' = Rounds /\ round' = round /\ allocated' = allocated
             /\ (Tidy' <=> Tidy) /\ \A r \in Rounds \ {round} : chan[w][r] = <<>>
             /\ wpc[w] # "done" \/ w \notin allocated \/ Tidy => mcount[w] = 0 /\ mmsgs[w] = <<>>
  <2>1. Untouched /\ Rounds' = Rounds /\ round' = round /\ allocated' = allocated
        /\ (Tidy' <=> Tidy)
    BY <1>2, SameRound
  <2> QED
    BY <2>1 DEF Quiet
<1>3. ASSUME UNCHANGED <<sc, round>>, \A r \in Rounds \ {round} : chan'[w][r] = chan[w][r],
             wpc'[w] = wpc[w] \/ wpc[w] # "done", mcount'[w] = mcount[w], mmsgs'[w] = mmsgs[w]
      PROVE  /\ \A r \in Rounds' \ {round'} : chan'[w][r] = <<>>
             /\ wpc'[w] # "done" \/ w \notin allocated' \/ Tidy'
                    => mcount'[w] = 0 /\ mmsgs'[w] = <<>>
  <2>1. \A r \in Rounds' \ {round'} : chan'[w][r] = <<>>
    BY <1>2, <1>3
  <2>2. wpc'[w] # "done" \/ w \notin allocated' \/ Tidy' => mcount'[w] = 0 /\ mmsgs'[w] = <<>>
    BY <1>2, <1>3
  <2> QED
    BY <2>1, <2>2
<1>4. CASE DNotify \/ DSend
  <2>1. ASSUME NEW k \in {"NOTIFY", "USER_MESSAGE"}, ToAll(k)
        PROVE  \A r \in Rounds \ {round} : chan'[w][r] = chan[w][r]
    BY <2>1, Sending
  <2>2. /\ \A r \in Rounds \ {round} : chan'[w][r] = chan[w][r]
        /\ UNCHANGED <<sc, round, wpc, mcount, mmsgs>>
    BY <1>4, <2>1 DEF DNotify, DSend, wchild
  <2> QED
    BY <1>3, <2>2
<1>5. CASE Aside(w)
  BY <1>3, <1>5 DEF Aside, Still, Silent
<1>6. CASE OwnStep(w)
  <2>1. UNCHANGED <<sc, round>>
    BY <1>6, OwnFacts
  <2>2. ASSUME NEW r \in Rounds, Readable(w, r), Read(w, r)
        PROVE  r = round /\ \A q \in Rounds \ {round} : chan'[w][q] = chan[w][q]
    <3>1. r = round
      BY <1>2, <2>1, <2>2, OnlyRound
    <3> QED
      BY <2>2, <3>1, Reading
  <2>3. ASSUME NEW r \in Rounds, WBegin(w, r) \/ WEvent(w, r)
        PROVE  /\ \A q \in Rounds \ {round} : chan'[w][q] = chan[w][q]
               /\ wpc[w] # "done" /\ mcount'[w] = mcount[w] /\ mmsgs'[w] = mmsgs[w]
    BY <2>2, <2>3 DEF WBegin, WEvent, WPolling
  <2>4. ASSUME NEW r \in Rounds, WMainEvent(w, r)
        PROVE  /\ \A q \in Rounds' \ {round'} : chan'[w][q] = <<>>
               /\ wpc'[w] # "done" \/ w \notin allocated' \/ Tidy'
                      => mcount'[w] = 0 /\ mmsgs'[w] = <<>>
    <3>1. /\ Readable(w, r) /\ Read(w, r) /\ wpc[w] \in {"main", "done"} /\ wpc' = wpc
          /\ Head(chan[w][r]).kind # "RUN_TEST"
      BY <2>4 DEF WMainEvent, wchild
    <3>2. r = round /\ \A q \in Rounds \ {round} : chan'[w][q] = chan[w][q]
      BY <2>2, <3>1
    <3>3. wpc[w] = "done" /\ chan[w][round] # <<>>
      BY <3>1, <3>2, Reading DEF Wires, Readable
    <3>4. w \in allocated /\ ~Tidy
      BY <1>0, <3>3 DEF Wires, Used
    <3>5. \A q \in Rounds' \ {round'} : chan'[w][q] = <<>>
      BY <1>2, <2>1, <3>2
    <3> QED
      BY <1>2, <2>1, <3>1, <3>3, <3>4, <3>5
  <2>5. CASE WSend(w, "notify", "NOTIFY") \/ WSend(w, "send", "USER_MESSAGE") \/ WWait(w)
             \/ WRecv(w) \/ WEnd(w)
    <3>1. wpc[w] = "body" /\ UNCHANGED <<chan, mcount, mmsgs>>
      BY <2>5 DEF WSend, WWait, WRecv, WEnd
    <3> QED
      BY <1>3, <2>1, <3>1
  <2> QED
    BY <1>3, <1>6, <2>1, <2>3, <2>4, <2>5 DEF OwnStep
<1> QED
  BY <1>1, <1>4, <1>5, <1>6, View

(* A worker that has not begun has everything before it. *)
LEMMA AwaitingStep ==
    ASSUME TypeOK, Places, [Next]_vars, NEW w \in Workers, Wires(w), Quiet(w), Awaiting(w)
    PROVE  Awaiting(w)'
<1> SUFFICES ASSUME Mine(w)', wpc'[w] = "main"
             PROVE  /\ Cardinality(OnWire(w, "NOTIFY")') = Cardinality(DDone("notify")')
                    /\ Cardinality(OnWire(w, "USER_MESSAGE")') = Cardinality(DDone("send")')
  BY DEF Awaiting
<1>1. CASE NextRound
  <2>1. /\ w \in allocated' /\ dpos' = 1
        /\ chan'[w][round'] = <<[kind |-> "RUN_TEST", round |-> round', pos |-> 0]>>
    BY <1>1, RoundFacts
  <2>2. OnWire(w, "NOTIFY")' = {} /\ OnWire(w, "USER_MESSAGE")' = {}
    BY <2>1 DEF OnWire
  <2>3. DDone("notify")' = {} /\ DDone("send")' = {}
    BY <2>1 DEF DDone
  <2> QED
    BY <2>2, <2>3
<1>2. ASSUME UNCHANGED <<sc, round>>, wpc[w] = "main"
      PROVE  /\ Mine(w)
             /\ Cardinality(OnWire(w, "NOTIFY")) = Cardinality(DDone("notify"))
             /\ Cardinality(OnWire(w, "USER_MESSAGE")) = Cardinality(DDone("send"))
  BY <1>2, SameRound DEF Awaiting
<1>2a. \A k : Cardinality(OnWire(w, k)) \in Nat
  BY WireFacts
<1>2b. \A op : Cardinality(DDone(op)) \in Nat
  BY DoneType
<1>3. CASE DNotify \/ DSend
  <2>1. sc' = sc /\ round' = round /\ wpc' = wpc
    BY <1>3 DEF DNotify, DSend, wchild
  <2>2. w \in allocated /\ Cardinality(OnWire(w, "NOTIFY")) = Cardinality(DDone("notify"))
        /\ Cardinality(OnWire(w, "USER_MESSAGE")) = Cardinality(DDone("send"))
    BY <1>2, <2>1 DEF Mine
  <2>3. /\ Cardinality(OnWire(w, "NOTIFY")') - Cardinality(OnWire(w, "NOTIFY"))
             = Cardinality(DDone("notify")') - Cardinality(DDone("notify"))
        /\ Cardinality(OnWire(w, "USER_MESSAGE")') - Cardinality(OnWire(w, "USER_MESSAGE"))
             = Cardinality(DDone("send")') - Cardinality(DDone("send"))
        /\ Cardinality(OnWire(w, "NOTIFY")') \in Nat /\ Cardinality(DDone("notify")') \in Nat
        /\ Cardinality(OnWire(w, "USER_MESSAGE")') \in Nat /\ Cardinality(DDone("send")') \in Nat
    BY <1>3, <2>2, SendCounts
  <2> QED
    BY <1>2a, <1>2b, <2>2, <2>3
<1>4. CASE Aside(w)
  <2>1. UNCHANGED <<sc, round>> /\ wpc[w] = "main" /\ chan'[w] = chan[w] /\ Silent
    BY <1>4 DEF Aside, Still, Silent
  <2>2. \A k : OnWire(w, k)' = OnWire(w, k)
    BY <2>1 DEF OnWire
  <2>3. DDone("notify")' = DDone("notify") /\ DDone("send")' = DDone("send")
    BY <2>1, SilentCounts
  <2> QED
    BY <1>2, <2>1, <2>2, <2>3
<1>5. CASE OwnStep(w)
  <2>1. ASSUME NEW r \in Rounds, WMainEvent(w, r)
        PROVE  FALSE
    <3>1. wpc[w] = "main" /\ Readable(w, r) /\ Head(chan[w][r]).kind # "RUN_TEST"
      BY <2>1 DEF WMainEvent, wchild
    <3>2. Mine(w)
      BY <1>2, <1>5, <3>1, OwnFacts
    <3>3. r = round
      BY <3>1, <3>2, OnlyRound DEF Mine
    <3> QED
      BY <3>1, <3>3, Reading DEF Wires
  <2> QED
    BY <1>5, <2>1 DEF OwnStep, WBegin, WEvent, WPolling, WSend, WWait, WRecv, WEnd, TypeOK
<1> QED
  BY <1>1, <1>3, <1>4, <1>5, View

(* A wait() uses up as many notifications as it waits for, *)
LEMMA UsesMore ==
    ASSUME TypeOK, NEW w \in Workers, WOp(w, "wait"), WNext(w), sc' = sc, round' = round,
           IsFiniteSet(UsedUp(w))
    PROVE  /\ IsFiniteSet(UsedUp(w)') /\ Waited(w) \in Nat
           /\ Waited(w)' = Waited(w) + WNeeded(w)
<1> DEFINE p == wpos[w]
           N == {p} \X (1..Uses(p))
<1>1. /\ WDone(w, "wait")' = WDone(w, "wait") \union {p} /\ p \notin WDone(w, "wait")
  BY WorkerDone
<1>2. WNeeded(w) = Uses(p) /\ Uses(p) \in Nat
  BY WorkerAt
<1>3. \A i : Uses(i)' = Uses(i)
  BY SameRound DEF Uses
<1>4. UsedUp(w)' = UNION {{i} \X (1..Uses(i)) : i \in WDone(w, "wait")'}
  BY <1>3 DEF UsedUp
<1>5. UsedUp(w)' = UsedUp(w) \union N
  BY <1>1, <1>4 DEF UsedUp
<1>6. UsedUp(w) \intersect N = {}
  BY <1>1 DEF UsedUp
<1>7. IsFiniteSet({p}) /\ Cardinality({p}) = 1
  BY FS_Singleton
<1>8. IsFiniteSet(1..Uses(p)) /\ Cardinality(1..Uses(p)) = Uses(p)
  BY <1>2, FS_Interval
<1>9. IsFiniteSet(N) /\ Cardinality(N) = Uses(p)
  <2>1. IsFiniteSet(N) /\ Cardinality(N) = Cardinality({p}) * Cardinality(1..Uses(p))
    BY <1>7, <1>8, FS_Product
  <2> QED
    BY <1>2, <1>7, <1>8, <2>1
<1> HIDE DEF N
<1>10. /\ IsFiniteSet(UsedUp(w) \union N)
       /\ Cardinality(UsedUp(w) \union N) = Cardinality(UsedUp(w)) + Cardinality(N)
  <2>1. /\ IsFiniteSet(UsedUp(w) \union N)
        /\ Cardinality(UsedUp(w) \union N) = Cardinality(UsedUp(w)) + Cardinality(N)
                                               - Cardinality(UsedUp(w) \intersect N)
    BY <1>9, FS_Union
  <2>2. Cardinality(UsedUp(w) \intersect N) = 0
    BY <1>6, FS_EmptySet
  <2>3. Cardinality(UsedUp(w)) \in Nat /\ Cardinality(N) \in Nat
    BY <1>9, FS_CardinalityType
  <2> QED
    BY <2>1, <2>2, <2>3
<1>11. Waited(w) = Cardinality(UsedUp(w)) /\ Waited(w)' = Cardinality(UsedUp(w)')
  BY DEF Waited, UsedUp
<1>12. Cardinality(UsedUp(w)) \in Nat
  BY FS_CardinalityType
<1> QED
  BY <1>2, <1>5, <1>9, <1>10, <1>11, <1>12

(* one when it waits for the driver's next one; *)
LEMMA UsesOne ==
    ASSUME TypeOK, Tidy, NEW w \in Workers, WOp(w, "wait")
    PROVE  WNeeded(w) = 1
<1>1. /\ wpos[w] \in 1..Len(WorkerScript[round])
      /\ WorkerScript[round][wpos[w]].op = "wait"
  BY WorkerAt
<1>2. wpos[w] \in DOMAIN WorkerScript[round]
  BY <1>1, Facts, LenProperties
<1>3. WorkerScript[round][wpos[w]].n = 0
  BY <1>1, <1>2 DEF Tidy, Consumed
<1> QED
  BY <1>3 DEF WNeeded

(* the other operations, none. *)
LEMMA UsesSame ==
    ASSUME sc' = sc, round' = round, NEW w, WDone(w, "wait")' = WDone(w, "wait")
    PROVE  UsedUp(w)' = UsedUp(w) /\ Waited(w)' = Waited(w)
<1>1. \A i : Uses(i)' = Uses(i)
  BY SameRound DEF Uses
<1>2. UsedUp(w)' = UNION {{i} \X (1..Uses(i)) : i \in WDone(w, "wait")'}
  BY <1>1 DEF UsedUp
<1>3. UsedUp(w)' = UsedUp(w)
  BY <1>2 DEF UsedUp
<1> QED
  BY <1>3 DEF Waited, UsedUp

(* No notification to a worker is lost or invented. *)
LEMMA NotificationsStep ==
    ASSUME TypeOK, TypeOK', Places, [Next]_vars, NEW w \in Workers, Wires(w), Quiet(w), Awaiting(w),
           Notifications(w)
    PROVE  Notifications(w)'
<1> DEFINE Now == /\ Waited(w) + wcount[w] + Cardinality(OnWire(w, "NOTIFY"))
                       = Cardinality(DDone("notify"))
                  /\ IsFiniteSet(UsedUp(w))
                  /\ Tidy => Waited(w) = Cardinality(WDone(w, "wait"))
           Then == /\ Waited(w)' + wcount'[w] + Cardinality(OnWire(w, "NOTIFY")')
                        = Cardinality(DDone("notify")')
                   /\ IsFiniteSet(UsedUp(w)')
                   /\ Tidy' => Waited(w)' = Cardinality(WDone(w, "wait")')
<1> SUFFICES ASSUME Mine(w)', wpc'[w] = "body"
             PROVE  Then
  BY DEF Notifications
<1>0. /\ Cardinality(OnWire(w, "NOTIFY")) \in Nat /\ wcount[w] \in Nat /\ wcount'[w] \in Nat
      /\ Cardinality(DDone("notify")) \in Nat /\ Cardinality(WDone(w, "wait")) \in Nat
  BY WireFacts, DoneType DEF TypeOK
<1>1. CASE NextRound
  BY <1>1, RoundFacts
<1>2. ASSUME UNCHANGED <<sc, round>>
      PROVE  /\ Mine(w) /\ (Tidy' <=> Tidy) /\ w \in allocated
             /\ wpc[w] = "body" => Now
  BY <1>2, SameRound DEF Notifications, Mine
<1>3. ASSUME UNCHANGED <<sc, round>>, wpc[w] = "body", WDone(w, "wait")' = WDone(w, "wait")
      PROVE  /\ Now /\ Waited(w)' = Waited(w) /\ Waited(w) \in Nat
             /\ IsFiniteSet(UsedUp(w)')
             /\ Tidy' => Waited(w)' = Cardinality(WDone(w, "wait")')
  <2>1. Now /\ (Tidy' <=> Tidy)
    BY <1>2, <1>3
  <2>2. UsedUp(w)' = UsedUp(w) /\ Waited(w)' = Waited(w)
    BY <1>3, UsesSame
  <2>3. Waited(w) \in Nat
    BY <2>1, FS_CardinalityType DEF Waited, UsedUp
  <2> QED
    BY <1>3, <2>1, <2>2, <2>3
<1>4. CASE DNotify \/ DSend
  <2>1. UNCHANGED <<sc, round, wpc, wpos, wcount>> /\ WDone(w, "wait")' = WDone(w, "wait")
    BY <1>4, SameRound DEF DNotify, DSend, wchild, WDone
  <2>2. /\ Cardinality(OnWire(w, "NOTIFY")') - Cardinality(OnWire(w, "NOTIFY"))
             = Cardinality(DDone("notify")') - Cardinality(DDone("notify"))
        /\ Cardinality(OnWire(w, "NOTIFY")') \in Nat /\ Cardinality(DDone("notify")') \in Nat
    BY <1>2, <1>4, <2>1, SendCounts
  <2>3. /\ Now /\ Waited(w)' = Waited(w) /\ Waited(w) \in Nat
        /\ IsFiniteSet(UsedUp(w)')
        /\ Tidy' => Waited(w)' = Cardinality(WDone(w, "wait")')
    BY <1>3, <2>1
  <2>4. Waited(w)' + wcount'[w] + Cardinality(OnWire(w, "NOTIFY")') = Cardinality(DDone("notify")')
    BY <1>0, <2>1, <2>2, <2>3
  <2> QED
    BY <2>3, <2>4
<1>5. CASE Aside(w)
  <2>1. UNCHANGED <<sc, round>> /\ wpc[w] = "body" /\ chan'[w] = chan[w] /\ Silent
        /\ wcount'[w] = wcount[w] /\ WDone(w, "wait")' = WDone(w, "wait")
    BY <1>5, SameRound DEF Aside, Still, Silent, WDone
  <2>2. OnWire(w, "NOTIFY")' = OnWire(w, "NOTIFY") /\ DDone("notify")' = DDone("notify")
    BY <2>1, SilentCounts DEF OnWire
  <2> QED
    BY <1>3, <2>1, <2>2
<1>6. CASE OwnStep(w)
  <2>1. UNCHANGED <<sc, round>> /\ DDone("notify")' = DDone("notify")
    BY <1>6, OwnFacts
  <2>2. Mine(w) /\ (Tidy' <=> Tidy) /\ (wpc[w] = "body" => Now)
    BY <1>2, <2>1
  <2>3. ASSUME NEW r \in Rounds, WBegin(w, r)
        PROVE  Then
    <3>1. /\ wpc[w] = "main" /\ Readable(w, r) /\ Read(w, r) /\ Head(chan[w][r]).kind = "RUN_TEST"
          /\ wpos'[w] = 1 /\ wcount'[w] = mcount[w]
      BY <2>3 DEF WBegin, TypeOK
    <3>2. r = round
      BY <2>2, <3>1, OnlyRound DEF Mine
    <3>3. Cardinality(OnWire(w, "NOTIFY")') = Cardinality(OnWire(w, "NOTIFY"))
      BY <2>1, <3>1, <3>2, ReadKinds
    <3>4. Cardinality(OnWire(w, "NOTIFY")) = Cardinality(DDone("notify"))
      BY <2>2, <3>1 DEF Awaiting
    <3>5. mcount[w] = 0
      BY <2>2, <3>1 DEF Mine, Wires, Quiet
    <3>6. WDone(w, "wait")' = {}
      BY <3>1 DEF WDone
    <3>7. UsedUp(w)' = {}
      BY <3>6 DEF UsedUp
    <3>8. /\ Cardinality(WDone(w, "wait")') = 0 /\ Waited(w)' = 0 /\ IsFiniteSet(UsedUp(w)')
      BY <3>6, <3>7, FS_EmptySet DEF Waited, UsedUp
    <3> QED
      BY <1>0, <2>1, <3>1, <3>3, <3>4, <3>5, <3>8
  <2>4. ASSUME NEW r \in Rounds, WEvent(w, r)
        PROVE  Then
    <3>1. /\ wpc[w] = "body" /\ Readable(w, r) /\ Read(w, r) /\ UNCHANGED <<wpos>>
          /\ wcount'[w] = IF Head(chan[w][r]).kind = "NOTIFY" THEN wcount[w] + 1 ELSE wcount[w]
      BY <2>4 DEF WEvent, WPolling, TypeOK
    <3>2. r = round
      BY <2>2, <3>1, OnlyRound DEF Mine
    <3>3. Cardinality(OnWire(w, "NOTIFY")')
            = IF Head(chan[w][r]).kind = "NOTIFY" THEN Cardinality(OnWire(w, "NOTIFY")) - 1
                                                  ELSE Cardinality(OnWire(w, "NOTIFY"))
      BY <2>1, <3>1, <3>2, ReadKinds
    <3>4. WDone(w, "wait")' = WDone(w, "wait")
      BY <2>1, <3>1, SameRound DEF WDone
    <3>5. /\ Now /\ Waited(w)' = Waited(w) /\ Waited(w) \in Nat
          /\ IsFiniteSet(UsedUp(w)')
          /\ Tidy' => Waited(w)' = Cardinality(WDone(w, "wait")')
      BY <1>3, <2>1, <3>1, <3>4
    <3>6. Waited(w)' + wcount'[w] + Cardinality(OnWire(w, "NOTIFY")') = Cardinality(DDone("notify")')
      BY <1>0, <2>1, <3>1, <3>3, <3>5
    <3> QED
      BY <3>5, <3>6
  <2>5. ASSUME NEW r \in Rounds, WMainEvent(w, r)
        PROVE  FALSE
    BY <2>5 DEF WMainEvent, wchild
  <2>6. ASSUME NEW op, op # "wait", WOp(w, op), WNext(w), UNCHANGED <<wcount, chan>>, wpc[w] = "body"
        PROVE  Then
    <3>1. WDone(w, "wait")' = WDone(w, "wait")
      BY <2>1, <2>6, WorkerDone
    <3>2. OnWire(w, "NOTIFY")' = OnWire(w, "NOTIFY")
      BY <2>1, <2>6 DEF OnWire
    <3> QED
      BY <1>3, <2>1, <2>6, <3>1, <3>2
  <2>7. CASE WSend(w, "notify", "NOTIFY") \/ WSend(w, "send", "USER_MESSAGE") \/ WRecv(w)
    BY <2>6, <2>7 DEF WSend, WRecv
  <2>8. CASE WWait(w)
    <3>1. /\ WOp(w, "wait") /\ WNext(w) /\ wpc[w] = "body" /\ chan' = chan
          /\ wcount[w] >= WNeeded(w) /\ wcount'[w] = wcount[w] - WNeeded(w)
      BY <2>8 DEF WWait, TypeOK
    <3>2. Now
      BY <2>2, <3>1
    <3>3. /\ IsFiniteSet(UsedUp(w)') /\ Waited(w) \in Nat
          /\ Waited(w)' = Waited(w) + WNeeded(w)
      BY <2>1, <3>1, <3>2, UsesMore
    <3>4. OnWire(w, "NOTIFY")' = OnWire(w, "NOTIFY")
      BY <2>1, <3>1 DEF OnWire
    <3>5. WNeeded(w) \in Nat
      BY <3>1, WorkerAt
    <3>6. Waited(w)' + wcount'[w] + Cardinality(OnWire(w, "NOTIFY")') = Cardinality(DDone("notify")')
      BY <1>0, <2>1, <3>1, <3>2, <3>3, <3>4, <3>5
    <3>7. ASSUME Tidy'
          PROVE  Waited(w)' = Cardinality(WDone(w, "wait")')
      <4>1. WNeeded(w) = 1
        BY <2>2, <3>1, <3>7, UsesOne
      <4>2. Cardinality(WDone(w, "wait")') = Cardinality(WDone(w, "wait")) + 1
        BY <2>1, <3>1, WorkerDone
      <4> QED
        BY <2>2, <3>2, <3>3, <3>7, <4>1, <4>2
    <3> QED
      BY <3>3, <3>6, <3>7
  <2>9. CASE WEnd(w)
    BY <2>9 DEF WEnd, TypeOK
  <2> QED
    BY <1>6, <2>3, <2>4, <2>5, <2>7, <2>8, <2>9 DEF OwnStep
<1> QED
  BY <1>1, <1>4, <1>5, <1>6, View

(* Messages in order. *)

(* A later message comes last. *)
LEMMA AscendingMore ==
    ASSUME NEW s \in Seq(FromDriver), NEW m \in FromDriver, NEW p, Ascending(s, m.round, p),
           m.pos < p, \A i \in DOMAIN s : s[i].pos < m.pos
    PROVE  Ascending(Append(s, m), m.round, p)
<1> DEFINE t == Append(s, m)
<1>1. /\ Len(s) \in Nat /\ DOMAIN s = 1..Len(s) /\ DOMAIN t = 1..(Len(s) + 1)
      /\ t[Len(s) + 1] = m /\ \A i \in 1..Len(s) : t[i] = s[i]
  BY AppendFacts
<1> HIDE DEF t
<1>3. \A i \in DOMAIN t : i \in DOMAIN s \/ i = Len(s) + 1
  BY <1>1
<1>4. \A i \in DOMAIN t : t[i].round = m.round /\ t[i].pos < p
  BY <1>1, <1>3 DEF Ascending
<1>5. \A i, j \in DOMAIN t : i < j => t[i].pos < t[j].pos
  BY <1>1, <1>3 DEF Ascending
<1> QED
  BY <1>4, <1>5 DEF Ascending, t

(* The driver goes on. *)
LEMMA AscendingLater ==
    ASSUME NEW s \in Seq(FromDriver), NEW r, NEW p \in Nat, NEW q \in Nat, q >= p,
           Ascending(s, r, p)
    PROVE  Ascending(s, r, q)
<1>1. \A i \in DOMAIN s : s[i] \in FromDriver
  BY ElementOfSeq, LenProperties
<1>2. \A i \in DOMAIN s : s[i].pos \in Nat
  BY <1>1 DEF FromDriver
<1>3. \A i \in DOMAIN s : s[i].round = r /\ s[i].pos < q
  BY <1>2 DEF Ascending
<1> QED
  BY <1>3 DEF Ascending

(* What is on the wire comes after what was read: one more is sent, ... *)
LEMMA BeforeAppend ==
    ASSUME NEW s, NEW t \in Seq(FromDriver), NEW m \in FromDriver, Before(s, t),
           \A i \in DOMAIN s : s[i].pos < m.pos
    PROVE  Before(s, Append(t, m))
BY AppendFacts DEF Before

(* ... the first one is read and not kept, ... *)
LEMMA BeforeTail ==
    ASSUME NEW s, NEW t \in Seq(FromDriver), t # <<>>, Before(s, t)
    PROVE  Before(s, Tail(t))
<1>1. /\ Len(t) \in Nat /\ DOMAIN t = 1..Len(t) /\ DOMAIN Tail(t) = 1..(Len(t) - 1)
      /\ \A i \in 1..(Len(t) - 1) : Tail(t)[i] = t[i + 1]
  BY TailFacts
<1>2. \A j \in DOMAIN Tail(t) : j + 1 \in DOMAIN t /\ Tail(t)[j] = t[j + 1]
  BY <1>1
<1> QED
  BY <1>2 DEF Before

(* ... or kept. *)
LEMMA BeforeMove ==
    ASSUME NEW s \in Seq(FromDriver), NEW t \in Seq(FromDriver), t # <<>>, Before(s, t),
           NEW r, NEW p, Ascending(t, r, p)
    PROVE  /\ Before(Append(s, Head(t)), Tail(t))
           /\ \A i \in DOMAIN s : s[i].pos < Head(t).pos
           /\ Head(t) \in FromDriver /\ Head(t).round = r /\ Head(t).pos < p
<1>1. /\ Len(t) \in Nat /\ Len(t) > 0 /\ DOMAIN t = 1..Len(t) /\ DOMAIN Tail(t) = 1..(Len(t) - 1)
      /\ Head(t) = t[1] /\ \A i \in 1..(Len(t) - 1) : Tail(t)[i] = t[i + 1]
  BY TailFacts
<1>2. 1 \in DOMAIN t
  BY <1>1
<1>3. Head(t) \in FromDriver
  BY HeadTailProperties
<1>4. /\ Len(s) \in Nat /\ DOMAIN s = 1..Len(s) /\ DOMAIN Append(s, Head(t)) = 1..(Len(s) + 1)
      /\ Append(s, Head(t))[Len(s) + 1] = Head(t)
      /\ \A i \in 1..Len(s) : Append(s, Head(t))[i] = s[i]
  BY <1>3, AppendFacts
<1>5. \A j \in DOMAIN Tail(t) : j + 1 \in DOMAIN t /\ Tail(t)[j] = t[j + 1] /\ j + 1 > 1
  BY <1>1
<1>6. \A j \in DOMAIN Tail(t) : Head(t).pos < Tail(t)[j].pos
  BY <1>1, <1>2, <1>5 DEF Ascending
<1>7. \A i \in DOMAIN s, j \in DOMAIN Tail(t) : s[i].pos < Tail(t)[j].pos
  BY <1>5 DEF Before
<1>8. \A i \in DOMAIN Append(s, Head(t)) : i \in DOMAIN s \/ i = Len(s) + 1
  BY <1>4
<1>9. Before(Append(s, Head(t)), Tail(t))
  BY <1>4, <1>6, <1>7, <1>8 DEF Before
<1> QED
  BY <1>1, <1>2, <1>3, <1>9 DEF Before, Ascending

(* A message read is the last one a body has; *)
LEMMA ConcatLast ==
    ASSUME NEW s \in Seq(FromDriver), NEW t \in Seq(FromDriver), NEW m \in FromDriver
    PROVE  s \o Append(t, m) = Append(s \o t, m)
<1>1. <<m>> \in Seq(FromDriver) /\ s \o t \in Seq(FromDriver)
  BY ConcatProperties
<1>2. Append(t, m) = t \o <<m>> /\ Append(s \o t, m) = (s \o t) \o <<m>>
  BY <1>1, AppendIsConcat
<1> QED
  BY <1>1, <1>2, ConcatAssociative

(* receiving it does not change that order. *)
LEMMA ConcatShift ==
    ASSUME NEW s \in Seq(FromDriver), NEW t \in Seq(FromDriver), t # <<>>
    PROVE  Append(s, Head(t)) \o Tail(t) = s \o t
<1> DEFINE a == Append(s, Head(t))
<1>1. /\ Len(t) \in Nat /\ Len(t) > 0 /\ Len(Tail(t)) = Len(t) - 1 /\ Tail(t) \in Seq(FromDriver)
      /\ Head(t) = t[1] /\ \A i \in 1..(Len(t) - 1) : Tail(t)[i] = t[i + 1]
  BY TailFacts
<1>2. Head(t) \in FromDriver
  BY HeadTailProperties
<1>3. /\ a \in Seq(FromDriver) /\ Len(s) \in Nat /\ Len(a) = Len(s) + 1
      /\ a[Len(s) + 1] = Head(t) /\ \A i \in 1..Len(s) : a[i] = s[i]
  BY <1>2, AppendFacts
<1> HIDE DEF a
<1>4. /\ a \o Tail(t) \in Seq(FromDriver) /\ Len(a \o Tail(t)) = Len(s) + Len(t)
      /\ \A i \in 1..(Len(s) + Len(t)) : (a \o Tail(t))[i]
            = IF i <= Len(s) + 1 THEN a[i] ELSE Tail(t)[i - (Len(s) + 1)]
  <2>1. Len(a) + Len(Tail(t)) = Len(s) + Len(t)
    BY <1>1, <1>3
  <2>2. /\ a \o Tail(t) \in Seq(FromDriver) /\ Len(a \o Tail(t)) = Len(a) + Len(Tail(t))
        /\ \A i \in 1..(Len(a) + Len(Tail(t))) : (a \o Tail(t))[i]
              = IF i <= Len(a) THEN a[i] ELSE Tail(t)[i - Len(a)]
    BY <1>1, <1>3, ConcatProperties
  <2> QED
    BY <1>3, <2>1, <2>2
<1>5. /\ s \o t \in Seq(FromDriver) /\ Len(s \o t) = Len(s) + Len(t)
      /\ \A i \in 1..(Len(s) + Len(t)) : (s \o t)[i] = IF i <= Len(s) THEN s[i] ELSE t[i - Len(s)]
  BY ConcatProperties
<1>6. ASSUME NEW i \in 1..(Len(s) + Len(t))
      PROVE  (a \o Tail(t))[i] = (s \o t)[i]
  <2>1. CASE i <= Len(s)
    BY <1>1, <1>3, <1>4, <1>5, <2>1
  <2>2. CASE i = Len(s) + 1
    BY <1>1, <1>3, <1>4, <1>5, <2>2
  <2>3. CASE i > Len(s) + 1
    <3>1. i - (Len(s) + 1) \in 1..(Len(t) - 1) /\ (i - (Len(s) + 1)) + 1 = i - Len(s)
      BY <1>1, <1>3, <2>3
    <3> QED
      BY <1>1, <1>3, <1>4, <1>5, <2>3, <3>1
  <2> QED
    BY <1>1, <1>3, <2>1, <2>2, <2>3
<1>7. a \o Tail(t) = s \o t
  BY <1>4, <1>5, <1>6, SeqEqual
<1> QED
  BY <1>7 DEF a

(* Nothing read yet. *)
LEMMA NothingRead ==
    ASSUME NEW r, NEW p, NEW t
    PROVE  Ascending(<<>>, r, p) /\ Before(<<>>, t)
BY DEF Ascending, Before

(* The body has the driver's messages, and has them in order. *)
LEMMA MessagesStep ==
    ASSUME TypeOK, Places, [Next]_vars, NEW w \in Workers, Wires(w), Quiet(w), Awaiting(w),
           Messages(w)
    PROVE  Messages(w)'
<1> DEFINE have == got[w] \o wmsgs[w]
           g == Len(got[w])
           m == Len(wmsgs[w])
           u == Cardinality(OnWire(w, "USER_MESSAGE"))
           d == Cardinality(DDone("send"))
           g2 == Len(got'[w])
           m2 == Len(wmsgs'[w])
           u2 == Cardinality(OnWire(w, "USER_MESSAGE")')
           d2 == Cardinality(DDone("send")')
           Total == g + m + u = d
           Taken == Tidy => g = Cardinality(WDone(w, "recv"))
           Order == Ascending(have, round, dpos) /\ Before(have, chan[w][round])
           Total2 == g2 + m2 + u2 = d2
           Taken2 == Tidy' => g2 = Cardinality(WDone(w, "recv")')
           Order2 == Ascending(got'[w] \o wmsgs'[w], round', dpos')
                     /\ Before(got'[w] \o wmsgs'[w], chan'[w][round'])
<1> SUFFICES ASSUME Mine(w)', wpc'[w] = "body"
             PROVE  Total2 /\ Taken2 /\ Order2
  BY DEF Messages
<1>0t. /\ got \in [Workers -> Seq(FromDriver)] /\ wmsgs \in [Workers -> Seq(FromDriver)]
       /\ wpc \in [Workers -> {"main", "body", "done"}] /\ round \in Rounds
       /\ wpos \in [Workers -> 1..(Len(WorkerScript[round]) + 1)]
       /\ dpos \in 1..(Len(DriverScript[round]) + 1)
  BY DEF TypeOK
<1>0s. /\ got[w] \in Seq(FromDriver) /\ wmsgs[w] \in Seq(FromDriver) /\ dpos \in Nat
  BY <1>0t, Facts
<1>0l. Len(got[w]) \in Nat /\ Len(wmsgs[w]) \in Nat
  BY <1>0s, LenProperties
<1>0h. have \in Seq(FromDriver)
  BY <1>0s, ConcatProperties
<1>0. /\ got[w] \in Seq(FromDriver) /\ wmsgs[w] \in Seq(FromDriver) /\ have \in Seq(FromDriver)
      /\ Len(got[w]) \in Nat /\ Len(wmsgs[w]) \in Nat /\ dpos \in Nat /\ round \in Rounds
  BY <1>0t, <1>0s, <1>0l, <1>0h
<1>0a. /\ Cardinality(OnWire(w, "USER_MESSAGE")) \in Nat /\ Cardinality(DDone("send")) \in Nat
       /\ Cardinality(WDone(w, "recv")) \in Nat /\ chan[w][round] \in Seq(FromDriver)
  BY WireFacts, DoneType
<1>0b. Ascending(chan[w][round], round, dpos)
  BY DEF Wires, Ascending
<1>0n. g \in Nat /\ m \in Nat /\ u \in Nat /\ d \in Nat
  BY <1>0l, <1>0a
<1> HIDE DEF have, g, m, u, d, g2, m2, u2, d2
<1>1. CASE NextRound
  BY <1>1, RoundFacts
<1>2. ASSUME UNCHANGED <<sc, round>>
      PROVE  /\ Mine(w) /\ (Tidy' <=> Tidy) /\ w \in allocated
             /\ wpc[w] = "body" => Total /\ Taken /\ Order
  BY <1>2, SameRound DEF Messages, Mine, have, g, m, u, d
<1>3. CASE DNotify \/ DSend
  <2>1. UNCHANGED <<sc, round, wpc, wpos, got, wmsgs>>
    BY <1>3 DEF DNotify, DSend, wchild
  <2>2. Total /\ Taken /\ Order /\ w \in allocated /\ (Tidy' <=> Tidy)
    BY <1>2, <2>1
  <2>3. /\ Cardinality(OnWire(w, "USER_MESSAGE")') - Cardinality(OnWire(w, "USER_MESSAGE"))
             = Cardinality(DDone("send")') - Cardinality(DDone("send"))
        /\ Cardinality(OnWire(w, "USER_MESSAGE")') \in Nat /\ Cardinality(DDone("send")') \in Nat
    BY <1>3, <2>2, SendCounts
  <2>4. Total2
    <3>1. g2 = g /\ m2 = m
      BY <2>1 DEF g, m, g2, m2
    <3>2. u2 - u = d2 - d /\ u2 \in Nat /\ d2 \in Nat
      BY <2>3 DEF u, d, u2, d2
    <3> QED
      BY <1>0n, <2>2, <3>1, <3>2
  <2>5. Taken2
    BY <2>1, <2>2, SameRound DEF WDone, g, g2
  <2>6. ASSUME NEW k \in {"NOTIFY", "USER_MESSAGE"}, ToAll(k), DNext
        PROVE  Order2
    <3>1. /\ chan'[w][round] = Append(chan[w][round], ToWorker(k))
          /\ ToWorker(k) \in FromDriver /\ ToWorker(k).pos = dpos
      BY <2>2, <2>6, Sending
    <3>2. \A i \in DOMAIN have : have[i].pos < ToWorker(k).pos
      BY <2>2, <3>1 DEF Ascending
    <3>3. Before(have, Append(chan[w][round], ToWorker(k)))
      BY <1>0a, <2>2, <3>1, <3>2, BeforeAppend
    <3>4. dpos' = dpos + 1 /\ dpos' >= dpos /\ dpos' \in Nat
      BY <1>0, <2>6 DEF DNext
    <3>5. Ascending(have, round, dpos')
      BY <1>0, <2>2, <3>4, AscendingLater
    <3> QED
      BY <2>1, <3>1, <3>3, <3>5 DEF have
  <2>7. Order2
    BY <1>3, <2>6 DEF DNotify, DSend
  <2> QED
    BY <2>4, <2>5, <2>7
<1>4. ASSUME UNCHANGED <<sc, round>>, Silent, wpc[w] = "body", chan'[w] = chan[w],
             got'[w] = got[w], wmsgs'[w] = wmsgs[w], WDone(w, "recv")' = WDone(w, "recv")
      PROVE  Total2 /\ Taken2 /\ Order2
  <2>1. Total /\ Taken /\ Order /\ (Tidy' <=> Tidy)
    BY <1>2, <1>4
  <2>2. DDone("send")' = DDone("send") /\ dpos' \in Nat /\ dpos' >= dpos
    BY <1>4, SilentCounts
  <2>3. OnWire(w, "USER_MESSAGE")' = OnWire(w, "USER_MESSAGE")
    BY <1>4 DEF OnWire
  <2>4. Ascending(have, round, dpos')
    BY <1>0, <2>1, <2>2, AscendingLater
  <2>5. Order2
    BY <1>4, <2>1, <2>4 DEF have
  <2>6. Total2
    BY <1>4, <2>1, <2>2, <2>3 DEF g, m, u, d, g2, m2, u2, d2
  <2>7. Taken2
    BY <1>4, <2>1 DEF g, g2
  <2> QED
    BY <2>5, <2>6, <2>7
<1>5. CASE Aside(w)
  <2>1. UNCHANGED <<sc, round>> /\ wpc[w] = "body" /\ Silent /\ chan'[w] = chan[w]
        /\ got'[w] = got[w] /\ wmsgs'[w] = wmsgs[w] /\ wpos'[w] = wpos[w]
    BY <1>5 DEF Aside, Still, Silent
  <2>2. WDone(w, "recv")' = WDone(w, "recv")
    BY <2>1, SameRound DEF WDone
  <2> QED
    BY <1>4, <2>1, <2>2
<1>6. CASE OwnStep(w)
  <2>1. /\ UNCHANGED <<sc, round, dpos>> /\ Silent /\ DDone("send")' = DDone("send")
    BY <1>6, OwnFacts
  <2>2. Mine(w) /\ (Tidy' <=> Tidy) /\ (wpc[w] = "body" => Total /\ Taken /\ Order)
    BY <1>2, <2>1
  <2>3. ASSUME NEW r \in Rounds, WBegin(w, r)
        PROVE  Total2 /\ Taken2 /\ Order2
    <3>1. /\ wpc[w] = "main" /\ Readable(w, r) /\ Read(w, r) /\ Head(chan[w][r]).kind = "RUN_TEST"
          /\ wpos'[w] = 1 /\ wmsgs'[w] = mmsgs[w] /\ got'[w] = <<>>
      BY <1>0t, <2>3 DEF WBegin
    <3>2. r = round
      BY <2>2, <3>1, OnlyRound DEF Mine
    <3>3. Cardinality(OnWire(w, "USER_MESSAGE")') = Cardinality(OnWire(w, "USER_MESSAGE"))
      BY <2>1, <3>1, <3>2, ReadKinds
    <3>4. Cardinality(OnWire(w, "USER_MESSAGE")) = Cardinality(DDone("send"))
      BY <2>2, <3>1 DEF Awaiting
    <3>5. mmsgs[w] = <<>>
      BY <2>2, <3>1 DEF Mine, Wires, Quiet
    <3>6. WDone(w, "recv")' = {}
      BY <3>1 DEF WDone
    <3>7. Cardinality(WDone(w, "recv")') = 0 /\ Len(<<>>) = 0
      BY <3>6, FS_EmptySet
    <3>8. <<>> \o <<>> = <<>>
      BY ConcatEmptySeq, EmptySeq
    <3>9. Order2
      BY <3>1, <3>5, <3>8, NothingRead
    <3>9a. g2 = 0 /\ m2 = 0 /\ u2 = d2 /\ u2 \in Nat
      BY <1>0a, <2>1, <3>1, <3>3, <3>4, <3>5, <3>7 DEF g2, m2, u2, d2
    <3>10. Total2
      BY <3>9a
    <3>11. Taken2
      BY <3>7, <3>9a
    <3> QED
      BY <3>9, <3>10, <3>11
  <2>4. ASSUME NEW r \in Rounds, WEvent(w, r)
        PROVE  Total2 /\ Taken2 /\ Order2
    <3> DEFINE c == chan[w][round]
    <3>1. /\ wpc[w] = "body" /\ Readable(w, r) /\ Read(w, r) /\ UNCHANGED <<wpos, got>>
          /\ wmsgs'[w] = IF Head(chan[w][r]).kind = "NOTIFY" THEN wmsgs[w]
                                                             ELSE Append(wmsgs[w], Head(chan[w][r]))
      BY <1>0t, <2>4 DEF WEvent, WPolling
    <3>2. r = round
      BY <2>2, <3>1, OnlyRound DEF Mine
    <3>3. /\ c \in Seq(FromDriver) /\ c # <<>> /\ chan'[w][round] = Tail(c)
          /\ Head(c) = c[1] /\ Head(c) \in FromDriver
          /\ Head(c).kind \in {"RUN_TEST", "NOTIFY", "USER_MESSAGE"}
      BY <3>1, <3>2, Reading DEF Readable
    <3>4. Head(c).kind # "RUN_TEST"
      <4>1. 1 \in DOMAIN c
        BY <3>3, TailFacts
      <4> QED
        BY <1>0, <3>1, <3>3, <4>1 DEF Wires
    <3>5. \A k : Cardinality(OnWire(w, k)')
                    = IF Head(c).kind = k THEN Cardinality(OnWire(w, k)) - 1
                                          ELSE Cardinality(OnWire(w, k))
      BY <2>1, <3>1, <3>2, ReadKinds
    <3>6. Total /\ Taken /\ Order
      BY <2>2, <3>1
    <3>7. Taken2
      BY <2>1, <2>2, <3>1, <3>6, SameRound DEF WDone, g, g2
    <3> HIDE DEF c
    <3>8. CASE Head(c).kind = "NOTIFY"
      <4>1. wmsgs'[w] = wmsgs[w]
        BY <3>1, <3>2, <3>8 DEF c
      <4>2. Total2
        BY <2>1, <3>1, <3>5, <3>6, <3>8, <4>1 DEF g, m, u, d, g2, m2, u2, d2
      <4>3. Before(have, Tail(c))
        BY <3>3, <3>6, BeforeTail DEF c
      <4>4. Order2
        BY <2>1, <3>1, <3>3, <3>6, <4>1, <4>3 DEF have
      <4> QED
        BY <3>7, <4>2, <4>4
    <3>9. CASE Head(c).kind = "USER_MESSAGE"
      <4>1. wmsgs'[w] = Append(wmsgs[w], Head(c))
        BY <3>1, <3>2, <3>9 DEF c
      <4>2. Len(wmsgs'[w]) = Len(wmsgs[w]) + 1
        BY <1>0, <3>3, <4>1, AppendFacts
      <4>2a. g2 = g /\ m2 = m + 1 /\ u2 = u - 1 /\ d2 = d
        BY <2>1, <3>1, <3>5, <3>9, <4>2 DEF g, m, u, d, g2, m2, u2, d2
      <4>3. Total2
        BY <1>0n, <3>6, <4>2a
      <4>4. /\ Before(Append(have, Head(c)), Tail(c))
            /\ \A i \in DOMAIN have : have[i].pos < Head(c).pos
            /\ Head(c).round = round /\ Head(c).pos < dpos
        <5>1. Before(have, c) /\ Ascending(c, round, dpos)
          BY <1>0b, <3>6 DEF c
        <5> QED
          BY <1>0, <3>3, <5>1, BeforeMove
      <4>5. Ascending(Append(have, Head(c)), round, dpos)
        BY <1>0, <3>3, <3>6, <4>4, AscendingMore
      <4>6. got'[w] \o wmsgs'[w] = Append(have, Head(c))
        <5>1. got[w] \o Append(wmsgs[w], Head(c)) = Append(got[w] \o wmsgs[w], Head(c))
          BY <1>0, <3>3, ConcatLast
        <5> QED
          BY <3>1, <4>1, <5>1 DEF have
      <4>7. Order2
        BY <2>1, <3>3, <4>4, <4>5, <4>6
      <4> QED
        BY <3>7, <4>3, <4>7
    <3> QED
      BY <3>3, <3>4, <3>8, <3>9
  <2>5. ASSUME NEW r \in Rounds, WMainEvent(w, r)
        PROVE  FALSE
    BY <2>5 DEF WMainEvent, wchild
  <2>6. ASSUME NEW op, op # "recv", WOp(w, op), WNext(w), UNCHANGED <<got, wmsgs, chan>>,
               wpc[w] = "body"
        PROVE  Total2 /\ Taken2 /\ Order2
    <3>1. WDone(w, "recv")' = WDone(w, "recv")
      BY <2>1, <2>6, WorkerDone
    <3> QED
      BY <1>4, <2>1, <2>6, <3>1
  <2>7. CASE WSend(w, "notify", "NOTIFY") \/ WSend(w, "send", "USER_MESSAGE") \/ WWait(w)
    BY <2>6, <2>7 DEF WSend, WWait
  <2>8. CASE WRecv(w)
    <3>1. /\ WOp(w, "recv") /\ WNext(w) /\ wpc[w] = "body" /\ chan' = chan /\ wmsgs[w] # <<>>
          /\ got'[w] = Append(got[w], Head(wmsgs[w])) /\ wmsgs'[w] = Tail(wmsgs[w])
      BY <1>0t, <2>8 DEF WRecv
    <3>2. Total /\ Taken /\ Order
      BY <2>2, <3>1
    <3>3. got'[w] \o wmsgs'[w] = have
      BY <1>0, <3>1, ConcatShift DEF have
    <3>4. Order2
      BY <2>1, <3>1, <3>2, <3>3
    <3>5. Len(wmsgs'[w]) = Len(wmsgs[w]) - 1
      BY <1>0, <3>1, TailFacts
    <3>6. Head(wmsgs[w]) \in FromDriver
      BY <1>0, <3>1, HeadTailProperties
    <3>7. Len(got'[w]) = Len(got[w]) + 1
      BY <1>0, <3>1, <3>6, AppendFacts
    <3>8. OnWire(w, "USER_MESSAGE")' = OnWire(w, "USER_MESSAGE")
      BY <2>1, <3>1 DEF OnWire
    <3>8a. g2 = g + 1 /\ m2 = m - 1 /\ u2 = u /\ d2 = d
      BY <2>1, <3>5, <3>7, <3>8 DEF g, m, u, d, g2, m2, u2, d2
    <3>9. Total2
      BY <1>0n, <3>2, <3>8a
    <3>10. Cardinality(WDone(w, "recv")') = Cardinality(WDone(w, "recv")) + 1
      BY <2>1, <3>1, WorkerDone
    <3>11. Taken2
      BY <2>2, <3>2, <3>7, <3>10 DEF g, g2
    <3> QED
      BY <3>4, <3>9, <3>11
  <2>9. CASE WEnd(w)
    BY <1>0t, <2>9 DEF WEnd
  <2> QED
    BY <1>6, <2>3, <2>4, <2>5, <2>7, <2>8, <2>9 DEF OwnStep
<1> QED
  BY <1>1, <1>3, <1>5, <1>6, View

(* In a tidy round a body that ends has taken all, and all was sent. *)
LEMMA UsedAtEnd ==
    ASSUME TypeOK, Places, NEW w \in Workers, Wires(w), Notifications(w), Messages(w), Tidy, WEnd(w)
    PROVE  /\ chan[w][round] = <<>>
           /\ Cardinality(DDone("notify")) = Count(DriverScript[round], "notify")
           /\ Cardinality(DDone("send")) = Count(DriverScript[round], "send")
<1>1. /\ wpc[w] = "body" /\ w \in allocated /\ Mine(w) /\ Consumed(round)
      /\ wpos[w] > Len(WorkerScript[round])
  BY DEF WEnd, Places, Tidy, Clean, Mine, Untouched
<1>2. \A op : Cardinality(WDone(w, op)) = Count(WorkerScript[round], op)
  <2>0. Len(WorkerScript[round]) \in Nat /\ WorkerScript[round] \in Seq(Operations)
    BY Facts
  <2>0a. wpos[w] \in 1..(Len(WorkerScript[round]) + 1)
    BY DEF TypeOK
  <2>1. wpos[w] = Len(WorkerScript[round]) + 1
    BY <1>1, <2>0, <2>0a
  <2> QED
    BY <2>0, <2>1, CountEnds, DoneIs
<1>3. /\ Count(WorkerScript[round], "wait") = Count(DriverScript[round], "notify")
      /\ Count(WorkerScript[round], "recv") = Count(DriverScript[round], "send")
  BY <1>1 DEF Consumed
<1>4. /\ \A k : Cardinality(OnWire(w, k)) \in Nat
      /\ \A op : /\ Cardinality(DDone(op)) \in Nat /\ Count(DriverScript[round], op) \in Nat
                 /\ Cardinality(DDone(op)) <= Count(DriverScript[round], op)
  BY WireFacts, DoneType
<1>5. /\ Cardinality(DDone("notify")) = Count(DriverScript[round], "notify")
      /\ Cardinality(OnWire(w, "NOTIFY")) = 0
  <2>1. /\ Waited(w) + wcount[w] + Cardinality(OnWire(w, "NOTIFY")) = Cardinality(DDone("notify"))
        /\ Waited(w) = Count(DriverScript[round], "notify")
    BY <1>1, <1>2, <1>3 DEF Notifications
  <2>2. wcount[w] \in Nat
    BY DEF TypeOK
  <2>3. /\ Cardinality(OnWire(w, "NOTIFY")) \in Nat /\ Cardinality(DDone("notify")) \in Nat
        /\ Count(DriverScript[round], "notify") \in Nat
        /\ Cardinality(DDone("notify")) <= Count(DriverScript[round], "notify")
    BY <1>4
  <2> QED
    BY <2>1, <2>2, <2>3
<1>6. /\ Cardinality(DDone("send")) = Count(DriverScript[round], "send")
      /\ Cardinality(OnWire(w, "USER_MESSAGE")) = 0
  <2> DEFINE m == Len(wmsgs[w])
  <2>1. /\ Len(got[w]) + m + Cardinality(OnWire(w, "USER_MESSAGE")) = Cardinality(DDone("send"))
        /\ Len(got[w]) = Count(DriverScript[round], "send")
    BY <1>1, <1>2, <1>3 DEF Messages
  <2>2. m \in Nat
    <3>1. wmsgs[w] \in Seq(FromDriver)
      BY DEF TypeOK
    <3> QED
      BY <3>1, LenProperties
  <2> HIDE DEF m
  <2>3. /\ Cardinality(OnWire(w, "USER_MESSAGE")) \in Nat /\ Cardinality(DDone("send")) \in Nat
        /\ Count(DriverScript[round], "send") \in Nat
        /\ Cardinality(DDone("send")) <= Count(DriverScript[round], "send")
    BY <1>4
  <2>4. Count(DriverScript[round], "send") + m + Cardinality(OnWire(w, "USER_MESSAGE"))
          = Cardinality(DDone("send"))
    BY <2>1
  <2> QED
    BY <2>2, <2>3, <2>4
<1>7. chan[w][round] = <<>>
  <2>1. /\ round \in Rounds /\ chan[w][round] \in Seq(FromDriver)
        /\ OnWire(w, "NOTIFY") = Kinds(chan[w][round], "NOTIFY")
        /\ OnWire(w, "USER_MESSAGE") = Kinds(chan[w][round], "USER_MESSAGE")
        /\ \A i \in DOMAIN chan[w][round] :
              chan[w][round][i].kind \in {"RUN_TEST", "NOTIFY", "USER_MESSAGE"}
    BY WireFacts
  <2>2. OnWire(w, "NOTIFY") = {} /\ OnWire(w, "USER_MESSAGE") = {}
    BY <1>5, <1>6, <2>1, KindsType
  <2>3. \A i \in DOMAIN chan[w][round] : chan[w][round][i].kind # "RUN_TEST"
    BY <1>1, <2>1 DEF Wires
  <2>4. DOMAIN chan[w][round] = {}
    BY <2>1, <2>2, <2>3 DEF OnWire
  <2>5. CASE chan[w][round] # <<>>
    <3>1. Len(chan[w][round]) \in Nat /\ Len(chan[w][round]) > 0
          /\ DOMAIN chan[w][round] = 1..Len(chan[w][round])
      BY <2>1, <2>5, TailFacts
    <3>2. 1 \in DOMAIN chan[w][round]
      BY <3>1
    <3> QED
      BY <2>4, <3>2
  <2> QED
    BY <2>5
<1> QED
  BY <1>5, <1>6, <1>7

(* Nothing comes after that. *)
LEMMA UsedStep ==
    ASSUME TypeOK, Places, [Next]_vars, NEW w \in Workers, Wires(w), Quiet(w), Notifications(w),
           Messages(w), Used(w)
    PROVE  Used(w)'
<1> DEFINE Rest == /\ chan'[w][round'] = <<>>
                   /\ Cardinality(DDone("notify")') = Count(DriverScript[round], "notify")'
                   /\ Cardinality(DDone("send")') = Count(DriverScript[round], "send")'
<1> SUFFICES ASSUME Tidy', w \in allocated', wpc'[w] = "done"
             PROVE  Rest
  BY DEF Used
<1>1. CASE NextRound
  BY <1>1, RoundFacts
<1>2. ASSUME UNCHANGED <<sc, round>>
      PROVE  /\ Tidy /\ Mine(w) /\ w \in allocated
             /\ \A op : Count(DriverScript[round], op)' = Count(DriverScript[round], op)
             /\ wpc[w] = "done" =>
                   /\ chan[w][round] = <<>>
                   /\ Cardinality(DDone("notify")) = Count(DriverScript[round], "notify")
                   /\ Cardinality(DDone("send")) = Count(DriverScript[round], "send")
  <2>1. Tidy /\ w \in allocated
    BY <1>2, SameRound
  <2>2. \A op : Count(DriverScript[round], op)' = Count(DriverScript[round], op)
    BY <1>2, SameRound DEF Count
  <2>3. Mine(w)
    BY <2>1 DEF Mine, Tidy, Untouched
  <2> QED
    BY <2>1, <2>2, <2>3 DEF Used
<1>3. ASSUME NEW o \in {"notify", "send"}, UNCHANGED <<sc, round>>, DOp(o), DNext, wpc' = wpc
      PROVE  FALSE
  <2>1. Cardinality(DDone(o)) < Count(DriverScript[round], o) /\ Count(DriverScript[round], o) \in Nat
    BY <1>3, DriverDone, DoneType
  <2>2. /\ Cardinality(DDone("notify")) = Count(DriverScript[round], "notify")
        /\ Cardinality(DDone("send")) = Count(DriverScript[round], "send")
    BY <1>2, <1>3
  <2>3. Cardinality(DDone(o)) = Count(DriverScript[round], o)
    BY <2>2
  <2> QED
    BY <2>1, <2>3
<1>4. CASE DNotify \/ DSend
  BY <1>3, <1>4 DEF DNotify, DSend, wchild
<1>5. CASE Aside(w)
  <2>1. UNCHANGED <<sc, round>> /\ wpc[w] = "done" /\ Silent /\ chan'[w] = chan[w]
    BY <1>5 DEF Aside, Still, Silent
  <2>2. DDone("notify")' = DDone("notify") /\ DDone("send")' = DDone("send")
    BY <2>1, SilentCounts
  <2> QED
    BY <1>2, <2>1, <2>2
<1>6. CASE OwnStep(w)
  <2>1. /\ UNCHANGED <<sc, round>>
        /\ DDone("notify")' = DDone("notify") /\ DDone("send")' = DDone("send")
    BY <1>6, OwnFacts
  <2>2. CASE WEnd(w)
    <3>1. /\ chan[w][round] = <<>>
          /\ Cardinality(DDone("notify")) = Count(DriverScript[round], "notify")
          /\ Cardinality(DDone("send")) = Count(DriverScript[round], "send")
      BY <1>2, <2>1, <2>2, UsedAtEnd
    <3>2. chan' = chan
      BY <2>2 DEF WEnd
    <3> QED
      BY <1>2, <2>1, <3>1, <3>2
  <2>3. ASSUME NEW r \in Rounds, WMainEvent(w, r)
        PROVE  FALSE
    <3>1. Readable(w, r) /\ wpc[w] = "done"
      BY <2>3 DEF WMainEvent, wchild
    <3>2. r = round
      BY <1>2, <2>1, <3>1, OnlyRound DEF Mine
    <3> QED
      BY <1>2, <2>1, <3>1, <3>2 DEF Readable
  <2>4. wpc \in [Workers -> {"main", "body", "done"}]
    BY DEF TypeOK
  <2> QED
    BY <1>6, <2>2, <2>3, <2>4 DEF OwnStep, WBegin, WEvent, WPolling, WSend, WWait, WRecv
<1> QED
  BY <1>1, <1>4, <1>5, <1>6, View

-----------------------------------------------------------------------------
(* The invariant. *)

(* It holds at first: only RUN_TEST is on its way. *)
LEMMA InitInv ==
    ASSUME Init
    PROVE  IndInv
<1> DEFINE run == [kind |-> "RUN_TEST", round |-> 1, pos |-> 0]
<1>1. /\ sc \in Scenarios /\ round = 1 /\ Len(Alloc) \in Nat /\ round \in Rounds /\ 1 \in Rounds
      /\ allocated \subseteq Workers
      /\ Len(DriverScript[round]) \in Nat /\ Len(WorkerScript[round]) \in Nat
  BY ScenarioFacts DEF Init, Alloc, Rounds, allocated, DriverScript, WorkerScript
<1>2. run \in FromDriver /\ <<run>> \in Seq(FromDriver) /\ <<>> \in Seq(FromDriver)
      /\ <<>> \in Seq(ToDriver)
  BY <1>1, EmptySeq DEF FromDriver
<1>3. \A w \in Workers : /\ wpc[w] = IF w \in allocated THEN "main" ELSE "done"
                         /\ wpos[w] = 1 /\ got[w] = <<>> /\ mcount[w] = 0 /\ mmsgs[w] = <<>>
                         /\ pulls[w] = 0 /\ dcount[w] = 0
  BY DEF Init
<1>4. \A w \in Workers : /\ \A r \in Rounds : chan[w][r] = IF r = 1 /\ w \in allocated
                                                           THEN <<run>> ELSE <<>>
  BY DEF Init
<1>5. TypeOK
  <2>1. chan \in [Workers -> [Rounds -> Seq(FromDriver)]]
    BY <1>2 DEF Init
  <2>2. /\ dpos \in 1..(Len(DriverScript[round]) + 1)
        /\ wpos \in [Workers -> 1..(Len(WorkerScript[round]) + 1)]
    BY <1>1 DEF Init
  <2> QED
    BY <1>1, <1>2, <2>1, <2>2 DEF Init, TypeOK
<1>6. Places
  BY <1>3, FS_EmptySet DEF Init, Places
<1>7. ASSUME NEW w \in Workers
      PROVE  Wires(w)
  <2>1. \A r \in Rounds : r > 1 => r # 1
    BY DEF Rounds
  <2>2. /\ \A r \in Rounds : r > round \/ (r = round /\ w \notin allocated) => chan[w][r] = <<>>
        /\ \A r \in Rounds \ {round} : chan[w][r] = <<>>
    BY <1>1, <1>4, <2>1
  <2>3. \A r \in Rounds : \A i \in DOMAIN chan[w][r] :
           r = 1 /\ w \in allocated /\ i = 1 /\ chan[w][r][i] = run
    BY <1>4
  <2>4. \A r \in Rounds : \A i \in DOMAIN chan[w][r] :
           chan[w][r][i].kind = "RUN_TEST" => i = 1 /\ r = round /\ wpc[w] = "main"
    BY <1>1, <1>3, <2>3
  <2>5. wpc[w] = "main" => chan[w][round] = <<run>>
    BY <1>1, <1>3, <1>4
  <2>6. wpc[w] = "main" => chan[w][round] # <<>> /\ chan[w][round][1].kind = "RUN_TEST"
    <3>1. run.kind = "RUN_TEST" /\ <<run>> # <<>> /\ <<run>>[1] = run
      OBVIOUS
    <3> QED
      BY <2>5, <3>1
  <2>7. dpos = 1
    BY DEF Init
  <2>8. \A i \in DOMAIN chan[w][round] :
           chan[w][round][i].round = round /\ chan[w][round][i].pos < dpos
    BY <1>1, <2>3, <2>7
  <2>9. \A i, j \in DOMAIN chan[w][round] : i < j => chan[w][round][i].pos < chan[w][round][j].pos
    BY <1>1, <2>3
  <2> QED
    BY <1>3, <2>2, <2>4, <2>6, <2>8, <2>9 DEF Wires
<1>8. \A op : DDone(op) = {} /\ Cardinality(DDone(op)) = 0
  <2>1. \A op : DDone(op) = {}
    BY DEF Init, DDone
  <2> QED
    BY <2>1, FS_EmptySet
<1>9. \A w \in Workers : \A op : WDone(w, op) = {} /\ Cardinality(WDone(w, op)) = 0
  <2>1. \A w \in Workers : \A op : WDone(w, op) = {}
    BY <1>3 DEF WDone
  <2> QED
    BY <2>1, FS_EmptySet
<1>10. DriverInv
  <2>1. inbox = {} /\ pulled = {} /\ dpc = "body" /\ dmsgs = <<>> /\ dpos = 1
    BY DEF Init
  <2>2. Senders /\ Kept /\ Drained
    BY <2>1 DEF Senders, Kept, Drained
  <2>3. \A w : Cardinality(Notifies(w)) = 0
    BY <2>1, FS_EmptySet DEF Notifies
  <2>4. \A w \in allocated : Balance(w)
    BY <1>1, <1>3, <1>9, <2>3 DEF Balance, Notified
  <2>5. DriverNotifyConserved
    BY <2>4, BalanceIs
  <2>6. FullWaits(dpos) = {}
    BY <2>1 DEF FullWaits, Upto
  <2>7. Cardinality(FullWaits(dpos)) = 0
    BY <2>6, FS_EmptySet
  <2>8. Barrier
    BY <1>1, <1>3, <2>1, <2>7 DEF Barrier, Pulled, Waiting
  <2>9. Posted = {} /\ Arriving = {}
    BY <1>1, <1>9, <2>1 DEF Posted, Arriving
  <2>10. Cardinality(Posted) = 0 /\ Cardinality(Arriving) = 0 /\ Len(dmsgs) = 0
    BY <2>1, <2>9, FS_EmptySet
  <2>11. Received
    BY <1>8, <2>10 DEF Received
  <2> QED
    BY <2>2, <2>5, <2>8, <2>11 DEF DriverInv
<1>11. ASSUME NEW w \in Workers
       PROVE  WorkerInv(w)
  <2>1. Quiet(w)
    BY <1>1, <1>3, <1>4 DEF Quiet
  <2>2. \A k : k # "RUN_TEST" => OnWire(w, k) = {}
    BY <1>1, <1>4 DEF OnWire
  <2>3. Cardinality(OnWire(w, "NOTIFY")) = 0 /\ Cardinality(OnWire(w, "USER_MESSAGE")) = 0
    BY <2>2, FS_EmptySet
  <2>4. Awaiting(w)
    BY <1>8, <2>3 DEF Awaiting
  <2>5. Notifications(w) /\ Messages(w) /\ Used(w)
    BY <1>3 DEF Notifications, Messages, Used
  <2> QED
    BY <2>1, <2>4, <2>5 DEF WorkerInv
<1> QED
  BY <1>5, <1>6, <1>7, <1>10, <1>11 DEF IndInv

(* Every step keeps it. *)
LEMMA StepInv ==
    ASSUME IndInv, [Next]_vars
    PROVE  IndInv'
<1>1. /\ TypeOK /\ Places /\ Senders /\ DriverNotifyConserved /\ Barrier /\ Kept /\ Received
      /\ Drained /\ BarrierHolds
  BY BarrierNow DEF IndInv, DriverInv
<1>2. \A w \in Workers : /\ Wires(w) /\ Quiet(w) /\ Awaiting(w) /\ Notifications(w)
                         /\ Messages(w) /\ Used(w)
  BY DEF IndInv, WorkerInv
<1>3. TypeOK'
  BY <1>1, TypeStep
<1>4. Places'
  BY <1>1, PlacesStep
<1>5. \A w \in Workers : Wires(w)'
  BY <1>1, <1>2, WiresStep
<1>6. DriverInv'
  <2>1. Senders'
    BY <1>1, SendersStep
  <2>2. DriverNotifyConserved'
    BY <1>1, <1>3, BalanceStep
  <2>3. Barrier'
    BY <1>1, BarrierStep
  <2>4. Kept'
    BY <1>1, KeptStep
  <2>5. Received'
    BY <1>1, ReceivedStep
  <2>6. Drained'
    BY <1>1, DrainedStep
  <2> QED
    BY <2>1, <2>2, <2>3, <2>4, <2>5, <2>6 DEF DriverInv
<1>7. ASSUME NEW w \in Workers
      PROVE  WorkerInv(w)'
  <2>0. Wires(w) /\ Quiet(w) /\ Awaiting(w) /\ Notifications(w) /\ Messages(w) /\ Used(w)
    BY <1>2
  <2>1. Quiet(w)'
    BY <1>1, <2>0, QuietStep
  <2>2. Awaiting(w)'
    BY <1>1, <2>0, AwaitingStep
  <2>3. Notifications(w)'
    BY <1>1, <1>3, <2>0, NotificationsStep
  <2>4. Messages(w)'
    BY <1>1, <2>0, MessagesStep
  <2>5. Used(w)'
    BY <1>1, <2>0, UsedStep
  <2> QED
    BY <2>1, <2>2, <2>3, <2>4, <2>5 DEF WorkerInv
<1> QED
  BY <1>3, <1>4, <1>5, <1>6, <1>7 DEF IndInv

(* In every state of the driver and the workers, all events of the bodies  *)
(* are accounted for, and the queues between the tests are as the tests    *)
(* left them.                                                              *)
THEOREM Invariance == Spec => []IndInv
<1>1. Init => IndInv
  BY InitInv
<1>2. IndInv /\ [Next]_vars => IndInv'
  BY StepInv
<1> QED
  BY <1>1, <1>2, PTL DEF Spec

(* DriverContext::wait is a barrier for the workers of this test, if the   *)
(* tests before it used up their events: it has returned k times only when *)
(* each of them has called notify k times.                                 *)
THEOREM BarrierIsKept == Spec => []BarrierHolds
<1>1. IndInv => BarrierHolds
  BY BarrierNow DEF IndInv, DriverInv
<1> QED
  BY <1>1, Invariance, PTL

(* DriverContext and WorkerContext neither lose nor invent a notification, *)
(* and count each one once.                                                *)
THEOREM NotificationsAreConserved == Spec => []NotifyConserved
<1>1. ASSUME IndInv
      PROVE  NotifyConserved
  <2>1. TypeOK /\ Places /\ DriverNotifyConserved
    BY <1>1 DEF IndInv, DriverInv
  <2>2. ASSUME NEW w \in Fresh
        PROVE  Waited(w) + wcount[w] + Cardinality(OnWire(w, "NOTIFY")) = Cardinality(DDone("notify"))
    <3>1. w \in Workers /\ Mine(w) /\ wpc[w] = "body"
      BY <2>1, Facts DEF Fresh, Mine, Untouched
    <3>2. Notifications(w)
      BY <1>1, <3>1 DEF IndInv, WorkerInv
    <3> QED
      BY <3>1, <3>2 DEF Notifications
  <2> QED
    BY <2>1, <2>2 DEF NotifyConserved, WorkerNotifyConserved
<1> QED
  BY <1>1, Invariance, PTL

(* What the driver has sent is in order wherever a worker's body has it:   *)
(* received, read, or on the wire.                                         *)
LEMMA OrderOfAll ==
    ASSUME NEW s \in Seq(FromDriver), NEW t \in Seq(FromDriver), NEW r, NEW p,
           Ascending(s, r, p), Ascending(t, r, p), Before(s, t)
    PROVE  Ascending(s \o t, r, p)
<1> DEFINE a == s \o t
<1>1. /\ Len(s) \in Nat /\ Len(t) \in Nat /\ DOMAIN s = 1..Len(s) /\ DOMAIN t = 1..Len(t)
  BY LenProperties
<1>2. /\ a \in Seq(FromDriver) /\ Len(a) = Len(s) + Len(t)
      /\ \A i \in 1..(Len(s) + Len(t)) : a[i] = IF i <= Len(s) THEN s[i] ELSE t[i - Len(s)]
  BY ConcatProperties
<1>3. DOMAIN a = 1..(Len(s) + Len(t))
  BY <1>2, LenProperties
<1> HIDE DEF a
<1>4. \A i \in DOMAIN a : \/ i \in DOMAIN s /\ a[i] = s[i] /\ i <= Len(s)
                          \/ i - Len(s) \in DOMAIN t /\ a[i] = t[i - Len(s)] /\ i > Len(s)
  BY <1>1, <1>2, <1>3
<1>5. \A i \in DOMAIN a : a[i].round = r /\ a[i].pos < p
  BY <1>4 DEF Ascending
<1>6. ASSUME NEW i \in DOMAIN a, NEW j \in DOMAIN a, i < j
      PROVE  a[i].pos < a[j].pos
  <2>1. i \in Int /\ j \in Int
    BY <1>1, <1>3
  <2>2. CASE j <= Len(s)
    BY <1>1, <1>4, <1>6, <2>1, <2>2 DEF Ascending
  <2>3. CASE i > Len(s)
    <3>1. /\ i - Len(s) \in DOMAIN t /\ a[i] = t[i - Len(s)]
          /\ j - Len(s) \in DOMAIN t /\ a[j] = t[j - Len(s)]
      BY <1>1, <1>4, <1>6, <2>1, <2>3
    <3>2. i - Len(s) < j - Len(s)
      BY <1>1, <1>6, <2>1
    <3> QED
      BY <3>1, <3>2 DEF Ascending
  <2>4. CASE i <= Len(s) /\ j > Len(s)
    <3>1. /\ i \in DOMAIN s /\ a[i] = s[i]
          /\ j - Len(s) \in DOMAIN t /\ a[j] = t[j - Len(s)]
      BY <1>1, <1>4, <2>1, <2>4
    <3> QED
      BY <3>1 DEF Before
  <2> QED
    BY <1>1, <2>1, <2>2, <2>3, <2>4
<1> QED
  BY <1>5, <1>6 DEF Ascending, a

(* WorkerContext::getUserMessage returns the driver's messages of this     *)
(* test, all of them, in the order in which they were sent.                *)
THEOREM OrderIsKept == Spec => []MessagesInOrder
<1>1. ASSUME IndInv
      PROVE  MessagesInOrder
  <2>1. TypeOK /\ Places
    BY <1>1 DEF IndInv
  <2>2. ASSUME NEW w \in Fresh
        PROVE  /\ Len(got[w]) + Len(wmsgs[w]) + Cardinality(OnWire(w, "USER_MESSAGE"))
                    = Cardinality(DDone("send"))
               /\ Ascending(got[w] \o wmsgs[w] \o chan[w][round], round, dpos)
    <3>1. w \in Workers /\ Mine(w) /\ wpc[w] = "body"
      BY <2>1, Facts DEF Fresh, Mine, Untouched
    <3>2. Messages(w) /\ Wires(w)
      BY <1>1, <3>1 DEF IndInv, WorkerInv
    <3>3. /\ got[w] \in Seq(FromDriver) /\ wmsgs[w] \in Seq(FromDriver)
          /\ chan[w][round] \in Seq(FromDriver)
      BY <2>1, <3>1 DEF TypeOK
    <3>4. got[w] \o wmsgs[w] \in Seq(FromDriver)
      BY <3>3, ConcatProperties
    <3>5. Ascending(chan[w][round], round, dpos)
      BY <3>2 DEF Wires, Ascending
    <3>6. /\ Len(got[w]) + Len(wmsgs[w]) + Cardinality(OnWire(w, "USER_MESSAGE"))
               = Cardinality(DDone("send"))
          /\ Ascending(got[w] \o wmsgs[w], round, dpos)
          /\ Before(got[w] \o wmsgs[w], chan[w][round])
      BY <3>1, <3>2 DEF Messages
    <3>7. Ascending((got[w] \o wmsgs[w]) \o chan[w][round], round, dpos)
      BY <3>3, <3>4, <3>5, <3>6, OrderOfAll
    <3> QED
      BY <3>6, <3>7
  <2> QED
    BY <2>2 DEF MessagesInOrder, Ascending
<1> QED
  BY <1>1, Invariance, PTL
=============================================================================
