-------------------------- MODULE Network_proofs --------------------------
(***************************************************************************)
(* Proofs about Network, for any number of threads and tests, any sizes,   *)
(* durations and width of the counters: the report of a test is the        *)
(* traffic of its body, and no datagram is swallowed that was not to be.   *)
(*                                                                         *)
(* The counters wrap.  Numbers are equal if they differ by a multiple of   *)
(* Word and are both in range; Wraps and WrapsOnce say so without %.       *)
(***************************************************************************)
EXTENDS Network, TLAPS

Fields == {"sSize", "sCount", "rSize", "rCount"}

Call == [at : {"send"}, kind : {"stream", "datagram"}, go : BOOLEAN]
Ended == [at : {"sent", "received"}, n : {Size, 0}]
Places == pc \in [Threads -> {Idle} \union Call \union Ended]

(* A thread is locked out of tracking as deep as it is in the framework. *)
Locks == locked = depth

(* Tracking is on from Sandbox::enter to exit or exitAll. *)
Tracked == /\ track <=> stage # "out"
           /\ stage # "out" => test \in Tests

(* The network is faulty if the last test that was configured asked for it. *)
Fault ==
    /\ probabilistic => LET last == IF stage = "entered" THEN test - 1 ELSE test
                        IN  last \in Tests /\ Faulty[last]
    /\ stage # "entered" => test \in Tests \union {0}

(* The snapshot holds nothing before the body; then it is what was counted *)
(* when the body began, and in the end the difference.                     *)
Snapshots ==
    /\ stage \in {"entered", "configured"} => snap = Zero
    /\ stage = "body" => \A f \in Fields : own[f] = Minus(count[f], snap[f])
    /\ stage = "measured" => snap = own

IndInv == TypeOK /\ Places /\ Locks /\ Tracked /\ Fault /\ Snapshots
-----------------------------------------------------------------------------
(* Arithmetic of counters that wrap. *)

LEMMA Wraps ==
    ASSUME NEW x \in Int
    PROVE  x % Word \in 0..(Word - 1) /\ \E q \in Int : x % Word = x + q * Word
<1>0. Word \in Nat \ {0}
  BY NetworkAssumption
<1>1. x % Word \in 0..(Word - 1)
  BY <1>0
<1>2. x = Word * (x \div Word) + (x % Word) /\ x \div Word \in Int
  BY <1>0
<1>3. x % Word = x + (-(x \div Word)) * Word /\ -(x \div Word) \in Int
  BY <1>0, <1>1, <1>2
<1> QED
  BY <1>1, <1>3

LEMMA PlusWraps ==
    ASSUME NEW x \in Int, NEW n \in Int
    PROVE  Plus(x, n) \in 0..(Word - 1) /\ \E q \in Int : Plus(x, n) = (x + n) + q * Word
<1>1. x + n \in Int
  OBVIOUS
<1> QED
  BY <1>1, Wraps, Zenon DEF Plus

LEMMA MinusWraps ==
    ASSUME NEW x \in Int, NEW y \in Int
    PROVE  Minus(x, y) \in 0..(Word - 1) /\ \E q \in Int : Minus(x, y) = (x - y) + q * Word
<1>1. x - y \in Int
  OBVIOUS
<1> QED
  BY <1>1, Wraps, Zenon DEF Minus

LEMMA WrapsOnce ==
    ASSUME NEW a \in 0..(Word - 1), NEW b \in 0..(Word - 1), NEW k \in Int, a = b + k * Word
    PROVE  a = b
<1>0. Word \in Nat \ {0}
  BY NetworkAssumption
<1>1. CASE k = 0
  BY <1>0, <1>1
<1>2. CASE k >= 1
  <2>1. k * Word >= Word
    BY <1>0, <1>2
  <2> QED
    BY <1>0, <2>1
<1>3. CASE k <= -1
  <2>1. k * Word <= -Word
    BY <1>0, <1>3
  <2> QED
    BY <1>0, <2>1
<1> QED
  BY <1>1, <1>2, <1>3

LEMMA MinusNothing ==
    ASSUME NEW c \in 0..(Word - 1)
    PROVE  Minus(c, 0) = c
<1>1. c \in Int
  BY NetworkAssumption
<1>2. Minus(c, 0) = c % Word
  BY <1>1 DEF Minus
<1>3. c % Word \in 0..(Word - 1) /\ \E q \in Int : c % Word = c + q * Word
  BY <1>1, Wraps
<1> QED
  BY <1>2, <1>3, WrapsOnce

LEMMA MinusItself ==
    ASSUME NEW c \in 0..(Word - 1)
    PROVE  Minus(c, c) = 0
<1>0. Word \in Nat \ {0} /\ c \in Int
  BY NetworkAssumption
<1>1. c - c = 0 /\ 0 % Word = 0
  BY <1>0
<1> QED
  BY <1>1 DEF Minus

(* What is added to the counter is added to the difference. *)
LEMMA PlusMinus ==
    ASSUME NEW c \in 0..(Word - 1), NEW s \in 0..(Word - 1), NEW n \in Nat
    PROVE  Plus(Minus(c, s), n) = Minus(Plus(c, n), s)
<1>0. Word \in Nat \ {0} /\ c \in Int /\ s \in Int /\ n \in Int
  BY NetworkAssumption
<1>1. /\ Minus(c, s) \in 0..(Word - 1)
      /\ \E q \in Int : Minus(c, s) = (c - s) + q * Word
  BY <1>0, MinusWraps, Zenon
<1>2. /\ Plus(c, n) \in 0..(Word - 1)
      /\ \E q \in Int : Plus(c, n) = (c + n) + q * Word
  BY <1>0, PlusWraps, Zenon
<1> DEFINE d == Minus(c, s)
           e == Plus(c, n)
<1> HIDE DEF d, e
<1>3. d \in Int /\ e \in Int
  BY <1>0, <1>1, <1>2 DEF d, e
<1>4. /\ Plus(d, n) \in 0..(Word - 1)
      /\ \E q \in Int : Plus(d, n) = (d + n) + q * Word
  BY <1>0, <1>3, PlusWraps, Zenon
<1>5. /\ Minus(e, s) \in 0..(Word - 1)
      /\ \E q \in Int : Minus(e, s) = (e - s) + q * Word
  BY <1>0, <1>3, MinusWraps, Zenon
<1>6. PICK p \in Int : d = (c - s) + p * Word
  BY <1>1 DEF d
<1>7. PICK q \in Int : e = (c + n) + q * Word
  BY <1>2 DEF e
<1>8. PICK r \in Int : Plus(d, n) = (d + n) + r * Word
  BY <1>4
<1>9. PICK t \in Int : Minus(e, s) = (e - s) + t * Word
  BY <1>5
<1>10. Plus(d, n) = Minus(e, s) + (p + r - q - t) * Word
  <2>1. /\ p * Word \in Int /\ q * Word \in Int /\ r * Word \in Int /\ t * Word \in Int
        /\ (p + r - q - t) * Word = p * Word + r * Word - q * Word - t * Word
    BY <1>0
  <2> QED
    BY <2>1, <1>0, <1>3, <1>6, <1>7, <1>8, <1>9
<1>11. Plus(d, n) = Minus(e, s)
  BY <1>4, <1>5, <1>10, WrapsOnce
<1> QED
  BY <1>11 DEF d, e
-----------------------------------------------------------------------------
LEMMA CountersAreFunctions ==
    ASSUME NEW c \in Counters
    PROVE  /\ DOMAIN c = Fields
           /\ \A f \in Fields : c[f] \in 0..(Word - 1)
BY DEF Counters, Fields

LEMMA DifferenceIs ==
    ASSUME NEW c \in Counters, NEW d \in Counters, NEW e \in Counters,
           \A f \in Fields : e[f] = Minus(c[f], d[f])
    PROVE  Difference(c, d) = e
<1>1. DOMAIN c = Fields /\ DOMAIN e = Fields /\ e = [f \in Fields |-> e[f]]
  BY DEF Counters, Fields
<1> QED
  BY <1>1 DEF Difference

LEMMA DifferenceType ==
    ASSUME NEW c \in Counters, NEW d \in Counters
    PROVE  /\ Difference(c, d) \in Counters
           /\ \A f \in Fields : Difference(c, d)[f] = Minus(c[f], d[f])
<1>1. \A f \in Fields : Minus(c[f], d[f]) \in 0..(Word - 1)
  <2>1. \A f \in Fields : c[f] \in Int /\ d[f] \in Int
    BY CountersAreFunctions, NetworkAssumption
  <2> QED
    BY <2>1, MinusWraps, Zenon
<1>2. Difference(c, d) = [f \in Fields |-> Minus(c[f], d[f])]
  BY CountersAreFunctions DEF Difference
<1>3. Difference(c, d) = [sSize |-> Minus(c["sSize"], d["sSize"]),
                          sCount |-> Minus(c["sCount"], d["sCount"]),
                          rSize |-> Minus(c["rSize"], d["rSize"]),
                          rCount |-> Minus(c["rCount"], d["rCount"])]
  BY <1>2 DEF Fields
<1> QED
  BY <1>1, <1>2, <1>3 DEF Counters, Fields

LEMMA Counted ==
    ASSUME NEW c \in Counters, NEW n \in {Size, 0}
    PROVE  /\ Sent(c, n) \in Counters /\ Received(c, n) \in Counters
           /\ \A f \in Fields :
                 /\ Sent(c, n)[f] = CASE f = "sSize" -> Plus(c[f], n)
                                      [] f = "sCount" -> Plus(c[f], 1)
                                      [] OTHER -> c[f]
                 /\ Received(c, n)[f] = CASE f = "rSize" -> Plus(c[f], n)
                                          [] f = "rCount" -> Plus(c[f], 1)
                                          [] OTHER -> c[f]
<1>1. n \in Nat
  BY NetworkAssumption
<1>2. \A x \in 0..(Word - 1) : \A m \in Nat : Plus(x, m) \in 0..(Word - 1)
  <2>1. \A x \in 0..(Word - 1) : \A m \in Nat : x \in Int /\ m \in Int
    BY NetworkAssumption
  <2> QED
    BY <2>1, PlusWraps, Zenon
<1>3. /\ c.sSize \in 0..(Word - 1) /\ c.sCount \in 0..(Word - 1)
      /\ c.rSize \in 0..(Word - 1) /\ c.rCount \in 0..(Word - 1)
  BY DEF Counters
<1>4. /\ Plus(c.sSize, n) \in 0..(Word - 1) /\ Plus(c.sCount, 1) \in 0..(Word - 1)
      /\ Plus(c.rSize, n) \in 0..(Word - 1) /\ Plus(c.rCount, 1) \in 0..(Word - 1)
  BY <1>1, <1>2, <1>3
<1> QED
  BY <1>4 DEF Sent, Received, Counters, Fields

(* Adding to both keeps the difference what the body has done. *)
LEMMA BothCount ==
    ASSUME NEW c \in Counters, NEW d \in Counters, NEW o \in Counters, NEW n \in {Size, 0},
           \A f \in Fields : o[f] = Minus(c[f], d[f])
    PROVE  /\ \A f \in Fields : Sent(o, n)[f] = Minus(Sent(c, n)[f], d[f])
           /\ \A f \in Fields : Received(o, n)[f] = Minus(Received(c, n)[f], d[f])
<1>1. n \in Nat /\ 1 \in Nat
  BY NetworkAssumption
<1>2. \A f \in Fields : \A m \in Nat : Plus(o[f], m) = Minus(Plus(c[f], m), d[f])
  BY CountersAreFunctions, PlusMinus
<1>3. \A f \in Fields : Plus(o[f], n) = Minus(Plus(c[f], n), d[f])
  BY <1>1, <1>2
<1>4. \A f \in Fields : Plus(o[f], 1) = Minus(Plus(c[f], 1), d[f])
  BY <1>1, <1>2
<1> QED
  BY <1>3, <1>4, Counted DEF Fields
-----------------------------------------------------------------------------
(* The steps, one lemma for each part of the invariant. *)

LEMMA PlacesStep ==
    ASSUME TypeOK, Places, [Next]_vars
    PROVE  Places'
<1> DEFINE P == {Idle} \union Call \union Ended
<1>0. pc \in [Threads -> P]
  BY DEF Places
<1> SUFFICES pc' \in [Threads -> P]
  BY DEF Places
<1>00. /\ Idle \in P
      /\ \A kind \in {"stream", "datagram"} : \A go \in BOOLEAN :
            [at |-> "send", kind |-> kind, go |-> go] \in P
      /\ \A dir \in {"sent", "received"} : \A n \in {Size, 0} : [at |-> dir, n |-> n] \in P
  BY DEF Call, Ended
<1> HIDE DEF P
<1>1. CASE Enter
  BY <1>1, <1>0, <1>00 DEF Enter
<1>2. CASE Configure
  BY <1>2, <1>0, <1>00 DEF Configure
<1>3. CASE FirstSnapshot
  BY <1>3, <1>0, <1>00 DEF FirstSnapshot
<1>4. CASE SecondSnapshot
  BY <1>4, <1>0, <1>00 DEF SecondSnapshot
<1>5. CASE Exit
  BY <1>5, <1>0, <1>00 DEF Exit
<1>6. CASE Throw
  BY <1>6, <1>0, <1>00 DEF Throw
<1>7. CASE Lock
  BY <1>7, <1>0, <1>00 DEF Lock
<1>8. CASE Unlock
  BY <1>8, <1>0, <1>00 DEF Unlock
<1>9. CASE Tick
  BY <1>9, <1>0, <1>00 DEF Tick
<1>10. ASSUME NEW t \in Threads, NEW kind \in {"stream", "datagram"}, CanSend(t, kind)
       PROVE  pc' \in [Threads -> P]
  BY <1>10, <1>0, <1>00 DEF CanSend, Send
<1>11. ASSUME NEW t \in Threads, Through(t)
       PROVE  pc' \in [Threads -> P]
  BY <1>11, <1>0, <1>00 DEF Through, Send
<1>12. ASSUME NEW t \in Threads, OpenHole(t)
       PROVE  pc' \in [Threads -> P]
  BY <1>12, <1>0, <1>00 DEF OpenHole, Send
<1>13. ASSUME NEW t \in Threads, InHole(t)
       PROVE  pc' \in [Threads -> P]
  BY <1>13, <1>0, <1>00 DEF InHole, Send
<1>14. ASSUME NEW t \in Threads, Carry(t)
       PROVE  pc' \in [Threads -> P]
  BY <1>14, <1>0, <1>00 DEF Carry, Result
<1>15. ASSUME NEW t \in Threads, Receive(t)
       PROVE  pc' \in [Threads -> P]
  BY <1>15, <1>0, <1>00 DEF Receive, Result
<1>16. ASSUME NEW t \in Threads, TrackSend(t)
       PROVE  pc' \in [Threads -> P]
  BY <1>16, <1>0, <1>00 DEF TrackSend
<1>17. ASSUME NEW t \in Threads, TrackRecv(t)
       PROVE  pc' \in [Threads -> P]
  BY <1>17, <1>0, <1>00 DEF TrackRecv
<1>18. CASE UNCHANGED vars
  BY <1>18, <1>0, <1>00 DEF vars
<1> QED
  BY <1>1, <1>2, <1>3, <1>4, <1>5, <1>6, <1>7, <1>8, <1>9, <1>10, <1>11, <1>12,
     <1>13, <1>14, <1>15, <1>16, <1>17, <1>18 DEF Next, Hook

LEMMA LocksStep ==
    ASSUME TypeOK, Locks, [Next]_vars
    PROVE  Locks'
<1> USE DEF Locks
<1>1. CASE Enter
  BY <1>1 DEF Enter
<1>2. CASE Configure
  BY <1>2 DEF Configure
<1>3. CASE FirstSnapshot
  BY <1>3 DEF FirstSnapshot
<1>4. CASE SecondSnapshot
  BY <1>4 DEF SecondSnapshot
<1>5. CASE Exit
  BY <1>5 DEF Exit
<1>6. CASE Throw
  BY <1>6 DEF Throw
<1>7. CASE Lock
  BY <1>7 DEF Lock
<1>8. CASE Unlock
  BY <1>8 DEF Unlock
<1>9. CASE Tick
  BY <1>9 DEF Tick
<1>10. ASSUME NEW t \in Threads, NEW kind \in {"stream", "datagram"}, CanSend(t, kind)
       PROVE  Locks'
  BY <1>10 DEF CanSend
<1>11. ASSUME NEW t \in Threads, Through(t)
       PROVE  Locks'
  BY <1>11 DEF Through
<1>12. ASSUME NEW t \in Threads, OpenHole(t)
       PROVE  Locks'
  BY <1>12 DEF OpenHole
<1>13. ASSUME NEW t \in Threads, InHole(t)
       PROVE  Locks'
  BY <1>13 DEF InHole
<1>14. ASSUME NEW t \in Threads, Carry(t)
       PROVE  Locks'
  BY <1>14 DEF Carry
<1>15. ASSUME NEW t \in Threads, Receive(t)
       PROVE  Locks'
  BY <1>15 DEF Receive
<1>16. ASSUME NEW t \in Threads, TrackSend(t)
       PROVE  Locks'
  BY <1>16 DEF TrackSend
<1>17. ASSUME NEW t \in Threads, TrackRecv(t)
       PROVE  Locks'
  BY <1>17 DEF TrackRecv
<1>18. CASE UNCHANGED vars
  BY <1>18 DEF vars
<1> QED
  BY <1>1, <1>2, <1>3, <1>4, <1>5, <1>6, <1>7, <1>8, <1>9, <1>10, <1>11, <1>12,
     <1>13, <1>14, <1>15, <1>16, <1>17, <1>18 DEF Next, Hook

LEMMA TrackedStep ==
    ASSUME TypeOK, Tracked, [Next]_vars
    PROVE  Tracked'
<1> USE DEF Tracked, settings
<1>1. CASE Enter
  BY <1>1 DEF Enter
<1>2. CASE Configure
  BY <1>2 DEF Configure
<1>3. CASE FirstSnapshot
  BY <1>3 DEF FirstSnapshot
<1>4. CASE SecondSnapshot
  BY <1>4 DEF SecondSnapshot
<1>5. CASE Exit
  BY <1>5 DEF Exit
<1>6. CASE Throw
  BY <1>6 DEF Throw
<1>7. CASE Lock
  BY <1>7 DEF Lock
<1>8. CASE Unlock
  BY <1>8 DEF Unlock
<1>9. CASE Tick
  BY <1>9 DEF Tick
<1>10. ASSUME NEW t \in Threads, NEW kind \in {"stream", "datagram"}, CanSend(t, kind)
       PROVE  Tracked'
  BY <1>10 DEF CanSend
<1>11. ASSUME NEW t \in Threads, Through(t)
       PROVE  Tracked'
  BY <1>11 DEF Through
<1>12. ASSUME NEW t \in Threads, OpenHole(t)
       PROVE  Tracked'
  BY <1>12 DEF OpenHole
<1>13. ASSUME NEW t \in Threads, InHole(t)
       PROVE  Tracked'
  BY <1>13 DEF InHole
<1>14. ASSUME NEW t \in Threads, Carry(t)
       PROVE  Tracked'
  BY <1>14 DEF Carry
<1>15. ASSUME NEW t \in Threads, Receive(t)
       PROVE  Tracked'
  BY <1>15 DEF Receive
<1>16. ASSUME NEW t \in Threads, TrackSend(t)
       PROVE  Tracked'
  BY <1>16 DEF TrackSend
<1>17. ASSUME NEW t \in Threads, TrackRecv(t)
       PROVE  Tracked'
  BY <1>17 DEF TrackRecv
<1>18. CASE UNCHANGED vars
  BY <1>18 DEF vars
<1> QED
  BY <1>1, <1>2, <1>3, <1>4, <1>5, <1>6, <1>7, <1>8, <1>9, <1>10, <1>11, <1>12,
     <1>13, <1>14, <1>15, <1>16, <1>17, <1>18 DEF Next, Hook

LEMMA FaultStep ==
    ASSUME TypeOK, Tracked, Fault, [Next]_vars
    PROVE  Fault'
<1> USE DEF Fault, Tracked, settings
<1>1. CASE Enter
  <2>1. test' = test + 1 /\ stage = "out" /\ stage' = "entered" /\ probabilistic' = probabilistic
    BY <1>1 DEF Enter
  <2>2. test \in Int
    BY NetworkAssumption DEF TypeOK, Tests
  <2>3. test' - 1 = test
    BY <2>1, <2>2
  <2> QED
    BY <2>1, <2>3
<1>2. CASE Configure
  BY <1>2 DEF Configure
<1>3. CASE FirstSnapshot
  BY <1>3 DEF FirstSnapshot
<1>4. CASE SecondSnapshot
  BY <1>4 DEF SecondSnapshot
<1>5. CASE Exit
  BY <1>5 DEF Exit
<1>6. CASE Throw
  BY <1>6 DEF Throw
<1>7. CASE Lock
  BY <1>7 DEF Lock
<1>8. CASE Unlock
  BY <1>8 DEF Unlock
<1>9. CASE Tick
  BY <1>9 DEF Tick
<1>10. ASSUME NEW t \in Threads, NEW kind \in {"stream", "datagram"}, CanSend(t, kind)
       PROVE  Fault'
  BY <1>10 DEF CanSend
<1>11. ASSUME NEW t \in Threads, Through(t)
       PROVE  Fault'
  BY <1>11 DEF Through
<1>12. ASSUME NEW t \in Threads, OpenHole(t)
       PROVE  Fault'
  BY <1>12 DEF OpenHole
<1>13. ASSUME NEW t \in Threads, InHole(t)
       PROVE  Fault'
  BY <1>13 DEF InHole
<1>14. ASSUME NEW t \in Threads, Carry(t)
       PROVE  Fault'
  BY <1>14 DEF Carry
<1>15. ASSUME NEW t \in Threads, Receive(t)
       PROVE  Fault'
  BY <1>15 DEF Receive
<1>16. ASSUME NEW t \in Threads, TrackSend(t)
       PROVE  Fault'
  BY <1>16 DEF TrackSend
<1>17. ASSUME NEW t \in Threads, TrackRecv(t)
       PROVE  Fault'
  BY <1>17 DEF TrackRecv
<1>18. CASE UNCHANGED vars
  BY <1>18 DEF vars
<1> QED
  BY <1>1, <1>2, <1>3, <1>4, <1>5, <1>6, <1>7, <1>8, <1>9, <1>10, <1>11, <1>12,
     <1>13, <1>14, <1>15, <1>16, <1>17, <1>18 DEF Next, Hook

LEMMA SettingsStep ==
    ASSUME TypeOK, Tracked, [Next]_vars
    PROVE  /\ test' \in Tests \union {0}
           /\ stage' \in {"out", "entered", "configured", "body", "measured"}
           /\ track' \in BOOLEAN
<1> DEFINE Settings == /\ test \in Tests \union {0}
                       /\ stage \in {"out", "entered", "configured", "body", "measured"}
                       /\ track \in BOOLEAN
<1> SUFFICES Settings'
  OBVIOUS
<1> USE DEF TypeOK, Tracked, settings
<1>1. CASE Enter
  BY <1>1 DEF Enter
<1>2. CASE Configure
  BY <1>2 DEF Configure
<1>3. CASE FirstSnapshot
  BY <1>3 DEF FirstSnapshot
<1>4. CASE SecondSnapshot
  BY <1>4 DEF SecondSnapshot
<1>5. CASE Exit
  BY <1>5 DEF Exit
<1>6. CASE Throw
  BY <1>6 DEF Throw
<1>7. CASE Lock
  BY <1>7 DEF Lock
<1>8. CASE Unlock
  BY <1>8 DEF Unlock
<1>9. CASE Tick
  BY <1>9 DEF Tick
<1>10. ASSUME NEW t \in Threads, NEW kind \in {"stream", "datagram"}, CanSend(t, kind)
       PROVE  Settings'
  BY <1>10 DEF CanSend
<1>11. ASSUME NEW t \in Threads, Through(t)
       PROVE  Settings'
  BY <1>11 DEF Through
<1>12. ASSUME NEW t \in Threads, OpenHole(t)
       PROVE  Settings'
  BY <1>12 DEF OpenHole
<1>13. ASSUME NEW t \in Threads, InHole(t)
       PROVE  Settings'
  BY <1>13 DEF InHole
<1>14. ASSUME NEW t \in Threads, Carry(t)
       PROVE  Settings'
  BY <1>14 DEF Carry
<1>15. ASSUME NEW t \in Threads, Receive(t)
       PROVE  Settings'
  BY <1>15 DEF Receive
<1>16. ASSUME NEW t \in Threads, TrackSend(t)
       PROVE  Settings'
  BY <1>16 DEF TrackSend
<1>17. ASSUME NEW t \in Threads, TrackRecv(t)
       PROVE  Settings'
  BY <1>17 DEF TrackRecv
<1>18. CASE UNCHANGED vars
  BY <1>18 DEF vars
<1> QED
  BY <1>1, <1>2, <1>3, <1>4, <1>5, <1>6, <1>7, <1>8, <1>9, <1>10, <1>11, <1>12,
     <1>13, <1>14, <1>15, <1>16, <1>17, <1>18 DEF Next, Hook

LEMMA FaultyTypeStep ==
    ASSUME TypeOK, Tracked, [Next]_vars
    PROVE  probabilistic' \in BOOLEAN
<1>0. probabilistic \in BOOLEAN
  BY DEF TypeOK
<1> USE DEF settings
<1>1. CASE Enter
  BY <1>1, <1>0 DEF Enter
<1>2. CASE Configure
  <2>1. probabilistic' = Faulty[test] /\ test \in Tests
    BY <1>2 DEF Configure, Tracked
  <2>2. Faulty \in [Tests -> BOOLEAN]
    BY NetworkAssumption DEF Tests
  <2> QED
    BY <2>1, <2>2
<1>3. CASE FirstSnapshot
  BY <1>3, <1>0 DEF FirstSnapshot
<1>4. CASE SecondSnapshot
  BY <1>4, <1>0 DEF SecondSnapshot
<1>5. CASE Exit
  BY <1>5, <1>0 DEF Exit
<1>6. CASE Throw
  BY <1>6, <1>0 DEF Throw
<1>7. CASE Lock
  BY <1>7, <1>0 DEF Lock
<1>8. CASE Unlock
  BY <1>8, <1>0 DEF Unlock
<1>9. CASE Tick
  BY <1>9, <1>0 DEF Tick
<1>10. ASSUME NEW t \in Threads, NEW kind \in {"stream", "datagram"}, CanSend(t, kind)
       PROVE  probabilistic' \in BOOLEAN
  BY <1>10, <1>0 DEF CanSend
<1>11. ASSUME NEW t \in Threads, Through(t)
       PROVE  probabilistic' \in BOOLEAN
  BY <1>11, <1>0 DEF Through
<1>12. ASSUME NEW t \in Threads, OpenHole(t)
       PROVE  probabilistic' \in BOOLEAN
  BY <1>12, <1>0 DEF OpenHole
<1>13. ASSUME NEW t \in Threads, InHole(t)
       PROVE  probabilistic' \in BOOLEAN
  BY <1>13, <1>0 DEF InHole
<1>14. ASSUME NEW t \in Threads, Carry(t)
       PROVE  probabilistic' \in BOOLEAN
  BY <1>14, <1>0 DEF Carry
<1>15. ASSUME NEW t \in Threads, Receive(t)
       PROVE  probabilistic' \in BOOLEAN
  BY <1>15, <1>0 DEF Receive
<1>16. ASSUME NEW t \in Threads, TrackSend(t)
       PROVE  probabilistic' \in BOOLEAN
  BY <1>16, <1>0 DEF TrackSend
<1>17. ASSUME NEW t \in Threads, TrackRecv(t)
       PROVE  probabilistic' \in BOOLEAN
  BY <1>17, <1>0 DEF TrackRecv
<1>18. CASE UNCHANGED vars
  BY <1>18, <1>0 DEF vars
<1> QED
  BY <1>1, <1>2, <1>3, <1>4, <1>5, <1>6, <1>7, <1>8, <1>9, <1>10, <1>11, <1>12,
     <1>13, <1>14, <1>15, <1>16, <1>17, <1>18 DEF Next, Hook

LEMMA DepthStep ==
    ASSUME TypeOK, Locks, [Next]_vars
    PROVE  locked' \in [Threads -> 0..2] /\ depth' \in [Threads -> 0..2]
<1>0. locked = depth /\ depth \in [Threads -> 0..2]
  BY DEF TypeOK, Locks
<1>1. CASE Enter
  BY <1>1, <1>0 DEF Enter
<1>2. CASE Configure
  BY <1>2, <1>0 DEF Configure
<1>3. CASE FirstSnapshot
  BY <1>3, <1>0 DEF FirstSnapshot
<1>4. CASE SecondSnapshot
  BY <1>4, <1>0 DEF SecondSnapshot
<1>5. CASE Exit
  BY <1>5, <1>0 DEF Exit
<1>6. CASE Throw
  BY <1>6, <1>0 DEF Throw
<1>7. CASE Lock
  <2>1. locked' = depth' /\ depth' = [depth EXCEPT ![Main] = depth[Main] + 1]
    BY <1>7, <1>0 DEF Lock
  <2>2. Main \in Threads /\ depth[Main] \in 0..2 /\ depth[Main] < 2
    BY <1>7, <1>0, NetworkAssumption DEF Lock
  <2>3. depth[Main] + 1 \in 0..2
    BY <2>2
  <2> QED
    BY <2>1, <2>3, <1>0
<1>8. CASE Unlock
  <2>1. locked' = depth' /\ depth' = [depth EXCEPT ![Main] = depth[Main] - 1]
    BY <1>8, <1>0 DEF Unlock
  <2>2. Main \in Threads /\ depth[Main] \in 0..2 /\ depth[Main] > 0
    BY <1>8, <1>0, NetworkAssumption DEF Unlock
  <2>3. depth[Main] - 1 \in 0..2
    BY <2>2
  <2> QED
    BY <2>1, <2>3, <1>0
<1>9. CASE Tick
  BY <1>9, <1>0 DEF Tick
<1>10. ASSUME NEW t \in Threads, NEW kind \in {"stream", "datagram"}, CanSend(t, kind)
       PROVE  locked' \in [Threads -> 0..2] /\ depth' \in [Threads -> 0..2]
  BY <1>10, <1>0 DEF CanSend
<1>11. ASSUME NEW t \in Threads, Through(t)
       PROVE  locked' \in [Threads -> 0..2] /\ depth' \in [Threads -> 0..2]
  BY <1>11, <1>0 DEF Through
<1>12. ASSUME NEW t \in Threads, OpenHole(t)
       PROVE  locked' \in [Threads -> 0..2] /\ depth' \in [Threads -> 0..2]
  BY <1>12, <1>0 DEF OpenHole
<1>13. ASSUME NEW t \in Threads, InHole(t)
       PROVE  locked' \in [Threads -> 0..2] /\ depth' \in [Threads -> 0..2]
  BY <1>13, <1>0 DEF InHole
<1>14. ASSUME NEW t \in Threads, Carry(t)
       PROVE  locked' \in [Threads -> 0..2] /\ depth' \in [Threads -> 0..2]
  BY <1>14, <1>0 DEF Carry
<1>15. ASSUME NEW t \in Threads, Receive(t)
       PROVE  locked' \in [Threads -> 0..2] /\ depth' \in [Threads -> 0..2]
  BY <1>15, <1>0 DEF Receive
<1>16. ASSUME NEW t \in Threads, TrackSend(t)
       PROVE  locked' \in [Threads -> 0..2] /\ depth' \in [Threads -> 0..2]
  BY <1>16, <1>0 DEF TrackSend
<1>17. ASSUME NEW t \in Threads, TrackRecv(t)
       PROVE  locked' \in [Threads -> 0..2] /\ depth' \in [Threads -> 0..2]
  BY <1>17, <1>0 DEF TrackRecv
<1>18. CASE UNCHANGED vars
  BY <1>18, <1>0 DEF vars
<1> QED
  BY <1>1, <1>2, <1>3, <1>4, <1>5, <1>6, <1>7, <1>8, <1>9, <1>10, <1>11, <1>12,
     <1>13, <1>14, <1>15, <1>16, <1>17, <1>18 DEF Next, Hook

LEMMA HoleStep ==
    ASSUME TypeOK, [Next]_vars
    PROVE  hole' \in [Threads -> 0..(Hole + 1)]
<1>0. hole \in [Threads -> 0..(Hole + 1)] /\ Hole \in Nat
  BY NetworkAssumption DEF TypeOK
<1>1. CASE Enter
  <2>1. hole' = [hole EXCEPT ![Main] = 0] /\ 0 \in 0..(Hole + 1)
    BY <1>1, <1>0 DEF Enter
  <2> QED
    BY <2>1, <1>0
<1>2. CASE Configure
  BY <1>2, <1>0 DEF Configure
<1>3. CASE FirstSnapshot
  BY <1>3, <1>0 DEF FirstSnapshot
<1>4. CASE SecondSnapshot
  BY <1>4, <1>0 DEF SecondSnapshot
<1>5. CASE Exit
  BY <1>5, <1>0 DEF Exit
<1>6. CASE Throw
  BY <1>6, <1>0 DEF Throw
<1>7. CASE Lock
  BY <1>7, <1>0 DEF Lock
<1>8. CASE Unlock
  BY <1>8, <1>0 DEF Unlock
<1>9. CASE Tick
  BY <1>9, <1>0 DEF Tick
<1>10. ASSUME NEW t \in Threads, NEW kind \in {"stream", "datagram"}, CanSend(t, kind)
       PROVE  hole' \in [Threads -> 0..(Hole + 1)]
  BY <1>10, <1>0 DEF CanSend
<1>11. ASSUME NEW t \in Threads, Through(t)
       PROVE  hole' \in [Threads -> 0..(Hole + 1)]
  BY <1>11, <1>0 DEF Through
<1>12. ASSUME NEW t \in Threads, OpenHole(t)
       PROVE  hole' \in [Threads -> 0..(Hole + 1)]
  BY <1>12, <1>0 DEF OpenHole
<1>13. ASSUME NEW t \in Threads, InHole(t)
       PROVE  hole' \in [Threads -> 0..(Hole + 1)]
  BY <1>13, <1>0 DEF InHole
<1>14. ASSUME NEW t \in Threads, Carry(t)
       PROVE  hole' \in [Threads -> 0..(Hole + 1)]
  BY <1>14, <1>0 DEF Carry
<1>15. ASSUME NEW t \in Threads, Receive(t)
       PROVE  hole' \in [Threads -> 0..(Hole + 1)]
  BY <1>15, <1>0 DEF Receive
<1>16. ASSUME NEW t \in Threads, TrackSend(t)
       PROVE  hole' \in [Threads -> 0..(Hole + 1)]
  BY <1>16, <1>0 DEF TrackSend
<1>17. ASSUME NEW t \in Threads, TrackRecv(t)
       PROVE  hole' \in [Threads -> 0..(Hole + 1)]
  BY <1>17, <1>0 DEF TrackRecv
<1>18. CASE UNCHANGED vars
  BY <1>18, <1>0 DEF vars
<1> QED
  BY <1>1, <1>2, <1>3, <1>4, <1>5, <1>6, <1>7, <1>8, <1>9, <1>10, <1>11, <1>12,
     <1>13, <1>14, <1>15, <1>16, <1>17, <1>18 DEF Next, Hook

LEMMA CountersStep ==
    ASSUME TypeOK, Places, [Next]_vars
    PROVE  count' \in Counters /\ snap' \in Counters /\ own' \in Counters
<1>0. /\ count \in Counters /\ snap \in Counters /\ own \in Counters /\ Zero \in Counters
      /\ Difference(count, snap) \in Counters
  <2>1. Zero \in Counters
    BY NetworkAssumption DEF Zero, Counters
  <2> QED
    BY <2>1, DifferenceType DEF TypeOK
<1>1. CASE Enter
  BY <1>1, <1>0 DEF Enter
<1>2. CASE Configure
  BY <1>2, <1>0 DEF Configure
<1>3. CASE FirstSnapshot
  BY <1>3, <1>0 DEF FirstSnapshot
<1>4. CASE SecondSnapshot
  BY <1>4, <1>0 DEF SecondSnapshot
<1>5. CASE Exit
  BY <1>5, <1>0 DEF Exit
<1>6. CASE Throw
  BY <1>6, <1>0 DEF Throw
<1>7. CASE Lock
  BY <1>7, <1>0 DEF Lock
<1>8. CASE Unlock
  BY <1>8, <1>0 DEF Unlock
<1>9. CASE Tick
  BY <1>9, <1>0 DEF Tick
<1>10. ASSUME NEW t \in Threads, NEW kind \in {"stream", "datagram"}, CanSend(t, kind)
       PROVE  count' \in Counters /\ snap' \in Counters /\ own' \in Counters
  BY <1>10, <1>0 DEF CanSend
<1>11. ASSUME NEW t \in Threads, Through(t)
       PROVE  count' \in Counters /\ snap' \in Counters /\ own' \in Counters
  BY <1>11, <1>0 DEF Through
<1>12. ASSUME NEW t \in Threads, OpenHole(t)
       PROVE  count' \in Counters /\ snap' \in Counters /\ own' \in Counters
  BY <1>12, <1>0 DEF OpenHole
<1>13. ASSUME NEW t \in Threads, InHole(t)
       PROVE  count' \in Counters /\ snap' \in Counters /\ own' \in Counters
  BY <1>13, <1>0 DEF InHole
<1>14. ASSUME NEW t \in Threads, Carry(t)
       PROVE  count' \in Counters /\ snap' \in Counters /\ own' \in Counters
  BY <1>14, <1>0 DEF Carry
<1>15. ASSUME NEW t \in Threads, Receive(t)
       PROVE  count' \in Counters /\ snap' \in Counters /\ own' \in Counters
  BY <1>15, <1>0 DEF Receive
<1>16. ASSUME NEW t \in Threads, TrackSend(t)
       PROVE  count' \in Counters /\ snap' \in Counters /\ own' \in Counters
  <2>1. pc[t].n \in {Size, 0}
    BY <1>16 DEF TrackSend, Places, Idle, Call, Ended
  <2>2. /\ Sent(count, pc[t].n) \in Counters /\ Sent(own, pc[t].n) \in Counters
    BY <2>1, <1>0, Counted
  <2> QED
    BY <1>16, <2>2, <1>0 DEF TrackSend
<1>17. ASSUME NEW t \in Threads, TrackRecv(t)
       PROVE  count' \in Counters /\ snap' \in Counters /\ own' \in Counters
  <2>1. pc[t].n \in {Size, 0}
    BY <1>17 DEF TrackRecv, Places, Idle, Call, Ended
  <2>2. /\ Received(count, pc[t].n) \in Counters /\ Received(own, pc[t].n) \in Counters
    BY <2>1, <1>0, Counted
  <2> QED
    BY <1>17, <2>2, <1>0 DEF TrackRecv
<1>18. CASE UNCHANGED vars
  BY <1>18, <1>0 DEF vars
<1> QED
  BY <1>1, <1>2, <1>3, <1>4, <1>5, <1>6, <1>7, <1>8, <1>9, <1>10, <1>11, <1>12,
     <1>13, <1>14, <1>15, <1>16, <1>17, <1>18 DEF Next, Hook

(* A call that is over while a body runs is counted in both or in neither. *)
LEMMA BodyCounts ==
    ASSUME TypeOK, Places, Locks, Tracked, Snapshots, stage = "body",
           NEW t \in Threads, TrackSend(t) \/ TrackRecv(t)
    PROVE  \A f \in Fields : own'[f] = Minus(count'[f], snap'[f])
<1>0. /\ count \in Counters /\ snap \in Counters /\ own \in Counters
      /\ \A f \in Fields : own[f] = Minus(count[f], snap[f])
  BY DEF TypeOK, Snapshots
<1>1. Tracks(t) <=> Own(t)
  BY DEF Tracks, Own, Tracked, Locks
<1>2. snap' = snap
  BY DEF TrackSend, TrackRecv
<1>3. CASE ~Own(t)
  BY <1>0, <1>1, <1>2, <1>3 DEF TrackSend, TrackRecv
<1>4. CASE Own(t) /\ TrackSend(t)
  <2>1. pc[t].n \in {Size, 0}
    BY <1>4 DEF TrackSend, Places, Idle, Call, Ended
  <2>2. \A f \in Fields : Sent(own, pc[t].n)[f] = Minus(Sent(count, pc[t].n)[f], snap[f])
    BY <2>1, <1>0, BothCount
  <2> QED
    BY <2>2, <1>1, <1>2, <1>4 DEF TrackSend
<1>5. CASE Own(t) /\ TrackRecv(t)
  <2>1. pc[t].n \in {Size, 0}
    BY <1>5 DEF TrackRecv, Places, Idle, Call, Ended
  <2>2. \A f \in Fields :
           Received(own, pc[t].n)[f] = Minus(Received(count, pc[t].n)[f], snap[f])
    BY <2>1, <1>0, BothCount
  <2> QED
    BY <2>2, <1>1, <1>2, <1>5 DEF TrackRecv
<1> QED
  BY <1>3, <1>4, <1>5

LEMMA SnapshotsStep ==
    ASSUME TypeOK, Places, Locks, Tracked, Snapshots, [Next]_vars
    PROVE  Snapshots'
<1> USE DEF Snapshots, settings
<1>1. CASE Enter
  BY <1>1 DEF Enter
<1>2. CASE Configure
  BY <1>2 DEF Configure
<1>3. CASE FirstSnapshot
  <2>1. /\ stage' = "body" /\ snap = Zero /\ snap' = Difference(count, snap)
        /\ own' = Zero /\ count' = count
    BY <1>3 DEF FirstSnapshot
  <2>2. count \in Counters /\ snap \in Counters
    BY DEF TypeOK
  <2>3. \A f \in Fields : /\ count[f] \in 0..(Word - 1) /\ snap[f] = 0 /\ own'[f] = 0
                          /\ snap'[f] = Minus(count[f], snap[f])
    BY <2>1, <2>2, CountersAreFunctions, DifferenceType DEF Zero, Fields
  <2>4. \A f \in Fields : snap'[f] = count'[f]
    BY <2>1, <2>3, MinusNothing
  <2>5. \A f \in Fields : own'[f] = Minus(count'[f], snap'[f])
    BY <2>1, <2>3, <2>4, MinusItself
  <2> QED
    BY <2>1, <2>5
<1>4. CASE SecondSnapshot
  <2>1. /\ stage' = "measured" /\ snap' = Difference(count, snap) /\ own' = own
        /\ \A f \in Fields : own[f] = Minus(count[f], snap[f])
    BY <1>4 DEF SecondSnapshot
  <2>2. snap' = own
    BY <2>1, DifferenceIs DEF TypeOK
  <2> QED
    BY <2>1, <2>2
<1>5. CASE Exit
  BY <1>5 DEF Exit
<1>6. CASE Throw
  BY <1>6 DEF Throw
<1>7. CASE Lock
  BY <1>7 DEF Lock
<1>8. CASE Unlock
  BY <1>8 DEF Unlock
<1>9. CASE Tick
  BY <1>9 DEF Tick
<1>10. ASSUME NEW t \in Threads, NEW kind \in {"stream", "datagram"}, CanSend(t, kind)
       PROVE  Snapshots'
  BY <1>10 DEF CanSend
<1>11. ASSUME NEW t \in Threads, Through(t)
       PROVE  Snapshots'
  BY <1>11 DEF Through
<1>12. ASSUME NEW t \in Threads, OpenHole(t)
       PROVE  Snapshots'
  BY <1>12 DEF OpenHole
<1>13. ASSUME NEW t \in Threads, InHole(t)
       PROVE  Snapshots'
  BY <1>13 DEF InHole
<1>14. ASSUME NEW t \in Threads, Carry(t)
       PROVE  Snapshots'
  BY <1>14 DEF Carry
<1>15. ASSUME NEW t \in Threads, Receive(t)
       PROVE  Snapshots'
  BY <1>15 DEF Receive
<1>16. ASSUME NEW t \in Threads, TrackSend(t)
       PROVE  Snapshots'
  <2>1. CASE stage = "body"
    BY <1>16, <2>1, BodyCounts DEF TrackSend
  <2>2. CASE stage # "body"
    BY <1>16, <2>2 DEF TrackSend, Own
  <2> QED
    BY <2>1, <2>2
<1>17. ASSUME NEW t \in Threads, TrackRecv(t)
       PROVE  Snapshots'
  <2>1. CASE stage = "body"
    BY <1>17, <2>1, BodyCounts DEF TrackRecv
  <2>2. CASE stage # "body"
    BY <1>17, <2>2 DEF TrackRecv, Own
  <2> QED
    BY <2>1, <2>2
<1>18. CASE UNCHANGED vars
  BY <1>18 DEF vars
<1> QED
  BY <1>1, <1>2, <1>3, <1>4, <1>5, <1>6, <1>7, <1>8, <1>9, <1>10, <1>11, <1>12,
     <1>13, <1>14, <1>15, <1>16, <1>17, <1>18 DEF Next, Hook

LEMMA Initially == Init => IndInv
<1> SUFFICES ASSUME Init PROVE IndInv
  OBVIOUS
<1>1. Zero \in Counters
  BY NetworkAssumption DEF Zero, Counters
<1>2. /\ [t \in Threads |-> 0] \in [Threads -> 0..2]
      /\ [t \in Threads |-> 0] \in [Threads -> 0..(Hole + 1)]
  BY NetworkAssumption
<1>3. \A t \in Threads : pc[t] = Idle /\ pc[t].at = "idle"
  BY DEF Init, Idle
<1>4. track \in BOOLEAN /\ probabilistic \in BOOLEAN
  BY DEF Init
<1>5. TypeOK
  BY <1>1, <1>2, <1>3, <1>4 DEF Init, TypeOK
<1>6. Places /\ Locks /\ Tracked /\ Fault /\ Snapshots
  BY DEF Init, Places, Locks, Tracked, Fault, Snapshots
<1> QED
  BY <1>5, <1>6 DEF IndInv

(* What is true of every state of the hooks and the counters: see IndInv. *)
THEOREM Invariance == Spec => []IndInv
<1>1. IndInv /\ [Next]_vars => IndInv'
  <2> SUFFICES ASSUME IndInv, [Next]_vars PROVE IndInv'
    OBVIOUS
  <2>0. TypeOK /\ Places /\ Locks /\ Tracked /\ Fault /\ Snapshots
    BY DEF IndInv
  <2>1. Places' /\ Locks' /\ Tracked'
    BY <2>0, PlacesStep, LocksStep, TrackedStep
  <2>2. Fault' /\ Snapshots'
    BY <2>0, FaultStep, SnapshotsStep
  <2>3. TypeOK'
    <3>1. \A t \in Threads : pc'[t].at \in {"idle", "send", "sent", "received"}
      BY <2>1 DEF Places, Idle, Call, Ended
    <3>2. /\ test' \in Tests \union {0}
          /\ stage' \in {"out", "entered", "configured", "body", "measured"}
          /\ track' \in BOOLEAN
      BY <2>0, SettingsStep
    <3>3. /\ probabilistic' \in BOOLEAN
          /\ locked' \in [Threads -> 0..2] /\ depth' \in [Threads -> 0..2]
          /\ hole' \in [Threads -> 0..(Hole + 1)]
      BY <2>0, FaultyTypeStep, DepthStep, HoleStep
    <3>4. count' \in Counters /\ snap' \in Counters /\ own' \in Counters
      BY <2>0, CountersStep
    <3> QED
      BY <3>1, <3>2, <3>3, <3>4 DEF TypeOK
  <2> QED
    BY <2>1, <2>2, <2>3 DEF IndInv
<1> QED
  BY <1>1, Initially, PTL DEF Spec

(* What resourceSnapshot reports of the network when a body has returned   *)
(* is what the hooks of its own calls have carried since the first         *)
(* snapshot, although _sendSize and the others run on from test to test,   *)
(* wrap, and are shared with the framework and with threads left behind.   *)
THEOREM TrafficIsExact == Spec => []TrafficExact
<1>1. IndInv => TrafficExact
  BY DEF IndInv, TrafficExact, Snapshots
<1> QED
  BY <1>1, Invariance, PTL

(* canSend swallows a datagram only for a test that has asked for a faulty *)
(* network, and never one of the framework's messages.                     *)
THEOREM LossWasAskedFor == Spec => LossIsAskedFor
<1> DEFINE A == \A t \in Threads : Dropped(t)' /\ ~Dropped(t) =>
                   /\ pc'[t].kind = "datagram" /\ depth[t] = 0 /\ stage # "out"
                   /\ Faulty[IF stage = "entered" THEN test - 1 ELSE test]
<1>1. IndInv /\ [Next]_vars => [A]_vars
  <2> SUFFICES ASSUME IndInv, Next, NEW t \in Threads, Dropped(t)', ~Dropped(t)
               PROVE  /\ pc'[t].kind = "datagram" /\ depth[t] = 0 /\ stage # "out"
                      /\ Faulty[IF stage = "entered" THEN test - 1 ELSE test]
    BY DEF vars
  <2>0. /\ pc \in [Threads -> {Idle} \union Call \union Ended]
        /\ locked = depth /\ (track <=> stage # "out")
        /\ probabilistic => Faulty[IF stage = "entered" THEN test - 1 ELSE test]
    BY DEF IndInv, Places, Locks, Tracked, Fault
  <2>1. pc'[t] # pc[t] /\ pc'[t].at = "send" /\ ~pc'[t].go
    BY DEF Dropped
  <2>2. ASSUME OpenHole(t) \/ InHole(t)
        PROVE  /\ pc'[t].kind = "datagram" /\ depth[t] = 0 /\ stage # "out"
               /\ Faulty[IF stage = "entered" THEN test - 1 ELSE test]
    <3>1. pc' = [pc EXCEPT ![t] = [at |-> "send", kind |-> "datagram", go |-> FALSE]]
      BY <2>2 DEF OpenHole, InHole, Send
    <3>2. ~Unaffected(t, "datagram")
      BY <2>2 DEF OpenHole, InHole
    <3> QED
      BY <3>1, <3>2, <2>0 DEF Unaffected, Tracks
  <2>3. \A u \in Threads : OpenHole(u) \/ InHole(u) => u = t
    BY <2>0, <2>1 DEF OpenHole, InHole, Send
  <2>4. \A u \in Threads : \A kind \in {"stream", "datagram"} : ~CanSend(u, kind)
    BY <2>0, <2>1 DEF CanSend, Send
  <2>5. \A u \in Threads : ~Through(u)
    BY <2>0, <2>1 DEF Through, Send
  <2>6. \A u \in Threads : ~Carry(u) /\ ~Receive(u)
    BY <2>0, <2>1 DEF Carry, Receive, Result
  <2>7. \A u \in Threads : ~TrackSend(u) /\ ~TrackRecv(u)
    BY <2>0, <2>1 DEF TrackSend, TrackRecv, Idle
  <2>8. /\ ~Enter /\ ~Configure /\ ~FirstSnapshot /\ ~SecondSnapshot /\ ~Exit /\ ~Throw
        /\ ~Lock /\ ~Unlock /\ ~Tick
    BY <2>1 DEF Enter, Configure, FirstSnapshot, SecondSnapshot, Exit, Throw, Lock, Unlock, Tick
  <2> QED
    BY <2>2, <2>3, <2>4, <2>5, <2>6, <2>7, <2>8 DEF Next, Hook
<1> QED
  BY <1>1, Invariance, PTL DEF Spec, LossIsAskedFor
=============================================================================
