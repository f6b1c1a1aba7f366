--------------------------- MODULE Framing_proofs ---------------------------
(***************************************************************************)
(* Message over Socket, for any connections, fields, buffer sizes, paths   *)
(* and portions: no buffer overflows, the receiver never loses its place,  *)
(* _MTU stays as large as the path allows, and the users see a Channel.    *)
(***************************************************************************)
EXTENDS Payload, SequenceTheorems, WellFoundedInduction, TLAPS

(* The sender: messages lie one after the other, and what has been given   *)
(* to the stream ends inside the last one.                                 *)
Stream(c) ==
    /\ \A i \in 1..Posted(c) : End(c, i) - End(c, i - 1) \in Header..(Header + MaxBody)
    /\ \A i, j \in 0..Posted(c) : i < j => End(c, i) + Header <= End(c, j)
    /\ sent[c] + left[c] = End(c, Posted(c))
    /\ Posted(c) > 0 => End(c, Posted(c) - 1) <= sent[c]
    /\ taken[c] <= arrived[c] /\ arrived[c] <= sent[c]
    /\ up[c] = "closed" => left[c] = 0

(* A message under construction. *)
Building(c) == /\ msg[c].cur \in Header..(Header + MaxBody)
               /\ msg[c].cur <= msg[c].alloc

AllWhole(c) == \A i \in DOMAIN got[c] : got[c][i].whole

(* The receiving end of a connection; a message that was cut short is the  *)
(* last one, and nothing is left to read after it.                         *)
Place(c) ==
    /\ conn[c] \in {None, "backlog"} => taken[c] = 0 /\ got[c] = <<>>
    /\ conn[c] = "open" /\ AllWhole(c) => InPlace(c)
    /\ ~AllWhole(c) => /\ up[c] = "dead" /\ taken[c] = sent[c]
                       /\ Len(got[c]) = Posted(c)
    /\ conn[c] = "ended" => up[c] # "alive" /\ AllTaken(c)

(* The server, and what it knows of the message it is reading. *)
Reading ==
    /\ rpc \in {"poll", "closed"} => cur = None
    /\ rpc \in {"header", "body"} => cur \in Conns /\ conn[cur] = "open"
    /\ rpc = "header" => need \in 1..Header /\ rmsg = Fresh
    /\ rpc = "body" =>
           /\ AllWhole(cur) /\ rmsg.cur + rlen <= rmsg.alloc
           /\ rlen + Header = End(cur, Len(got[cur]) + 1) - End(cur, Len(got[cur]))

(* The sizes _resizeMTU may try, and what it has come to. *)
Sizes == (LargeMTU..MaxMTU) \union (1..SmallMTU)
Shrunk(c) == mtu[c] \in Sizes /\ mtu[c] <= chunk[c] /\ mtu[c] >= Usable(c)

IndInv == /\ TypeOK /\ Reading
          /\ \A c \in Conns : Stream(c) /\ Building(c) /\ Place(c) /\ Shrunk(c)
-----------------------------------------------------------------------------
LEMMA FreshFacts ==
    Fresh \in Buffers /\ Fresh.cur = Header /\ Fresh.alloc = BufferSize /\ Header <= BufferSize
  BY FramingAssumption DEF Fresh, Buffers

(* _fit makes room and keeps what is there. *)
LEMMA FitFacts ==
    ASSUME NEW m \in Buffers, NEW n \in Nat
    PROVE  /\ Fit(m, n) \in Buffers /\ Fit(m, n).cur = m.cur
           /\ m.cur <= m.alloc => m.cur + n <= Fit(m, n).alloc
<1>1. m.alloc \in Nat /\ m.cur \in Nat /\ BufferSize \in Nat
  BY FramingAssumption DEF Buffers
<1>2. CASE m.alloc - m.cur < n
  <2> DEFINE more == IF n < BufferSize THEN BufferSize ELSE n
  <2>1. Fit(m, n) = [m EXCEPT !.alloc = @ + more]
    BY <1>2 DEF Fit
  <2>2. more \in Nat /\ more >= n
    BY <1>1
  <2> HIDE DEF more
  <2>3. Fit(m, n) = [alloc |-> m.alloc + more, cur |-> m.cur]
    BY <2>1 DEF Buffers
  <2> QED
    BY <1>1, <2>2, <2>3 DEF Buffers
<1>3. CASE ~(m.alloc - m.cur < n)
  BY <1>1, <1>3 DEF Fit
<1> QED
  BY <1>2, <1>3

(* The largest size that the path takes. *)
LEMMA UsableFacts ==
    ASSUME NEW c \in Conns
    PROVE  /\ Usable(c) \in Sizes /\ Usable(c) <= PathLimit[c]
           /\ \A k \in Sizes : k <= PathLimit[c] => k <= Usable(c)
<1> DEFINE p == PathLimit[c]
           P(n) == n <= p /\ \A k \in Sizes : k <= p => k <= n
           w == IF p >= MaxMTU THEN MaxMTU ELSE IF p >= LargeMTU THEN p
                ELSE IF p >= SmallMTU THEN SmallMTU ELSE p
<1>1. /\ p \in Nat /\ p >= 1 /\ SmallMTU \in Nat /\ SmallMTU >= 1 /\ LargeMTU \in Nat
      /\ MaxMTU \in Nat /\ SmallMTU < LargeMTU /\ LargeMTU <= MaxMTU
  BY FramingAssumption
<1> HIDE DEF p
<1>2. w \in Sizes /\ P(w)
  BY <1>1 DEF Sizes
<1>3. Usable(c) = CHOOSE n \in Sizes : P(n)
  BY DEF Usable, Sizes, p
<1> HIDE DEF w
<1>4. Usable(c) \in Sizes /\ P(Usable(c))
  BY <1>2, <1>3
<1> QED
  BY <1>4 DEF p

(* _resizeMTU never goes below it. *)
LEMMA ResizedFacts ==
    ASSUME NEW c \in Conns, NEW m \in Sizes, NEW old \in Nat,
           m <= old, m >= Usable(c), old > PathLimit[c]
    PROVE  LET r == Resized(m, old) IN r \in Sizes /\ r <= m /\ r >= Usable(c)
<1>1. /\ PathLimit[c] \in Nat \ {0} /\ SmallMTU \in Nat \ {0} /\ LargeMTU \in Nat
      /\ MaxMTU \in Nat /\ SmallMTU < LargeMTU /\ LargeMTU <= MaxMTU
  BY FramingAssumption
<1>2. Usable(c) \in Sizes /\ Usable(c) <= PathLimit[c]
  BY UsableFacts
<1>3. CASE old > m
  BY <1>1, <1>2, <1>3 DEF Resized, Sizes
<1>4. CASE old = m
  <2>1. m > PathLimit[c] /\ Usable(c) < m
    BY <1>1, <1>2, <1>4 DEF Sizes
  <2> QED
    BY <1>1, <1>2, <1>4, <2>1 DEF Resized, Sizes
<1>5. m \in Nat
  BY <1>1 DEF Sizes
<1> QED
  BY <1>3, <1>4, <1>5

LEMMA ConnFacts ==
    ASSUME TypeOK, NEW c \in Conns
    PROVE  /\ msg[c] \in Buffers /\ msg[c].cur \in Nat /\ msg[c].alloc \in Nat
           /\ left[c] \in Nat /\ chunk[c] \in Nat /\ mtu[c] \in Nat
           /\ ends[c] \in Seq(Nat) /\ Posted(c) \in Nat
           /\ \A i \in 0..Posted(c) : End(c, i) \in Nat
           /\ sent[c] \in Nat /\ arrived[c] \in Nat /\ taken[c] \in Nat
           /\ got[c] \in Seq([len : Nat, whole : BOOLEAN]) /\ Len(got[c]) \in Nat
           /\ DOMAIN got[c] = 1..Len(got[c])
<1>1. ends[c] \in Seq(Nat) /\ got[c] \in Seq([len : Nat, whole : BOOLEAN])
  BY DEF TypeOK
<1>2. \A i \in 0..Posted(c) : End(c, i) \in Nat
  BY <1>1 DEF End, Posted
<1>3. Len(got[c]) \in Nat /\ Posted(c) \in Nat /\ DOMAIN got[c] = 1..Len(got[c])
  BY <1>1, LenProperties DEF Posted
<1>4. msg[c] \in Buffers /\ msg[c].cur \in Nat /\ msg[c].alloc \in Nat
  BY DEF TypeOK, Buffers
<1> QED
  BY <1>1, <1>2, <1>3, <1>4 DEF TypeOK

(* A message is posted. *)
LEMMA SendFacts ==
    ASSUME TypeOK, NEW c \in Conns, NEW n \in Nat,
           ends' = Set(ends, c, Append(ends[c], n))
    PROVE  /\ ends' \in [Conns -> Seq(Nat)]
           /\ Posted(c)' = Posted(c) + 1
           /\ \A i \in 0..Posted(c) : End(c, i)' = End(c, i)
           /\ End(c, Posted(c))' = n
           /\ \A d \in Conns : d # c => ends'[d] = ends[d]
<1>1. ends[c] \in Seq(Nat) /\ ends \in [Conns -> Seq(Nat)]
  BY DEF TypeOK
<1>2. /\ Append(ends[c], n) \in Seq(Nat) /\ Len(Append(ends[c], n)) = Len(ends[c]) + 1
      /\ \A i \in 1..Len(ends[c]) : Append(ends[c], n)[i] = ends[c][i]
      /\ Append(ends[c], n)[Len(ends[c]) + 1] = n
  BY <1>1, AppendProperties
<1>3. ends'[c] = Append(ends[c], n) /\ \A d \in Conns : d # c => ends'[d] = ends[d]
  BY <1>1 DEF Set
<1>4. Len(ends[c]) \in Nat
  BY <1>1
<1>5. ends' \in [Conns -> Seq(Nat)]
  BY <1>1, <1>2 DEF Set
<1>6. Posted(c)' = Posted(c) + 1 /\ Posted(c) = Len(ends[c])
  BY <1>2, <1>3 DEF Posted
<1>7. \A i \in 0..Posted(c) : End(c, i)' = End(c, i)
  <2> SUFFICES ASSUME NEW i \in 0..Posted(c) PROVE End(c, i)' = End(c, i)
    OBVIOUS
  <2>1. i = 0 \/ i \in 1..Len(ends[c])
    BY <1>4, <1>6
  <2> QED
    BY <1>2, <1>3, <2>1 DEF End
<1>8. End(c, Posted(c))' = n
  <2>1. Posted(c)' # 0
    BY <1>4, <1>6
  <2> QED
    BY <1>2, <1>3, <1>6, <2>1 DEF End
<1> QED
  BY <1>3, <1>5, <1>6, <1>7, <1>8

(* Where the receiver stands, and the length it reads there. *)
LEMMA NextLength ==
    ASSUME IndInv, rpc = "header", Waiting(cur) >= need
    PROVE  LET k == Len(got[cur]) IN
           /\ AllWhole(cur) /\ k < Posted(cur)
           /\ taken[cur] + need - Header = End(cur, k)
           /\ LengthsAt(cur, End(cur, k)) = {End(cur, k + 1) - End(cur, k)}
<1> DEFINE k == Len(got[cur])
<1>1. /\ cur \in Conns /\ conn[cur] = "open" /\ need \in Nat /\ need >= 1 /\ Header \in Nat
      /\ Header > 0
  BY FramingAssumption DEF IndInv, Reading
<1>2. Stream(cur) /\ Place(cur)
  BY <1>1 DEF IndInv
<1>3. /\ Posted(cur) \in Nat /\ k \in Nat /\ sent[cur] \in Nat /\ arrived[cur] \in Nat
      /\ taken[cur] \in Nat /\ left[cur] \in Nat
      /\ \A i \in 0..Posted(cur) : End(cur, i) \in Nat
  BY <1>1, ConnFacts DEF IndInv
<1> HIDE DEF k
<1>4. taken[cur] + need <= sent[cur]
  BY <1>1, <1>2, <1>3 DEF Stream, Waiting
<1>5. AllWhole(cur)
  BY <1>1, <1>2, <1>3, <1>4 DEF Place
<1>6. k <= Posted(cur) /\ taken[cur] + need = End(cur, k) + Header
  BY <1>1, <1>2, <1>5 DEF Place, InPlace, k
<1>7. End(cur, k) < End(cur, Posted(cur))
  BY <1>1, <1>2, <1>3, <1>4, <1>6 DEF Stream
<1>8. k < Posted(cur)
  BY <1>1, <1>3, <1>6, <1>7
<1>9. \A i \in 1..Posted(cur) : End(cur, i - 1) = End(cur, k) => i = k + 1
  <2> SUFFICES ASSUME NEW i \in 1..Posted(cur), End(cur, i - 1) = End(cur, k)
               PROVE  i = k + 1
    OBVIOUS
  <2>1. i - 1 \in 0..Posted(cur) /\ k \in 0..Posted(cur)
    BY <1>3, <1>8
  <2>2. ~(i - 1 < k) /\ ~(k < i - 1)
    BY <1>1, <1>2, <1>3, <2>1 DEF Stream
  <2> QED
    BY <1>3, <2>1, <2>2
<1>10. k + 1 \in 1..Posted(cur) /\ (k + 1) - 1 = k /\ End(cur, k + 1) = ends[cur][k + 1]
  BY <1>3, <1>8 DEF End
<1>11. (CHOOSE i \in 1..Posted(cur) : End(cur, i - 1) = End(cur, k)) = k + 1
  BY <1>9, <1>10
<1>12. LengthsAt(cur, End(cur, k)) = {End(cur, k + 1) - End(cur, k)}
  BY <1>10, <1>11 DEF LengthsAt
<1>13. End(cur, k) \in Nat /\ taken[cur] + need - Header = End(cur, k)
  BY <1>1, <1>3, <1>6
<1> QED
  BY <1>5, <1>8, <1>12, <1>13 DEF k

(* A connection that a step leaves alone. *)
LEMMA StreamFrame ==
    ASSUME NEW d, Stream(d), UNCHANGED <<ends[d], sent[d], left[d], taken[d], arrived[d]>>,
           up'[d] = "closed" => up[d] = "closed" \/ left[d] = 0
    PROVE  Stream(d)'
<1>1. Posted(d)' = Posted(d) /\ \A i : End(d, i)' = End(d, i)
  BY DEF Posted, End
<1> QED
  BY <1>1 DEF Stream

(* Bytes move: into the stream, along it, or out of it. *)
LEMMA StreamMoves ==
    ASSUME TypeOK, NEW d \in Conns, Stream(d), UNCHANGED <<ends[d], up[d]>>,
           sent'[d] \in Nat, left'[d] \in Nat, arrived'[d] \in Nat, taken'[d] \in Nat,
           sent'[d] + left'[d] = sent[d] + left[d], sent[d] <= sent'[d],
           taken'[d] <= arrived'[d], arrived'[d] <= sent'[d],
           up[d] = "alive" \/ left'[d] = left[d]
    PROVE  Stream(d)'
<1>1. Posted(d)' = Posted(d) /\ \A i : End(d, i)' = End(d, i)
  BY DEF Posted, End
<1>2. /\ sent[d] \in Nat /\ left[d] \in Nat /\ Posted(d) \in Nat
      /\ \A i \in 0..Posted(d) : End(d, i) \in Nat
  BY ConnFacts
<1>3. Posted(d) > 0 => End(d, Posted(d) - 1) <= sent'[d]
  <2>1. Posted(d) > 0 => End(d, Posted(d) - 1) \in Nat
    BY <1>2
  <2> QED
    BY <1>2, <2>1 DEF Stream
<1> QED
  BY <1>1, <1>2, <1>3 DEF Stream

LEMMA LeastFacts ==
    ASSUME NEW x \in Nat, NEW y \in Nat
    PROVE  Least(x, y) \in Nat /\ Least(x, y) <= x /\ Least(x, y) <= y
  BY DEF Least

LEMMA StreamStep ==
    ASSUME IndInv, [Next]_vars, NEW d \in Conns
    PROVE  Stream(d)'
<1>0. TypeOK /\ Stream(d)
  BY DEF IndInv
<1> USE DEF sender, server
<1>1. CASE Poll
  BY <1>1, <1>0, StreamFrame DEF Poll, Set, TypeOK
<1>2. CASE RecvHeader
  <2>1. CASE d # cur
    BY <1>2, <1>0, <2>1, StreamFrame DEF Set, TypeOK, RecvHeader
  <2>2. CASE d = cur
    <3>1. /\ taken'[d] = taken[d] + Least(need, Waiting(d))
          /\ UNCHANGED <<ends, up, sent, left, arrived>>
      BY <1>2, <1>0, <2>2 DEF RecvHeader, Set, TypeOK
    <3>2. /\ taken[d] \in Nat /\ arrived[d] \in Nat /\ sent[d] \in Nat /\ left[d] \in Nat
          /\ need \in Nat /\ taken[d] <= arrived[d] /\ arrived[d] <= sent[d]
      BY <1>0, ConnFacts DEF Stream, TypeOK
    <3>3. Waiting(d) \in Nat /\ taken[d] + Waiting(d) = arrived[d]
      BY <3>2 DEF Waiting
    <3>4. Least(need, Waiting(d)) \in Nat /\ Least(need, Waiting(d)) <= Waiting(d)
      BY <3>2, <3>3, LeastFacts
    <3>5. taken'[d] \in Nat /\ taken'[d] <= arrived'[d]
      BY <3>1, <3>2, <3>3, <3>4
    <3> QED
      BY <3>1, <3>2, <3>5, <1>0, StreamMoves
  <2> QED
    BY <2>1, <2>2
<1>3. CASE HeaderBlocks
  BY <1>3, <1>0, StreamFrame DEF HeaderBlocks, BackToPoll, Set, TypeOK
<1>4. CASE HeaderEnds
  BY <1>4, <1>0, StreamFrame DEF HeaderEnds, BackToPoll, Set, TypeOK
<1>5. CASE RecvBody
  <2>1. CASE d # cur
    BY <1>5, <1>0, <2>1, StreamFrame DEF Set, TypeOK, RecvBody
  <2>2. CASE d = cur
    <3>1. /\ taken'[d] = taken[d] + Least(need, Waiting(d))
          /\ UNCHANGED <<ends, up, sent, left, arrived>>
      BY <1>5, <1>0, <2>2 DEF RecvBody, Set, TypeOK
    <3>2. /\ taken[d] \in Nat /\ arrived[d] \in Nat /\ sent[d] \in Nat /\ left[d] \in Nat
          /\ need \in Nat /\ taken[d] <= arrived[d] /\ arrived[d] <= sent[d]
      BY <1>0, ConnFacts DEF Stream, TypeOK
    <3>3. Waiting(d) \in Nat /\ taken[d] + Waiting(d) = arrived[d]
      BY <3>2 DEF Waiting
    <3>4. Least(need, Waiting(d)) \in Nat /\ Least(need, Waiting(d)) <= Waiting(d)
      BY <3>2, <3>3, LeastFacts
    <3>5. taken'[d] \in Nat /\ taken'[d] <= arrived'[d]
      BY <3>1, <3>2, <3>3, <3>4
    <3> QED
      BY <3>1, <3>2, <3>5, <1>0, StreamMoves
  <2> QED
    BY <2>1, <2>2
<1>6. CASE BodyWhole
  BY <1>6, <1>0, StreamFrame DEF BodyWhole, BackToPoll, Set, TypeOK
<1>7. CASE BodyEnds
  BY <1>7, <1>0, StreamFrame DEF BodyEnds, BackToPoll, Set, TypeOK
<1>8. CASE BodyReset
  BY <1>8, <1>0, StreamFrame DEF BodyReset, BackToPoll, Set, TypeOK
<1>9. CASE CloseServer
  BY <1>9, <1>0, StreamFrame DEF CloseServer, Set, TypeOK
<1>10. CASE Again
  BY <1>10, <1>0, StreamFrame DEF Again, vars, TypeOK
<1>11. CASE UNCHANGED vars
  BY <1>11, <1>0, StreamFrame DEF vars, TypeOK
<1>12. ASSUME NEW c \in Conns, Connect(c) PROVE Stream(d)'
  BY <1>12, <1>0, StreamFrame DEF Connect, Set, TypeOK
<1>13. ASSUME NEW c \in Conns, Refused(c) PROVE Stream(d)'
  BY <1>13, <1>0, StreamFrame DEF Refused, Set, TypeOK
<1>14. ASSUME NEW c \in Conns, Send(c) PROVE Stream(d)'
  <2>1. CASE d # c
    BY <1>14, <1>0, <2>1, StreamFrame DEF Set, TypeOK, Send
  <2>2. CASE d = c
    <3>a. PICK k \in Nat : k = Posted(c)
      BY <1>0, ConnFacts
    <3>b. End(c, k) \in Nat /\ msg[c].cur \in Nat
      BY <1>0, <3>a, ConnFacts
    <3>1. PICK n \in Nat : n = End(c, k) + msg[c].cur /\ k = Posted(c)
      BY <3>a, <3>b
    <3>2. /\ Free(c) /\ left' = Set(left, c, msg[c].cur)
          /\ ends' = Set(ends, c, Append(ends[c], n))
          /\ UNCHANGED <<sent, arrived, taken, up>>
      BY <1>14, <3>1 DEF Send
    <3>3. /\ Posted(c)' = k + 1 /\ \A i \in 0..k : End(c, i)' = End(c, i)
          /\ End(c, k + 1)' = n
      BY <1>0, <3>1, <3>2, SendFacts
    <3>4. /\ sent[c] \in Nat /\ \A i \in 0..k : End(c, i) \in Nat
          /\ msg[c].cur \in Nat /\ msg[c].cur \in Header..(Header + MaxBody)
          /\ Header \in Nat /\ MaxBody \in Nat
      BY <1>0, <3>1, ConnFacts, FramingAssumption DEF IndInv, Building
    <3>5. left[c] = 0 /\ sent[c] = End(c, k) /\ left'[c] = msg[c].cur /\ sent'[c] = sent[c]
      BY <1>0, <2>2, <3>1, <3>2, <3>4 DEF Free, Stream, Set, TypeOK
    <3>6. ASSUME NEW i \in 1..(k + 1)
          PROVE  End(c, i)' - End(c, i - 1)' \in Header..(Header + MaxBody)
      <4>1. CASE i = k + 1
        BY <3>1, <3>3, <3>4, <4>1
      <4>2. CASE i # k + 1
        <5>1. i \in 1..k /\ i \in 0..k /\ i - 1 \in 0..k
          BY <4>2
        <5> QED
          BY <1>0, <2>2, <3>1, <3>3, <5>1 DEF Stream
      <4> QED
        BY <4>1, <4>2
    <3>7. ASSUME NEW i \in 0..(k + 1), NEW j \in 0..(k + 1), i < j
          PROVE  End(c, i)' + Header <= End(c, j)'
      <4>1. i \in 0..k /\ End(c, i)' = End(c, i) /\ End(c, i) \in Nat /\ End(c, k) \in Nat
        BY <3>3, <3>4, <3>7
      <4>2. CASE j = k + 1
        <5>1. End(c, i) <= End(c, k)
          <6>1. CASE i = k
            BY <4>1, <6>1
          <6>2. CASE i < k
            BY <1>0, <2>2, <3>1, <3>4, <4>1, <6>2 DEF Stream
          <6> QED
            BY <4>1, <6>1, <6>2
        <5> QED
          BY <3>1, <3>3, <3>4, <4>1, <4>2, <5>1
      <4>3. CASE j # k + 1
        BY <1>0, <2>2, <3>1, <3>3, <3>7, <4>1, <4>3 DEF Stream
      <4> QED
        BY <4>2, <4>3
    <3>8. /\ sent'[c] + left'[c] = End(c, k + 1)'
          /\ End(c, k)' <= sent'[c] /\ (k + 1) - 1 = k
      <4>1. End(c, k)' = End(c, k) /\ End(c, k) \in Nat
        BY <3>3, <3>4
      <4> QED
        BY <3>1, <3>3, <3>4, <3>5, <4>1
    <3>9. taken'[c] <= arrived'[c] /\ arrived'[c] <= sent'[c] /\ up'[c] = "alive"
      BY <1>0, <2>2, <3>2 DEF Stream, Free
    <3> QED
      BY <2>2, <3>3, <3>6, <3>7, <3>8, <3>9 DEF Stream
  <2> QED
    BY <2>1, <2>2
<1>15. ASSUME NEW c \in Conns, SendSome(c) PROVE Stream(d)'
  <2>1. CASE d # c
    BY <1>15, <1>0, <2>1, StreamFrame DEF Set, TypeOK, SendSome
  <2>2. CASE d = c
    <3>1. PICK n \in 1..Least(left[d], chunk[d]) :
              sent' = Set(sent, d, sent[d] + n) /\ left' = Set(left, d, left[d] - n)
      BY <1>15, <2>2 DEF SendSome
    <3>2. up[d] = "alive" /\ UNCHANGED <<ends, arrived, taken, up>>
      BY <1>15, <2>2 DEF SendSome
    <3>3. /\ left[d] \in Nat /\ chunk[d] \in Nat /\ sent[d] \in Nat /\ arrived[d] \in Nat
          /\ taken[d] \in Nat /\ taken[d] <= arrived[d] /\ arrived[d] <= sent[d]
      BY <1>0, ConnFacts DEF Stream, TypeOK
    <3>4. n \in Nat /\ n <= left[d]
      BY <3>3, LeastFacts
    <3>5. sent'[d] = sent[d] + n /\ left'[d] = left[d] - n
      BY <1>0, <3>1 DEF Set, TypeOK
    <3> QED
      BY <3>2, <3>3, <3>4, <3>5, <1>0, StreamMoves
  <2> QED
    BY <2>1, <2>2
<1>16. ASSUME NEW c \in Conns, SendTooLong(c) PROVE Stream(d)'
  BY <1>16, <1>0, StreamFrame DEF SendTooLong, Set, TypeOK
<1>17. ASSUME NEW c \in Conns, SendFails(c) PROVE Stream(d)'
  BY <1>17, <1>0, StreamFrame DEF SendFails, Set, TypeOK
<1>18. ASSUME NEW c \in Conns, Close(c) PROVE Stream(d)'
  BY <1>18, <1>0, StreamFrame DEF Close, Set, TypeOK
<1>19. ASSUME NEW c \in Conns, Die(c) PROVE Stream(d)'
  BY <1>19, <1>0, StreamFrame DEF Die, Set, TypeOK
<1>20. ASSUME NEW c \in Conns, Arrive(c) PROVE Stream(d)'
  <2>1. CASE d # c
    BY <1>20, <1>0, <2>1, StreamFrame DEF Set, TypeOK, Arrive
  <2>2. CASE d = c
    <3>1. PICK n \in (arrived[d] + 1)..sent[d] : arrived' = Set(arrived, d, n)
      BY <1>20, <2>2 DEF Arrive
    <3>2. UNCHANGED <<ends, left, sent, taken, up>>
      BY <1>20 DEF Arrive
    <3>3. /\ left[d] \in Nat /\ sent[d] \in Nat /\ arrived[d] \in Nat
          /\ taken[d] \in Nat /\ taken[d] <= arrived[d] /\ arrived[d] <= sent[d]
      BY <1>0, ConnFacts DEF Stream, TypeOK
    <3>4. arrived'[d] = n
      BY <1>0, <3>1 DEF Set, TypeOK
    <3> QED
      BY <3>2, <3>3, <3>4, <1>0, StreamMoves
  <2> QED
    BY <2>1, <2>2
<1>21. ASSUME NEW c \in Conns, PollHangup(c) PROVE Stream(d)'
  BY <1>21, <1>0, StreamFrame DEF PollHangup, Set, TypeOK
<1>22. ASSUME NEW c \in Conns, NEW n \in Fields[c], Put(c, n) PROVE Stream(d)'
  BY <1>22, <1>0, StreamFrame DEF Put, Set, TypeOK
<1> QED
  BY <1>1, <1>2, <1>3, <1>4, <1>5, <1>6, <1>7, <1>8, <1>9, <1>10, <1>11, <1>12,
     <1>13, <1>14, <1>15, <1>16, <1>17, <1>18, <1>19, <1>20, <1>21, <1>22 DEF Next,
     ServerStep, SenderStep

LEMMA BuildingStep ==
    ASSUME IndInv, [Next]_vars, NEW d \in Conns
    PROVE  Building(d)'
<1>0. TypeOK /\ Building(d)
  BY DEF IndInv
<1> USE DEF sender, server
<1>1. CASE Poll
  BY <1>1, <1>0 DEF Poll, Building, Set, TypeOK
<1>2. CASE RecvHeader
  BY <1>2, <1>0 DEF RecvHeader, Building, Set, TypeOK
<1>3. CASE HeaderBlocks
  BY <1>3, <1>0 DEF HeaderBlocks, Building, BackToPoll, Set, TypeOK
<1>4. CASE HeaderEnds
  BY <1>4, <1>0 DEF HeaderEnds, Building, BackToPoll, Set, TypeOK
<1>5. CASE RecvBody
  BY <1>5, <1>0 DEF RecvBody, Building, Set, TypeOK
<1>6. CASE BodyWhole
  BY <1>6, <1>0 DEF BodyWhole, Building, BackToPoll, Set, TypeOK
<1>7. CASE BodyEnds
  BY <1>7, <1>0 DEF BodyEnds, Building, BackToPoll, Set, TypeOK
<1>8. CASE BodyReset
  BY <1>8, <1>0 DEF BodyReset, Building, BackToPoll, Set, TypeOK
<1>9. CASE CloseServer
  BY <1>9, <1>0 DEF CloseServer, Building, Set, TypeOK
<1>10. CASE Again
  BY <1>10, <1>0 DEF Again, Building, vars, TypeOK
<1>11. CASE UNCHANGED vars
  BY <1>11, <1>0 DEF vars, Building, TypeOK
<1>12. ASSUME NEW c \in Conns, Connect(c) PROVE Building(d)'
  BY <1>12, <1>0 DEF Connect, Building, Set, TypeOK
<1>13. ASSUME NEW c \in Conns, Refused(c) PROVE Building(d)'
  BY <1>13, <1>0 DEF Refused, Building, Set, TypeOK
<1>14. ASSUME NEW c \in Conns, Send(c) PROVE Building(d)'
  BY <1>14, <1>0 DEF Send, Building, Set, TypeOK
<1>15. ASSUME NEW c \in Conns, SendSome(c) PROVE Building(d)'
  <2>1. msg' = msg \/ msg' = Set(msg, c, Fresh)
    BY <1>15 DEF SendSome
  <2>2. Fresh.cur \in Header..(Header + MaxBody) /\ Fresh.cur <= Fresh.alloc
    BY FreshFacts, FramingAssumption
  <2> QED
    BY <1>0, <2>1, <2>2 DEF Building, Set, TypeOK
<1>16. ASSUME NEW c \in Conns, SendTooLong(c) PROVE Building(d)'
  BY <1>16, <1>0 DEF SendTooLong, Building, Set, TypeOK
<1>17. ASSUME NEW c \in Conns, SendFails(c) PROVE Building(d)'
  BY <1>17, <1>0 DEF SendFails, Building, Set, TypeOK
<1>18. ASSUME NEW c \in Conns, Close(c) PROVE Building(d)'
  BY <1>18, <1>0 DEF Close, Building, Set, TypeOK
<1>19. ASSUME NEW c \in Conns, Die(c) PROVE Building(d)'
  BY <1>19, <1>0 DEF Die, Building, Set, TypeOK
<1>20. ASSUME NEW c \in Conns, Arrive(c) PROVE Building(d)'
  BY <1>20, <1>0 DEF Arrive, Building, Set, TypeOK
<1>21. ASSUME NEW c \in Conns, PollHangup(c) PROVE Building(d)'
  BY <1>21, <1>0 DEF PollHangup, Building, Set, TypeOK
<1>22. ASSUME NEW c \in Conns, NEW n \in Fields[c], Put(c, n) PROVE Building(d)'
  <2>1. CASE d # c
    BY <1>22, <1>0, <2>1 DEF Put, Set, Building, TypeOK
  <2>2. CASE d = c
    <3>1. n \in Nat /\ msg[c] \in Buffers /\ msg[c].cur \in Nat /\ Header \in Nat
      BY <1>0, ConnFacts, FramingAssumption
    <3>2. /\ Fit(msg[c], n) \in Buffers /\ Fit(msg[c], n).cur = msg[c].cur
          /\ msg[c].cur + n <= Fit(msg[c], n).alloc
      BY <1>0, <2>2, <3>1, FitFacts DEF Building
    <3>3. /\ msg'[c] = [Fit(msg[c], n) EXCEPT !.cur = Fit(msg[c], n).cur + n]
          /\ msg[c].cur + n <= Header + MaxBody
      BY <1>22, <1>0 DEF Put, Set, TypeOK
    <3>4. msg'[c].cur = msg[c].cur + n /\ msg'[c].alloc = Fit(msg[c], n).alloc
      BY <3>2, <3>3 DEF Buffers
    <3> QED
      BY <1>0, <2>2, <3>1, <3>2, <3>3, <3>4, FramingAssumption DEF Building
  <2> QED
    BY <2>1, <2>2
<1> QED
  BY <1>1, <1>2, <1>3, <1>4, <1>5, <1>6, <1>7, <1>8, <1>9, <1>10, <1>11, <1>12,
     <1>13, <1>14, <1>15, <1>16, <1>17, <1>18, <1>19, <1>20, <1>21, <1>22 DEF Next,
     ServerStep, SenderStep

LEMMA ShrunkStep ==
    ASSUME IndInv, [Next]_vars, NEW d \in Conns
    PROVE  Shrunk(d)'
<1>0. TypeOK /\ Shrunk(d)
  BY DEF IndInv
<1> USE DEF sender, server
<1>1. CASE Poll
  BY <1>1, <1>0 DEF Poll, Shrunk, Usable, Set, TypeOK
<1>2. CASE RecvHeader
  BY <1>2, <1>0 DEF RecvHeader, Shrunk, Usable, Set, TypeOK
<1>3. CASE HeaderBlocks
  BY <1>3, <1>0 DEF HeaderBlocks, Shrunk, Usable, BackToPoll, Set, TypeOK
<1>4. CASE HeaderEnds
  BY <1>4, <1>0 DEF HeaderEnds, Shrunk, Usable, BackToPoll, Set, TypeOK
<1>5. CASE RecvBody
  BY <1>5, <1>0 DEF RecvBody, Shrunk, Usable, Set, TypeOK
<1>6. CASE BodyWhole
  BY <1>6, <1>0 DEF BodyWhole, Shrunk, Usable, BackToPoll, Set, TypeOK
<1>7. CASE BodyEnds
  BY <1>7, <1>0 DEF BodyEnds, Shrunk, Usable, BackToPoll, Set, TypeOK
<1>8. CASE BodyReset
  BY <1>8, <1>0 DEF BodyReset, Shrunk, Usable, BackToPoll, Set, TypeOK
<1>9. CASE CloseServer
  BY <1>9, <1>0 DEF CloseServer, Shrunk, Usable, Set, TypeOK
<1>10. CASE Again
  BY <1>10, <1>0 DEF Again, Shrunk, Usable, vars, TypeOK
<1>11. CASE UNCHANGED vars
  BY <1>11, <1>0 DEF vars, Shrunk, Usable, TypeOK
<1>12. ASSUME NEW c \in Conns, Connect(c) PROVE Shrunk(d)'
  BY <1>12, <1>0 DEF Connect, Shrunk, Usable, Set, TypeOK
<1>13. ASSUME NEW c \in Conns, Refused(c) PROVE Shrunk(d)'
  BY <1>13, <1>0 DEF Refused, Shrunk, Usable, Set, TypeOK
<1>14. ASSUME NEW c \in Conns, Send(c) PROVE Shrunk(d)'
  <2>1. CASE d # c
    BY <1>14, <1>0, <2>1 DEF Send, Set, Shrunk, Usable, TypeOK
  <2>2. CASE d = c
    <3>1. chunk'[c] = SyscallSize /\ mtu' = mtu
      BY <1>14, <1>0 DEF Send, Set, TypeOK
    <3>2. mtu[c] <= SyscallSize
      BY <1>0, <2>2, FramingAssumption DEF Shrunk, Sizes
    <3> QED
      BY <1>0, <2>2, <3>1, <3>2 DEF Shrunk, Usable
  <2> QED
    BY <2>1, <2>2
<1>15. ASSUME NEW c \in Conns, SendSome(c) PROVE Shrunk(d)'
  BY <1>15, <1>0 DEF SendSome, Shrunk, Usable, Set, TypeOK
<1>16. ASSUME NEW c \in Conns, SendTooLong(c) PROVE Shrunk(d)'
  <2>1. CASE d # c
    BY <1>16, <1>0, <2>1 DEF SendTooLong, Set, Shrunk, Usable, TypeOK
  <2>2. CASE d = c
    <3>1. left[c] \in Nat /\ chunk[c] \in Nat /\ PathLimit[c] \in Nat
      BY <1>0, ConnFacts, FramingAssumption
    <3>2. chunk[c] > PathLimit[c]
      BY <1>16, <3>1, LeastFacts DEF SendTooLong, Least
    <3>3. LET r == Resized(mtu[c], chunk[c]) IN r \in Sizes /\ r <= mtu[c] /\ r >= Usable(c)
      BY <1>0, <2>2, <3>1, <3>2, ResizedFacts DEF Shrunk
    <3>4. mtu'[c] = Resized(mtu[c], chunk[c]) /\ chunk'[c] = mtu'[c]
      BY <1>16, <1>0 DEF SendTooLong, Set, TypeOK
    <3>5. Resized(mtu[c], chunk[c]) \in Int
      BY <3>3, FramingAssumption DEF Sizes
    <3> QED
      BY <2>2, <3>3, <3>4, <3>5 DEF Shrunk, Usable
  <2> QED
    BY <2>1, <2>2
<1>17. ASSUME NEW c \in Conns, SendFails(c) PROVE Shrunk(d)'
  BY <1>17, <1>0 DEF SendFails, Shrunk, Usable, Set, TypeOK
<1>18. ASSUME NEW c \in Conns, Close(c) PROVE Shrunk(d)'
  BY <1>18, <1>0 DEF Close, Shrunk, Usable, Set, TypeOK
<1>19. ASSUME NEW c \in Conns, Die(c) PROVE Shrunk(d)'
  BY <1>19, <1>0 DEF Die, Shrunk, Usable, Set, TypeOK
<1>20. ASSUME NEW c \in Conns, Arrive(c) PROVE Shrunk(d)'
  BY <1>20, <1>0 DEF Arrive, Shrunk, Usable, Set, TypeOK
<1>21. ASSUME NEW c \in Conns, PollHangup(c) PROVE Shrunk(d)'
  BY <1>21, <1>0 DEF PollHangup, Shrunk, Usable, Set, TypeOK
<1>22. ASSUME NEW c \in Conns, NEW n \in Fields[c], Put(c, n) PROVE Shrunk(d)'
  BY <1>22, <1>0 DEF Put, Shrunk, Usable, Set, TypeOK
<1> QED
  BY <1>1, <1>2, <1>3, <1>4, <1>5, <1>6, <1>7, <1>8, <1>9, <1>10, <1>11, <1>12,
     <1>13, <1>14, <1>15, <1>16, <1>17, <1>18, <1>19, <1>20, <1>21, <1>22 DEF Next,
     ServerStep, SenderStep

(* What a call of recv does while the length is read. *)
LEMMA HeaderFacts ==
    ASSUME IndInv, RecvHeader
    PROVE  /\ cur \in Conns /\ conn[cur] = "open" /\ AllWhole(cur)
           /\ taken' \in [Conns -> Nat]
           /\ \/ /\ need' \in 1..Header /\ taken'[cur] + need' = taken[cur] + need
                 /\ UNCHANGED <<rlen, rmsg, rpc>>
              \/ /\ Len(got[cur]) < Posted(cur) /\ rpc' = "body" /\ need' = rlen'
                 /\ rlen' \in Nat /\ taken'[cur] = End(cur, Len(got[cur])) + Header
                 /\ rlen' + Header = End(cur, Len(got[cur]) + 1) - End(cur, Len(got[cur]))
                 /\ rmsg' = Fit(rmsg, rlen')
<1>1. /\ cur \in Conns /\ conn[cur] = "open" /\ need \in 1..Header /\ Header \in Nat
      /\ TypeOK /\ rpc = "header" /\ Waiting(cur) > 0
  BY FramingAssumption DEF RecvHeader, IndInv, Reading
<1>2. /\ taken[cur] \in Nat /\ arrived[cur] \in Nat /\ taken[cur] <= arrived[cur]
      /\ sent[cur] \in Nat /\ arrived[cur] <= sent[cur]
  BY <1>1, ConnFacts DEF IndInv, Stream
<1>3. Waiting(cur) \in Nat /\ Waiting(cur) = arrived[cur] - taken[cur]
  BY <1>2 DEF Waiting
<1>4. AllWhole(cur)
  <2>1. taken[cur] # sent[cur]
    BY <1>1, <1>2, <1>3
  <2> QED
    BY <1>1, <2>1 DEF IndInv, Place
<1>5. PICK n \in Nat : n = Least(need, Waiting(cur)) /\ n <= need /\ n > 0
  BY <1>1, <1>3, LeastFacts DEF Least
<1>6. taken' = Set(taken, cur, taken[cur] + n)
  BY <1>5 DEF RecvHeader
<1>a. taken'[cur] = taken[cur] + n /\ taken' \in [Conns -> Nat]
  BY <1>1, <1>2, <1>6 DEF Set, TypeOK
<1>7. CASE n < need
  <2>1. need' = need - n /\ UNCHANGED <<rlen, rmsg, rpc>>
    BY <1>5, <1>7 DEF RecvHeader
  <2> QED
    BY <1>1, <1>2, <1>4, <1>5, <1>a, <1>7, <2>1
<1>8. CASE n = need
  <2>1. Waiting(cur) >= need
    BY <1>1, <1>3, <1>5, <1>8 DEF Least
  <2>2. PICK k \in Nat : k = Len(got[cur])
    BY <1>1, ConnFacts
  <2>3. /\ k < Posted(cur) /\ taken[cur] + need - Header = End(cur, k)
        /\ LengthsAt(cur, End(cur, k)) = {End(cur, k + 1) - End(cur, k)}
    BY <1>1, <2>1, <2>2, NextLength
  <2>4. HeaderWhole(End(cur, k + 1) - End(cur, k))
    <3>1. \E l \in LengthsAt(cur, taken[cur] + n - Header) : HeaderWhole(l)
      BY <1>1, <1>5, <1>8 DEF RecvHeader
    <3> QED
      BY <1>8, <2>3, <3>1
  <2>5. PICK a \in Nat, b \in Nat : a = End(cur, k) /\ b = End(cur, k + 1) /\ b >= a + Header
    <3>1. Stream(cur) /\ Posted(cur) \in Nat /\ \A i \in 0..Posted(cur) : End(cur, i) \in Nat
      BY <1>1, ConnFacts DEF IndInv
    <3>2. k \in 0..Posted(cur) /\ k + 1 \in 0..Posted(cur) /\ k < k + 1
      BY <2>3, <3>1
    <3> QED
      BY <1>1, <3>1, <3>2 DEF Stream
  <2>6. /\ rlen' = b - a - Header /\ need' = rlen' /\ rmsg' = Fit(rmsg, rlen') /\ rpc' = "body"
    BY <2>4, <2>5 DEF HeaderWhole
  <2>7. rlen' \in Nat /\ rlen' + Header = b - a /\ taken'[cur] = a + Header
    BY <1>1, <1>2, <1>a, <1>8, <2>3, <2>5, <2>6
  <2> QED
    BY <1>1, <1>4, <1>a, <2>2, <2>3, <2>5, <2>6, <2>7
<1> QED
  BY <1>1, <1>5, <1>7, <1>8

LEMMA BodyFacts ==
    ASSUME IndInv, RecvBody
    PROVE  /\ cur \in Conns /\ need' \in Nat /\ taken'[cur] + need' = taken[cur] + need
           /\ taken' \in [Conns -> Nat]
<1>1. /\ cur \in Conns /\ taken[cur] \in Nat /\ arrived[cur] \in Nat /\ need \in Nat
      /\ taken[cur] <= arrived[cur] /\ TypeOK
  BY ConnFacts DEF RecvBody, IndInv, Reading, Stream, TypeOK
<1>2. PICK n \in Nat : n = Least(need, Waiting(cur)) /\ n <= need
  <2>1. Waiting(cur) \in Nat
    BY <1>1 DEF Waiting
  <2> QED
    BY <1>1, <2>1, LeastFacts
<1>3. /\ taken'[cur] = taken[cur] + n /\ need' = need - n
      /\ taken' \in [Conns -> Nat]
  BY <1>1, <1>2 DEF RecvBody, Set, TypeOK
<1> QED
  BY <1>1, <1>2, <1>3

LEMMA TypeStep ==
    ASSUME IndInv, [Next]_vars
    PROVE  TypeOK'
<1>0. TypeOK /\ (rpc \in {"header", "body"} => cur \in Conns) /\ None \notin Conns
  BY FramingAssumption DEF IndInv, Reading
<1> USE DEF sender, server
<1>1. CASE Poll
  <2>1. PICK a \in Conns \union {None} :
            /\ conn' = IF a = None THEN conn ELSE Set(conn, a, "open")
            /\ cur' \in IF Readable = {} THEN {a} ELSE Readable
            /\ a = None => Backlog = {}
    BY <1>1, <1>0 DEF Poll, Backlog
  <2>2. cur' \in Conns
    BY <1>1, <2>1 DEF Poll, Readable
  <2>3. conn' \in [Conns -> {None, "backlog", "open", "ended", "split", "closed"}]
    BY <1>0, <2>1 DEF Set, TypeOK
  <2> QED
    BY <1>1, <1>0, <2>2, <2>3, FreshFacts, FramingAssumption DEF Poll, TypeOK
<1>2. CASE RecvHeader
  <2>0. UNCHANGED <<sender, sent, arrived, up, conn, cur, got>> /\ cur \in Conns
    BY <1>2, HeaderFacts DEF RecvHeader
  <2>1. taken' \in [Conns -> Nat]
    BY <1>2, HeaderFacts
  <2>2. CASE need' \in 1..Header /\ UNCHANGED <<rlen, rmsg, rpc>>
    <3>1. need' \in Nat
      BY <2>2, FramingAssumption
    <3> QED
      BY <1>0, <2>0, <2>1, <2>2, <3>1 DEF TypeOK
  <2>3. CASE rpc' = "body" /\ need' = rlen' /\ rlen' \in Nat /\ rmsg' = Fit(rmsg, rlen')
    <3>1. rmsg' \in Buffers
      BY <1>0, <2>3, FitFacts DEF TypeOK
    <3> QED
      BY <1>0, <2>0, <2>1, <2>3, <3>1 DEF TypeOK
  <2> QED
    BY <1>2, <2>2, <2>3, HeaderFacts
<1>3. CASE HeaderBlocks
  BY <1>3, <1>0, FreshFacts DEF HeaderBlocks, TypeOK, Set, BackToPoll
<1>4. CASE HeaderEnds
  BY <1>4, <1>0, FreshFacts DEF HeaderEnds, TypeOK, Set, BackToPoll
<1>5. CASE RecvBody
  BY <1>5, <1>0, BodyFacts DEF RecvBody, TypeOK
<1>6. CASE BodyWhole
  <2>1. got[cur] \in Seq([len : Nat, whole : BOOLEAN]) /\ cur \in Conns /\ rlen + Header \in Nat
    BY <1>6, <1>0, FramingAssumption DEF BodyWhole, TypeOK
  <2>2. Append(got[cur], [len |-> rlen + Header, whole |-> TRUE])
            \in Seq([len : Nat, whole : BOOLEAN])
    BY <2>1, AppendProperties
  <2>3. got' \in [Conns -> Seq([len : Nat, whole : BOOLEAN])]
    BY <1>6, <1>0, <2>2 DEF BodyWhole, Accept, Set, TypeOK
  <2> QED
    BY <1>6, <1>0, <2>1, <2>3, FreshFacts DEF BodyWhole, BackToPoll, Set, TypeOK
<1>7. CASE BodyEnds
  <2>1. got[cur] \in Seq([len : Nat, whole : BOOLEAN]) /\ cur \in Conns /\ rlen + Header \in Nat
    BY <1>7, <1>0, FramingAssumption DEF BodyEnds, TypeOK
  <2>2. Append(got[cur], [len |-> rlen + Header, whole |-> FALSE])
            \in Seq([len : Nat, whole : BOOLEAN])
    BY <2>1, AppendProperties
  <2>3. got' \in [Conns -> Seq([len : Nat, whole : BOOLEAN])]
    BY <1>7, <1>0, <2>2 DEF BodyEnds, Accept, Set, TypeOK
  <2> QED
    BY <1>7, <1>0, <2>1, <2>3, FreshFacts DEF BodyEnds, BackToPoll, Set, TypeOK
<1>8. CASE BodyReset
  BY <1>8, <1>0, FreshFacts DEF BodyReset, TypeOK, Set, BackToPoll
<1>9. CASE CloseServer
  BY <1>9, <1>0 DEF CloseServer, TypeOK, Set
<1>10. CASE Again
  BY <1>10, <1>0 DEF Again, TypeOK, vars
<1>11. CASE UNCHANGED vars
  BY <1>11, <1>0 DEF vars, TypeOK
<1>12. ASSUME NEW c \in Conns, Connect(c) PROVE TypeOK'
  BY <1>12, <1>0 DEF Connect, TypeOK, Set
<1>13. ASSUME NEW c \in Conns, Refused(c) PROVE TypeOK'
  BY <1>13, <1>0 DEF Refused, TypeOK, Set
<1>14. ASSUME NEW c \in Conns, Send(c) PROVE TypeOK'
  <2>1. /\ msg[c].cur \in Nat /\ End(c, Posted(c)) \in Nat
        /\ End(c, Posted(c)) + msg[c].cur \in Nat /\ SyscallSize \in Nat
    BY <1>0, ConnFacts, FramingAssumption
  <2>2. ends' \in [Conns -> Seq(Nat)]
    BY <1>14, <1>0, <2>1, SendFacts DEF Send
  <2> QED
    BY <1>14, <1>0, <2>1, <2>2 DEF Send, Set, TypeOK
<1>15. ASSUME NEW c \in Conns, SendSome(c) PROVE TypeOK'
  <2>1. PICK n \in 1..Least(left[c], chunk[c]) :
            /\ sent' = Set(sent, c, sent[c] + n) /\ left' = Set(left, c, left[c] - n)
            /\ msg' = IF n = left[c] THEN Set(msg, c, Fresh) ELSE msg
    BY <1>15 DEF SendSome
  <2>2. left[c] \in Nat /\ chunk[c] \in Nat /\ sent[c] \in Nat
    BY <1>0, ConnFacts
  <2>3. sent[c] + n \in Nat /\ left[c] - n \in Nat
    <3>1. Least(left[c], chunk[c]) \in Nat /\ Least(left[c], chunk[c]) <= left[c]
      BY <2>2, LeastFacts
    <3> QED
      BY <2>2, <3>1
  <2>4. /\ sent' \in [Conns -> Nat] /\ left' \in [Conns -> Nat] /\ msg' \in [Conns -> Buffers]
    BY <1>0, <2>1, <2>3, FreshFacts DEF Set, TypeOK
  <2> QED
    BY <1>15, <1>0, <2>4 DEF SendSome, TypeOK
<1>16. ASSUME NEW c \in Conns, SendTooLong(c) PROVE TypeOK'
  <2>1. mtu[c] \in Sizes /\ Sizes \subseteq Nat
    BY FramingAssumption DEF IndInv, Shrunk, Sizes
  <2>2. Resized(mtu[c], chunk[c]) \in Nat
    <3>1. left[c] \in Nat /\ chunk[c] \in Nat /\ PathLimit[c] \in Nat
      BY <1>0, ConnFacts, FramingAssumption
    <3>2. chunk[c] > PathLimit[c]
      BY <1>16, <3>1 DEF SendTooLong, Least
    <3> QED
      BY <2>1, <3>1, <3>2, ResizedFacts DEF IndInv, Shrunk
  <2>3. mtu' = Set(mtu, c, Resized(mtu[c], chunk[c])) /\ chunk' = Set(chunk, c, mtu'[c])
    BY <1>16 DEF SendTooLong
  <2>4. mtu' \in [Conns -> Nat] /\ mtu'[c] \in Nat
    BY <1>0, <2>2, <2>3 DEF Set, TypeOK
  <2>5. chunk' \in [Conns -> Nat]
    BY <1>0, <2>3, <2>4 DEF Set, TypeOK
  <2> QED
    BY <1>16, <1>0, <2>4, <2>5 DEF SendTooLong, TypeOK
<1>17. ASSUME NEW c \in Conns, SendFails(c) PROVE TypeOK'
  BY <1>17, <1>0 DEF SendFails, TypeOK, Set
<1>18. ASSUME NEW c \in Conns, Close(c) PROVE TypeOK'
  BY <1>18, <1>0 DEF Close, TypeOK, Set
<1>19. ASSUME NEW c \in Conns, Die(c) PROVE TypeOK'
  BY <1>19, <1>0 DEF Die, TypeOK, Set
<1>20. ASSUME NEW c \in Conns, Arrive(c) PROVE TypeOK'
  <2>1. arrived' \in [Conns -> Nat]
    <3>1. sent[c] \in Nat /\ arrived[c] \in Nat
      BY <1>0, ConnFacts
    <3> QED
      BY <1>20, <1>0, <3>1 DEF Arrive, Set, TypeOK
  <2> QED
    BY <1>20, <1>0, <2>1 DEF Arrive, TypeOK
<1>21. ASSUME NEW c \in Conns, PollHangup(c) PROVE TypeOK'
  BY <1>21, <1>0 DEF PollHangup, TypeOK, Set
<1>22. ASSUME NEW c \in Conns, NEW n \in Fields[c], Put(c, n) PROVE TypeOK'
  <2>1. n \in Nat /\ msg[c] \in Buffers /\ msg[c].cur \in Nat
    BY <1>0, ConnFacts, FramingAssumption
  <2>2. Fit(msg[c], n) \in Buffers
    BY <2>1, FitFacts
  <2>3. [Fit(msg[c], n) EXCEPT !.cur = Fit(msg[c], n).cur + n] \in Buffers
    BY <2>1, <2>2 DEF Buffers
  <2>4. msg' \in [Conns -> Buffers]
    BY <1>22, <1>0, <2>3 DEF Put, Set, TypeOK
  <2> QED
    BY <1>22, <1>0, <2>4 DEF Put, TypeOK
<1> QED
  BY <1>1, <1>2, <1>3, <1>4, <1>5, <1>6, <1>7, <1>8, <1>9, <1>10, <1>11, <1>12,
     <1>13, <1>14, <1>15, <1>16, <1>17, <1>18, <1>19, <1>20, <1>21, <1>22 DEF Next,
     ServerStep, SenderStep

LEMMA ReadingFrame ==
    ASSUME IndInv, UNCHANGED server,
           cur \in Conns => UNCHANGED <<ends[cur], conn[cur]>>
    PROVE  Reading'
<1>1. Reading /\ (cur \in Conns => \A i : End(cur, i)' = End(cur, i))
  BY DEF IndInv, End, server
<1> QED
  BY <1>1 DEF Reading, AllWhole, server

LEMMA ReadingStep ==
    ASSUME IndInv, [Next]_vars
    PROVE  Reading'
<1>0. TypeOK /\ Reading /\ None \notin Conns
  BY FramingAssumption DEF IndInv
<1> USE DEF sender, server
<1>1. CASE Poll
  <2>1. PICK a \in Conns \union {None} :
            /\ conn' = IF a = None THEN conn ELSE Set(conn, a, "open")
            /\ cur' \in IF Readable = {} THEN {a} ELSE Readable
            /\ a = None => Backlog = {}
    BY <1>1, <1>0 DEF Poll, Backlog
  <2>2. cur' \in Conns /\ conn'[cur'] = "open"
    BY <1>1, <1>0, <2>1 DEF Poll, Readable, Set, TypeOK
  <2> QED
    BY <1>1, <2>2, FramingAssumption DEF Poll, Reading
<1>2. CASE RecvHeader
  <2>1. /\ rpc = "header" /\ UNCHANGED <<ends, conn, cur, got>>
        /\ cur \in Conns /\ conn[cur] = "open"
    BY <1>2, <1>0 DEF RecvHeader, Reading
  <2>2. \A i : End(cur, i)' = End(cur, i)
    BY <2>1 DEF End
  <2>3. CASE need' \in 1..Header /\ UNCHANGED <<rlen, rmsg, rpc>>
    BY <1>0, <2>1, <2>3 DEF Reading
  <2>4. CASE /\ rpc' = "body" /\ rlen' \in Nat /\ AllWhole(cur)
             /\ rlen' + Header = End(cur, Len(got[cur]) + 1) - End(cur, Len(got[cur]))
             /\ rmsg' = Fit(rmsg, rlen')
    <3>1. rmsg = Fresh /\ Fresh \in Buffers /\ Fresh.cur <= Fresh.alloc
      BY <1>0, <2>1, FreshFacts DEF Reading
    <3>2. rmsg'.cur + rlen' <= rmsg'.alloc
      BY <2>4, <3>1, FitFacts
    <3> QED
      BY <2>1, <2>2, <2>4, <3>2 DEF Reading, AllWhole
  <2> QED
    BY <1>2, <2>3, <2>4, HeaderFacts
<1>3. CASE HeaderBlocks
  BY <1>3, <1>0 DEF HeaderBlocks, Reading, BackToPoll
<1>4. CASE HeaderEnds
  BY <1>4, <1>0 DEF HeaderEnds, Reading, BackToPoll
<1>5. CASE RecvBody
  <2>1. rpc = "body" /\ UNCHANGED <<ends, conn, cur, got, rpc, rmsg, rlen>>
    BY <1>5 DEF RecvBody
  <2>2. \A i : End(cur, i)' = End(cur, i)
    BY <2>1 DEF End
  <2> QED
    BY <1>0, <2>1, <2>2 DEF Reading, AllWhole
<1>6. CASE BodyWhole
  BY <1>6, <1>0 DEF BodyWhole, Reading, BackToPoll
<1>7. CASE BodyEnds
  BY <1>7, <1>0 DEF BodyEnds, Reading, BackToPoll
<1>8. CASE BodyReset
  BY <1>8, <1>0 DEF BodyReset, Reading, BackToPoll
<1>9. CASE CloseServer
  BY <1>9, <1>0 DEF CloseServer, TypeOK, Reading, Set
<1>10. CASE Again
  BY <1>10, <1>0, ReadingFrame DEF Again, TypeOK, vars
<1>11. CASE UNCHANGED vars
  BY <1>11, <1>0, ReadingFrame DEF vars, TypeOK
<1>12. ASSUME NEW c \in Conns, Connect(c) PROVE Reading'
  BY <1>12, <1>0, ReadingFrame DEF Connect, TypeOK, Reading, Set, None
<1>13. ASSUME NEW c \in Conns, Refused(c) PROVE Reading'
  BY <1>13, <1>0, ReadingFrame DEF Refused, TypeOK, Reading, Set
<1>14. ASSUME NEW c \in Conns, Send(c) PROVE Reading'
  <2>1. UNCHANGED <<rpc, cur, need, rmsg, rlen, got, conn>>
    BY <1>14 DEF Send
  <2>2. CASE rpc = "body"
    <3>1. cur \in Conns /\ conn[cur] = "open" /\ AllWhole(cur)
      BY <1>0, <2>2 DEF Reading
    <3>2. PICK k \in Nat : k = Len(got[cur]) /\ k < Posted(cur) /\ Posted(cur) \in Nat
      BY <1>0, <2>2, <3>1, ConnFacts DEF IndInv, Place, InPlace
    <3>3. End(cur, k)' = End(cur, k) /\ End(cur, k + 1)' = End(cur, k + 1)
      <4>1. k \in 0..Posted(cur) /\ k + 1 \in 0..Posted(cur)
        BY <3>2
      <4>2. CASE cur = c
        <5>1. PICK n \in Nat : ends' = Set(ends, c, Append(ends[c], n))
          <6>1. End(c, Posted(c)) + msg[c].cur \in Nat
            BY <1>0, ConnFacts
          <6> QED
            BY <1>14, <6>1 DEF Send
        <5>2. \A i \in 0..Posted(c) : End(c, i)' = End(c, i)
          BY <1>0, <5>1, SendFacts
        <5> QED
          BY <2>1, <4>1, <4>2, <5>2
      <4>3. CASE cur # c
        <5>1. ends'[cur] = ends[cur]
          BY <1>14, <1>0, <3>1, <4>3 DEF Send, Set, TypeOK
        <5> QED
          BY <2>1, <5>1 DEF End
      <4> QED
        BY <4>2, <4>3
    <3> QED
      BY <1>0, <2>1, <2>2, <3>2, <3>3 DEF Reading, AllWhole
  <2>3. CASE rpc # "body"
    BY <1>0, <2>1, <2>3 DEF Reading
  <2> QED
    BY <2>2, <2>3
<1>15. ASSUME NEW c \in Conns, SendSome(c) PROVE Reading'
  BY <1>15, <1>0, ReadingFrame DEF SendSome, TypeOK, Reading, Set
<1>16. ASSUME NEW c \in Conns, SendTooLong(c) PROVE Reading'
  BY <1>16, <1>0, ReadingFrame DEF SendTooLong, TypeOK, Reading, Set
<1>17. ASSUME NEW c \in Conns, SendFails(c) PROVE Reading'
  BY <1>17, <1>0, ReadingFrame DEF SendFails, TypeOK, Reading, Set
<1>18. ASSUME NEW c \in Conns, Close(c) PROVE Reading'
  BY <1>18, <1>0, ReadingFrame DEF Close, TypeOK, Reading, Set
<1>19. ASSUME NEW c \in Conns, Die(c) PROVE Reading'
  BY <1>19, <1>0, ReadingFrame DEF Die, TypeOK, Reading, Set
<1>20. ASSUME NEW c \in Conns, Arrive(c) PROVE Reading'
  BY <1>20, <1>0, ReadingFrame DEF Arrive, TypeOK, Reading, Set
<1>21. ASSUME NEW c \in Conns, PollHangup(c) PROVE Reading'
  BY <1>21, <1>0, ReadingFrame DEF PollHangup, TypeOK, Reading, Set
<1>22. ASSUME NEW c \in Conns, NEW n \in Fields[c], Put(c, n) PROVE Reading'
  BY <1>22, <1>0, ReadingFrame DEF Put, TypeOK, Reading, Set
<1> QED
  BY <1>1, <1>2, <1>3, <1>4, <1>5, <1>6, <1>7, <1>8, <1>9, <1>10, <1>11, <1>12,
     <1>13, <1>14, <1>15, <1>16, <1>17, <1>18, <1>19, <1>20, <1>21, <1>22 DEF Next,
     ServerStep, SenderStep

(* Nothing that was sent completely is left behind. *)
LEMMA NothingLeft ==
    ASSUME TypeOK, NEW d \in Conns, Stream(d), Len(got[d]) <= Posted(d),
           Len(got[d]) < Posted(d) => sent[d] < End(d, Len(got[d]) + 1)
    PROVE  AllTaken(d)
<1> SUFFICES ASSUME NEW i \in 1..Posted(d), sent[d] >= ends[d][i], ~(i <= Len(got[d]))
             PROVE  FALSE
  BY DEF AllTaken
<1>1. PICK n \in Nat : n = Len(got[d])
  BY ConnFacts
<1>2. Posted(d) \in Nat /\ sent[d] \in Nat /\ \A j \in 0..Posted(d) : End(d, j) \in Nat
  BY ConnFacts
<1>3. i \in 0..Posted(d) /\ n + 1 \in 0..Posted(d) /\ n + 1 <= i /\ End(d, i) = ends[d][i]
  BY <1>1, <1>2 DEF End
<1>4. sent[d] < End(d, n + 1)
  BY <1>1, <1>2, <1>3
<1>5. CASE i = n + 1
  BY <1>2, <1>3, <1>4, <1>5
<1>6. CASE n + 1 < i
  <2>1. End(d, n + 1) + Header <= End(d, i)
    BY <1>3, <1>6 DEF Stream
  <2>2. End(d, n + 1) \in Nat /\ End(d, i) \in Nat /\ Header \in Nat
    BY <1>2, <1>3, FramingAssumption
  <2> QED
    BY <1>2, <1>3, <1>4, <2>1, <2>2
<1> QED
  BY <1>1, <1>2, <1>3, <1>5, <1>6

LEMMA PlaceFrame ==
    ASSUME NEW d, Place(d), UNCHANGED <<conn[d], taken[d], got[d], ends[d], sent[d]>>,
           up'[d] = up[d] \/ up[d] = "alive",
           UNCHANGED <<cur, rpc, need>> \/ (d # cur /\ d # cur')
    PROVE  Place(d)'
<1>1. Posted(d)' = Posted(d) /\ \A i : End(d, i)' = End(d, i)
  BY DEF Posted, End
<1>2. AllWhole(d)' <=> AllWhole(d)
  BY DEF AllWhole
<1>3. InPlace(d) => InPlace(d)'
  BY <1>1 DEF InPlace
<1>4. AllTaken(d) => AllTaken(d)'
  BY <1>1 DEF AllTaken
<1> QED
  BY <1>1, <1>2, <1>3, <1>4 DEF Place

(* A message is accepted. *)
LEMMA Accepted ==
    ASSUME TypeOK, NEW d \in Conns, NEW l, NEW w \in BOOLEAN,
           got'[d] = Append(got[d], [len |-> l, whole |-> w])
    PROVE  Len(got'[d]) = Len(got[d]) + 1 /\ (AllWhole(d)' <=> AllWhole(d) /\ w)
<1>1. PICK g \in Seq([len : Nat, whole : BOOLEAN]) : g = got[d]
  BY ConnFacts
<1>2. PICK n \in Nat : n = Len(g) /\ DOMAIN g = 1..n
  BY <1>1, ConnFacts
<1>3. PICK m : m = [len |-> l, whole |-> w] /\ m.whole = w
  OBVIOUS
<1>4. /\ DOMAIN Append(g, m) = 1..(n + 1) /\ Len(Append(g, m)) = n + 1
      /\ \A i \in 1..n : Append(g, m)[i] = g[i]
      /\ Append(g, m)[n + 1] = m
  BY <1>1, <1>2
<1>5. AllWhole(d)' <=> \A i \in 1..(n + 1) : Append(g, m)[i].whole
  BY <1>1, <1>3, <1>4 DEF AllWhole
<1>6. AllWhole(d) <=> \A i \in 1..n : g[i].whole
  BY <1>1, <1>2 DEF AllWhole
<1>7. AllWhole(d)' <=> AllWhole(d) /\ w
  BY <1>2, <1>3, <1>4, <1>5, <1>6
<1> QED
  BY <1>1, <1>2, <1>3, <1>4, <1>7

(* A message that ends too early is the last one, and its sender died. *)
LEMMA CutIsLast ==
    ASSUME TypeOK, NEW d \in Conns, Stream(d), NEW n \in Nat, n < Posted(d),
           sent[d] < End(d, n + 1), up[d] # "alive"
    PROVE  n + 1 = Posted(d) /\ up[d] = "dead"
<1>1. /\ Posted(d) \in Nat /\ sent[d] \in Nat /\ left[d] \in Nat
      /\ \A i \in 0..Posted(d) : End(d, i) \in Nat
  BY ConnFacts
<1>2. n + 1 \in 0..Posted(d) /\ Posted(d) - 1 \in 0..Posted(d) /\ Posted(d) \in 0..Posted(d)
  BY <1>1
<1>3. ~(n + 1 <= Posted(d) - 1)
  <2> SUFFICES ASSUME n + 1 <= Posted(d) - 1 PROVE FALSE
    OBVIOUS
  <2>1. End(d, n + 1) <= End(d, Posted(d) - 1)
    <3>1. CASE n + 1 = Posted(d) - 1
      BY <1>1, <1>2, <3>1
    <3>2. CASE n + 1 < Posted(d) - 1
      BY <1>1, <1>2, <3>2, FramingAssumption DEF Stream
    <3> QED
      BY <1>1, <3>1, <3>2
  <2>2. End(d, Posted(d) - 1) <= sent[d] /\ End(d, Posted(d) - 1) \in Nat /\ End(d, n + 1) \in Nat
    BY <1>1, <1>2 DEF Stream
  <2> QED
    BY <1>1, <2>1, <2>2
<1>4. n + 1 = Posted(d)
  BY <1>1, <1>3
<1>5. up[d] # "closed"
  BY <1>1, <1>2, <1>4 DEF Stream
<1> QED
  BY <1>4, <1>5 DEF TypeOK

LEMMA PlaceStep ==
    ASSUME IndInv, [Next]_vars, NEW d \in Conns
    PROVE  Place(d)'
<1>0. TypeOK /\ Reading /\ Place(d) /\ Stream(d) /\ None \notin Conns
  BY FramingAssumption DEF IndInv
<1> USE DEF sender, server
<1>1. CASE Poll
  <2>1. PICK a \in Conns \union {None} :
            /\ conn' = IF a = None THEN conn ELSE Set(conn, a, "open")
            /\ cur' \in IF Readable = {} THEN {a} ELSE Readable
            /\ a # None => conn[a] = "backlog"
            /\ a = None => Backlog = {}
    BY <1>1, <1>0 DEF Poll, Backlog
  <2>2. /\ rpc = "poll" /\ rpc' = "header" /\ need' = Header /\ cur = None
        /\ UNCHANGED <<taken, got, ends, sent, up>>
    BY <1>1, <1>0 DEF Poll, Reading
  <2>3. /\ AllWhole(d)' <=> AllWhole(d)
        /\ Posted(d)' = Posted(d) /\ \A i : End(d, i)' = End(d, i)
        /\ AllTaken(d)' <=> AllTaken(d)
    BY <2>2 DEF AllWhole, Posted, End, AllTaken
  <2>4. CASE d = a
    <3>1. taken[d] = 0 /\ got[d] = <<>> /\ conn'[d] = "open"
      BY <1>0, <2>1, <2>4 DEF Place, Set, TypeOK
    <3>2. Posted(d) \in Nat /\ Len(got[d]) = 0 /\ End(d, 0) = 0 /\ AllWhole(d)
      BY <1>0, <3>1, ConnFacts DEF End, AllWhole
    <3>3. InPlace(d)'
      BY <2>2, <2>3, <3>1, <3>2, FramingAssumption DEF InPlace
    <3> QED
      BY <2>3, <3>1, <3>2, <3>3 DEF Place, None
  <2>5. CASE d # a
    <3>1. conn'[d] = conn[d] /\ (cur' = d => conn[d] = "open")
      BY <1>0, <2>1, <2>5 DEF Set, TypeOK, Readable
    <3>2. InPlace(d) => InPlace(d)'
      BY <1>0, <2>2, <2>3 DEF InPlace
    <3> QED
      BY <1>0, <2>2, <2>3, <3>1, <3>2 DEF Place
  <2> QED
    BY <2>4, <2>5
<1>2. CASE RecvHeader
  <2>0. /\ cur \in Conns /\ rpc = "header" /\ need \in Nat /\ Header \in Nat
        /\ UNCHANGED <<conn, got, ends, sent, up, cur>>
    BY <1>2, <1>0, FramingAssumption DEF RecvHeader, Reading, TypeOK
  <2>1. CASE d # cur
    BY <1>2, <1>0, <2>0, <2>1, PlaceFrame DEF RecvHeader, Set, TypeOK
  <2>2. CASE d = cur
    <3>1. conn[d] = "open" /\ AllWhole(d)
      BY <1>2, <2>2, HeaderFacts
    <3>2. /\ AllWhole(d)' <=> AllWhole(d)
          /\ Posted(d)' = Posted(d) /\ \A i : End(d, i)' = End(d, i)
      BY <2>0 DEF AllWhole, Posted, End
    <3>3. InPlace(d)
      BY <1>0, <3>1 DEF Place
    <3>4. InPlace(d)'
      <4>1. CASE taken'[d] + need' = taken[d] + need /\ UNCHANGED rpc
        BY <2>0, <2>2, <3>2, <3>3, <4>1 DEF InPlace
      <4>2. CASE /\ Len(got[d]) < Posted(d) /\ rpc' = "body" /\ need' = rlen' /\ rlen' \in Nat
                 /\ taken'[d] = End(d, Len(got[d])) + Header
                 /\ rlen' + Header = End(d, Len(got[d]) + 1) - End(d, Len(got[d]))
        <5>1. PICK n \in Nat : n = Len(got[d])
          BY <1>0, ConnFacts
        <5>2. Posted(d) \in Nat /\ \A i \in 0..Posted(d) : End(d, i) \in Nat
          BY <1>0, ConnFacts
        <5>3. End(d, n) \in Nat /\ End(d, n + 1) \in Nat
          BY <4>2, <5>1, <5>2
        <5>4. taken'[d] + need' = End(d, n + 1)
          BY <2>0, <4>2, <5>1, <5>3
        <5> QED
          BY <2>0, <2>2, <3>2, <3>3, <4>2, <5>1, <5>4 DEF InPlace
      <4> QED
        BY <1>2, <2>2, <4>1, <4>2, HeaderFacts
    <3> QED
      BY <2>0, <3>1, <3>2, <3>4 DEF Place, None
  <2> QED
    BY <2>1, <2>2
<1>3. CASE HeaderBlocks
  <2>0. /\ cur \in Conns /\ conn[cur] = "open" /\ cur' = None
        /\ UNCHANGED <<got, ends, sent, taken, up>>
    BY <1>3, <1>0 DEF HeaderBlocks, BackToPoll, Reading
  <2>1. CASE d # cur
    BY <1>3, <1>0, <2>0, <2>1, PlaceFrame DEF HeaderBlocks, BackToPoll, Set, TypeOK
  <2>2. CASE d = cur
    <3>1. /\ AllWhole(d)' <=> AllWhole(d)
          /\ Posted(d)' = Posted(d) /\ \A i : End(d, i)' = End(d, i)
          /\ AllTaken(d)' <=> AllTaken(d)
      BY <2>0 DEF AllWhole, Posted, End, AllTaken
    <3>2. CASE need = Header
      <4>1. conn'[d] = "open" /\ rpc = "header"
        BY <1>3, <1>0, <2>2, <3>2 DEF HeaderBlocks, BackToPoll, Set, TypeOK
      <4>2. AllWhole(d) => InPlace(d)
        BY <1>0, <2>0, <2>2 DEF Place
      <4>3. PICK n \in Nat, t \in Nat : n = Len(got[d]) /\ t = taken[d]
        BY <1>0, ConnFacts
      <4>4. Posted(d) \in Nat /\ \A i \in 0..Posted(d) : End(d, i) \in Nat
        BY <1>0, ConnFacts
      <4>5. InPlace(d) => taken[d] = End(d, n)
        BY <2>2, <3>2, <4>1, <4>3, <4>4, FramingAssumption DEF InPlace
      <4>6. InPlace(d) => InPlace(d)'
        BY <1>0, <2>0, <2>2, <3>1, <4>3, <4>5 DEF InPlace
      <4> QED
        BY <1>0, <2>0, <3>1, <4>1, <4>2, <4>6 DEF Place, None
    <3>3. CASE need # Header
      <4>1. conn'[d] = "split"
        BY <1>3, <1>0, <2>2, <3>3 DEF HeaderBlocks, BackToPoll, Set, TypeOK
      <4> QED
        BY <1>0, <2>0, <3>1, <4>1 DEF Place, None
    <3> QED
      BY <3>2, <3>3
  <2> QED
    BY <2>1, <2>2
<1>4. CASE HeaderEnds
  <2>0. /\ cur \in Conns /\ conn[cur] = "open" /\ cur' = None
        /\ UNCHANGED <<got, ends, sent, taken, up>>
    BY <1>4, <1>0 DEF HeaderEnds, BackToPoll, Reading
  <2>1. CASE d # cur
    BY <1>4, <1>0, <2>0, <2>1, PlaceFrame DEF HeaderEnds, BackToPoll, Set, TypeOK
  <2>2. CASE d = cur
    <3>1. /\ AllWhole(d)' <=> AllWhole(d)
          /\ Posted(d)' = Posted(d) /\ \A i : End(d, i)' = End(d, i)
          /\ AllTaken(d)' <=> AllTaken(d)
      BY <2>0 DEF AllWhole, Posted, End, AllTaken
    <3>2. conn'[d] = "ended" /\ up[d] # "alive" /\ arrived[d] = sent[d] /\ Waiting(d) = 0
          /\ rpc = "header"
      BY <1>4, <1>0, <2>2 DEF HeaderEnds, EndOfFile, BackToPoll, Set, TypeOK
    <3>3. AllTaken(d)
      <4>1. PICK n \in Nat : n = Len(got[d])
        BY <1>0, ConnFacts
      <4>2. /\ Posted(d) \in Nat /\ taken[d] \in Nat /\ arrived[d] \in Nat /\ sent[d] \in Nat
            /\ \A i \in 0..Posted(d) : End(d, i) \in Nat
        BY <1>0, ConnFacts
      <4>3. taken[d] = sent[d]
        BY <3>2, <4>2 DEF Waiting
      <4>4. CASE AllWhole(d)
        <5>1. InPlace(d) /\ need \in 1..Header /\ Header \in Nat
          BY <1>0, <2>0, <2>2, <3>2, <4>4, FramingAssumption DEF Place, Reading
        <5>2. n <= Posted(d) /\ taken[d] + need = End(d, n) + Header
          BY <2>2, <3>2, <4>1, <5>1 DEF InPlace
        <5>3. n < Posted(d) => End(d, n) + Header <= End(d, n + 1)
          BY <1>0, <4>2 DEF Stream
        <5>4. n < Posted(d) => sent[d] < End(d, n + 1)
          <6>1. n < Posted(d) => End(d, n + 1) \in Nat /\ End(d, n) \in Nat
            BY <4>2
          <6> QED
            BY <4>2, <4>3, <5>1, <5>2, <5>3, <6>1
        <5> QED
          BY <1>0, <4>1, <5>2, <5>4, NothingLeft
      <4>5. CASE ~AllWhole(d)
        BY <1>0, <4>1, <4>2, <4>5, NothingLeft DEF Place
      <4> QED
        BY <4>4, <4>5
    <3> QED
      BY <1>0, <2>0, <3>1, <3>2, <3>3 DEF Place, None
  <2> QED
    BY <2>1, <2>2
<1>5. CASE RecvBody
  <2>0. /\ cur \in Conns /\ rpc = "body" /\ conn[cur] = "open" /\ AllWhole(cur)
        /\ UNCHANGED <<conn, got, ends, sent, up, cur, rpc>>
    BY <1>5, <1>0 DEF RecvBody, Reading
  <2>1. CASE d # cur
    BY <1>5, <1>0, <2>0, <2>1, PlaceFrame DEF RecvBody, Set, TypeOK
  <2>2. CASE d = cur
    <3>1. /\ AllWhole(d)' <=> AllWhole(d)
          /\ Posted(d)' = Posted(d) /\ \A i : End(d, i)' = End(d, i)
      BY <2>0 DEF AllWhole, Posted, End
    <3>2. taken'[d] + need' = taken[d] + need
      BY <1>5, <2>2, BodyFacts
    <3>3. InPlace(d)'
      BY <1>0, <2>0, <2>2, <3>1, <3>2 DEF Place, InPlace
    <3> QED
      BY <2>0, <2>2, <3>1, <3>3 DEF Place, None
  <2> QED
    BY <2>1, <2>2
<1>6. CASE BodyWhole
  <2>0. /\ cur \in Conns /\ conn[cur] = "open" /\ cur' = None
        /\ UNCHANGED <<ends, sent, taken, up>>
    BY <1>6, <1>0 DEF BodyWhole, BackToPoll, Reading
  <2>1. CASE d # cur
    BY <1>6, <1>0, <2>0, <2>1, PlaceFrame DEF BodyWhole, BackToPoll, Accept, Set, TypeOK
  <2>2. CASE d = cur
    <3>1. Posted(d)' = Posted(d) /\ \A i : End(d, i)' = End(d, i)
      BY <2>0 DEF Posted, End
    <3>2. /\ conn'[d] = "open" /\ rpc = "body" /\ need = 0
          /\ got'[d] = Append(got[d], [len |-> rlen + Header, whole |-> TRUE])
      BY <1>6, <1>0, <2>2 DEF BodyWhole, Accept, BackToPoll, Set, TypeOK
    <3>3. AllWhole(d) /\ InPlace(d)
      BY <1>0, <2>0, <2>2, <3>2 DEF Place, Reading
    <3>4. PICK n \in Nat : n = Len(got[d])
      BY <1>0, ConnFacts
    <3>5. Len(got'[d]) = n + 1 /\ AllWhole(d)'
      BY <1>0, <3>2, <3>3, <3>4, Accepted
    <3>6. n < Posted(d) /\ Posted(d) \in Nat /\ taken[d] \in Nat /\ taken[d] + 0 = End(d, n + 1)
      BY <1>0, <2>2, <3>2, <3>3, <3>4, ConnFacts DEF InPlace
    <3>7. InPlace(d)'
      <4>1. taken'[d] = End(d, n + 1)' /\ n + 1 <= Posted(d)'
        BY <2>0, <3>1, <3>6
      <4> QED
        BY <1>0, <2>0, <3>5, <4>1 DEF InPlace
    <3> QED
      BY <3>2, <3>5, <3>7 DEF Place, None
  <2> QED
    BY <2>1, <2>2
<1>7. CASE BodyEnds
  <2>0. /\ cur \in Conns /\ conn[cur] = "open" /\ cur' = None
        /\ UNCHANGED <<ends, sent, taken, up>>
    BY <1>7, <1>0 DEF BodyEnds, BackToPoll, Reading
  <2>1. CASE d # cur
    BY <1>7, <1>0, <2>0, <2>1, PlaceFrame DEF BodyEnds, BackToPoll, Accept, Set, TypeOK
  <2>2. CASE d = cur
    <3>1. Posted(d)' = Posted(d) /\ \A i : End(d, i)' = End(d, i)
      BY <2>0 DEF Posted, End
    <3>2. /\ conn'[d] = "open" /\ rpc = "body" /\ need > 0
          /\ up[d] # "alive" /\ arrived[d] = sent[d] /\ Waiting(d) = 0
          /\ got'[d] = Append(got[d], [len |-> rlen + Header, whole |-> FALSE])
      BY <1>7, <1>0, <2>2 DEF BodyEnds, EndOfFile, Accept, BackToPoll, Set, TypeOK
    <3>3. PICK n \in Nat : n = Len(got[d])
      BY <1>0, ConnFacts
    <3>4. /\ Posted(d) \in Nat /\ taken[d] \in Nat /\ arrived[d] \in Nat /\ sent[d] \in Nat
          /\ left[d] \in Nat /\ \A i \in 0..Posted(d) : End(d, i) \in Nat /\ need \in Nat
      BY <1>0, ConnFacts DEF TypeOK
    <3>5. AllWhole(d) /\ InPlace(d)
      BY <1>0, <2>0, <2>2, <3>2 DEF Place, Reading
    <3>6. n < Posted(d) /\ taken[d] + need = End(d, n + 1)
      BY <2>2, <3>2, <3>3, <3>5 DEF InPlace
    <3>7. taken[d] = sent[d] /\ sent[d] < End(d, n + 1)
      BY <3>2, <3>4, <3>6 DEF Waiting
    <3>8. Len(got'[d]) = n + 1 /\ ~AllWhole(d)'
      BY <1>0, <3>2, <3>3, Accepted
    <3>9. n + 1 = Posted(d) /\ up[d] = "dead"
      BY <1>0, <3>2, <3>4, <3>6, <3>7, CutIsLast
    <3> QED
      BY <2>0, <3>1, <3>2, <3>7, <3>8, <3>9 DEF Place, None
  <2> QED
    BY <2>1, <2>2
<1>8. CASE BodyReset
  <2>0. /\ cur \in Conns /\ conn[cur] = "open" /\ cur' = None
        /\ UNCHANGED <<got, ends, sent, taken, up>>
    BY <1>8, <1>0 DEF BodyReset, BackToPoll, Reading
  <2>1. CASE d # cur
    BY <1>8, <1>0, <2>0, <2>1, PlaceFrame DEF BodyReset, BackToPoll, Set, TypeOK
  <2>2. CASE d = cur
    <3>1. /\ AllWhole(d)' <=> AllWhole(d)
          /\ Posted(d)' = Posted(d) /\ \A i : End(d, i)' = End(d, i)
          /\ AllTaken(d)' <=> AllTaken(d)
      BY <2>0 DEF AllWhole, Posted, End, AllTaken
    <3>2. /\ conn'[d] = "ended" /\ up[d] = "dead" /\ arrived[d] = sent[d] /\ Waiting(d) = 0
          /\ rpc = "body" /\ need > 0
      BY <1>8, <1>0, <2>2 DEF BodyReset, EndOfFile, BackToPoll, Set, TypeOK
    <3>3. PICK n \in Nat : n = Len(got[d])
      BY <1>0, ConnFacts
    <3>4. /\ Posted(d) \in Nat /\ taken[d] \in Nat /\ arrived[d] \in Nat /\ sent[d] \in Nat
          /\ left[d] \in Nat /\ \A i \in 0..Posted(d) : End(d, i) \in Nat /\ need \in Nat
      BY <1>0, ConnFacts DEF TypeOK
    <3>5. AllWhole(d) /\ InPlace(d)
      BY <1>0, <2>0, <2>2, <3>2 DEF Place, Reading
    <3>6. n < Posted(d) /\ taken[d] + need = End(d, n + 1)
      BY <2>2, <3>2, <3>3, <3>5 DEF InPlace
    <3>7. taken[d] = sent[d] /\ sent[d] < End(d, n + 1)
      BY <3>2, <3>4, <3>6 DEF Waiting
    <3>8. AllTaken(d)
      BY <1>0, <3>3, <3>4, <3>6, <3>7, NothingLeft
    <3> QED
      BY <1>0, <2>0, <3>1, <3>2, <3>8 DEF Place, None
  <2> QED
    BY <2>1, <2>2
<1>9. CASE CloseServer
  <2>1. cur = None /\ UNCHANGED <<got, ends, sent, taken, up, cur, need>>
    BY <1>9, <1>0 DEF CloseServer, Reading
  <2>2. CASE conn'[d] = conn[d]
    BY <1>0, <2>1, <2>2, PlaceFrame
  <2>3. CASE conn'[d] = "closed"
    <3>1. (AllWhole(d)' <=> AllWhole(d)) /\ Posted(d)' = Posted(d)
      BY <2>1 DEF AllWhole, Posted
    <3> QED
      BY <1>0, <2>1, <2>3, <3>1 DEF Place, None
  <2> QED
    BY <1>9, <2>2, <2>3 DEF CloseServer
<1>10. CASE Again
  BY <1>10, <1>0, PlaceFrame DEF Again, TypeOK, vars
<1>11. CASE UNCHANGED vars
  BY <1>11, <1>0, PlaceFrame DEF vars, TypeOK
<1>12. ASSUME NEW c \in Conns, Connect(c) PROVE Place(d)'
  <2>1. CASE d # c
    BY <1>12, <1>0, <2>1, PlaceFrame DEF Connect, Set, TypeOK
  <2>2. CASE d = c
    <3>1. conn'[d] = "backlog" /\ conn[d] = None /\ UNCHANGED <<taken, got, ends, sent, up>>
      BY <1>12, <1>0, <2>2 DEF Connect, Set, TypeOK
    <3>2. (AllWhole(d)' <=> AllWhole(d)) /\ Posted(d)' = Posted(d)
      BY <3>1 DEF AllWhole, Posted
    <3> QED
      BY <1>0, <3>1, <3>2 DEF Place, None
  <2> QED
    BY <2>1, <2>2
<1>13. ASSUME NEW c \in Conns, Refused(c) PROVE Place(d)'
  BY <1>13, <1>0, PlaceFrame DEF Refused, TypeOK, Set
<1>14. ASSUME NEW c \in Conns, Send(c) PROVE Place(d)'
  <2>1. CASE d # c
    BY <1>14, <1>0, <2>1, PlaceFrame DEF Send, Set, TypeOK
  <2>2. CASE d = c
    <3>1. up[d] = "alive" /\ UNCHANGED <<conn, taken, got, sent, up, cur, rpc, need>>
      BY <1>14, <2>2 DEF Send, Free
    <3>2. AllWhole(d)' <=> AllWhole(d)
      BY <3>1 DEF AllWhole
    <3>3. PICK k \in Nat : k = Posted(d)
      BY <1>0, ConnFacts
    <3>4. Posted(d)' = k + 1 /\ \A i \in 0..k : End(d, i)' = End(d, i)
      <4>1. End(d, k) \in Nat /\ msg[d].cur \in Nat
        BY <1>0, <3>3, ConnFacts
      <4>2. End(d, Posted(d)) + msg[d].cur \in Nat
        BY <3>3, <4>1
      <4> QED
        BY <1>14, <1>0, <2>2, <3>3, <4>2, SendFacts DEF Send
    <3>5. ASSUME InPlace(d) PROVE InPlace(d)'
      <4>1. PICK n \in Nat : n = Len(got[d])
        BY <1>0, ConnFacts
      <4>2. n <= k /\ n \in 0..k /\ End(d, n)' = End(d, n)
        BY <3>3, <3>4, <3>5, <4>1 DEF InPlace
      <4>3. n < k => n + 1 \in 0..k /\ End(d, n + 1)' = End(d, n + 1)
        BY <3>4, <4>1
      <4>4. Len(got[d])' = n
        BY <3>1, <4>1
      <4> QED
        BY <3>1, <3>3, <3>4, <3>5, <4>1, <4>2, <4>3, <4>4 DEF InPlace
    <3> QED
      BY <1>0, <3>1, <3>2, <3>5 DEF Place
  <2> QED
    BY <2>1, <2>2
<1>15. ASSUME NEW c \in Conns, SendSome(c) PROVE Place(d)'
  <2>1. CASE d # c
    BY <1>15, <1>0, <2>1, PlaceFrame DEF SendSome, Set, TypeOK
  <2>2. CASE d = c
    <3>1. up[d] = "alive" /\ UNCHANGED <<conn, taken, got, ends, up, cur, rpc, need>>
      BY <1>15, <2>2 DEF SendSome
    <3>2. /\ AllWhole(d)' <=> AllWhole(d)
          /\ InPlace(d)' <=> InPlace(d)
      BY <3>1 DEF AllWhole, InPlace, Posted, End
    <3> QED
      BY <1>0, <3>1, <3>2 DEF Place
  <2> QED
    BY <2>1, <2>2
<1>16. ASSUME NEW c \in Conns, SendTooLong(c) PROVE Place(d)'
  BY <1>16, <1>0, PlaceFrame DEF SendTooLong, TypeOK, Set
<1>17. ASSUME NEW c \in Conns, SendFails(c) PROVE Place(d)'
  BY <1>17, <1>0, PlaceFrame DEF SendFails, TypeOK, Set
<1>18. ASSUME NEW c \in Conns, Close(c) PROVE Place(d)'
  BY <1>18, <1>0, PlaceFrame DEF Close, TypeOK, Set
<1>19. ASSUME NEW c \in Conns, Die(c) PROVE Place(d)'
  BY <1>19, <1>0, PlaceFrame DEF Die, TypeOK, Set
<1>20. ASSUME NEW c \in Conns, Arrive(c) PROVE Place(d)'
  BY <1>20, <1>0, PlaceFrame DEF Arrive, TypeOK, Set
<1>21. ASSUME NEW c \in Conns, PollHangup(c) PROVE Place(d)'
  <2>0. rpc = "poll" /\ cur = None /\ UNCHANGED <<got, ends, sent, taken, up, cur, rpc, need>>
    BY <1>21, <1>0 DEF PollHangup, Reading
  <2>1. CASE d # c
    BY <1>21, <1>0, <2>0, <2>1, PlaceFrame DEF PollHangup, Set, TypeOK
  <2>2. CASE d = c
    <3>1. /\ AllWhole(d)' <=> AllWhole(d)
          /\ Posted(d)' = Posted(d) /\ \A i : End(d, i)' = End(d, i)
          /\ AllTaken(d)' <=> AllTaken(d)
      BY <2>0 DEF AllWhole, Posted, End, AllTaken
    <3>2. /\ conn[d] = "open" /\ conn'[d] = "ended" /\ up[d] # "alive" /\ arrived[d] = sent[d]
          /\ Waiting(d) = 0
      BY <1>21, <1>0, <2>2 DEF PollHangup, EndOfFile, Set, TypeOK
    <3>3. AllTaken(d)
      <4>1. PICK n \in Nat : n = Len(got[d])
        BY <1>0, ConnFacts
      <4>2. /\ Posted(d) \in Nat /\ taken[d] \in Nat /\ arrived[d] \in Nat /\ sent[d] \in Nat
            /\ \A i \in 0..Posted(d) : End(d, i) \in Nat
        BY <1>0, ConnFacts
      <4>3. taken[d] = sent[d]
        BY <3>2, <4>2 DEF Waiting
      <4>4. CASE AllWhole(d)
        <5>1. n <= Posted(d) /\ taken[d] = End(d, n)
          BY <1>0, <2>0, <3>2, <4>1, <4>4 DEF Place, InPlace
        <5>2. n < Posted(d) => sent[d] < End(d, n + 1)
          <6>1. n < Posted(d) => End(d, n) + Header <= End(d, n + 1)
            BY <1>0, <4>2 DEF Stream
          <6>2. n < Posted(d) => End(d, n + 1) \in Nat
            BY <4>2
          <6> QED
            BY <4>2, <4>3, <5>1, <6>1, <6>2, FramingAssumption
        <5> QED
          BY <1>0, <4>1, <5>1, <5>2, NothingLeft
      <4>5. CASE ~AllWhole(d)
        BY <1>0, <4>1, <4>2, <4>5, NothingLeft DEF Place
      <4> QED
        BY <4>4, <4>5
    <3> QED
      BY <1>0, <2>0, <3>1, <3>2, <3>3 DEF Place, None
  <2> QED
    BY <2>1, <2>2
<1>22. ASSUME NEW c \in Conns, NEW n \in Fields[c], Put(c, n) PROVE Place(d)'
  BY <1>22, <1>0, PlaceFrame DEF Put, TypeOK, Set
<1> QED
  BY <1>1, <1>2, <1>3, <1>4, <1>5, <1>6, <1>7, <1>8, <1>9, <1>10, <1>11, <1>12,
     <1>13, <1>14, <1>15, <1>16, <1>17, <1>18, <1>19, <1>20, <1>21, <1>22 DEF Next,
     ServerStep, SenderStep

LEMMA InitIndInv == Init => IndInv
<1> SUFFICES ASSUME Init PROVE IndInv
  OBVIOUS
<1> USE FramingAssumption DEF Init
<1>1. TypeOK
  BY FreshFacts, EmptySeq DEF TypeOK
<1>2. Reading
  BY DEF Reading
<1>3. ASSUME NEW c \in Conns PROVE Stream(c) /\ Building(c) /\ Place(c) /\ Shrunk(c)
  <2>1. Posted(c) = 0 /\ End(c, 0) = 0 /\ got[c] = <<>> /\ conn[c] = None /\ AllWhole(c)
    BY DEF Posted, End, AllWhole
  <2>2. Stream(c)
    BY <2>1 DEF Stream
  <2>3. Building(c)
    BY FreshFacts DEF Building
  <2>4. Place(c)
    BY <2>1 DEF Place, None
  <2>5. Shrunk(c)
    <3>1. mtu[c] = MaxMTU /\ chunk[c] = SyscallSize
      OBVIOUS
    <3>2. MaxMTU \in Sizes /\ \A n \in Sizes : n <= MaxMTU
      BY DEF Sizes
    <3> QED
      BY <3>1, <3>2, UsableFacts DEF Shrunk
  <2> QED
    BY <2>2, <2>3, <2>4, <2>5
<1> QED
  BY <1>1, <1>2, <1>3 DEF IndInv

(* The invariant of a connection and of the server that reads it. *)
THEOREM Invariance == Spec => []IndInv
<1>1. IndInv /\ [Next]_vars => IndInv'
  BY TypeStep, ReadingStep, StreamStep, BuildingStep, PlaceStep, ShrunkStep DEF IndInv
<1> QED
  BY <1>1, InitIndInv, PTL DEF Spec

(* put and operator<< never write past the buffer that _fit has made, and  *)
(* recv never past the one it has made for the length it was told.         *)
THEOREM NoOverflow == Spec => []BuffersFit
<1>1. IndInv => BuffersFit
  BY DEF IndInv, Reading, Building, BuffersFit
<1> QED
  BY <1>1, Invariance, PTL

(* However the bytes come in portions and whenever senders die, the        *)
(* receiver stands where a message begins, or inside the one it reads; and *)
(* a connection that ends has delivered what was sent completely.          *)
THEOREM PlaceIsKept == Spec => []Aligned
<1>1. IndInv => Aligned
  BY DEF IndInv, Place, AllWhole, Aligned
<1> QED
  BY <1>1, Invariance, PTL

(* _resizeMTU gives up no more than the path demands. *)
THEOREM MTUIsExact == Spec => []MTUExact
<1>1. IndInv => MTUExact
  BY DEF IndInv, Shrunk, MTUExact
<1> QED
  BY <1>1, Invariance, PTL
-----------------------------------------------------------------------------
(* The refinement mapping: the lengths of the messages posted, and the     *)
(* senders that have not died.                                             *)
Lengths(c) == [i \in 1..Posted(c) |-> ends[c][i] - End(c, i - 1)]
Abstract == [c \in Conns |-> Lengths(c)]
Living == {c \in Conns : up[c] # "dead"}

LEMMA ListFacts ==
    ASSUME NEW n \in Nat, NEW f \in [1..n -> Int]
    PROVE  f \in Seq(Int) /\ Len(f) = n
  OBVIOUS

LEMMA LengthsFacts ==
    ASSUME TypeOK, NEW c \in Conns
    PROVE  Lengths(c) \in Seq(Int) /\ Len(Lengths(c)) = Posted(c)
<1>1. Posted(c) \in Nat /\ \A i \in 0..Posted(c) : End(c, i) \in Nat
  BY ConnFacts
<1>2. \A i \in 1..Posted(c) : ends[c][i] - End(c, i - 1) \in Int
  BY <1>1 DEF End
<1>3. Lengths(c) \in [1..Posted(c) -> Int]
  BY <1>2 DEF Lengths
<1> QED
  BY <1>1, <1>3, ListFacts

(* To post a message is to append its length. *)
LEMMA PostedLengths ==
    ASSUME TypeOK, TypeOK', NEW c \in Conns, NEW l \in Nat,
           ends' = Set(ends, c, Append(ends[c], End(c, Posted(c)) + l))
    PROVE  Abstract' = [Abstract EXCEPT ![c] = Append(@, l)]
<1>1. PICK k \in Nat : k = Posted(c)
  BY ConnFacts
<1>2. /\ \A i \in 0..k : End(c, i) \in Nat
      /\ End(c, k) + l \in Nat
  BY <1>1, ConnFacts
<1>3. /\ Posted(c)' = k + 1 /\ \A i \in 0..k : End(c, i)' = End(c, i)
      /\ End(c, k + 1)' = End(c, k) + l
      /\ \A d \in Conns : d # c => ends'[d] = ends[d]
  BY <1>1, <1>2, SendFacts
<1>4. \A d \in Conns : d # c => Lengths(d)' = Lengths(d)
  BY <1>3 DEF Lengths, Posted, End
<1>5. Lengths(c)' = Append(Lengths(c), l)
  <2>1. Lengths(c) \in Seq(Int) /\ Len(Lengths(c)) = k
    BY <1>1, LengthsFacts
  <2>2. /\ Append(Lengths(c), l) \in Seq(Int) /\ Len(Append(Lengths(c), l)) = k + 1
        /\ \A i \in 1..k : Append(Lengths(c), l)[i] = Lengths(c)[i]
        /\ Append(Lengths(c), l)[k + 1] = l
    BY <2>1, AppendProperties
  <2>3. Lengths(c)' \in Seq(Int) /\ Len(Lengths(c)') = k + 1
    <3>1. \A i \in 1..(k + 1) : End(c, i)' \in Nat /\ End(c, i - 1)' \in Nat
      BY <1>2, <1>3
    <3>2. \A i \in 1..(k + 1) : ends'[c][i] - End(c, i - 1)' \in Int
      BY <3>1 DEF End
    <3>3. Lengths(c)' \in [1..(k + 1) -> Int]
      BY <1>3, <3>2 DEF Lengths
    <3> QED
      BY <3>3, ListFacts
  <2>4. ASSUME NEW i \in 1..(k + 1) PROVE Lengths(c)'[i] = Append(Lengths(c), l)[i]
    <3>1. Lengths(c)'[i] = End(c, i)' - End(c, i - 1)'
      BY <1>1, <1>3 DEF Lengths, End
    <3>2. CASE i = k + 1
      BY <1>1, <1>2, <1>3, <2>2, <3>1, <3>2
    <3>3. CASE i # k + 1
      <4>1. i \in 1..k /\ i \in 0..k /\ i - 1 \in 0..k
        BY <3>3
      <4> QED
        BY <1>1, <1>3, <2>2, <3>1, <4>1 DEF Lengths, End
    <3> QED
      BY <3>2, <3>3
  <2> QED
    BY <2>2, <2>3, <2>4, SeqEqual
<1> QED
  BY <1>4, <1>5 DEF Abstract

(* An accepted message is the next one that was posted. *)
LEMMA AcceptedIsNext ==
    ASSUME IndInv, rpc = "body"
    PROVE  /\ cur \in Conns /\ AllWhole(cur)
           /\ Len(got[cur]) \in Nat /\ Len(got[cur]) < Posted(cur)
           /\ Lengths(cur)[Len(got[cur]) + 1] = rlen + Header
<1>1. cur \in Conns /\ conn[cur] = "open" /\ AllWhole(cur) /\ TypeOK /\ Place(cur)
  BY DEF IndInv, Reading
<1>2. PICK n \in Nat : n = Len(got[cur]) /\ n < Posted(cur) /\ Posted(cur) \in Nat
  BY <1>1, ConnFacts DEF Place, InPlace
<1>3. rlen + Header = End(cur, n + 1) - End(cur, n)
  BY <1>2 DEF IndInv, Reading
<1>4. n + 1 \in 1..Posted(cur) /\ n + 1 # 0 /\ (n + 1) - 1 = n
  BY <1>2
<1> QED
  BY <1>1, <1>2, <1>3, <1>4 DEF Lengths, End

(* Every step of Framing is one of Channel, or nothing its users see. *)
LEMMA ChannelStep ==
    ASSUME IndInv, IndInv', [Next]_vars
    PROVE  Users!Next \/ UNCHANGED Users!vars
<1>0. TypeOK /\ TypeOK'
  BY DEF IndInv
<1>a. ASSUME UNCHANGED <<ends, got, up>> PROVE UNCHANGED <<Abstract, got, Living>>
  BY <1>a DEF Abstract, Lengths, Posted, End, Living
<1>b. ASSUME NEW c \in Conns, up' = Set(up, c, "dead"), UNCHANGED <<ends, got>>
      PROVE  Users!Die(c)
  <2>1. Living' = Living \ {c}
    BY <1>0, <1>b DEF Living, Set, TypeOK
  <2>2. UNCHANGED <<Abstract, got>>
    BY <1>b DEF Abstract, Lengths, Posted, End
  <2> QED
    BY <2>1, <2>2 DEF Users!Die, Abstract, Lengths, Living
<1> USE DEF sender, server
<1>1. CASE Poll
  BY <1>1, <1>a DEF Poll, Users!vars, Abstract, Lengths, Living
<1>2. CASE RecvHeader
  BY <1>2, <1>a DEF RecvHeader, Users!vars, Abstract, Lengths, Living
<1>3. CASE HeaderBlocks
  BY <1>3, <1>a DEF HeaderBlocks, BackToPoll, Users!vars, Abstract, Lengths, Living
<1>4. CASE HeaderEnds
  BY <1>4, <1>a DEF HeaderEnds, BackToPoll, Users!vars, Abstract, Lengths, Living
<1>5. CASE RecvBody
  BY <1>5, <1>a DEF RecvBody, Users!vars, Abstract, Lengths, Living
<1>6. CASE BodyWhole
  <2>1. /\ rpc = "body" /\ UNCHANGED <<ends, up, arrived, sent, taken>>
        /\ got' = Set(got, cur, Append(got[cur], [len |-> rlen + Header, whole |-> TRUE]))
    BY <1>6 DEF BodyWhole, Accept
  <2>2. /\ cur \in Conns /\ AllWhole(cur)
        /\ Len(got[cur]) \in Nat /\ Len(got[cur]) < Posted(cur)
        /\ Lengths(cur)[Len(got[cur]) + 1] = rlen + Header
    BY <2>1, AcceptedIsNext
  <2>3. Len(Lengths(cur)) = Posted(cur)
    BY <1>0, <2>2, LengthsFacts
  <2>4. Abstract' = Abstract /\ Living' = Living /\ Abstract[cur] = Lengths(cur)
    BY <2>1, <2>2 DEF Abstract, Lengths, Posted, End, Living
  <2>5. got' = [got EXCEPT ![cur] = Append(@, Users!Whole(Abstract[cur][Len(got[cur]) + 1]))]
    BY <2>1, <2>2, <2>4 DEF Users!Whole, Set
  <2>6. Users!Receive(cur)
    BY <2>2, <2>3, <2>4, <2>5 DEF Users!Receive, AllWhole, Abstract, Lengths, Living
  <2> QED
    BY <2>2, <2>6 DEF Users!Next
<1>7. CASE BodyEnds
  <2>1. /\ rpc = "body" /\ UNCHANGED <<ends, up, arrived, sent, taken>>
        /\ got' = Set(got, cur, Append(got[cur], [len |-> rlen + Header, whole |-> FALSE]))
    BY <1>7 DEF BodyEnds, Accept
  <2>2. /\ cur \in Conns /\ AllWhole(cur)
        /\ Len(got[cur]) \in Nat /\ Len(got[cur]) < Posted(cur)
        /\ Lengths(cur)[Len(got[cur]) + 1] = rlen + Header
    BY <2>1, AcceptedIsNext
  <2>3. Len(Lengths(cur)) = Posted(cur)
    BY <1>0, <2>2, LengthsFacts
  <2>4. Abstract' = Abstract /\ Living' = Living /\ Abstract[cur] = Lengths(cur)
    BY <2>1, <2>2 DEF Abstract, Lengths, Posted, End, Living
  <2>5. got' = [got EXCEPT ![cur] = Append(@, Users!CutOff(Abstract[cur][Len(got[cur]) + 1]))]
    BY <2>1, <2>2, <2>4 DEF Users!CutOff, Set
  <2>6. Len(got[cur]) + 1 = Posted(cur) /\ up[cur] = "dead"
    <3>1. PICK n \in Nat : n = Len(got[cur]) /\ n < Posted(cur)
      BY <2>2
    <3>2. need > 0 /\ up[cur] # "alive" /\ arrived[cur] = sent[cur] /\ Waiting(cur) = 0
      BY <1>7 DEF BodyEnds, EndOfFile
    <3>3. /\ taken[cur] \in Nat /\ sent[cur] \in Nat /\ arrived[cur] \in Nat /\ need \in Nat
          /\ Posted(cur) \in Nat /\ \A i \in 0..Posted(cur) : End(cur, i) \in Nat
      BY <1>0, <2>2, ConnFacts DEF TypeOK
    <3>4. taken[cur] + need = End(cur, n + 1)
      BY <2>1, <2>2, <3>1 DEF IndInv, Reading, Place, InPlace
    <3>5. sent[cur] < End(cur, n + 1)
      BY <3>2, <3>3, <3>4 DEF Waiting
    <3> QED
      BY <1>0, <2>2, <3>1, <3>2, <3>5, CutIsLast DEF IndInv
  <2>7. cur \notin Living
    BY <2>6 DEF Living
  <2>8. Users!Receive(cur)
    BY <2>2, <2>3, <2>4, <2>5, <2>6, <2>7 DEF Users!Receive, AllWhole, Abstract, Lengths, Living
  <2> QED
    BY <2>2, <2>8 DEF Users!Next
<1>8. CASE BodyReset
  BY <1>8, <1>a DEF BodyReset, BackToPoll, Users!vars, Abstract, Lengths, Living
<1>9. CASE CloseServer
  BY <1>9, <1>a DEF CloseServer, Users!vars, Abstract, Lengths, Living
<1>10. CASE Again
  BY <1>10, <1>a DEF Again, vars, Users!vars, Abstract, Lengths, Living
<1>11. CASE UNCHANGED vars
  BY <1>11, <1>a DEF vars, Users!vars, Abstract, Lengths, Living
<1>12. ASSUME NEW c \in Conns, Connect(c) PROVE Users!Next \/ UNCHANGED Users!vars
  BY <1>12, <1>a DEF Connect, Users!vars, Abstract, Lengths, Living
<1>13. ASSUME NEW c \in Conns, Refused(c) PROVE Users!Next \/ UNCHANGED Users!vars
  BY <1>13, <1>b DEF Refused, Users!Next
<1>14. ASSUME NEW c \in Conns, Send(c) PROVE Users!Next \/ UNCHANGED Users!vars
  <2>1. /\ up[c] = "alive" /\ UNCHANGED <<up, got>>
        /\ ends' = Set(ends, c, Append(ends[c], End(c, Posted(c)) + msg[c].cur))
    BY <1>14 DEF Send, Free
  <2>2. msg[c].cur \in Nat /\ msg[c].cur \in Header..(Header + MaxBody)
    BY <1>0, ConnFacts DEF IndInv, Building
  <2>3. Abstract' = [Abstract EXCEPT ![c] = Append(@, msg[c].cur)]
    BY <1>0, <2>1, <2>2, PostedLengths
  <2>4. c \in Living /\ Living' = Living
    BY <2>1 DEF Living
  <2>5. Users!Post(c)
    BY <2>1, <2>2, <2>3, <2>4 DEF Users!Post, Abstract, Lengths, Living
  <2> QED
    BY <2>5 DEF Users!Next
<1>15. ASSUME NEW c \in Conns, SendSome(c) PROVE Users!Next \/ UNCHANGED Users!vars
  BY <1>15, <1>a DEF SendSome, Users!vars, Abstract, Lengths, Living
<1>16. ASSUME NEW c \in Conns, SendTooLong(c) PROVE Users!Next \/ UNCHANGED Users!vars
  BY <1>16, <1>a DEF SendTooLong, Users!vars, Abstract, Lengths, Living
<1>17. ASSUME NEW c \in Conns, SendFails(c) PROVE Users!Next \/ UNCHANGED Users!vars
  BY <1>17, <1>b DEF SendFails, Users!Next
<1>18. ASSUME NEW c \in Conns, Close(c) PROVE Users!Next \/ UNCHANGED Users!vars
  <2>1. Living' = Living
    BY <1>18, <1>0 DEF Close, Living, Set, TypeOK
  <2>2. UNCHANGED <<Abstract, got>>
    BY <1>18 DEF Close, Abstract, Lengths, Posted, End
  <2> QED
    BY <2>1, <2>2 DEF Users!vars, Abstract, Lengths, Living
<1>19. ASSUME NEW c \in Conns, Die(c) PROVE Users!Next \/ UNCHANGED Users!vars
  BY <1>19, <1>b DEF Die, Users!Next
<1>20. ASSUME NEW c \in Conns, Arrive(c) PROVE Users!Next \/ UNCHANGED Users!vars
  BY <1>20, <1>a DEF Arrive, Users!vars, Abstract, Lengths, Living
<1>21. ASSUME NEW c \in Conns, PollHangup(c) PROVE Users!Next \/ UNCHANGED Users!vars
  BY <1>21, <1>a DEF PollHangup, Users!vars, Abstract, Lengths, Living
<1>22. ASSUME NEW c \in Conns, NEW n \in Fields[c], Put(c, n) PROVE Users!Next \/ UNCHANGED Users!vars
  BY <1>22, <1>a DEF Put, Users!vars, Abstract, Lengths, Living
<1> QED
  BY <1>1, <1>2, <1>3, <1>4, <1>5, <1>6, <1>7, <1>8, <1>9, <1>10, <1>11, <1>12,
     <1>13, <1>14, <1>15, <1>16, <1>17, <1>18, <1>19, <1>20, <1>21, <1>22 DEF Next,
     ServerStep, SenderStep

(* Message and Socket give their users a Channel: whole messages, once and *)
(* in order, except for the last one of a sender that dies.                *)
THEOREM Refinement == Spec => ImplementsChannel
<1>1. Init => Users!Init
  <2> SUFFICES ASSUME Init PROVE Users!Init
    OBVIOUS
  <2>1. \A c \in Conns : Lengths(c) = <<>>
    <3>1. TypeOK
      BY InitIndInv DEF IndInv
    <3>2. \A c \in Conns : Posted(c) = 0
      BY DEF Init, Posted
    <3> QED
      BY <3>1, <3>2, LengthsFacts, EmptySeq
  <2>2. Living = Conns
    BY DEF Init, Living
  <2> QED
    BY <2>1, <2>2 DEF Init, Users!Init, Lengths, Living
<1>2. IndInv /\ IndInv' /\ [Next]_vars => [Users!Next]_(Users!vars)
  BY ChannelStep
<1> QED
  BY <1>1, <1>2, Invariance, PTL DEF Spec, ImplementsChannel, Users!Spec
-----------------------------------------------------------------------------
(* Induction up to N, for a set.                                           *)
LEMMA UpTo ==
    ASSUME NEW N \in Nat, NEW S, 0 \in S, \A n \in 0..N : n + 1 \in 0..N /\ n \in S => n + 1 \in S
    PROVE  \A n \in 0..N : n \in S
<1> DEFINE W == {n \in 0..N : n \notin S}
           R == OpToRel(<, Nat)
<1>1. SUFFICES ASSUME W # {} PROVE FALSE
  OBVIOUS
<1>2. W \subseteq Nat
  OBVIOUS
<1>3. \A x, y \in Nat : y < x => <<y, x>> \in R
  BY DEF OpToRel
<1>4. IsWellFoundedOn(R, Nat)
  BY NatLessThanWellFounded
<1> HIDE DEF R
<1>5. PICK k \in W : \A j \in W : ~(<<j, k>> \in R)
  BY <1>1, <1>2, <1>4, WFMin
<1>6. k \in 0..N /\ k \notin S /\ k # 0
  OBVIOUS
<1>7. k - 1 \in 0..N /\ k - 1 \in Nat /\ (k - 1) + 1 = k
  BY <1>6
<1>8. <<k - 1, k>> \in R
  BY <1>3, <1>6, <1>7
<1>9. k - 1 \in S
  BY <1>5, <1>7, <1>8
<1> QED
  BY <1>6, <1>7, <1>9

LEMMA AppendedIs ==
    ASSUME NEW p, Len(p) \in Nat
    PROVE  /\ Appended(p)[0] = <<>>
           /\ \A n \in 1..Len(p) : Appended(p)[n] = Appended(p)[n - 1] \o p[n]
<1> DEFINE N == Len(p)
           Solves(f, n) == f = [i \in 0..n |-> IF i = 0 THEN <<>> ELSE f[i - 1] \o p[i]]
           S == {n \in 0..N : \E f : Solves(f, n)}
           a == Appended(p)
<1>1. 0 \in S
  <2>1. Solves([i \in 0..0 |-> <<>>], 0)
    OBVIOUS
  <2>2. 0 \in 0..N
    OBVIOUS
  <2> HIDE DEF Solves
  <2> QED
    BY <2>1, <2>2
<1>2. ASSUME NEW n \in 0..N, n + 1 \in 0..N, n \in S
      PROVE  n + 1 \in S
  <2>1. PICK f : Solves(f, n)
    BY <1>2
  <2> DEFINE g == [i \in 0..n + 1 |-> IF i = n + 1 THEN f[n] \o p[n + 1] ELSE f[i]]
  <2>2. ASSUME NEW i \in 0..n + 1
        PROVE  g[i] = IF i = 0 THEN <<>> ELSE g[i - 1] \o p[i]
    <3>1. CASE i = n + 1
      <4>1. g[i] = f[n] \o p[i] /\ g[i - 1] = f[n] /\ i # 0
        BY <3>1
      <4> QED
        BY <4>1
    <3>2. CASE i # n + 1
      <4>1. i \in 0..n /\ g[i] = f[i]
        BY <3>2
      <4>2. i # 0 => g[i - 1] = f[i - 1]
        BY <4>1
      <4>3. f[i] = IF i = 0 THEN <<>> ELSE f[i - 1] \o p[i]
        BY <2>1, <4>1
      <4> QED
        BY <4>1, <4>2, <4>3
    <3> QED
      BY <3>1, <3>2
  <2>3. Solves(g, n + 1)
    BY <2>2
  <2> QED
    BY <1>2, <2>3
<1>3. N \in S
  <2> HIDE DEF S
  <2>1. \A n \in 0..N : n \in S
    BY <1>1, <1>2, UpTo
  <2> QED
    BY <2>1
<1>4. a = CHOOSE f : Solves(f, N)
  BY DEF Appended
<1>5. Solves(a, N)
  <2> HIDE DEF Solves
  <2> QED
    BY <1>3, <1>4
<1> HIDE DEF a
<1>6. ASSUME NEW n \in 0..N PROVE a[n] = IF n = 0 THEN <<>> ELSE a[n - 1] \o p[n]
  BY <1>5
<1>7. a[0] = <<>>
  BY <1>6
<1>8. ASSUME NEW n \in 1..N PROVE a[n] = a[n - 1] \o p[n]
  <2>1. n \in 0..N /\ n # 0
    OBVIOUS
  <2>2. a[n] = IF n = 0 THEN <<>> ELSE a[n - 1] \o p[n]
    BY <1>6, <2>1
  <2> QED
    BY <2>1, <2>2
<1> QED
  BY <1>7, <1>8 DEF a

LEMMA ReadElementsIs ==
    ASSUME NEW bytes, NEW type, NEW N \in Nat
    PROVE  LET a == ReadElements(bytes, type, N)
           IN  /\ a[0] = Reader(bytes)
               /\ \A n \in 1..N : a[n] = ReadValue(a[n - 1], type)
<1> DEFINE Solves(f, n) == f = [i \in 0..n |-> IF i = 0 THEN Reader(bytes) ELSE ReadValue(f[i - 1], type)]
           S == {n \in 0..N : \E f : Solves(f, n)}
           a == ReadElements(bytes, type, N)
<1>1. 0 \in S
  <2>1. Solves([i \in 0..0 |-> Reader(bytes)], 0)
    OBVIOUS
  <2>2. 0 \in 0..N
    OBVIOUS
  <2> HIDE DEF Solves
  <2> QED
    BY <2>1, <2>2
<1>2. ASSUME NEW n \in 0..N, n + 1 \in 0..N, n \in S
      PROVE  n + 1 \in S
  <2>1. PICK f : Solves(f, n)
    BY <1>2
  <2> DEFINE g == [i \in 0..n + 1 |-> IF i = n + 1 THEN ReadValue(f[n], type) ELSE f[i]]
  <2>2. ASSUME NEW i \in 0..n + 1
        PROVE  g[i] = IF i = 0 THEN Reader(bytes) ELSE ReadValue(g[i - 1], type)
    <3>1. CASE i = n + 1
      <4>1. g[i] = ReadValue(f[n], type) /\ g[i - 1] = f[n] /\ i # 0
        BY <3>1
      <4> QED
        BY <4>1
    <3>2. CASE i # n + 1
      <4>1. i \in 0..n /\ g[i] = f[i]
        BY <3>2
      <4>2. i # 0 => g[i - 1] = f[i - 1]
        BY <4>1
      <4>3. f[i] = IF i = 0 THEN Reader(bytes) ELSE ReadValue(f[i - 1], type)
        BY <2>1, <4>1
      <4> QED
        BY <4>1, <4>2, <4>3
    <3> QED
      BY <3>1, <3>2
  <2>3. Solves(g, n + 1)
    BY <2>2
  <2> QED
    BY <1>2, <2>3
<1>3. N \in S
  <2> HIDE DEF S
  <2>1. \A n \in 0..N : n \in S
    BY <1>1, <1>2, UpTo
  <2> QED
    BY <2>1
<1>4. a = CHOOSE f : Solves(f, N)
  BY DEF ReadElements
<1>5. Solves(a, N)
  <2> HIDE DEF Solves
  <2> QED
    BY <1>3, <1>4
<1> HIDE DEF a
<1>6. ASSUME NEW n \in 0..N
      PROVE  a[n] = IF n = 0 THEN Reader(bytes) ELSE ReadValue(a[n - 1], type)
  BY <1>5
<1> QED
  BY <1>6 DEF a

LEMMA ReadEachIs ==
    ASSUME NEW b, Len(b) \in Nat
    PROVE  LET a == ReadEach(b)
           IN  /\ a[0] = Reader(Written(b))
               /\ \A n \in 1..Len(b) : a[n] = Read(a[n - 1], b[n])
<1> DEFINE N == Len(b)
           Solves(f, n) == f = [i \in 0..n |-> IF i = 0 THEN Reader(Written(b)) ELSE Read(f[i - 1], b[i])]
           S == {n \in 0..N : \E f : Solves(f, n)}
           a == ReadEach(b)
<1>1. 0 \in S
  <2>1. Solves([i \in 0..0 |-> Reader(Written(b))], 0)
    OBVIOUS
  <2>2. 0 \in 0..N
    OBVIOUS
  <2> HIDE DEF Solves
  <2> QED
    BY <2>1, <2>2
<1>2. ASSUME NEW n \in 0..N, n + 1 \in 0..N, n \in S
      PROVE  n + 1 \in S
  <2>1. PICK f : Solves(f, n)
    BY <1>2
  <2> DEFINE g == [i \in 0..n + 1 |-> IF i = n + 1 THEN Read(f[n], b[n + 1]) ELSE f[i]]
  <2>2. ASSUME NEW i \in 0..n + 1
        PROVE  g[i] = IF i = 0 THEN Reader(Written(b)) ELSE Read(g[i - 1], b[i])
    <3>1. CASE i = n + 1
      <4>1. g[i] = Read(f[n], b[i]) /\ g[i - 1] = f[n] /\ i # 0
        BY <3>1
      <4> QED
        BY <4>1
    <3>2. CASE i # n + 1
      <4>1. i \in 0..n /\ g[i] = f[i]
        BY <3>2
      <4>2. i # 0 => g[i - 1] = f[i - 1]
        BY <4>1
      <4>3. f[i] = IF i = 0 THEN Reader(Written(b)) ELSE Read(f[i - 1], b[i])
        BY <2>1, <4>1
      <4> QED
        BY <4>1, <4>2, <4>3
    <3> QED
      BY <3>1, <3>2
  <2>3. Solves(g, n + 1)
    BY <2>2
  <2> QED
    BY <1>2, <2>3
<1>3. N \in S
  <2> HIDE DEF S
  <2>1. \A n \in 0..N : n \in S
    BY <1>1, <1>2, UpTo
  <2> QED
    BY <2>1
<1>4. a = CHOOSE f : Solves(f, N)
  BY DEF ReadEach
<1>5. Solves(a, N)
  <2> HIDE DEF Solves
  <2> QED
    BY <1>3, <1>4
<1> HIDE DEF a
<1>6. ASSUME NEW n \in 0..N
      PROVE  a[n] = IF n = 0 THEN Reader(Written(b)) ELSE Read(a[n - 1], b[n])
  BY <1>5
<1> QED
  BY <1>6 DEF a
-----------------------------------------------------------------------------
LEMMA Joined ==
    ASSUME NEW s \in Seq(Byte), NEW t \in Seq(Byte), NEW w, w = s \o t
    PROVE  /\ w \in Seq(Byte) /\ Len(w) = Len(s) + Len(t)
           /\ \A i \in 1..Len(s) : w[i] = s[i]
  BY ConcatProperties

(* Where a sequence begins with s, what is left after s is the rest.       *)
LEMMA Cancel ==
    ASSUME NEW X, NEW s \in Seq(X), NEW t \in Seq(X), NEW u \in Seq(X), s \o t = s \o u
    PROVE  t = u
<1>1. Len(t) = Len(u)
  BY ConcatProperties
<1>2. ASSUME NEW i \in 1..Len(t) PROVE t[i] = u[i]
  <2>1. (s \o t)[Len(s) + i] = t[i] /\ (s \o u)[Len(s) + i] = u[i]
    BY <1>1, ConcatProperties
  <2> QED
    BY <2>1
<1> QED
  BY <1>1, <1>2, SeqEqual

LEMMA Skip ==
    ASSUME NEW X, NEW s \in Seq(X), NEW t \in Seq(X)
    PROVE  /\ Dropped(s \o t, Len(s)) = t
           /\ \A k \in 0..Len(s) : SubSeq(s \o t, 1, k) = SubSeq(s, 1, k)
<1>1. s \o t \in Seq(X) /\ Len(s \o t) = Len(s) + Len(t)
      /\ \A i \in 1..Len(s) : (s \o t)[i] = s[i]
      /\ \A j \in 1..Len(t) : (s \o t)[Len(s) + j] = t[j]
  BY ConcatProperties
<1> DEFINE w == s \o t
           v == Dropped(w, Len(s))
<1>2. v = SubSeq(w, Len(s) + 1, Len(w))
  BY DEF Dropped
<1> HIDE DEF w, v
<1>3. v = t
  BY <1>1, <1>2 DEF w
<1>4. ASSUME NEW k \in 0..Len(s) PROVE SubSeq(w, 1, k) = SubSeq(s, 1, k)
  BY <1>1 DEF w
<1> QED
  BY <1>3, <1>4 DEF w, v

(* Concatenation, for the provers, which look into \o where they need not. *)
Then(s, t) == s \o t

(* Results of any kind, one after the other. *)
IsResults(read, n) == n \in Nat /\ read = [i \in 1..n |-> read[i]]

(* The reader with one more result, and u left to read. *)
Result(r, u, x) == [rest |-> u, read |-> Append(r.read, x)]

LEMMA ResultFacts ==
    ASSUME NEW r, NEW n \in Nat, IsResults(r.read, n), NEW u, NEW x,
           NEW after, after = Result(r, u, x), NEW k, k = n + 1
    PROVE  /\ after.rest = u
           /\ IsResults(after.read, k) /\ after.read[k] = x
           /\ \A i \in 1..n : after.read[i] = r.read[i]
<1> DEFINE read == r.read
           X == {read[i] : i \in 1..n} \union {x}
<1>1. read \in [1..n -> X]
  BY DEF IsResults
<1>2. read \in Seq(X) /\ Len(read) = n /\ x \in X
  <2> HIDE DEF X, read
  <2>1. read \in Seq(X) /\ Len(read) = n
    BY <1>1
  <2> QED
    BY <2>1 DEF X
<1> HIDE DEF X, read
<1>3. PICK now : now = Append(read, x)
  OBVIOUS
<1>4. /\ now \in Seq(X) /\ Len(now) = n + 1 /\ now[n + 1] = x
      /\ \A i \in 1..n : now[i] = read[i]
  BY <1>2, <1>3, AppendProperties
<1>5. after.rest = u /\ after.read = now
  BY <1>3 DEF Result, read
<1> QED
  BY <1>4, <1>5 DEF IsResults, read

LEMMA FirstResult ==
    ASSUME NEW r, r.read = <<>>, NEW u, NEW x, NEW after, after = Result(r, u, x)
    PROVE  after.rest = u /\ after.read[1] = x
<1>1. Append(<<>>, x) = <<x>>
  OBVIOUS
<1> QED
  BY <1>1 DEF Result

LEMMA NoResults == IsResults(<<>>, 0)
  BY DEF IsResults
-----------------------------------------------------------------------------
(* The bytes of one value. *)
LEMMA NulIsByte == Nul \in Byte
  BY DEF Nul, Byte

LEMMA NumberFacts ==
    ASSUME NEW x \in 0..255
    PROVE  /\ NumberBytes(x) \in Seq(Byte) /\ Len(NumberBytes(x)) = Width
           /\ NumberBytes(x)[1] = <<"byte", x>> /\ NumberBytes(x)[2] = Nul
<1> DEFINE low == << <<"byte", x>> >>
           high == [i \in 1..Width - 1 |-> Nul]
<1>1. low \in Seq(Byte) /\ Len(low) = 1 /\ low[1] = <<"byte", x>>
  BY DEF Byte
<1>2. high \in Seq(Byte) /\ Len(high) = 1 /\ high[1] = Nul
  BY NulIsByte DEF Width
<1> HIDE DEF low, high
<1>3. /\ low \o high \in Seq(Byte) /\ Len(low \o high) = 2
      /\ (low \o high)[1] = low[1] /\ (low \o high)[2] = high[1]
  BY <1>1, <1>2, ConcatProperties
<1> QED
  BY <1>1, <1>2, <1>3 DEF NumberBytes, Width, low, high

LEMMA NumberRead ==
    ASSUME NEW x \in 0..255, NEW t \in Seq(Byte), NEW r,
           r.rest = Then(NumberBytes(x), t)
    PROVE  ReadNumber(r) = Result(r, t, x)
<1> DEFINE s == NumberBytes(x)
<1>1. /\ s \in Seq(Byte) /\ Len(s) = Width /\ s[1] = <<"byte", x>> /\ s[2] = Nul
  BY NumberFacts
<1> HIDE DEF s
<1>2. /\ Len(s \o t) >= Width /\ (s \o t)[1] = <<"byte", x>> /\ (s \o t)[2] = Nul
  BY <1>1, ConcatProperties DEF Width
<1>3. IsNumber(s \o t)
  BY <1>2 DEF IsNumber, Width
<1>4. (s \o t)[1][2] = x
  BY <1>2
<1>5. Dropped(s \o t, Width) = t
  BY <1>1, Skip
<1>6. r.rest = s \o t
  BY DEF s, Then
<1> QED
  BY <1>3, <1>4, <1>5, <1>6 DEF ReadNumber, Took, Result

(* The first zero byte of a string that has one, and of what follows it. *)
LEMMA FirstZeroIs ==
    ASSUME NEW s \in Seq(Byte), NEW k \in 1..Len(s), s[k] = Nul,
           \A i \in 1..k - 1 : s[i] # Nul
    PROVE  Zeros(s) # {} /\ FirstZero(s) = k
<1>1. Zeros(s) = {i \in 1..Len(s) : s[i] = Nul}
  BY DEF Zeros
<1>2. k \in Zeros(s) /\ \A i \in Zeros(s) : k <= i
  BY <1>1
<1>3. ASSUME NEW m \in Zeros(s), \A i \in Zeros(s) : m <= i
      PROVE  m = k
  BY <1>1, <1>2, <1>3
<1> QED
  BY <1>2, <1>3 DEF FirstZero

(* Some least one. *)
LEMMA LeastOf ==
    ASSUME NEW I, I \subseteq Nat, I # {}
    PROVE  \E k \in I : \A i \in I : k <= i
<1> DEFINE R == OpToRel(<, Nat)
<1>1. \A x, y \in Nat : y < x => <<y, x>> \in R
  BY DEF OpToRel
<1>2. IsWellFoundedOn(R, Nat)
  BY NatLessThanWellFounded
<1> HIDE DEF R
<1>3. PICK k \in I : \A j \in I : ~(<<j, k>> \in R)
  BY <1>2, WFMin
<1>4. \A i \in I : ~(i < k)
  BY <1>1, <1>3
<1> QED
  BY <1>3, <1>4

LEMMA StringRead ==
    ASSUME NEW s \in Seq(Byte), NEW t \in Seq(Byte), NEW r,
           r.rest = Then(StringBytes(s), t)
    PROVE  /\ ~HasNul(s) => ReadString(r) = Result(r, t, s)
           /\ HasNul(s) => \E y, u : y # s /\ ReadString(r) = Result(r, u, y)
<1> DEFINE b == StringBytes(s)
           w == b \o t
<1>1. /\ b \in Seq(Byte) /\ Len(b) = Len(s) + 1 /\ b[Len(s) + 1] = Nul
      /\ \A i \in 1..Len(s) : b[i] = s[i]
  BY NulIsByte, AppendProperties DEF StringBytes
<1> HIDE DEF b
<1>2. /\ w \in Seq(Byte) /\ Len(w) = Len(b) + Len(t)
      /\ \A i \in 1..Len(b) : w[i] = b[i]
  BY <1>1, Joined
<1> HIDE DEF w
<1>3. Zeros(s) = {i \in 1..Len(s) : s[i] = Nul}
  BY DEF Zeros
<1>4. r.rest = w
  BY DEF b, w, Then
<1>5. ASSUME ~HasNul(s)
      PROVE  ReadString(r) = Result(r, t, s)
  <2> DEFINE k == Len(s) + 1
  <2>1. k \in 1..Len(w) /\ w[k] = Nul /\ \A i \in 1..k - 1 : w[i] # Nul
    <3>1. \A i \in 1..Len(s) : s[i] # Nul
      BY <1>3, <1>5 DEF HasNul
    <3>2. ASSUME NEW i \in 1..k - 1 PROVE w[i] # Nul
      <4>1. i \in 1..Len(s) /\ i \in 1..Len(b)
        BY <1>1
      <4> QED
        BY <1>1, <1>2, <3>1, <4>1
    <3>3. k \in 1..Len(b) /\ k \in 1..Len(w)
      BY <1>1, <1>2
    <3> QED
      BY <1>1, <1>2, <3>2, <3>3
  <2> HIDE DEF k
  <2>2. Zeros(w) # {} /\ FirstZero(w) = k
    BY <1>2, <2>1, FirstZeroIs
  <2>3. Dropped(w, k) = t
    BY <1>1, Skip DEF w, k
  <2>4. SubSeq(w, 1, k - 1) = s
    <3>1. SubSeq(w, 1, k - 1) = SubSeq(b, 1, k - 1)
      BY <1>1, Skip DEF w, k
    <3>2. SubSeq(b, 1, Len(s)) = s
      BY <1>1
    <3> QED
      BY <3>1, <3>2 DEF k
  <2> QED
    BY <1>4, <2>2, <2>3, <2>4 DEF ReadString, Took, Result
<1>6. ASSUME HasNul(s)
      PROVE  \E y, u : y # s /\ ReadString(r) = Result(r, u, y)
  <2>1. PICK k \in Zeros(s) : \A i \in Zeros(s) : k <= i
    BY <1>3, <1>6, LeastOf DEF HasNul
  <2>2. k \in 1..Len(w) /\ w[k] = Nul /\ \A i \in 1..k - 1 : w[i] # Nul
    <3>1. k \in 1..Len(s) /\ s[k] = Nul
      BY <1>3, <2>1
    <3>2. ASSUME NEW i \in 1..k - 1 PROVE w[i] # Nul
      <4>1. i \in 1..Len(s) /\ i \in 1..Len(b) /\ ~(k <= i)
        BY <1>1, <3>1
      <4>2. s[i] # Nul
        BY <1>3, <2>1, <4>1
      <4> QED
        BY <1>1, <1>2, <4>1, <4>2
    <3>3. k \in 1..Len(b) /\ k \in 1..Len(w)
      BY <1>1, <1>2, <3>1
    <3> QED
      BY <1>1, <1>2, <3>1, <3>2, <3>3
  <2>3. Zeros(w) # {} /\ FirstZero(w) = k
    BY <1>2, <2>2, FirstZeroIs
  <2>4. Len(SubSeq(w, 1, k - 1)) = k - 1 /\ k - 1 < Len(s)
    <3>1. k \in 1..Len(s)
      BY <1>3, <2>1
    <3>2. Len(SubSeq(w, 1, k - 1)) = k - 1
      BY <1>2, <2>2
    <3> QED
      BY <3>1, <3>2
  <2>5. SubSeq(w, 1, k - 1) # s
    <3>1. k - 1 \in Int /\ Len(s) \in Int
      BY <2>2
    <3> QED
      BY <2>4, <3>1
  <2>6. ReadString(r) = Result(r, Dropped(w, k), SubSeq(w, 1, k - 1))
    BY <1>4, <2>3 DEF ReadString, Took, Result
  <2> QED
    BY <2>5, <2>6
<1> QED
  BY <1>5, <1>6
-----------------------------------------------------------------------------
LEMMA Associative ==
    ASSUME NEW s \in Seq(Byte), NEW t \in Seq(Byte), NEW u \in Seq(Byte)
    PROVE  /\ Then(s, t) \in Seq(Byte)
           /\ Then(Then(s, t), u) = Then(s, Then(t, u))
  BY ConcatAssociative, ConcatProperties DEF Then

LEMMA Regroup ==
    ASSUME NEW first \in Seq(Byte), NEW part \in Seq(Byte), NEW later \in Seq(Byte),
           NEW t \in Seq(Byte), NEW rest \in Seq(Byte), NEW c,
           c = Then(Then(first, part), later), Then(c, t) = Then(first, rest)
    PROVE  /\ Then(later, t) \in Seq(Byte)
           /\ rest = Then(part, Then(later, t))
           /\ Then(c, t) = Then(Then(first, part), Then(later, t))
<1>1. PICK end \in Seq(Byte) : end = Then(later, t)
  BY Associative
<1>2. PICK head \in Seq(Byte) : head = Then(first, part)
  BY Associative
<1>3. PICK tail \in Seq(Byte) : tail = Then(part, end)
  BY Associative
<1>4. Then(c, t) = Then(head, end)
  BY <1>1, <1>2, Associative
<1>5. Then(head, end) = Then(first, tail)
  BY <1>2, <1>3, Associative
<1>6. rest = tail
  <2>1. first \o rest = first \o tail
    BY <1>4, <1>5 DEF Then
  <2> QED
    BY <2>1, Cancel
<1> QED
  BY <1>1, <1>2, <1>3, <1>4, <1>6

LEMMA AppendedFacts ==
    ASSUME NEW p \in Seq(Seq(Byte))
    PROVE  /\ \A n \in 0..Len(p) : Appended(p)[n] \in Seq(Byte)
           /\ \A n \in 0..Len(p) : \E t \in Seq(Byte) : Concatenated(p) = Appended(p)[n] \o t
           /\ Concatenated(p) \in Seq(Byte)
<1> DEFINE N == Len(p)
           a == Appended(p)
           S == {n \in 0..N : a[n] \in Seq(Byte)}
           T == {m \in 0..N : \E t \in Seq(Byte) : a[N] = a[N - m] \o t}
<1>1. N \in Nat
  OBVIOUS
<1>2. a[0] = <<>> /\ \A n \in 1..N : a[n] = a[n - 1] \o p[n]
  BY <1>1, AppendedIs
<1> HIDE DEF a
<1>3. \A n \in 0..N : a[n] \in Seq(Byte)
  <2>1. 0 \in S
    <3>1. a[0] \in Seq(Byte)
      BY <1>2, EmptySeq
    <3> QED
      BY <1>1, <3>1
  <2>2. ASSUME NEW n \in 0..N, n + 1 \in 0..N, n \in S
        PROVE  n + 1 \in S
    <3>1. PICK k \in 1..N : k = n + 1
      BY <1>1, <2>2
    <3>2. k - 1 = n
      BY <3>1
    <3>3. a[k] = a[k - 1] \o p[k]
      BY <1>2
    <3>4. p[k] \in Seq(Byte)
      BY ElementOfSeq
    <3>5. a[n] \in Seq(Byte)
      BY <2>2
    <3>6. a[n] \o p[k] \in Seq(Byte)
      BY <3>4, <3>5, ConcatProperties
    <3> QED
      BY <2>2, <3>1, <3>2, <3>3, <3>6
  <2> HIDE DEF S
  <2>3. \A n \in 0..N : n \in S
    BY <1>1, <2>1, <2>2, UpTo
  <2> QED
    BY <2>3 DEF S
<1>4. \A m \in 0..N : m \in T
  <2>1. 0 \in T
    <3>1. a[N] \in Seq(Byte)
      BY <1>1, <1>3
    <3>2. a[N] \o <<>> = a[N]
      BY <3>1, ConcatEmptySeq
    <3>3. N - 0 = N
      BY <1>1
    <3>4. <<>> \in Seq(Byte)
      BY EmptySeq
    <3>5. \E u \in Seq(Byte) : a[N] = a[N - 0] \o u
      BY <3>2, <3>3, <3>4, Zenon
    <3>6. 0 \in 0..N
      BY <1>1
    <3> QED
      BY <3>5, <3>6, Zenon
  <2>2. ASSUME NEW m \in 0..N, m + 1 \in 0..N, m \in T
        PROVE  m + 1 \in T
    <3>1. PICK t \in Seq(Byte) : a[N] = a[N - m] \o t
      BY <2>2
    <3> DEFINE n == N - m
    <3>2. n \in 1..N /\ n - 1 = N - (m + 1) /\ n - 1 \in 0..N
      BY <1>1, <2>2
    <3> HIDE DEF n
    <3>3. a[n] = a[n - 1] \o p[n] /\ p[n] \in Seq(Byte) /\ a[n - 1] \in Seq(Byte)
      <4>1. p[n] \in Seq(Byte)
        BY <3>2, ElementOfSeq
      <4>2. a[n - 1] \in Seq(Byte)
        BY <1>3, <3>2
      <4>3. a[n] = a[n - 1] \o p[n]
        BY <1>2, <3>2
      <4> QED
        BY <4>1, <4>2, <4>3
    <3>4. a[N] = a[n - 1] \o (p[n] \o t)
      <4>1. a[N] = (a[n - 1] \o p[n]) \o t
        BY <3>1, <3>3 DEF n
      <4>2. (a[n - 1] \o p[n]) \o t = a[n - 1] \o (p[n] \o t)
        BY <3>3, Associative DEF Then
      <4> QED
        BY <4>1, <4>2
    <3>5. p[n] \o t \in Seq(Byte)
      BY <3>3
    <3> QED
      BY <2>2, <3>2, <3>4, <3>5
  <2> HIDE DEF T
  <2> QED
    BY <1>1, <2>1, <2>2, UpTo
<1>5. ASSUME NEW n \in 0..N
      PROVE  \E t \in Seq(Byte) : a[N] = a[n] \o t
  <2>1. N - n \in 0..N /\ N - (N - n) = n
    BY <1>1
  <2>2. N - n \in T
    BY <1>4, <2>1
  <2> QED
    BY <2>1, <2>2
<1>6. a[N] \in Seq(Byte)
  BY <1>1, <1>3
<1> QED
  BY <1>3, <1>5, <1>6 DEF Concatenated, a

(* N things are written, p, and read one after the other: the result of    *)
(* each is added to those before it; and where it is at the cursor it is    *)
(* what was written, xs, and the cursor moves on, unless it is in H.        *)
Adds(a, n) == \E u, y : a[n] = Result(a[n - 1], u, y)
Takes(a, p, xs, n) ==
    \A u \in Seq(Byte) :
        a[n - 1].rest = p[n] \o u
           => a[n] = Result(a[n - 1], u, xs[n])
Fails(a, p, xs, n) ==
    \A u \in Seq(Byte) :
        a[n - 1].rest = p[n] \o u
           => \E v, y : y # xs[n] /\ a[n] = Result(a[n - 1], v, y)
Reads(a, p, xs, H, N) ==
    \A n \in 1..N : /\ Adds(a, n)
                    /\ n \notin H => Takes(a, p, xs, n)
                    /\ n \in H => Fails(a, p, xs, n)

Starts(a, p, N, t) == N = Len(p) /\ a[0] = Reader(Then(Concatenated(p), t))

(* Nothing that is before the first of H is lost, and that one is. *)
UpToFirst(r, xs, H, N, t) ==
    /\ IsResults(r.read, N)
    /\ \A i \in 1..N : (\A j \in 1..i : j \notin H) => r.read[i] = xs[i]
    /\ \A i \in 1..N : i \in H /\ (\A j \in 1..i - 1 : j \notin H) => r.read[i] # xs[i]
    /\ (\A j \in 1..N : j \notin H) => r.rest = t

LEMMA ReadsInOrder ==
    ASSUME NEW p \in Seq(Seq(Byte)), NEW t \in Seq(Byte), NEW N, NEW a, NEW xs, NEW H,
           Starts(a, p, N, t), Reads(a, p, xs, H, N)
    PROVE  UpToFirst(a[N], xs, H, N, t)
<1> DEFINE c == Concatenated(p)
           b == Appended(p)
           Clean(n) == \A j \in 1..n : j \notin H
           Same(n) == \A i \in 1..n : Clean(i) => a[n].read[i] = xs[i]
           Other(n) == \A i \in 1..n : i \in H /\ Clean(i - 1) => a[n].read[i] # xs[i]
           Rest(n) == Clean(n) => a[n].rest \in Seq(Byte) /\ c \o t = b[n] \o a[n].rest
           S == {n \in 0..N : IsResults(a[n].read, n) /\ Same(n) /\ Other(n) /\ Rest(n)}
<1>1. N = Len(p) /\ N \in Nat
  BY DEF Starts
<1>2. /\ b[0] = <<>> /\ \A n \in 1..N : b[n] = b[n - 1] \o p[n]
      /\ c = b[N] /\ c \in Seq(Byte) /\ \A n \in 0..N : b[n] \in Seq(Byte)
      /\ \A n \in 0..N : \E u \in Seq(Byte) : c = b[n] \o u
  BY <1>1, AppendedIs, AppendedFacts DEF Concatenated
<1> HIDE DEF b, c
<1>3. a[0] = [rest |-> c \o t, read |-> <<>>]
  BY DEF Starts, Reader, Then, c
<1>4. 0 \in S
  <2>1. IsResults(a[0].read, 0)
    BY <1>3, NoResults
  <2>2. c \o t \in Seq(Byte) /\ c \o t = <<>> \o (c \o t)
    BY <1>2
  <2>3. Rest(0)
    BY <1>2, <1>3, <2>2
  <2>4. Same(0) /\ Other(0) /\ 0 \in 0..N
    BY <1>1
  <2> HIDE DEF Same, Other, Rest
  <2> QED
    BY <2>1, <2>3, <2>4
<1>5. ASSUME NEW m \in 0..N, m + 1 \in 0..N, m \in S
      PROVE  m + 1 \in S
  <2>1. PICK n \in 1..N : n = m + 1
    BY <1>1, <1>5
  <2>2. n - 1 = m /\ m \in Nat /\ n \in Nat
    BY <1>1, <2>1
  <2>3. IsResults(a[m].read, m) /\ Same(m) /\ Other(m) /\ Rest(m)
    BY <1>5
  <2>4. PICK u, y : a[n] = Result(a[m], u, y)
    BY <2>2 DEF Reads, Adds
  <2>5. /\ IsResults(a[n].read, n) /\ a[n].read[n] = y
        /\ \A i \in 1..m : a[n].read[i] = a[m].read[i]
    <3>1. PICK before, after : before = a[m] /\ after = a[n]
      OBVIOUS
    <3>2. IsResults(before.read, m) /\ after = Result(before, u, y)
      BY <2>3, <2>4, <3>1
    <3>3. /\ IsResults(after.read, n) /\ after.read[n] = y
          /\ \A i \in 1..m : after.read[i] = before.read[i]
      BY <2>1, <2>2, <3>2, ResultFacts
    <3> QED
      BY <2>1, <3>1, <3>3
  <2>6. ASSUME NEW w, NEW x, a[n] = Result(a[m], w, x)
         PROVE  a[n].rest = w /\ a[n].read[n] = x
    <3>1. PICK before, after : before = a[m] /\ after = a[n]
      OBVIOUS
    <3>2. IsResults(before.read, m) /\ after = Result(before, w, x)
      BY <2>3, <2>6, <3>1
    <3>3. /\ IsResults(after.read, n) /\ after.read[n] = x
          /\ \A i \in 1..m : after.read[i] = before.read[i]
      BY <2>1, <2>2, <3>2, ResultFacts
    <3>4. after.rest = w
      BY <3>2 DEF Result
    <3> QED
      BY <3>1, <3>3, <3>4
  <2>7. ASSUME Clean(m)
        PROVE  \E v \in Seq(Byte) : a[m].rest = p[n] \o v /\ c \o t = b[n] \o v
    <3>0. n \in 0..N /\ m \in 0..N
      BY <1>1, <2>1
    <3>1. PICK w \in Seq(Byte) : c = b[n] \o w
      BY <1>2, <3>0, Zenon
    <3>2. /\ b[n] = b[m] \o p[n] /\ b[m] \in Seq(Byte) /\ b[n] \in Seq(Byte)
          /\ p[n] \in Seq(Byte) /\ w \o t \in Seq(Byte) /\ a[m].rest \in Seq(Byte)
      <4>1. b[n] = b[m] \o p[n]
        BY <1>2, <2>2, Zenon
      <4>2. b[m] \in Seq(Byte) /\ b[n] \in Seq(Byte)
        BY <1>2, <3>0, Zenon
      <4>3. p[n] \in Seq(Byte)
        BY <1>1, ElementOfSeq
      <4>4. w \o t \in Seq(Byte)
        BY ConcatProperties
      <4>5. a[m].rest \in Seq(Byte)
        BY <2>3, <2>7, Zenon
      <4> QED
        BY <4>1, <4>2, <4>3, <4>4, <4>5
    <3>3. c = (b[m] \o p[n]) \o w
      BY <3>1, <3>2
    <3>4. c \o t = b[m] \o a[m].rest
      BY <2>3, <2>7
    <3>5. /\ w \o t \in Seq(Byte) /\ a[m].rest = p[n] \o (w \o t)
          /\ c \o t = (b[m] \o p[n]) \o (w \o t)
      <4> HIDE DEF Same, Other, Rest, Clean
      <4>1. PICK first, part, rest, whole :
                first = b[m] /\ part = p[n] /\ rest = a[m].rest /\ whole = c
        OBVIOUS
      <4>2. first \in Seq(Byte) /\ part \in Seq(Byte) /\ rest \in Seq(Byte)
        BY <3>2, <4>1
      <4>3. whole = Then(Then(first, part), w) /\ Then(whole, t) = Then(first, rest)
        BY <3>3, <3>4, <4>1 DEF Then
      <4>4. /\ Then(w, t) \in Seq(Byte) /\ rest = Then(part, Then(w, t))
            /\ Then(whole, t) = Then(Then(first, part), Then(w, t))
        BY <4>2, <4>3, Regroup
      <4> QED
        BY <4>1, <4>4 DEF Then
    <3> QED
      BY <3>2, <3>5
  <2>8. Clean(n) => Clean(m) /\ n \notin H
    BY <2>1, <2>2
  <2>9. ASSUME Clean(n)
        PROVE  a[n].rest \in Seq(Byte) /\ c \o t = b[n] \o a[n].rest /\ a[n].read[n] = xs[n]
    <3>1. PICK v \in Seq(Byte) : a[m].rest = p[n] \o v /\ c \o t = b[n] \o v
      BY <2>7, <2>8, <2>9
    <3>2. a[n] = Result(a[m], v, xs[n])
      <4>1. a[n - 1].rest = p[n] \o v
        BY <2>2, <3>1
      <4> QED
        BY <2>2, <2>8, <2>9, <4>1 DEF Reads, Takes
    <3>3. a[n].rest = v /\ a[n].read[n] = xs[n]
      BY <2>6, <3>2
    <3> QED
      BY <3>1, <3>2, <3>3
  <2>10. ASSUME n \in H, Clean(m)
        PROVE  a[n].read[n] # xs[n]
    <3>1. PICK v \in Seq(Byte) : a[m].rest = p[n] \o v /\ c \o t = b[n] \o v
      BY <2>7, <2>10
    <3>2. PICK v2, z : z # xs[n] /\ a[n] = Result(a[m], v2, z)
      <4>1. a[n - 1].rest = p[n] \o v
        BY <2>2, <3>1
      <4> QED
        BY <2>2, <2>10, <4>1 DEF Reads, Fails
    <3>3. a[n].rest = v2 /\ a[n].read[n] = z
      BY <2>6, <3>2
    <3> QED
      BY <3>1, <3>2, <3>3
  <2>11. Same(n)
    <3>1. ASSUME NEW i \in 1..n, Clean(i) PROVE a[n].read[i] = xs[i]
      <4>1. CASE i = n
        BY <2>9, <3>1, <4>1
      <4>2. CASE i # n
        <5>1. i \in 1..m
          BY <2>1, <2>2, <4>2
        <5> QED
          BY <2>3, <2>5, <3>1, <5>1
      <4> QED
        BY <4>1, <4>2
    <3> QED
      BY <3>1
  <2>12. Other(n)
    <3>1. ASSUME NEW i \in 1..n, i \in H, Clean(i - 1) PROVE a[n].read[i] # xs[i]
      <4>1. CASE i = n
        BY <2>2, <2>10, <3>1, <4>1
      <4>2. CASE i # n
        <5>1. i \in 1..m
          BY <2>1, <2>2, <4>2
        <5> QED
          BY <2>3, <2>5, <3>1, <5>1
      <4> QED
        BY <4>1, <4>2
    <3> QED
      BY <3>1
  <2>13. Rest(n)
    BY <2>9
  <2> HIDE DEF Same, Other, Rest
  <2> QED
    BY <1>5, <2>1, <2>5, <2>11, <2>12, <2>13
<1>6. N \in S
  <2> HIDE DEF S
  <2>1. \A n \in 0..N : n \in S
    BY <1>1, <1>4, <1>5, UpTo
  <2> QED
    BY <1>1, <2>1
<1>7. IsResults(a[N].read, N) /\ Same(N) /\ Other(N) /\ Rest(N)
  BY <1>6
<1>8. ASSUME Clean(N) PROVE a[N].rest = t
  <2>1. a[N].rest \in Seq(Byte) /\ c \o t = c \o a[N].rest
    BY <1>2, <1>7, <1>8
  <2> QED
    BY <1>2, <2>1, Cancel
<1>9. \A i \in 1..N : Clean(i) => a[N].read[i] = xs[i]
  BY <1>7
<1>10. \A i \in 1..N : i \in H /\ Clean(i - 1) => a[N].read[i] # xs[i]
  BY <1>7
<1>11. IsResults(a[N].read, N)
  BY <1>7
<1> HIDE DEF Same, Other, Rest
<1> QED
  BY <1>8, <1>9, <1>10, <1>11 DEF UpToFirst
-----------------------------------------------------------------------------
(* What the values are, and those that are not read as they were written.  *)
Types == {"number", "string"}
Simple(type) == IF type = "number" THEN 0..255 ELSE Seq(Byte)
Hole(type, x) == type = "string" /\ HasNul(x)

LEMMA ValueRead ==
    ASSUME NEW type \in Types, NEW x \in Simple(type), NEW t \in Seq(Byte), NEW r,
           r.rest = Then(ValueBytes(type, x), t)
    PROVE  /\ ~Hole(type, x) => ReadValue(r, type) = Result(r, t, x)
           /\ Hole(type, x) => \E v, y : y # x /\ ReadValue(r, type) = Result(r, v, y)
<1>1. CASE type = "number"
  <2>1. x \in 0..255 /\ r.rest = Then(NumberBytes(x), t)
    BY <1>1 DEF Simple, ValueBytes
  <2>2. ReadNumber(r) = Result(r, t, x)
    BY <2>1, NumberRead
  <2> QED
    BY <1>1, <2>2 DEF ReadValue, Hole
<1>2. CASE type # "number"
  <2>1. type = "string" /\ x \in Seq(Byte) /\ r.rest = Then(StringBytes(x), t)
    BY <1>2 DEF Simple, ValueBytes, Types
  <2>2. /\ ~HasNul(x) => ReadString(r) = Result(r, t, x)
        /\ HasNul(x) => \E v, y : y # x /\ ReadString(r) = Result(r, v, y)
    BY <2>1, StringRead
  <2> QED
    BY <1>2, <2>1, <2>2 DEF ReadValue, Hole
<1> QED
  BY <1>1, <1>2

LEMMA ValueIsBytes ==
    ASSUME NEW type \in Types, NEW x \in Simple(type)
    PROVE  ValueBytes(type, x) \in Seq(Byte)
<1>1. CASE type = "number"
  BY <1>1, NumberFacts DEF Simple, ValueBytes
<1>2. CASE type # "number"
  <2>1. x \in Seq(Byte)
    BY <1>2 DEF Simple
  <2>2. Append(x, Nul) \in Seq(Byte)
    BY <2>1, NulIsByte, AppendProperties
  <2> QED
    BY <1>2, <2>2 DEF ValueBytes, StringBytes
<1> QED
  BY <1>1, <1>2

LEMMA ValueAdds ==
    ASSUME NEW r, NEW type
    PROVE  \E u, y : ReadValue(r, type) = Result(r, u, y)
<1>1. \A n, x : Took(r, n, x) = Result(r, Dropped(r.rest, n), x)
  BY DEF Took, Result
<1>2. \E u, y : ReadNumber(r) = Result(r, u, y)
  <2>1. \E n, x : ReadNumber(r) = Took(r, n, x)
    BY DEF ReadNumber
  <2> QED
    BY <1>1, <2>1
<1>3. \E u, y : ReadString(r) = Result(r, u, y)
  <2>1. \E n, x : ReadString(r) = Took(r, n, x)
    BY DEF ReadString
  <2> QED
    BY <1>1, <2>1
<1> QED
  BY <1>2, <1>3 DEF ReadValue
-----------------------------------------------------------------------------
Holes(type, x) == {i \in 1..Len(x) : Hole(type, x[i])}
AllRead(type, x, t) ==
    ReadElements(Then(Concatenated(ElementBytes(type, x)), t), type, Len(x))[Len(x)]

LEMMA ElementsRead ==
    ASSUME NEW type \in Types, NEW x \in Seq(Simple(type)), NEW t \in Seq(Byte)
    PROVE  /\ Concatenated(ElementBytes(type, x)) \in Seq(Byte)
           /\ Holes(type, x) = {} => AllRead(type, x, t).read = x /\ AllRead(type, x, t).rest = t
           /\ Holes(type, x) # {} => AllRead(type, x, t).read # x
<1> DEFINE p == ElementBytes(type, x)
           N == Len(x)
           H == Holes(type, x)
           a == ReadElements(Then(Concatenated(p), t), type, N)
<1>1. N \in Nat /\ \A i \in 1..N : x[i] \in Simple(type)
  BY ElementOfSeq
<1>2. /\ p \in Seq(Seq(Byte)) /\ Len(p) = N
      /\ \A i \in 1..N : p[i] = ValueBytes(type, x[i])
  <2>1. p = [i \in 1..N |-> ValueBytes(type, x[i])]
    BY DEF ElementBytes
  <2>2. \A i \in 1..N : ValueBytes(type, x[i]) \in Seq(Byte)
    BY <1>1, ValueIsBytes
  <2>3. p \in [1..N -> Seq(Byte)]
    BY <2>1, <2>2
  <2> HIDE DEF p
  <2>4. p \in Seq(Seq(Byte)) /\ Len(p) = N
    BY <1>1, <2>3
  <2> QED
    BY <2>1, <2>4
<1>3. /\ a[0] = Reader(Then(Concatenated(p), t))
      /\ \A n \in 1..N : a[n] = ReadValue(a[n - 1], type)
  BY <1>1, ReadElementsIs
<1> HIDE DEF a, p, N
<1>4. Reads(a, p, x, H, N)
  <2> SUFFICES ASSUME NEW n \in 1..N
               PROVE  /\ Adds(a, n)
                      /\ n \notin H => Takes(a, p, x, n)
                      /\ n \in H => Fails(a, p, x, n)
    BY DEF Reads
  <2>1. a[n] = ReadValue(a[n - 1], type) /\ p[n] = ValueBytes(type, x[n])
    BY <1>2, <1>3
  <2>2. PICK before : before = a[n - 1]
    OBVIOUS
  <2>3. \E u, y : ReadValue(before, type) = Result(before, u, y)
    BY ValueAdds
  <2>4. PICK y \in Simple(type) : y = x[n]
    BY <1>1
  <2>5. n \in H <=> Hole(type, y)
    BY <2>4 DEF Holes, N
  <2>6. ASSUME NEW u \in Seq(Byte), a[n - 1].rest = p[n] \o u
        PROVE  /\ ~Hole(type, y) => ReadValue(before, type) = Result(before, u, y)
               /\ Hole(type, y) => \E v, z : z # y /\ ReadValue(before, type) = Result(before, v, z)
    <3>1. before.rest = Then(ValueBytes(type, y), u)
      BY <2>1, <2>2, <2>4, <2>6 DEF Then
    <3> QED
      BY <3>1, ValueRead
  <2>7. Adds(a, n)
    BY <2>1, <2>2, <2>3 DEF Adds
  <2>8. n \notin H => Takes(a, p, x, n)
    BY <2>1, <2>2, <2>4, <2>5, <2>6 DEF Takes
  <2>9. n \in H => Fails(a, p, x, n)
    BY <2>1, <2>2, <2>4, <2>5, <2>6 DEF Fails
  <2> QED
    BY <2>7, <2>8, <2>9
<1>5. UpToFirst(a[N], x, H, N, t)
  <2> HIDE DEF H
  <2>1. p \in Seq(Seq(Byte)) /\ Starts(a, p, N, t)
    BY <1>2, <1>3 DEF Starts
  <2> QED
    BY <1>4, <2>1, ReadsInOrder, Zenon
<1>6. ASSUME H = {} PROVE a[N].read = x /\ a[N].rest = t
  <2>1. \A i \in 1..N : a[N].read[i] = x[i]
    BY <1>5, <1>6 DEF UpToFirst
  <2>2. x = [i \in 1..N |-> x[i]]
    BY DEF N
  <2> QED
    BY <1>5, <1>6, <2>1, <2>2 DEF IsResults, UpToFirst
<1>7. ASSUME H # {} PROVE a[N].read # x
  <2>1. H \subseteq 1..N
    BY DEF Holes, N
  <2>2. PICK k \in H : \A i \in H : k <= i
    BY <1>7, <2>1, LeastOf
  <2>3. k \in 1..N /\ \A j \in 1..k - 1 : j \notin H
    BY <2>1, <2>2
  <2> QED
    BY <1>5, <2>3 DEF UpToFirst
<1>8. Concatenated(p) \in Seq(Byte)
  BY <1>2, AppendedFacts
<1>9. AllRead(type, x, t) = a[N]
  BY DEF AllRead, a, p, N
<1> QED
  BY <1>6, <1>7, <1>8, <1>9 DEF p

LEMMA ListIsBytes ==
    ASSUME NEW type \in Types, NEW x \in Seq(Simple(type)), Len(x) < 256
    PROVE  ListBytes(type, x) \in Seq(Byte)
<1>1. Len(x) \in 0..255
  <2>1. Len(x) \in Nat
    BY LenProperties
  <2>2. \A n \in Nat : n < 256 => n \in 0..255
    OBVIOUS
  <2> QED
    BY <2>1, <2>2, Zenon
<1>2. NumberBytes(Len(x)) \in Seq(Byte)
  BY <1>1, NumberFacts
<1>3. Concatenated(ElementBytes(type, x)) \in Seq(Byte)
  BY EmptySeq, ElementsRead
<1> QED
  BY <1>2, <1>3, ConcatProperties DEF ListBytes

LEMMA ListRead ==
    ASSUME NEW type \in Types, NEW x \in Seq(Simple(type)), Len(x) < 256,
           NEW t \in Seq(Byte), NEW r, r.rest = Then(ListBytes(type, x), t)
    PROVE  /\ Holes(type, x) = {} => ReadList(r, type) = Result(r, t, x)
           /\ Holes(type, x) # {} => \E v, y : y # x /\ ReadList(r, type) = Result(r, v, y)
<1>1. PICK len \in 0..255 : len = Len(x)
  <2>1. Len(x) \in Nat
    BY LenProperties
  <2>2. \A n \in Nat : n < 256 => n \in 0..255
    OBVIOUS
  <2> QED
    BY <2>1, <2>2, Zenon
<1>2. PICK c \in Seq(Byte) : c = Concatenated(ElementBytes(type, x))
  BY ElementsRead
<1>3. PICK size \in Seq(Byte) : size = NumberBytes(len)
  BY NumberFacts
<1>4. PICK end \in Seq(Byte) : end = Then(c, t)
  BY Associative
<1>5. r.rest = Then(size, end)
  <2>1. ListBytes(type, x) = Then(size, c)
    BY <1>1, <1>2, <1>3 DEF ListBytes, Then
  <2> QED
    BY <1>4, <2>1, Associative
<1>6. PICK reader : reader = Reader(r.rest)
  OBVIOUS
<1>7. reader.rest = Then(NumberBytes(len), end) /\ reader.read = <<>>
  BY <1>3, <1>5, <1>6 DEF Reader
<1>8. PICK number : number = ReadNumber(reader)
  OBVIOUS
<1>9. number = Result(reader, end, len)
  BY <1>7, <1>8, NumberRead
<1>10. number.rest = end /\ number.read[1] = len
  BY <1>7, <1>9, FirstResult
<1>11. PICK all : all = AllRead(type, x, t)
  OBVIOUS
<1>12. all = ReadElements(number.rest, type, number.read[1])[number.read[1]]
  BY <1>1, <1>2, <1>4, <1>10, <1>11 DEF AllRead
<1>13. number.read[1] # Garbage("number")
  BY <1>10 DEF Garbage
<1>14. ReadList(r, type) = Result(r, all.rest, all.read)
  BY <1>6, <1>8, <1>12, <1>13 DEF ReadList, Result
<1>15. /\ Holes(type, x) = {} => all.read = x /\ all.rest = t
       /\ Holes(type, x) # {} => all.read # x
  BY <1>11, ElementsRead
<1> QED
  BY <1>14, <1>15

LEMMA ListAdds ==
    ASSUME NEW r, NEW type
    PROVE  \E u, y : ReadList(r, type) = Result(r, u, y)
  BY DEF ReadList, Result
-----------------------------------------------------------------------------
LEMMA IsRead ==
    ASSUME NEW v, IsValue(v)
    PROVE  /\ Bytes(v) \in Seq(Byte)
           /\ \A r, t : t \in Seq(Byte) /\ r.rest = Then(Bytes(v), t) =>
                  /\ ~Holed(v) => Read(r, v) = Result(r, t, v.of)
                  /\ Holed(v) => \E u, y : y # v.of /\ Read(r, v) = Result(r, u, y)
<1>1. PICK type, x : type \in Types /\ type = v.type /\ x = v.of
  BY DEF IsValue, Types
<1>2. CASE v.list
  <2>1. x \in Seq(Simple(type)) /\ Len(x) < 256
    BY <1>1, <1>2 DEF IsValue, Simple
  <2>2. Holed(v) <=> Holes(type, x) # {}
    BY <1>1, <1>2, <2>1 DEF Holed, Holes, Hole
  <2>3. Bytes(v) = ListBytes(type, x) /\ \A r : Read(r, v) = ReadList(r, type)
    BY <1>1, <1>2 DEF Bytes, Read
  <2>4. Bytes(v) \in Seq(Byte)
    BY <1>1, <2>1, <2>3, ListIsBytes
  <2>5. ASSUME NEW r, NEW t \in Seq(Byte), r.rest = Then(Bytes(v), t)
        PROVE  /\ Holes(type, x) = {} => ReadList(r, type) = Result(r, t, x)
               /\ Holes(type, x) # {} => \E u, y : y # x /\ ReadList(r, type) = Result(r, u, y)
    BY <1>1, <2>1, <2>3, <2>5, ListRead
  <2> QED
    BY <1>1, <2>2, <2>3, <2>4, <2>5
<1>3. CASE ~v.list
  <2>1. x \in Simple(type)
    BY <1>1, <1>3 DEF IsValue, Simple
  <2>2. Holed(v) <=> Hole(type, x)
    BY <1>1, <1>3 DEF Holed, Hole
  <2>3. Bytes(v) = ValueBytes(type, x) /\ \A r : Read(r, v) = ReadValue(r, type)
    BY <1>1, <1>3 DEF Bytes, Read
  <2>4. Bytes(v) \in Seq(Byte)
    BY <1>1, <2>1, <2>3, ValueIsBytes
  <2>5. ASSUME NEW r, NEW t \in Seq(Byte), r.rest = Then(Bytes(v), t)
        PROVE  /\ ~Hole(type, x) => ReadValue(r, type) = Result(r, t, x)
               /\ Hole(type, x) => \E u, y : y # x /\ ReadValue(r, type) = Result(r, u, y)
    BY <1>1, <2>1, <2>3, <2>5, ValueRead
  <2> QED
    BY <1>1, <2>2, <2>3, <2>4, <2>5
<1> QED
  BY <1>2, <1>3

(* Whatever is written is read back, up to the first string with a zero    *)
(* byte in it.                                                             *)
THEOREM BodyReadsBack ==
    ASSUME NEW b, IsBody(b)
    PROVE  ReadsBack(b)
<1> DEFINE p == Parts(b)
           N == Len(b)
           H == {i \in DOMAIN b : Holed(b[i])}
           xs == [i \in 1..N |-> b[i].of]
           a == ReadEach(b)
<1>1. N \in Nat /\ DOMAIN b = 1..N /\ \A i \in 1..N : IsValue(b[i])
  BY DEF IsBody
<1>2. /\ p \in Seq(Seq(Byte)) /\ Len(p) = N
      /\ \A i \in 1..N : p[i] = Bytes(b[i])
  <2>1. p = [i \in 1..N |-> Bytes(b[i])]
    BY DEF Parts
  <2>2. \A i \in 1..N : Bytes(b[i]) \in Seq(Byte)
    BY <1>1, IsRead
  <2>3. p \in [1..N -> Seq(Byte)]
    BY <2>1, <2>2
  <2> HIDE DEF p, N
  <2>4. p \in Seq(Seq(Byte)) /\ Len(p) = N
    BY <1>1, <2>3
  <2> QED
    BY <2>1, <2>4
<1>3. /\ a[0] = Reader(Written(b))
      /\ \A n \in 1..N : a[n] = Read(a[n - 1], b[n])
  BY <1>1, ReadEachIs
<1> HIDE DEF a, p, N
<1>4. a[0] = Reader(Then(Concatenated(p), <<>>))
  <2>1. Concatenated(p) \in Seq(Byte)
    BY <1>2, AppendedFacts
  <2>2. Concatenated(p) \o <<>> = Concatenated(p)
    BY <2>1, ConcatEmptySeq
  <2> QED
    BY <1>3, <2>2 DEF Written, Then, p
<1>5. Reads(a, p, xs, H, N)
  <2> SUFFICES ASSUME NEW n \in 1..N
               PROVE  /\ Adds(a, n)
                      /\ n \notin H => Takes(a, p, xs, n)
                      /\ n \in H => Fails(a, p, xs, n)
    BY DEF Reads
  <2>1. a[n] = Read(a[n - 1], b[n]) /\ p[n] = Bytes(b[n]) /\ xs[n] = b[n].of
    BY <1>2, <1>3
  <2>2. n \in H <=> Holed(b[n])
    BY <1>1
  <2> HIDE DEF xs, H
  <2>3. PICK before, v : before = a[n - 1] /\ v = b[n] /\ IsValue(v)
    BY <1>1
  <2>4. \E u, y : Read(before, v) = Result(before, u, y)
    BY ValueAdds, ListAdds DEF Read
  <2>5. ASSUME NEW u \in Seq(Byte), a[n - 1].rest = p[n] \o u
        PROVE  /\ ~Holed(v) => Read(before, v) = Result(before, u, v.of)
               /\ Holed(v) => \E w, y : y # v.of /\ Read(before, v) = Result(before, w, y)
    <3>1. before.rest = Then(Bytes(v), u)
      BY <2>1, <2>3, <2>5 DEF Then
    <3> QED
      BY <2>3, <3>1, IsRead
  <2>6. Adds(a, n)
    BY <2>1, <2>3, <2>4 DEF Adds
  <2>7. n \notin H => Takes(a, p, xs, n)
    BY <2>1, <2>2, <2>3, <2>5 DEF Takes
  <2>8. n \in H => Fails(a, p, xs, n)
    BY <2>1, <2>2, <2>3, <2>5 DEF Fails
  <2> QED
    BY <2>6, <2>7, <2>8
<1>6. UpToFirst(a[N], xs, H, N, <<>>)
  <2> HIDE DEF xs, H
  <2>1. <<>> \in Seq(Byte)
    BY EmptySeq
  <2>2. p \in Seq(Seq(Byte)) /\ Starts(a, p, N, <<>>)
    BY <1>2, <1>4 DEF Starts
  <2> QED
    BY <1>5, <2>1, <2>2, ReadsInOrder, Zenon
<1>7. \A i \in 1..N : xs[i] = b[i].of
  OBVIOUS
<1>8. H \subseteq 1..N
  BY <1>1
<1> HIDE DEF xs, H
<1>9. H = {} => a[N].rest = <<>>
  BY <1>6 DEF UpToFirst
<1>10. ASSUME NEW i \in 1..N, \A j \in H : i < j
       PROVE  a[N].read[i] = b[i].of
  <2>1. \A j \in 1..i : j \notin H
    BY <1>1, <1>10
  <2> QED
    BY <1>6, <1>7, <2>1 DEF UpToFirst
<1>11. ASSUME NEW i \in H, \A j \in H : i <= j
       PROVE  a[N].read[i] # b[i].of
  <2>1. \A j \in 1..i - 1 : j \notin H
    BY <1>1, <1>8, <1>11
  <2> QED
    BY <1>6, <1>7, <1>8, <2>1 DEF UpToFirst
<1>12. ReadBack(b) = a[N]
  BY DEF ReadBack, a, N
<1> QED
  BY <1>1, <1>9, <1>10, <1>11, <1>12 DEF ReadsBack, H
-----------------------------------------------------------------------------
(* A message that was accepted has a length that a message can have.       *)
Sized == \A c \in Conns : \A i \in DOMAIN got[c] : got[c][i].len \in Header..(Header + MaxBody)

LEMMA AcceptSized ==
    ASSUME IndInv, Sized, rpc = "body", NEW w \in BOOLEAN,
           got' = Set(got, cur, Append(got[cur], [len |-> rlen + Header, whole |-> w]))
    PROVE  Sized'
<1>1. TypeOK /\ cur \in Conns
  BY AcceptedIsNext DEF IndInv
<1>2. PICK k \in Nat : k = Len(got[cur]) /\ k < Posted(cur)
  BY AcceptedIsNext
<1>3. rlen + Header \in Header..(Header + MaxBody)
  <2>1. rlen + Header = End(cur, k + 1) - End(cur, k)
    BY <1>2 DEF IndInv, Reading
  <2>2. k + 1 \in 1..Posted(cur) /\ (k + 1) - 1 = k
    <3>1. Posted(cur) \in Nat
      BY <1>1, ConnFacts
    <3> QED
      BY <1>2, <3>1
  <2>3. End(cur, k + 1) - End(cur, (k + 1) - 1) \in Header..(Header + MaxBody)
    BY <1>1, <2>2 DEF IndInv, Stream
  <2> QED
    BY <2>1, <2>2, <2>3
<1>4. ASSUME NEW c \in Conns, NEW i \in DOMAIN got'[c]
      PROVE  got'[c][i].len \in Header..(Header + MaxBody)
  <2>1. CASE c # cur
    <3>1. got'[c] = got[c]
      BY <1>1, <2>1 DEF Set, TypeOK
    <3> QED
      BY <1>4, <3>1 DEF Sized
  <2>2. CASE c = cur
    <3>1. PICK g \in Seq([len : Nat, whole : BOOLEAN]) : g = got[cur] /\ Len(g) = k /\ DOMAIN g = 1..k
      BY <1>1, <1>2, ConnFacts
    <3>2. PICK m : m = [len |-> rlen + Header, whole |-> w]
      OBVIOUS
    <3>3. got'[cur] = Append(g, m)
      BY <1>1, <3>1, <3>2 DEF Set, TypeOK
    <3>4. /\ DOMAIN Append(g, m) = 1..(k + 1) /\ Append(g, m)[k + 1] = m
          /\ \A j \in 1..k : Append(g, m)[j] = g[j]
      BY <3>1, <1>2
    <3>5. CASE i = k + 1
      <4>1. got'[c][i] = m
        BY <2>2, <3>3, <3>4, <3>5
      <4> QED
        BY <1>3, <3>2, <4>1
    <3>6. CASE i # k + 1
      <4>1. i \in DOMAIN g /\ got'[c][i] = g[i]
        BY <1>2, <1>4, <2>2, <3>1, <3>3, <3>4, <3>6
      <4> QED
        BY <1>1, <3>1, <4>1 DEF Sized
    <3> QED
      BY <3>5, <3>6
  <2> QED
    BY <2>1, <2>2
<1> QED
  BY <1>4 DEF Sized

LEMMA SizedStep ==
    ASSUME IndInv, Sized, [Next]_vars
    PROVE  Sized'
<1>1. ASSUME got' = got PROVE Sized'
  BY <1>1 DEF Sized
<1>2. CASE BodyWhole
  <2>1. rpc = "body" /\ got' = Set(got, cur, Append(got[cur], [len |-> rlen + Header, whole |-> TRUE]))
    BY <1>2 DEF BodyWhole, Accept
  <2> QED
    BY <2>1, AcceptSized
<1>3. CASE BodyEnds
  <2>1. rpc = "body" /\ got' = Set(got, cur, Append(got[cur], [len |-> rlen + Header, whole |-> FALSE]))
    BY <1>3 DEF BodyEnds, Accept
  <2> QED
    BY <2>1, AcceptSized
<1>4. ASSUME NEW c \in Conns, SenderStep(c) \/ Die(c) \/ Arrive(c) \/ PollHangup(c)
      PROVE  Sized'
  BY <1>1, <1>4 DEF SenderStep, Connect, Refused, Send, SendSome, SendTooLong, SendFails, Close,
                   Die, Arrive, PollHangup, server
<1>5. ASSUME NEW c \in Conns, NEW n \in Fields[c], Put(c, n)
      PROVE  Sized'
  BY <1>1, <1>5 DEF Put, server
<1>6. CASE Poll \/ RecvHeader \/ HeaderBlocks \/ HeaderEnds \/ RecvBody \/ BodyReset
  BY <1>1, <1>6 DEF Poll, RecvHeader, HeaderBlocks, HeaderEnds, RecvBody, BodyReset
<1>7. CASE CloseServer \/ Again \/ UNCHANGED vars
  BY <1>1, <1>7 DEF CloseServer, Again, vars, server
<1> QED
  BY <1>2, <1>3, <1>4, <1>5, <1>6, <1>7 DEF Next, ServerStep

(* Whatever is inserted into a message that arrives in whole is what the   *)
(* extractions of the same types give back, up to the first string with a  *)
(* zero byte in it: the body has a length for which that holds.            *)
THEOREM MessagesReadBack == Spec => []RoundTrip
<1>1. Init => Sized
  BY DEF Init, Sized
<1>2. IndInv /\ Sized /\ [Next]_vars => Sized'
  BY SizedStep
<1>3. IndInv /\ Sized => RoundTrip
  <2> SUFFICES ASSUME IndInv, Sized, NEW c \in Conns, NEW i \in DOMAIN got[c]
               PROVE  got[c][i].len - Header \in LengthsRead
    BY DEF RoundTrip
  <2>1. Header \in Nat /\ MaxBody \in Nat
    BY FramingAssumption
  <2>2. PICK l \in Header..(Header + MaxBody) : l = got[c][i].len
    BY DEF Sized
  <2>3. l - Header \in 0..MaxBody
    BY <2>1, <2>2
  <2>4. \A b \in Bodies : ReadsBack(b)
    BY BodiesAssumption, BodyReadsBack
  <2> QED
    BY <2>2, <2>3, <2>4 DEF LengthsRead
<1> QED
  BY <1>1, <1>2, <1>3, Invariance, PTL DEF Spec
=============================================================================
