------------------------------ MODULE Channel ------------------------------
(***************************************************************************)
(* What Message and Socket promise to their users, connection by           *)
(* connection: messages arrive whole, once, unchanged and in the order in  *)
(* which they were sent, until the connection ends.  The one exception: of *)
(* a sender that dies, the last message may come out cut short.            *)
(***************************************************************************)
EXTENDS Integers, Sequences

CONSTANTS Conns,    \* the connections
          Lengths   \* the lengths of messages

VARIABLES posted,   \* the messages whose sending has begun, by length
          got,      \* what the receiver has taken for a message
          alive     \* the senders that have not died

vars == <<posted, got, alive>>

Whole(n) == [len |-> n, whole |-> TRUE]
CutOff(n) == [len |-> n, whole |-> FALSE]

Init == /\ posted = [c \in Conns |-> <<>>]
        /\ got = [c \in Conns |-> <<>>]
        /\ alive = Conns

Post(c) == /\ c \in alive
           /\ \E n \in Lengths : posted' = [posted EXCEPT ![c] = Append(@, n)]
           /\ UNCHANGED <<got, alive>>

(* The next message, and none after one that was cut short. *)
Receive(c) ==
    /\ Len(got[c]) < Len(posted[c])
    /\ \A i \in DOMAIN got[c] : got[c][i].whole
    /\ LET n == posted[c][Len(got[c]) + 1] IN
       \/ got' = [got EXCEPT ![c] = Append(@, Whole(n))]
       \/ /\ c \notin alive /\ Len(got[c]) + 1 = Len(posted[c])
          /\ got' = [got EXCEPT ![c] = Append(@, CutOff(n))]
    /\ UNCHANGED <<posted, alive>>

Die(c) == alive' = alive \ {c} /\ UNCHANGED <<posted, got>>

Next == \E c \in Conns : Post(c) \/ Receive(c) \/ Die(c)

Spec == Init /\ [][Next]_vars
=============================================================================
