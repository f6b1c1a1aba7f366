------------------------------ MODULE Framing ------------------------------
(***************************************************************************)
(* Message over Socket: a message is a buffer that begins with its length, *)
(* written in chunks to a stream and read back, first the length and then  *)
(* the rest, by a server that polls its connections one after the other.   *)
(* The stream is reliable, but bytes arrive in portions of any size.       *)
(*                                                                         *)
(* The bytes of a connection are counted and not stored: what the receiver *)
(* reads follows from the position it reads at.                            *)
(***************************************************************************)
EXTENDS Integers, Sequences

CONSTANTS
    Conns,          \* the connections, one sender each
    Mortal,         \* the senders that may be killed at any time
    Fields,         \* per connection: the sizes of what << and put append
    MaxMessages,    \* per connection: bound on the messages it sends
    MaxBody,        \* bound on the bytes of a message after its length
    PathLimit,      \* per connection: the longest chunk the path takes
    Header,         \* sizeof(size_t)
    BufferSize,     \* Message::_DEFAULT_BUFFER_SIZE
    SyscallSize,    \* Socket::_INITIAL_SYSCALL_SIZE
    MaxMTU,         \* Socket::_MAX_MTU
    LargeMTU,       \* 8000: above it _resizeMTU goes down one by one
    SmallMTU        \* 512: what comes below LargeMTU

None == "none"

ASSUME FramingAssumption ==
    /\ None \notin Conns
    /\ Header \in Nat \ {0} /\ Fields \in [Conns -> SUBSET (Nat \ {0})] /\ MaxBody \in Nat
    /\ BufferSize \in Nat /\ BufferSize >= Header
    /\ SmallMTU \in Nat \ {0} /\ LargeMTU \in Nat /\ MaxMTU \in Nat
    /\ SmallMTU < LargeMTU /\ LargeMTU <= MaxMTU
    /\ SyscallSize \in Nat /\ MaxMTU <= SyscallSize
    /\ MaxMessages \in [Conns -> Nat] /\ PathLimit \in [Conns -> Nat \ {0}]
    /\ Mortal \subseteq Conns

VARIABLES
    msg,        \* the sender's Message: _allocLen and the cursor _buf
    left,       \* Socket::send: what is left of it
    chunk,      \* Socket::send: maxLen
    mtu,        \* Socket::_MTU of the sender's process
    ends,       \* where each message sent so far ends in the stream
    sent, arrived, taken,   \* bytes given to the stream, arrived, received
    up,         \* the sender: "alive", "closed" or "dead"
    conn,       \* the server's end
    rpc,        \* the server: "poll", "header", "body" or "closed"
    cur,        \* the connection it reads
    need,       \* Socket::recv: len
    rmsg, rlen, \* the server's Message and the length it has received
    got         \* the messages accepted

sender == <<msg, left, chunk, mtu, ends>>
server == <<rpc, cur, need, rmsg, rlen, got>>
vars == <<sender, sent, arrived, taken, up, conn, server>>

Least(x, y) == IF x < y THEN x ELSE y
Set(f, c, v) == [f EXCEPT ![c] = v]

(* Where message i of a connection ends; message 0 ends at the beginning. *)
End(c, i) == IF i = 0 THEN 0 ELSE ends[c][i]
Posted(c) == Len(ends[c])
-----------------------------------------------------------------------------
(* Message *)

(* Message(): room for the length is kept. *)
Fresh == [alloc |-> BufferSize, cur |-> Header]

(* Mutant: the bytes before the cursor count as room. *)
Fit_Whole(m, n) ==
    IF m.alloc < n
    THEN [m EXCEPT !.alloc = @ + (IF n < BufferSize THEN BufferSize ELSE n)]
    ELSE m

(* _fit *)
Fit(m, n) ==
    IF m.alloc - m.cur < n
    THEN [m EXCEPT !.alloc = @ + (IF n < BufferSize THEN BufferSize ELSE n)]
    ELSE m

Init ==
    /\ msg = [c \in Conns |-> Fresh] /\ left = [c \in Conns |-> 0]
    /\ chunk = [c \in Conns |-> SyscallSize] /\ mtu = [c \in Conns |-> MaxMTU]
    /\ ends = [c \in Conns |-> <<>>]
    /\ sent = [c \in Conns |-> 0] /\ arrived = [c \in Conns |-> 0]
    /\ taken = [c \in Conns |-> 0]
    /\ up = [c \in Conns |-> "alive"] /\ conn = [c \in Conns |-> None]
    /\ rpc = "poll" /\ cur = None /\ need = 0 /\ rmsg = Fresh /\ rlen = 0
    /\ got = [c \in Conns |-> <<>>]
-----------------------------------------------------------------------------
(* The sender. *)

Free(c) == up[c] = "alive" /\ left[c] = 0 /\ Posted(c) < MaxMessages[c]

(* Socket(addr) *)
Connect(c) == /\ up[c] = "alive" /\ conn[c] = None /\ rpc # "closed"
              /\ conn' = Set(conn, c, "backlog")
              /\ UNCHANGED <<sender, sent, arrived, taken, up, server>>

(* connect() to a server that has closed: the exception ends the sender. *)
Refused(c) == /\ up[c] = "alive" /\ conn[c] = None /\ rpc = "closed"
              /\ up' = Set(up, c, "dead")
              /\ UNCHANGED <<sender, sent, arrived, taken, conn, server>>

(* put, operator<<; a vector or list is its size and its elements. *)
Put(c, n) == /\ Free(c) /\ conn[c] # None /\ msg[c].cur + n <= Header + MaxBody
             /\ msg' = Set(msg, c, [Fit(msg[c], n) EXCEPT !.cur = @ + n])
             /\ UNCHANGED <<left, chunk, mtu, ends, sent, arrived, taken, up, conn,
                            server>>

(* Message::send: the length includes that of the length. *)
Send(c) == /\ Free(c) /\ conn[c] # None
           /\ left' = Set(left, c, msg[c].cur)
           /\ chunk' = Set(chunk, c, SyscallSize)
           /\ ends' = Set(ends, c, Append(ends[c], End(c, Posted(c)) + msg[c].cur))
           /\ UNCHANGED <<msg, mtu, sent, arrived, taken, up, conn, server>>

(* One turn of Socket::send; the stream may take less than it is offered.  *)
(* The next message is a new Message.                                      *)
SendSome(c) ==
    /\ up[c] = "alive" /\ left[c] > 0 /\ Least(left[c], chunk[c]) <= PathLimit[c]
    /\ \E n \in 1..Least(left[c], chunk[c]) :
          /\ sent' = Set(sent, c, sent[c] + n)
          /\ left' = Set(left, c, left[c] - n)
          /\ msg' = IF n = left[c] THEN Set(msg, c, Fresh) ELSE msg
    /\ UNCHANGED <<chunk, mtu, ends, arrived, taken, up, conn, server>>

(* Mutant: the chunk that was too long is not looked at. *)
Resized_Always(m, old) ==
    IF (m <= MaxMTU /\ m > LargeMTU) \/ m <= SmallMTU THEN m - 1 ELSE SmallMTU

(* _resizeMTU *)
Resized(m, old) ==
    IF old > m THEN m
    ELSE IF (m <= MaxMTU /\ m > LargeMTU) \/ m <= SmallMTU THEN m - 1
    ELSE SmallMTU

(* EMSGSIZE *)
SendTooLong(c) ==
    /\ up[c] = "alive" /\ left[c] > 0 /\ Least(left[c], chunk[c]) > PathLimit[c]
    /\ mtu' = Set(mtu, c, Resized(mtu[c], chunk[c]))
    /\ chunk' = Set(chunk, c, mtu'[c])
    /\ UNCHANGED <<msg, left, ends, sent, arrived, taken, up, conn, server>>

(* The server has closed the connection: the exception ends the sender. *)
SendFails(c) == /\ up[c] = "alive" /\ left[c] > 0 /\ conn[c] \in {"ended", "split", "closed"}
                /\ up' = Set(up, c, "dead")
                /\ UNCHANGED <<sender, sent, arrived, taken, conn, server>>

(* Socket::close, when the sender has said everything. *)
Close(c) == /\ up[c] = "alive" /\ left[c] = 0 /\ conn[c] # None /\ Posted(c) = MaxMessages[c]
            /\ up' = Set(up, c, "closed")
            /\ UNCHANGED <<sender, sent, arrived, taken, conn, server>>

Die(c) == /\ c \in Mortal /\ up[c] = "alive" /\ conn[c] # None
          /\ up' = Set(up, c, "dead")
          /\ UNCHANGED <<sender, sent, arrived, taken, conn, server>>

(* The stream brings some of what is on its way. *)
Arrive(c) == /\ \E n \in (arrived[c] + 1)..sent[c] : arrived' = Set(arrived, c, n)
             /\ UNCHANGED <<sender, sent, taken, up, conn, server>>
-----------------------------------------------------------------------------
(* The server. *)

Waiting(c) == arrived[c] - taken[c]
EndOfFile(c) == up[c] # "alive" /\ arrived[c] = sent[c] /\ Waiting(c) = 0
Backlog == {c \in Conns : conn[c] = "backlog"}
Readable == {c \in Conns : conn[c] = "open" /\ (Waiting(c) > 0 \/ EndOfFile(c))}

(* pollOrAcceptOrTimeout: at most one connection is accepted, and one that *)
(* can be read goes before it.                                             *)
Poll ==
    /\ rpc = "poll" /\ Backlog \union Readable # {}
    /\ \E a \in IF Backlog = {} THEN {None} ELSE Backlog :
          /\ conn' = IF a = None THEN conn ELSE Set(conn, a, "open")
          /\ cur' \in IF Readable = {} THEN {a} ELSE Readable
    /\ rpc' = "header" /\ need' = Header /\ rmsg' = Fresh
    /\ UNCHANGED <<sender, sent, arrived, taken, up, rlen, got>>

(* Mutant: the hang-up is looked at before POLLIN. *)
PollHangup_First(c) ==
    /\ rpc = "poll" /\ conn[c] = "open" /\ up[c] = "dead"
    /\ conn' = Set(conn, c, "ended")
    /\ UNCHANGED <<sender, sent, arrived, taken, up, server>>

(* POLLHUP or POLLERR without POLLIN: the connection is closed at once. *)
PollHangup(c) ==
    /\ rpc = "poll" /\ conn[c] = "open" /\ up[c] = "dead" /\ EndOfFile(c)
    /\ conn' = Set(conn, c, "ended")
    /\ UNCHANGED <<sender, sent, arrived, taken, up, server>>

(* What is in the stream where a length is expected. *)
LengthsAt(c, p) ==
    IF \E i \in 1..Posted(c) : End(c, i - 1) = p
    THEN {ends[c][CHOOSE i \in 1..Posted(c) : End(c, i - 1) = p] - p}
    ELSE Header..(Header + MaxBody)

(* Message::recv, when the length n is complete. *)
HeaderWhole(n) ==
    /\ rlen' = n - Header /\ need' = n - Header /\ rmsg' = Fit(rmsg, n - Header)
    /\ rpc' = "body"

(* Socket::recv: one system call. *)
RecvHeader ==
    /\ rpc = "header" /\ Waiting(cur) > 0
    /\ LET n == Least(need, Waiting(cur)) IN
       /\ taken' = Set(taken, cur, taken[cur] + n)
       /\ IF n < need THEN need' = need - n /\ UNCHANGED <<rlen, rmsg, rpc>>
          ELSE \E l \in LengthsAt(cur, taken[cur] + n - Header) : HeaderWhole(l)
    /\ UNCHANGED <<sender, sent, arrived, up, conn, cur, got>>

(* Back to the caller's loop; the caller disposes of a connection whose    *)
(* recv threw.                                                             *)
BackToPoll(state) ==
    /\ rpc' = "poll" /\ need' = 0 /\ conn' = Set(conn, cur, state)
    /\ cur' = None /\ rlen' = 0 /\ rmsg' = Fresh

(* Mutant: a length that came in part is "no data yet". *)
HeaderBlocks_NoData ==
    /\ rpc = "header" /\ Waiting(cur) = 0 /\ ~EndOfFile(cur)
    /\ BackToPoll("open")
    /\ UNCHANGED <<sender, sent, arrived, taken, up, got>>

(* EAGAIN with returnOnBlock: nothing has come, or only part of the        *)
(* length, which is taken for a failure.                                   *)
HeaderBlocks ==
    /\ rpc = "header" /\ Waiting(cur) = 0 /\ ~EndOfFile(cur)
    /\ BackToPoll(IF need = Header THEN "open" ELSE "split")
    /\ UNCHANGED <<sender, sent, arrived, taken, up, got>>

(* Mutant: end of file is "no data yet". *)
HeaderEnds_Stays == /\ rpc = "header" /\ EndOfFile(cur)
                    /\ BackToPoll("open")
                    /\ UNCHANGED <<sender, sent, arrived, taken, up, got>>

HeaderEnds == /\ rpc = "header" /\ EndOfFile(cur)
              /\ BackToPoll("ended")
              /\ UNCHANGED <<sender, sent, arrived, taken, up, got>>

RecvBody ==
    /\ rpc = "body" /\ need > 0 /\ Waiting(cur) > 0
    /\ LET n == Least(need, Waiting(cur)) IN
       /\ taken' = Set(taken, cur, taken[cur] + n)
       /\ need' = need - n
    /\ UNCHANGED <<sender, sent, arrived, up, conn, rpc, cur, rmsg, rlen, got>>

Accept(whole) == got' = Set(got, cur, Append(got[cur], [len |-> rlen + Header, whole |-> whole]))

BodyWhole == /\ rpc = "body" /\ need = 0
             /\ Accept(TRUE) /\ BackToPoll("open")
             /\ UNCHANGED <<sender, sent, arrived, taken, up>>

(* End of file is -1lu, which is not -1u: the message is accepted. *)
BodyEnds == /\ rpc = "body" /\ need > 0 /\ EndOfFile(cur)
            /\ Accept(FALSE) /\ BackToPoll("open")
            /\ UNCHANGED <<sender, sent, arrived, taken, up>>

(* ECONNRESET instead of end of file: Socket::recv throws. *)
BodyReset == /\ rpc = "body" /\ need > 0 /\ up[cur] = "dead" /\ EndOfFile(cur)
             /\ BackToPoll("ended")
             /\ UNCHANGED <<sender, sent, arrived, taken, up, got>>

(* Socket::close of the server closes its connections. *)
CloseServer == /\ rpc = "poll"
               /\ rpc' = "closed"
               /\ conn' = [c \in Conns |-> IF conn[c] \in {"backlog", "open"} THEN "closed"
                                           ELSE conn[c]]
               /\ UNCHANGED <<sender, sent, arrived, taken, up, cur, need, rmsg, rlen, got>>

(* poll times out, or recv of a body is called again at once. *)
Again == /\ \/ rpc = "poll" /\ Backlog \union Readable = {}
            \/ rpc = "body" /\ need > 0 /\ Waiting(cur) = 0 /\ ~EndOfFile(cur)
            \/ rpc = "closed"
         /\ UNCHANGED vars
-----------------------------------------------------------------------------
SenderStep(c) == \/ Connect(c) \/ Refused(c) \/ Send(c) \/ SendSome(c)
                 \/ SendTooLong(c) \/ SendFails(c) \/ Close(c)
ServerStep == \/ Poll \/ RecvHeader \/ HeaderBlocks \/ HeaderEnds \/ RecvBody
              \/ BodyWhole \/ BodyEnds \/ BodyReset
Next == \/ ServerStep \/ CloseServer \/ Again
        \/ \E c \in Conns : \/ SenderStep(c) \/ Die(c) \/ Arrive(c) \/ PollHangup(c)
                            \/ \E n \in Fields[c] : Put(c, n)

(* Senders that are not killed go on, what is on its way arrives, and the  *)
(* server polls until it is closed.                                        *)
Spec == /\ Init /\ [][Next]_vars
        /\ WF_vars(ServerStep)
        /\ \A c \in Conns : WF_vars(SenderStep(c)) /\ WF_vars(Arrive(c))
-----------------------------------------------------------------------------
Buffers == [alloc : Nat, cur : Nat]

TypeOK ==
    /\ msg \in [Conns -> Buffers] /\ left \in [Conns -> Nat]
    /\ chunk \in [Conns -> Nat] /\ mtu \in [Conns -> Nat]
    /\ ends \in [Conns -> Seq(Nat)]
    /\ sent \in [Conns -> Nat] /\ arrived \in [Conns -> Nat] /\ taken \in [Conns -> Nat]
    /\ up \in [Conns -> {"alive", "closed", "dead"}]
    /\ conn \in [Conns -> {None, "backlog", "open", "ended", "split", "closed"}]
    /\ rpc \in {"poll", "header", "body", "closed"} /\ need \in Nat
    /\ cur \in Conns \union {None} /\ (rpc \in {"header", "body"} => cur \in Conns)
    /\ rmsg \in Buffers /\ rlen \in Nat
    /\ got \in [Conns -> Seq([len : Nat, whole : BOOLEAN])]

(* Neither end writes past its buffer: a message under construction ends   *)
(* inside it, and what is still to be received fits behind the length.     *)
BuffersFit ==
    /\ TypeOK
    /\ \A c \in Conns : msg[c].cur <= msg[c].alloc
    /\ rpc = "body" => rmsg.cur + rlen <= rmsg.alloc

InPlace(c) ==
    LET n == Len(got[c]) IN
    /\ n <= Posted(c)
    /\ c # cur => taken[c] = End(c, n)
    /\ c = cur /\ rpc = "header" => taken[c] + need = End(c, n) + Header
    /\ c = cur /\ rpc = "body" => n < Posted(c) /\ taken[c] + need = End(c, n + 1)
AllTaken(c) == \A i \in 1..Posted(c) : sent[c] >= ends[c][i] => i <= Len(got[c])

(* The receiver never loses its place: on an open connection it stands at  *)
(* the end of the last message it accepted, unless it is busy with the     *)
(* next one, and then what it still needs ends where the length or the     *)
(* body ends.  And a connection that ends at its end of file has delivered *)
(* every message that was sent completely.                                 *)
Aligned ==
    \A c \in Conns :
        /\ conn[c] = "open" /\ (\A i \in DOMAIN got[c] : got[c][i].whole) => InPlace(c)
        /\ conn[c] = "ended" => AllTaken(c)

(* The largest chunk of the schedule of _resizeMTU that the path takes. *)
Usable(c) == CHOOSE n \in (LargeMTU..MaxMTU) \union (1..SmallMTU) :
                /\ n <= PathLimit[c]
                /\ \A k \in (LargeMTU..MaxMTU) \union (1..SmallMTU) :
                      k <= PathLimit[c] => k <= n

(* _MTU goes down only as far as it must, whatever the order in which      *)
(* chunks of the old and of the new size fail.                             *)
MTUExact == \A c \in Conns : mtu[c] >= Usable(c)

(* Users see messages, not bytes: Framing implements Channel. *)
Users == INSTANCE Channel WITH
            Lengths <- Header..(Header + MaxBody),
            posted <- [c \in Conns |-> [i \in 1..Posted(c) |-> ends[c][i] - End(c, i - 1)]],
            alive <- {c \in Conns : up[c] # "dead"}
ImplementsChannel == Users!Spec

(* A sender that has closed its socket is read to the end of file, or its  *)
(* connection has broken at a length that came in pieces, or the server    *)
(* was closed first.                                                       *)
Drains == \A c \in Conns : up[c] = "closed" ~> conn[c] \in {"ended", "split", "closed"}

(* Message::recv throws "Failed to receive" if the end of file comes       *)
(* before the end of the message: no message that is accepted is cut.      *)
FailedReceiveThrows == \A c \in Conns : \A i \in DOMAIN got[c] : got[c][i].whole
=============================================================================
