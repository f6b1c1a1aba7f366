------------------------------- MODULE Events -------------------------------
(***************************************************************************)
(* The data plane of distributed tests: dtest_notify, dtest_wait,          *)
(* dtest_send_msg and dtest_recv_msg between the driver's and the workers' *)
(* bodies, over several tests in a row (rounds).                           *)
(*                                                                         *)
(* The driver's body runs in a child of the driver, a worker's body in a   *)
(* child of the worker.  A child starts with a copy of its parent's event  *)
(* counters and shares its sockets; what it read is gone with it, what it  *)
(* did not read stays.  A driver reaches a worker over one connection per  *)
(* test; every event of a worker travels on a connection of its own to the *)
(* driver's listening socket, which lives as long as the driver.           *)
(***************************************************************************)
EXTENDS Naturals, Sequences, FiniteSets

CONSTANTS
    Workers,        \* worker ids
    Scenarios       \* the series of tests considered

(* The operations of a body; n = 0 is dtest_wait() without a number. *)
Notify == [op |-> "notify"]
Wait(n) == [op |-> "wait", n |-> n]
Send == [op |-> "send"]
Recv == [op |-> "recv"]
Operations == {Notify, Send, Recv} \union [op : {"wait"}, n : Nat]

(* alloc: the workers of each round.  driver, worker: the operations of    *)
(* the bodies, per round.  remote: the workers that live on after a test.  *)
(* dtimeout, wtimeout: a body of the driver, of a worker, may be killed by *)
(* its deadline.                                                           *)
ASSUME EventsAssumption ==
    /\ IsFiniteSet(Workers)
    /\ \A s \in Scenarios :
          /\ s.remote \subseteq Workers
          /\ s.alloc \in Seq(SUBSET Workers) /\ Len(s.alloc) > 0
          /\ s.driver \in Seq(Seq(Operations)) /\ s.worker \in Seq(Seq(Operations))
          /\ Len(s.driver) = Len(s.alloc) /\ Len(s.worker) = Len(s.alloc)
          /\ s.dtimeout \in BOOLEAN /\ s.wtimeout \in BOOLEAN

VARIABLES
    sc,         \* the scenario
    round,      \* the test being run
    dpc,        \* the driver's body: "body", "waiting" in wait(), or "over"
    dpos,       \* its next operation
    dcount,     \* WorkerHandle::_notifyCount, in the driver's child
    dmsgs,      \* DriverContext::_userMessages there
    pulled,     \* the local variable of wait()
    pulls,      \* how often each worker was pulled in this round
    inbox,      \* events on their way to the driver
    accepted,   \* those whose connection its child has accepted
    wpc,        \* a worker: "main", "body" or "done"
    wpos,       \* the next operation of its body
    wcount,     \* WorkerContext::_notifyCount, in the worker's child
    wmsgs,      \* WorkerContext::_userMessages there
    mcount,     \* the same two in the worker itself
    mmsgs,
    chan,       \* the connections of each round from the driver
    got         \* the messages each worker's body received in this round

driver == <<dpc, dpos, dcount, dmsgs, pulled, pulls>>
wchild == <<wpc, wpos, wcount, wmsgs, got>>
vars == <<sc, round, driver, inbox, accepted, wchild, mcount, mmsgs, chan>>

Alloc == sc.alloc
DriverScript == sc.driver
WorkerScript == sc.worker
Remote == sc.remote
Rounds == 1..Len(Alloc)
allocated == Alloc[round]

(* Messages; which body sent them, and where, is not part of them. *)
Event(k, w) == [kind |-> k, id |-> w, round |-> round, pos |-> wpos[w]]
ToWorker(k) == [kind |-> k, round |-> round, pos |-> dpos]

Phantom == "end()"          \* what *_allocatedWorkers.end() reads like

Init == /\ sc \in Scenarios /\ round = 1
        /\ dpc = "body" /\ dpos = 1
        /\ dcount = [w \in Workers |-> 0] /\ dmsgs = <<>>
        /\ pulled = {} /\ pulls = [w \in Workers |-> 0]
        /\ inbox = {} /\ accepted = {}
        /\ wpc = [w \in Workers |-> IF w \in allocated THEN "main" ELSE "done"]
        /\ wpos = [w \in Workers |-> 1]
        /\ wcount = [w \in Workers |-> 0] /\ wmsgs = [w \in Workers |-> <<>>]
        /\ mcount = [w \in Workers |-> 0] /\ mmsgs = [w \in Workers |-> <<>>]
        /\ chan = [w \in Workers |-> [r \in Rounds |->
                        IF r = 1 /\ w \in allocated
                        THEN <<[kind |-> "RUN_TEST", round |-> 1, pos |-> 0]>>
                        ELSE <<>>]]
        /\ got = [w \in Workers |-> <<>>]
-----------------------------------------------------------------------------
(* The driver's body. *)

DOp(op) == /\ dpos <= Len(DriverScript[round])
           /\ DriverScript[round][dpos].op = op

DNext == dpos' = dpos + 1

ToAll(k) == chan' = [w \in Workers |->
                IF w \in allocated
                THEN [chan[w] EXCEPT ![round] = Append(@, ToWorker(k))]
                ELSE chan[w]]

(* DriverContext::notify and sendUserMessage *)
DNotify == /\ dpc = "body" /\ DOp("notify")
           /\ ToAll("NOTIFY") /\ DNext
           /\ UNCHANGED <<sc, round, dpc, dcount, dmsgs, pulled, pulls, inbox, accepted,
                          wchild, mcount, mmsgs>>

DSend == /\ dpc = "body" /\ DOp("send")
         /\ ToAll("USER_MESSAGE") /\ DNext
         /\ UNCHANGED <<sc, round, dpc, dcount, dmsgs, pulled, pulls, inbox, accepted,
                        wchild, mcount, mmsgs>>

Needed == LET n == DriverScript[round][dpos].n
          IN  IF n = 0 THEN Cardinality(allocated) ELSE n

(* wait(): first the notifications that are there already, at most one of  *)
(* each worker, in hash order.                                             *)
DWait == /\ dpc = "body" /\ DOp("wait")
         /\ LET there == {w \in allocated : dcount[w] > 0} IN
            \E S \in SUBSET there :
               /\ Cardinality(S) <= Needed
               /\ Cardinality(S) = Needed \/ S = there
               /\ pulled' = S
               /\ dcount' = [w \in Workers |-> IF w \in S THEN dcount[w] - 1 ELSE dcount[w]]
               /\ pulls' = [w \in Workers |-> IF w \in S THEN pulls[w] + 1 ELSE pulls[w]]
         /\ dpc' = "waiting"
         /\ UNCHANGED <<sc, round, dpos, dmsgs, inbox, accepted, wchild, mcount, mmsgs, chan>>

(* Mutant: one notification is enough. *)
DWaitEnd_First == /\ dpc = "waiting" /\ pulled # {}
                  /\ dpc' = "body" /\ pulled' = {} /\ DNext
                  /\ UNCHANGED <<sc, round, dcount, dmsgs, pulls, inbox, accepted, wchild,
                                 mcount, mmsgs, chan>>

(* wait() returns, once the set has the size asked for. *)
DWaitEnd == /\ dpc = "waiting" /\ Cardinality(pulled) = Needed
            /\ dpc' = "body" /\ pulled' = {} /\ DNext
            /\ UNCHANGED <<sc, round, dcount, dmsgs, pulls, inbox, accepted, wchild,
                           mcount, mmsgs, chan>>

(* getUserMessage() *)
DRecv == /\ dpc = "body" /\ DOp("recv") /\ dmsgs # <<>>
         /\ dmsgs' = Tail(dmsgs) /\ DNext
         /\ UNCHANGED <<sc, round, dpc, dcount, pulled, pulls, inbox, accepted, wchild,
                        mcount, mmsgs, chan>>

(* The driver's child is in _waitForEvent. *)
Polling == \/ dpc = "waiting" /\ Cardinality(pulled) # Needed
           \/ dpc = "body" /\ DOp("recv") /\ dmsgs = <<>>

(* A connection is accepted, and another one read first. *)
DAccept(m) == /\ Polling /\ m \in inbox \ accepted
              /\ accepted' = accepted \union {m}
              /\ UNCHANGED <<sc, round, driver, inbox, wchild, mcount, mmsgs, chan>>

(* Mutant: a pulled notification is not taken off the count. *)
Pull_KeepsCount(w, c) ==
    IF dpc = "waiting" /\ c > 0 /\ w \notin pulled
    THEN /\ dcount' = [dcount EXCEPT ![w] = c]
         /\ pulled' = pulled \union {w}
         /\ pulls' = [pulls EXCEPT ![w] = @ + 1]
    ELSE /\ dcount' = [dcount EXCEPT ![w] = c]
         /\ UNCHANGED <<pulled, pulls>>

(* What wait() does after an event of worker w, c being its new count. *)
Pull(w, c) ==
    IF dpc = "waiting" /\ c > 0 /\ w \notin pulled
    THEN /\ dcount' = [dcount EXCEPT ![w] = c - 1]
         /\ pulled' = pulled \union {w}
         /\ pulls' = [pulls EXCEPT ![w] = @ + 1]
    ELSE /\ dcount' = [dcount EXCEPT ![w] = c]
         /\ UNCHANGED <<pulled, pulls>>

(* Mutant: notifications are counted in wait() only. *)
DRecvNotify_InWait(m) ==
    /\ Polling /\ m \in inbox /\ m.kind = "NOTIFY"
    /\ inbox' = inbox \ {m} /\ accepted' = accepted \ {m}
    /\ IF m.id \in allocated /\ dpc = "waiting"
       THEN Pull(m.id, dcount[m.id] + 1)
       ELSE UNCHANGED <<dcount, pulled, pulls>>
    /\ UNCHANGED <<sc, round, dpc, dpos, dmsgs, wchild, mcount, mmsgs, chan>>

(* A NOTIFY of a worker that is not allocated is dropped. *)
DRecvNotify(m) ==
    /\ Polling /\ m \in inbox /\ m.kind = "NOTIFY"
    /\ inbox' = inbox \ {m} /\ accepted' = accepted \ {m}
    /\ IF m.id \in allocated THEN Pull(m.id, dcount[m.id] + 1)
                             ELSE UNCHANGED <<dcount, pulled, pulls>>
    /\ UNCHANGED <<sc, round, dpc, dpos, dmsgs, wchild, mcount, mmsgs, chan>>

(* A USER_MESSAGE is queued whoever sent it.  In wait(), the sender is     *)
(* then looked up and used without a check: for one that is not allocated  *)
(* that reads *end(), which may pass for a worker or crash the body.       *)
DRecvMessage(m) ==
    /\ Polling /\ m \in inbox /\ m.kind = "USER_MESSAGE"
    /\ dmsgs' = Append(dmsgs, m)
    /\ \/ /\ m.id \in allocated \/ dpc = "body"
          /\ IF m.id \in allocated THEN Pull(m.id, dcount[m.id])
                                   ELSE UNCHANGED <<dcount, pulled, pulls>>
          /\ UNCHANGED dpc
          /\ inbox' = inbox \ {m} /\ accepted' = accepted \ {m}
       \/ /\ m.id \notin allocated /\ dpc = "waiting"
          /\ pulled' \in {pulled, pulled \union {Phantom}}
          /\ UNCHANGED <<dpc, dcount, pulls>>
          /\ inbox' = inbox \ {m} /\ accepted' = accepted \ {m}
       \/ /\ m.id \notin allocated /\ dpc = "waiting"
          /\ dpc' = "over" /\ accepted' = {} /\ inbox' = inbox \ (accepted \union {m})
          /\ UNCHANGED <<dcount, pulled, pulls>>
    /\ UNCHANGED <<sc, round, dpos, wchild, mcount, mmsgs, chan>>

(* The driver's child is gone, and with it the connections it accepted. *)
DGone == dpc' = "over" /\ inbox' = inbox \ accepted /\ accepted' = {}

DEnd == /\ dpc = "body" /\ dpos > Len(DriverScript[round])
        /\ DGone
        /\ UNCHANGED <<sc, round, dpos, dcount, dmsgs, pulled, pulls, wchild, mcount,
                       mmsgs, chan>>

DTimeout == /\ sc.dtimeout /\ dpc # "over"
            /\ DGone
            /\ UNCHANGED <<sc, round, dpos, dcount, dmsgs, pulled, pulls, wchild, mcount,
                           mmsgs, chan>>
-----------------------------------------------------------------------------
(* The workers. *)

WOp(w, op) == /\ wpos[w] <= Len(WorkerScript[round])
              /\ WorkerScript[round][wpos[w]].op = op

WNext(w) == wpos' = [wpos EXCEPT ![w] = @ + 1]

Readable(w, r) == chan[w][r] # <<>>
Read(w, r) == chan' = [chan EXCEPT ![w][r] = Tail(@)]

(* RUN_TEST: the worker's child starts from the worker's own counters. *)
WBegin(w, r) == /\ wpc[w] = "main"
                /\ Readable(w, r) /\ Head(chan[w][r]).kind = "RUN_TEST"
                /\ Read(w, r)
                /\ wpc' = [wpc EXCEPT ![w] = "body"]
                /\ wpos' = [wpos EXCEPT ![w] = 1]
                /\ wcount' = [wcount EXCEPT ![w] = mcount[w]]
                /\ wmsgs' = [wmsgs EXCEPT ![w] = mmsgs[w]]
                /\ got' = [got EXCEPT ![w] = <<>>]
                /\ UNCHANGED <<sc, round, driver, inbox, accepted, mcount, mmsgs>>

(* Between tests a worker reads what its child left. *)
WMainEvent(w, r) ==
    /\ wpc[w] \in {"main", "done"} /\ w \in Remote
    /\ Readable(w, r) /\ Head(chan[w][r]).kind # "RUN_TEST"
    /\ Read(w, r)
    /\ IF Head(chan[w][r]).kind = "NOTIFY"
       THEN mcount' = [mcount EXCEPT ![w] = @ + 1] /\ UNCHANGED mmsgs
       ELSE mmsgs' = [mmsgs EXCEPT ![w] = Append(@, Head(chan[w][r]))] /\ UNCHANGED mcount
    /\ UNCHANGED <<sc, round, driver, inbox, accepted, wchild>>

(* WorkerContext::notify and sendUserMessage *)
WSend(w, op, k) == /\ wpc[w] = "body" /\ WOp(w, op)
                   /\ inbox' = inbox \union {Event(k, w)}
                   /\ WNext(w)
                   /\ UNCHANGED <<sc, round, driver, accepted, wpc, wcount, wmsgs, got,
                                  mcount, mmsgs, chan>>

WNeeded(w) == LET n == WorkerScript[round][wpos[w]].n IN IF n = 0 THEN 1 ELSE n

(* WorkerContext::wait *)
WWait(w) == /\ wpc[w] = "body" /\ WOp(w, "wait") /\ wcount[w] >= WNeeded(w)
            /\ wcount' = [wcount EXCEPT ![w] = @ - WNeeded(w)]
            /\ WNext(w)
            /\ UNCHANGED <<sc, round, driver, inbox, accepted, wpc, wmsgs, got, mcount,
                           mmsgs, chan>>

(* Mutant: the newest message is taken. *)
WRecv_Newest(w) ==
    /\ wpc[w] = "body" /\ WOp(w, "recv") /\ wmsgs[w] # <<>>
    /\ got' = [got EXCEPT ![w] = Append(@, wmsgs[w][Len(wmsgs[w])])]
    /\ wmsgs' = [wmsgs EXCEPT ![w] = SubSeq(@, 1, Len(@) - 1)]
    /\ WNext(w)
    /\ UNCHANGED <<sc, round, driver, inbox, accepted, wpc, wcount, mcount, mmsgs, chan>>

(* WorkerContext::getUserMessage *)
WRecv(w) == /\ wpc[w] = "body" /\ WOp(w, "recv") /\ wmsgs[w] # <<>>
            /\ got' = [got EXCEPT ![w] = Append(@, Head(wmsgs[w]))]
            /\ wmsgs' = [wmsgs EXCEPT ![w] = Tail(@)]
            /\ WNext(w)
            /\ UNCHANGED <<sc, round, driver, inbox, accepted, wpc, wcount, mcount, mmsgs,
                           chan>>

(* The worker's child is in _waitForEvent. *)
WPolling(w) == /\ wpc[w] = "body"
               /\ \/ WOp(w, "wait") /\ wcount[w] < WNeeded(w)
                  \/ WOp(w, "recv") /\ wmsgs[w] = <<>>

WEvent(w, r) ==
    /\ WPolling(w) /\ Readable(w, r)
    /\ Read(w, r)
    /\ IF Head(chan[w][r]).kind = "NOTIFY"
       THEN wcount' = [wcount EXCEPT ![w] = @ + 1] /\ UNCHANGED wmsgs
       ELSE wmsgs' = [wmsgs EXCEPT ![w] = Append(@, Head(chan[w][r]))] /\ UNCHANGED wcount
    /\ UNCHANGED <<sc, round, driver, inbox, accepted, wpc, wpos, got, mcount, mmsgs>>

(* The worker's child ends, and FINISHED_TEST is sent. *)
WEnd(w) == /\ wpc[w] = "body"
           /\ wpos[w] > Len(WorkerScript[round]) \/ sc.wtimeout
           /\ wpc' = [wpc EXCEPT ![w] = "done"]
           /\ UNCHANGED <<sc, round, driver, inbox, accepted, wpos, wcount, wmsgs, got,
                          mcount, mmsgs, chan>>

(* After _join: the next test, with fresh processes for the workers that   *)
(* are not remote, and fresh counters on the driver.                       *)
NextRound ==
    /\ dpc = "over" /\ \A w \in allocated : wpc[w] = "done"
    /\ round < Len(Alloc)
    /\ round' = round + 1
    /\ dpc' = "body" /\ dpos' = 1 /\ dmsgs' = <<>> /\ pulled' = {}
    /\ dcount' = [w \in Workers |-> 0] /\ pulls' = [w \in Workers |-> 0]
    /\ wpc' = [w \in Workers |-> IF w \in Alloc[round'] THEN "main" ELSE "done"]
    /\ wpos' = [w \in Workers |-> 1]
    /\ got' = [w \in Workers |-> <<>>]
    /\ mcount' = [w \in Workers |-> IF w \in Remote THEN mcount[w] ELSE 0]
    /\ mmsgs' = [w \in Workers |-> IF w \in Remote THEN mmsgs[w] ELSE <<>>]
    /\ chan' = [w \in Workers |-> [r \in Rounds |->
          IF r = round' /\ w \in Alloc[r]
          THEN <<[kind |-> "RUN_TEST", round |-> r, pos |-> 0]>>
          ELSE IF w \in Remote THEN chan[w][r] ELSE <<>>]]
    /\ UNCHANGED <<sc, inbox, accepted, wcount, wmsgs>>

Ended == dpc = "over" /\ (\A w \in allocated : wpc[w] = "done") /\ round = Len(Alloc)

(* Everyone who polls goes on polling. *)
PollAgain == /\ Polling \/ (\E w \in allocated : WPolling(w)) \/ Ended
             /\ UNCHANGED vars
-----------------------------------------------------------------------------
DriverStep == \/ DNotify \/ DSend \/ DWait \/ DWaitEnd \/ DRecv \/ DEnd
              \/ \E m \in inbox : DRecvNotify(m) \/ DRecvMessage(m)
WorkerStep(w) == \/ \E r \in Rounds : WBegin(w, r) \/ WEvent(w, r) \/ WMainEvent(w, r)
                 \/ WSend(w, "notify", "NOTIFY") \/ WSend(w, "send", "USER_MESSAGE")
                 \/ WWait(w) \/ WRecv(w) \/ WEnd(w)
Next == \/ DriverStep \/ DTimeout \/ NextRound \/ PollAgain
        \/ \E m \in inbox : DAccept(m)
        \/ \E w \in Workers : WorkerStep(w)

(* Bodies run as long as they can, no connection is starved, and where a   *)
(* deadline is set it passes (Sandbox!RunReturns).                         *)
Spec == /\ Init /\ [][Next]_vars
        /\ WF_vars(DriverStep) /\ WF_vars(NextRound) /\ WF_vars(DTimeout)
        /\ \A w \in Workers : WF_vars(WorkerStep(w))
-----------------------------------------------------------------------------
ToDriver == [kind : {"NOTIFY", "USER_MESSAGE"}, id : Workers, round : Rounds, pos : Nat]
FromDriver == [kind : {"RUN_TEST", "NOTIFY", "USER_MESSAGE"}, round : Rounds, pos : Nat]

(* Every variable of the bodies and of the channels keeps its type. *)
TypeOK ==
    /\ sc \in Scenarios /\ round \in Rounds /\ dpc \in {"body", "waiting", "over"}
    /\ dpos \in 1..(Len(DriverScript[round]) + 1)
    /\ dcount \in [Workers -> Nat] /\ pulls \in [Workers -> Nat]
    /\ pulled \subseteq Workers \union {Phantom}
    /\ inbox \subseteq ToDriver /\ accepted \subseteq inbox /\ dmsgs \in Seq(ToDriver)
    /\ wpc \in [Workers -> {"main", "body", "done"}]
    /\ wpos \in [Workers -> 1..(Len(WorkerScript[round]) + 1)]
    /\ wcount \in [Workers -> Nat] /\ mcount \in [Workers -> Nat]
    /\ wmsgs \in [Workers -> Seq(FromDriver)] /\ mmsgs \in [Workers -> Seq(FromDriver)]
    /\ chan \in [Workers -> [Rounds -> Seq(FromDriver)]]
    /\ got \in [Workers -> Seq(FromDriver)]

(* The operations a body has completed. *)
DDone(op) == {i \in 1..(dpos - 1) : DriverScript[round][i].op = op}
WDone(w, op) == {i \in 1..(wpos[w] - 1) : WorkerScript[round][i].op = op}
Notified(w) == Cardinality(WDone(w, "notify"))

(* What the waits of a worker have used up: <<i, k>> is the k-th           *)
(* notification of the wait() that is operation i.                         *)
Uses(i) == IF WorkerScript[round][i].n = 0 THEN 1 ELSE WorkerScript[round][i].n
Waited(w) == Cardinality(UNION {{i} \X (1..Uses(i)) : i \in WDone(w, "wait")})

(* The messages of a kind on their way to a worker in this round. *)
OnWire(w, k) == {i \in DOMAIN chan[w][round] : chan[w][round][i].kind = k}

(* The bodies of round r take everything they are sent. *)
Count(script, op) == Cardinality({i \in DOMAIN script : script[i].op = op})
Consumed(r) ==
    LET d == DriverScript[r]  w == WorkerScript[r] IN
    /\ \A s \in {d, w} : \A i \in DOMAIN s : s[i].op = "wait" => s[i].n = 0
    /\ Count(d, "wait") = Count(w, "notify") /\ Count(w, "wait") = Count(d, "notify")
    /\ Count(d, "recv") = Count(w, "send") * Cardinality(Alloc[r])
    /\ Count(w, "recv") = Count(d, "send")
Clean == (\A r \in 1..(round - 1) : Consumed(r)) /\ ~sc.dtimeout /\ ~sc.wtimeout

(* dtest_wait() on the driver is a barrier: it has returned k times only   *)
(* if every worker of this test has called dtest_notify() k times in it.   *)
DriverWaitsForThisTest ==
    \A w \in allocated :
        Cardinality({i \in DDone("wait") : DriverScript[round][i].n = 0}) <= Notified(w)

(* So it is in the first test, and in a later one if the tests before it   *)
(* used up their events.                                                   *)
BarrierHolds == round = 1 \/ Clean => DriverWaitsForThisTest

DriverNotifyConserved ==
    dpc # "over" /\ (round = 1 \/ Clean) =>
        \A w \in allocated :
            pulls[w] + dcount[w] + Cardinality({m \in inbox : m.id = w /\ m.kind = "NOTIFY"})
                = Notified(w)

(* The workers of which nothing is left from an earlier test: those that   *)
(* were spawned for this one, and the remote ones if there is no leftover. *)
Fresh == {w \in allocated : wpc[w] = "body" /\ (w \in Remote => round = 1 \/ Clean)}

WorkerNotifyConserved ==
    \A w \in Fresh :
        Waited(w) + wcount[w] + Cardinality(OnWire(w, "NOTIFY"))
            = Cardinality(DDone("notify"))

(* No notification to the driver, and none to a worker, is lost, invented  *)
(* or counted twice, and no counter falls below 0: each one is on its way, *)
(* counted, or used up by a wait() that returned or is running.            *)
NotifyConserved == TypeOK /\ DriverNotifyConserved /\ WorkerNotifyConserved

(* A worker receives the driver's messages of this test, all of them, in   *)
(* the order in which they were sent.                                      *)
MessagesInOrder ==
    \A w \in Fresh :
        LET all == got[w] \o wmsgs[w] \o chan[w][round] IN
        /\ Len(got[w]) + Len(wmsgs[w]) + Cardinality(OnWire(w, "USER_MESSAGE"))
               = Cardinality(DDone("send"))
        /\ \A i \in DOMAIN all : all[i].round = round
        /\ \A i, j \in DOMAIN all : i < j => all[i].pos < all[j].pos

(* Every body comes to its end. *)
AllEnd == <>Ended
=============================================================================
