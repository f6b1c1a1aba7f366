------------------------------- MODULE Sandbox -------------------------------
(***************************************************************************)
(* Sandbox::run together with the callbacks passed to it by                *)
(* UnitTest::_driverRun, DistributedUnitTest::_workerRun and               *)
(* PerformanceTest::_driverRun.  The process that calls run (the parent)   *)
(* feeds stdin, forks the child that executes the test, and waits for one  *)
(* message from it, for its exit, or for the deadline.  With the inProcess *)
(* option the same code runs in a thread that the parent joins first.  A   *)
(* performance test runs twice: its body, then its baseline.               *)
(*                                                                         *)
(* A message is sent with one system call and arrives whole, except in the *)
(* scenario "torn", where the child is killed inside Socket::send.         *)
(***************************************************************************)
EXTENDS Integers, Sequences

CONSTANTS
    Scenarios,      \* what the tests considered do, see ScenarioAssumption
    PipeCapacity    \* what the stdin pipe holds, in the units of test.input

Ends == {"returns", "throws", "crashes", "vanishes", "hangs", "torn"}

(* kind: the caller of run.  fork: not inProcess.  end, end2: how the body *)
(* and the baseline end.  leak, limit, slow, tooSlow: what the checks      *)
(* would find.  lingers: ::exit does not come to an end.  stray: a thread  *)
(* that a run left behind may crash.                                       *)
ScenarioSet ==
    [kind : {"unit", "worker", "perf"}, fork : BOOLEAN, end : Ends, end2 : Ends,
     leak : BOOLEAN, limit : BOOLEAN, slow : BOOLEAN, tooSlow : BOOLEAN,
     lingers : BOOLEAN, stray : BOOLEAN, input : Nat]

(* In process, a crash or a call of exit takes the whole driver with it. *)
ASSUME ScenarioAssumption ==
    /\ Scenarios \subseteq ScenarioSet
    /\ \A s \in Scenarios : ~s.fork => /\ {s.end, s.end2} \subseteq {"returns", "throws", "hangs"}
                                       /\ ~s.lingers /\ ~s.stray
    /\ PipeCapacity \in Nat

Statuses == {"PENDING", "PASS", "PASS_WITH_MEMORY_LEAK", "MEMORY_LIMIT_EXCEEDED",
             "TOO_SLOW", "TIMEOUT", "FAIL"}

(* Message payloads: MessageCode and the status that follows it. *)
Complete(s) == [code |-> "COMPLETE", status |-> s]
Error == [code |-> "ERROR", status |-> "FAIL"]
Torn == [code |-> "TORN", status |-> "FAIL"]
Payloads == {Complete(s) : s \in Statuses} \union {Error, Torn}

VARIABLES
    test,       \* the scenario
    round,      \* 2 in the second run of a performance test
    first,      \* Test::_status after the first run
    measured,   \* Test::_usedResources in the parent has been set
    ppc,        \* where the parent is
    fed,        \* stdin units written by writeFully
    late,       \* more than timeoutNanos since start
    finished,   \* the result of Sandbox::run
    status,     \* Test::_status in the parent
    conn,       \* the parent's end of the connection
    wire,       \* messages sent and not yet received
    eof,        \* the child's end of the connection is closed
    child,      \* the child process
    cpc,        \* where the thread that runs the test is
    handler,    \* the crash of a stray thread: "none", "sent"
    cstatus,    \* Test::_status where the test runs
    counter,    \* Sandbox::_counter where the test runs
    tracking    \* memory and network tracking is on there

rounds == <<test, round, first>>
parent == <<ppc, fed, finished, status, measured>>
testrun == <<cpc, cstatus, counter, tracking>>
vars == <<rounds, parent, late, conn, wire, eof, child, handler, testrun>>

Init == /\ test \in Scenarios /\ round = 1 /\ first = "PENDING" /\ measured = FALSE
        /\ ppc = "feed" /\ fed = 0 /\ late = FALSE
        /\ finished = FALSE /\ status = "PENDING"
        /\ conn = "none" /\ wire = <<>> /\ eof = FALSE
        /\ child = "none" /\ cpc = "none" /\ handler = "none"
        /\ cstatus = "PENDING" /\ counter = 1 /\ tracking = FALSE
-----------------------------------------------------------------------------
(* The parent, up to its loop. *)

(* Only UnitTest::_driverRun passes an input. *)
Input == IF round = 1 /\ test.kind # "worker" THEN test.input ELSE 0
End == IF round = 1 THEN test.end ELSE test.end2

(* _sandbox_stdio: one turn of writeFully on a non-blocking pipe that       *)
(* nobody reads yet; a write to a full pipe fails and is tried again.      *)
Feed == /\ ppc = "feed" /\ fed < Input
        /\ fed' = IF fed < PipeCapacity THEN fed + 1 ELSE fed
        /\ UNCHANGED <<rounds, measured, ppc, finished, status, late, conn, wire, eof, child,
                       handler, testrun>>

(* The server socket, fork(), which copies the parent's status, and the     *)
(* start of the clock.                                                     *)
Fork == /\ ppc = "feed" /\ fed = Input
        /\ cpc' = "connect" /\ cstatus' = status
        /\ IF test.fork THEN child' = "running" /\ ppc' = "poll"
                        ELSE child' = child /\ ppc' = "join"
        /\ UNCHANGED <<rounds, measured, fed, finished, status, late, conn, wire, eof,
                       handler, counter, tracking>>

(* t.join() of the in-process sandbox; the clock starts only now. *)
Join == /\ ppc = "join" /\ cpc = "closed"
        /\ ppc' = "poll"
        /\ UNCHANGED <<rounds, measured, fed, finished, status, late, conn, wire, eof, child,
                       handler, testrun>>

(* The deadline passes. *)
Tick == /\ ~late /\ ppc \in {"poll", "idle", "recv", "reap"}
        /\ late' = TRUE
        /\ UNCHANGED <<rounds, parent, conn, wire, eof, child, handler, testrun>>
-----------------------------------------------------------------------------
(* The thread that runs the test, in the child or in the parent. *)

Runs == IF test.fork THEN child = "running" ELSE ppc = "join"

(* _clientSocket = Socket(_serverSocket.address()) *)
Connect == /\ Runs /\ cpc = "connect"
           /\ conn' = "backlog" /\ cpc' = "enter"
           /\ UNCHANGED <<rounds, parent, late, wire, eof, child, handler, cstatus,
                          counter, tracking>>

(* Sandbox::enter, then func() starts: _status = FAIL until the body is     *)
(* done, and the first snapshot.  The baseline run does neither.           *)
Enter == /\ Runs /\ cpc = "enter"
         /\ counter' = counter - 1
         /\ tracking' = (counter - 1 = 0)
         /\ cstatus' = IF round = 1 THEN "FAIL" ELSE cstatus
         /\ measured' = (measured \/ (round = 1 /\ ~test.fork))
         /\ cpc' = "body"
         /\ UNCHANGED <<rounds, ppc, fed, finished, status, late, conn, wire, eof,
                        child, handler>>

(* The body returns; Sandbox::exit. *)
BodyReturns == /\ Runs /\ cpc = "body" /\ End \in {"returns", "torn"}
               /\ cstatus' = IF round = 1 THEN "PASS" ELSE cstatus
               /\ tracking' = (tracking /\ counter # 0)
               /\ counter' = counter + 1
               /\ cpc' = "complete"
               /\ UNCHANGED <<rounds, parent, late, conn, wire, eof, child, handler>>

(* Mutant: exitAll resets the counter only. *)
ExitAll_KeepsTracking == counter' = 1 /\ UNCHANGED tracking

(* Sandbox::exitAll *)
ExitAll == tracking' = FALSE /\ counter' = 1

(* A catch clause: exitAll, then the ERROR message. *)
BodyThrows == /\ Runs /\ cpc = "body" /\ End = "throws"
              /\ ExitAll
              /\ wire' = Append(wire, Error)
              /\ cpc' = "close"
              /\ UNCHANGED <<rounds, parent, late, conn, eof, child, handler, cstatus>>

(* __signalHandler for SIGSEGV and SIGABRT: exitAll and the ERROR message. *)
BodyCrashes == /\ Runs /\ cpc = "body" /\ End = "crashes"
               /\ ExitAll
               /\ wire' = Append(wire, Error)
               /\ cpc' = "close"
               /\ UNCHANGED <<rounds, parent, late, conn, eof, child, handler, cstatus>>

BodyHangs == Runs /\ cpc = "body" /\ End = "hangs" /\ UNCHANGED vars

(* The process ends without a word: exit(), SIGPIPE, the OOM killer. *)
BodyVanishes == /\ Runs /\ cpc = "body" /\ End = "vanishes"
                /\ child' = "zombie" /\ eof' = TRUE /\ cpc' = "gone"
                /\ UNCHANGED <<rounds, parent, late, conn, wire, handler, cstatus,
                               counter, tracking>>

(* _checkMemoryLeak: a later finding replaces an earlier one. *)
CheckMemoryLeak(s) ==
    IF test.limit THEN "MEMORY_LIMIT_EXCEEDED"
    ELSE IF test.leak THEN "PASS_WITH_MEMORY_LEAK" ELSE s

(* _checkTimeout(_bodyTime), which is 0 on a worker. *)
CheckTimeout(s) == IF test.slow /\ test.kind # "worker" THEN "TIMEOUT" ELSE s

(* The baseline run checks the resources of the first run again, if the    *)
(* parent got to know them, and the performance, but not the timeout.      *)
CheckPerformance(s) == IF test.tooSlow THEN "TOO_SLOW" ELSE s
Checked(s) == IF round = 1 THEN CheckTimeout(CheckMemoryLeak(s))
              ELSE CheckPerformance(IF measured THEN CheckMemoryLeak(s) ELSE s)

(* Mutant: the status is sent before the checks. *)
SendComplete_Unchecked ==
    /\ Runs /\ cpc = "complete" /\ End = "returns"
    /\ cstatus' = Checked(cstatus)
    /\ wire' = Append(wire, Complete(cstatus))
    /\ cpc' = "close"
    /\ UNCHANGED <<rounds, parent, late, conn, eof, child, handler, counter, tracking>>

(* onComplete and the COMPLETE message. *)
SendComplete == /\ Runs /\ cpc = "complete" /\ End = "returns"
                /\ cstatus' = Checked(cstatus)
                /\ wire' = Append(wire, Complete(Checked(cstatus)))
                /\ cpc' = "close"
                /\ UNCHANGED <<rounds, parent, late, conn, eof, child, handler,
                               counter, tracking>>

(* The child is killed inside Socket::send. *)
SendTorn == /\ Runs /\ cpc = "complete" /\ End = "torn"
            /\ cstatus' = Checked(cstatus)
            /\ wire' = Append(wire, Torn)
            /\ child' = "zombie" /\ eof' = TRUE /\ cpc' = "gone"
            /\ UNCHANGED <<rounds, parent, late, conn, handler, counter, tracking>>

(* t.join() and _clientSocket.close() *)
Close == /\ Runs /\ cpc = "close"
         /\ eof' = TRUE /\ cpc' = "closed"
         /\ UNCHANGED <<rounds, parent, late, conn, wire, child, handler, cstatus,
                        counter, tracking>>

(* ::exit *)
Exit == /\ child = "running" /\ cpc = "closed" /\ ~test.lingers
        /\ child' = "zombie" /\ cpc' = "gone"
        /\ UNCHANGED <<rounds, parent, late, conn, wire, eof, handler, cstatus,
                       counter, tracking>>

(* A thread that outlives the body crashes; the handler runs on it while   *)
(* the test's own thread goes on.  On a closed socket its send throws and  *)
(* the process is aborted.                                                 *)
StrayCrash ==
    /\ child = "running" /\ test.stray /\ handler = "none"
    /\ cpc \in {"complete", "close", "closed"}
    /\ ExitAll
    /\ IF eof THEN /\ child' = "zombie" /\ cpc' = "gone"
                   /\ UNCHANGED <<wire, handler>>
              ELSE /\ wire' = Append(wire, Error) /\ handler' = "sent"
                   /\ UNCHANGED <<child, cpc>>
    /\ UNCHANGED <<rounds, parent, late, conn, eof, cstatus>>

(* The handler closes the socket and exits.  A send of the test's own      *)
(* thread between the two throws, again in the catch clause, and aborts    *)
(* the process, which comes to the same.                                   *)
StrayExit == /\ child = "running" /\ handler = "sent"
             /\ child' = "zombie" /\ eof' = TRUE /\ cpc' = "gone"
             /\ UNCHANGED <<rounds, parent, late, conn, wire, handler, cstatus,
                            counter, tracking>>
-----------------------------------------------------------------------------
(* The parent's loop. *)

Readable == conn = "open" /\ (wire # <<>> \/ eof)

(* pollOrAcceptOrTimeout returns a connection. *)
PollConnection == /\ ppc = "poll"
                  /\ conn = "backlog" \/ Readable
                  /\ conn' = "open" /\ ppc' = "recv"
                  /\ UNCHANGED <<rounds, measured, fed, finished, status, late, wire, eof,
                                 child, handler, testrun>>

(* It returns null after 10 ms without an event. *)
PollNothing == /\ ppc = "poll"
               /\ conn # "backlog" /\ ~Readable
               /\ ppc' = "idle"
               /\ UNCHANGED <<rounds, measured, fed, finished, status, late, conn, wire, eof,
                              child, handler, testrun>>

(* Mutant: waitpid is missing. *)
Kill_NoWait == /\ child' = IF test.fork THEN "zombie" ELSE child
               /\ eof' = IF test.fork THEN TRUE ELSE eof
               /\ cpc' = IF test.fork THEN "gone" ELSE cpc

(* SIGKILL and waitpid. *)
Kill == /\ child' = IF test.fork THEN "reaped" ELSE child
        /\ eof' = IF test.fork THEN TRUE ELSE eof
        /\ cpc' = IF test.fork THEN "gone" ELSE cpc

(* The deadline is looked at only when poll returned null. *)
Idle == /\ ppc = "idle"
        /\ IF late THEN /\ Kill
                        /\ status' = "FAIL" /\ ppc' = "cleanup"
                   ELSE /\ ppc' = "poll"
                        /\ UNCHANGED <<child, eof, cpc, status>>
        /\ UNCHANGED <<rounds, measured, fed, finished, late, conn, wire, handler, cstatus,
                       counter, tracking>>

(* Mutant: a closed connection is kept. *)
RecvNothing_Keeps == /\ ppc = "recv" /\ wire = <<>>
                     /\ ppc' = "poll"
                     /\ UNCHANGED <<rounds, measured, fed, finished, status, late, conn, wire,
                                    eof, child, handler, testrun>>

(* m.recv: no data yet, or end of file, which disposes the connection. *)
RecvNothing == /\ ppc = "recv" /\ wire = <<>>
               /\ conn' = IF eof THEN "disposed" ELSE conn
               /\ ppc' = "poll"
               /\ UNCHANGED <<rounds, measured, fed, finished, status, late, wire, eof, child,
                              handler, testrun>>

AfterMessage == ppc' = IF test.fork THEN "reap" ELSE "cleanup"

(* m.recv of a whole message, then onSuccess or onError. *)
RecvMessage == /\ ppc = "recv" /\ wire # <<>> /\ Head(wire) # Torn
               /\ status' = Head(wire).status
               /\ finished' = TRUE
               /\ measured' = (measured \/ (round = 1 /\ Head(wire).code = "COMPLETE"))
               /\ wire' = Tail(wire)
               /\ AfterMessage
               /\ UNCHANGED <<rounds, fed, late, conn, eof, child, handler, testrun>>

(* A body cut short by end of file passes for a message, and what is read  *)
(* from the buffer is whatever it held: either code, no code at all (then  *)
(* a SIGKILL goes to the child, which is dead), or lengths the driver does *)
(* not survive.                                                            *)
RecvTorn == /\ ppc = "recv" /\ wire # <<>> /\ Head(wire) = Torn
            /\ wire' = Tail(wire)
            /\ \/ \E s \in Statuses : status' = s /\ finished' = TRUE /\ AfterMessage
               \/ status' = "FAIL" /\ finished' = FALSE /\ AfterMessage
               \/ ppc' = "crashed" /\ UNCHANGED <<status, finished>>
            /\ UNCHANGED <<rounds, measured, fed, late, conn, eof, child, handler, testrun>>

(* waitpid(WNOHANG) found the child, or the deadline passed first. *)
Reap == /\ ppc = "reap"
        /\ \/ child = "zombie" /\ child' = "reaped" /\ UNCHANGED <<eof, cpc, status>>
           \/ child = "running" /\ late /\ Kill /\ status' = "FAIL"
        /\ ppc' = "cleanup"
        /\ UNCHANGED <<rounds, measured, fed, finished, late, conn, wire, handler, cstatus,
                       counter, tracking>>

(* Sockets and stdio; _driverRun turns "not finished" into TIMEOUT. *)
Cleanup == /\ ppc = "cleanup"
           /\ conn' = "disposed"
           /\ status' = IF finished THEN status ELSE "TIMEOUT"
           /\ ppc' = "returned"
           /\ UNCHANGED <<rounds, measured, fed, finished, late, wire, eof, child, handler,
                          testrun>>

(* PerformanceTest::_driverRun goes on with the baseline.  A new child     *)
(* starts from the parent's copy of the sandbox.                           *)
SecondRun == /\ ppc = "returned" /\ round = 1 /\ test.kind = "perf"
             /\ round' = 2 /\ first' = status
             /\ ppc' = "feed" /\ fed' = 0 /\ late' = FALSE /\ finished' = FALSE
             /\ conn' = "none" /\ wire' = <<>> /\ eof' = FALSE
             /\ child' = "none" /\ cpc' = "none" /\ handler' = "none"
             /\ IF test.fork THEN counter' = 1 /\ tracking' = FALSE
                             ELSE UNCHANGED <<counter, tracking>>
             /\ UNCHANGED <<test, measured, status, cstatus>>

Done == \/ ppc = "crashed"
        \/ ppc = "returned" /\ (test.kind = "perf" => round = 2)
Returned == Done /\ UNCHANGED vars
-----------------------------------------------------------------------------
ParentStep == \/ Feed \/ Fork \/ Join \/ PollConnection \/ PollNothing \/ Idle
              \/ RecvNothing \/ RecvMessage \/ RecvTorn \/ Reap \/ Cleanup \/ SecondRun
ChildStep == \/ Connect \/ Enter \/ BodyReturns \/ BodyThrows \/ BodyCrashes
             \/ BodyVanishes \/ SendComplete \/ SendTorn \/ Close \/ Exit
             \/ StrayExit
Next == ParentStep \/ ChildStep \/ BodyHangs \/ StrayCrash \/ Tick \/ Returned

(* The parent keeps polling, the clock advances, and a thread of the child *)
(* that can go on does so; a stray crash need not happen.                  *)
Spec == Init /\ [][Next]_vars
        /\ WF_vars(ParentStep) /\ WF_vars(ChildStep) /\ WF_vars(Tick)
-----------------------------------------------------------------------------
(* What is due by the table of statuses in src/README.md:33-40: the worst  *)
(* of what is true of the body, whoever runs it, and of the baseline, in   *)
(* the order of Test::Status.  (The second run of a performance test is    *)
(* not to forget what was reported of the first.)                          *)
Order == <<"PASS", "PASS_WITH_MEMORY_LEAK", "MEMORY_LIMIT_EXCEEDED", "TOO_SLOW",
           "TIMEOUT", "FAIL">>
Worst(S) == Order[CHOOSE i \in 1..6 : Order[i] \in S /\ \A j \in (i + 1)..6 : Order[j] \notin S]
Memory == (IF test.leak THEN {"PASS_WITH_MEMORY_LEAK"} ELSE {})
          \union (IF test.limit THEN {"MEMORY_LIMIT_EXCEEDED"} ELSE {})
Overtime == IF test.slow THEN {"TIMEOUT"} ELSE {}
Slowness == IF test.tooSlow THEN {"TOO_SLOW"} ELSE {}
Due(end, findings) == CASE end = "returns" -> Worst({"PASS"} \union findings)
                        [] end \in {"hangs", "vanishes"} -> "TIMEOUT"
                        [] end \in {"throws", "crashes"} -> "FAIL"
Reference == IF round = 1 THEN Due(test.end, Memory \union Overtime)
             ELSE Worst({first, Due(test.end2, Slowness)})

(* The two places where the code reports something better than what is     *)
(* due.  A worker's body is not held to the timeout of the test            *)
(* (src/src/distributed_unit_test.cpp:48).  And when the second run of a   *)
(* performance test has anything to say of its own, that is the status,    *)
(* whatever the first run had come to (src/src/performance_test.cpp:48).   *)
SlowWorker == test.kind = "worker" /\ test.slow /\ test.end = "returns"
Again == (IF measured THEN Memory ELSE {}) \union Slowness
FirstReplaced == round = 2 /\ test.end2 = "returns" /\ Again # {}

(* The status that is reported is the one that is due, unless the deadline *)
(* cut the run short (in the second run that replaces a FAIL of the first, *)
(* too: src/src/performance_test.cpp:68) or the crash of a thread that was *)
(* left behind came first, or in one of the two cases above, where the     *)
(* better status is known exactly.  PASS means that everything went well in both runs, but  *)
(* for a worker's time.  (A torn result may pass for anything, see         *)
(* Framing.)                                                               *)
VerdictExact ==
    ppc = "returned" /\ "torn" \notin {test.end, End} =>
        /\ \/ status = Reference
           \/ status = "TIMEOUT" /\ late /\ ~finished
           \/ status = "FAIL" /\ finished /\ (late \/ test.stray)
           \/ SlowWorker /\ status = Due("returns", Memory)
           \/ FirstReplaced /\ status = Worst(Again)
        /\ status = "PASS" =>
               /\ {test.end, End} = {"returns"} /\ first \in {"PENDING", "PASS"}
               /\ Memory = {} /\ ~(test.tooSlow /\ round = 2)
               /\ test.slow => test.kind = "worker"

(* src/README.md:69: "If the test takes longer than this duration, it is   *)
(* terminated and considered to fail."  Of a worker's body this is not     *)
(* true: the check looks at _bodyTime, which no worker sets.               *)
SlowWorkerFails == ppc = "returned" /\ SlowWorker => status \in {"TIMEOUT", "FAIL"}

(* src/README.md:40: "Test has failed (assertion error, uncaught exception,*)
(* segfault, etc.)" is the status of a test whose body was seen to fail,   *)
(* so that FAIL stands when the second run ends with its own message.      *)
FailureStands ==
    ppc = "returned" /\ round = 2 /\ first = "FAIL" /\ finished => status = "FAIL"

(* run returns with its child dead and reaped, whatever the child did. *)
ChildReaped == ppc = "returned" /\ test.fork => child = "reaped"

TypeOK ==
    /\ test \in Scenarios /\ round \in {1, 2} /\ first \in Statuses /\ measured \in BOOLEAN
    /\ ppc \in {"feed", "join", "poll", "idle", "recv", "reap", "cleanup",
                "returned", "crashed"}
    /\ fed \in 0..PipeCapacity /\ late \in BOOLEAN /\ finished \in BOOLEAN
    /\ status \in Statuses /\ cstatus \in Statuses
    /\ conn \in {"none", "backlog", "open", "disposed"}
    /\ wire \in Seq(Payloads)
    /\ eof \in BOOLEAN
    /\ child \in {"none", "running", "zombie", "reaped"}
    /\ cpc \in {"none", "connect", "enter", "body", "complete", "close",
                "closed", "gone"}
    /\ handler \in {"none", "sent"}
    /\ counter \in 0..2 /\ tracking \in BOOLEAN

(* Allocations are tracked inside the body only: not while the results are *)
(* computed and sent, and not in the driver after an in-process test.      *)
TrackingEnds ==
    /\ TypeOK
    /\ cpc \in {"complete", "close", "closed"} => ~tracking
    /\ ppc = "returned" /\ ~test.fork => ~tracking /\ counter = 1

(* run returns, whatever the test does.  Three things it does not survive: *)
(* in process a test that hangs is not interrupted, a torn result may take *)
(* the driver down, and an input that does not fit the pipe is written for *)
(* ever, before there is a child or a clock.                               *)
Stuck == ppc = "feed" /\ fed = PipeCapacity /\ fed < Input
RunReturns == <>(\/ Done /\ (ppc = "crashed" => End = "torn")
                 \/ ~test.fork /\ "hangs" \in {test.end, test.end2}
                 \/ Stuck)
=============================================================================
