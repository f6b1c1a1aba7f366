--------------------------- MODULE Sandbox_proofs ---------------------------
(***************************************************************************)
(* Sandbox::run for any set of scenarios: the child is reaped, tracking    *)
(* ends, and the verdict is the one the test earned.  Then the descriptors *)
(* of its caller, for any limit and any number of runs: the table is what  *)
(* Stdio says between runs, and the outputs are what the bodies wrote.     *)
(***************************************************************************)
EXTENDS Sandbox, Stdio, SequenceTheorems, FiniteSetTheorems, WellFoundedInduction, TLAPS

(* Where the parent is, the child's life and the test's thread go together. *)
Processes ==
    /\ test.fork =>
        /\ ppc # "join"
        /\ ppc = "feed" => child = "none"
        /\ ppc \in {"poll", "idle", "recv", "reap"} => child \in {"running", "zombie"}
        /\ ppc \in {"cleanup", "returned"} => child = "reaped"
        /\ child = "none" <=> cpc = "none"
        /\ child = "running" => cpc # "gone"
        /\ child \in {"zombie", "reaped"} => cpc = "gone"
    /\ ~test.fork =>
        /\ child = "none" /\ cpc # "gone" /\ ppc # "reap"
        /\ ppc = "feed" => cpc = "none"
        /\ ppc = "join" => cpc # "none"
        /\ ppc \in {"poll", "idle", "recv", "cleanup", "returned"} => cpc = "closed"

(* The counter and the switch, except in a process that is gone. *)
Switch ==
    /\ cpc \in {"none", "connect", "enter", "complete", "close", "closed"} =>
           counter = 1 /\ tracking = FALSE
    /\ cpc = "body" => counter = 0 /\ tracking = TRUE

(* Neither run ends in the middle of a message. *)
Whole == test.end # "torn" /\ End # "torn"

(* What the body's run tells of a test that has passed it. *)
Sound == /\ test.end = "returns" /\ ~test.leak /\ ~test.limit
         /\ test.slow => test.kind = "worker"

(* The status before the message is sent, in either run. *)
Before ==
    /\ round = 1 => first = "PENDING"
    /\ round = 2 /\ test.end # "torn" =>
           first \in Statuses \ {"PENDING"} /\ (first = "PASS" => Sound)
    /\ round = 2 /\ ppc = "feed" => status = first
    /\ round = 2 /\ cpc \in {"connect", "enter", "body", "complete"} => cstatus = first
    /\ round = 1 /\ cpc = "complete" => cstatus = "PASS"

(* What the code makes of a run that speaks for itself: the checks that    *)
(* follow a body that returned, and FAIL for one that did not.             *)
Told == IF End = "returns" THEN Checked(IF round = 1 THEN "PASS" ELSE first) ELSE "FAIL"
Speaks == End \in {"returns", "throws", "crashes"}

(* A message on its way says what the code found. *)
Genuine(m) == \/ m = Complete(Told) /\ End = "returns"
              \/ m = Error /\ (End \in {"throws", "crashes"} \/ test.stray)
OnTheWay == Whole => \A i \in 1..Len(wire) : Genuine(wire[i])

(* What has become of the message, or of its absence. *)
Judged ==
    /\ ppc \in {"feed", "join", "poll", "idle", "recv"} => ~finished
    /\ Whole =>
        /\ ppc = "reap" => finished
        /\ ppc \in {"reap", "cleanup", "returned"} /\ finished =>
               (Speaks /\ status = Told) \/ (status = "FAIL" /\ (late \/ test.stray))
        /\ ppc \in {"cleanup", "returned"} /\ ~finished => late
    /\ ppc = "returned" /\ ~finished => status = "TIMEOUT"

IndInv == TypeOK /\ Processes /\ Switch /\ Before /\ OnTheWay /\ Judged
-----------------------------------------------------------------------------
LEMMA ScenarioFacts ==
    ASSUME TypeOK
    PROVE  /\ test.kind \in {"unit", "worker", "perf"} /\ test.fork \in BOOLEAN
           /\ test.end \in Ends /\ test.end2 \in Ends
           /\ test.leak \in BOOLEAN /\ test.limit \in BOOLEAN /\ test.slow \in BOOLEAN
           /\ test.tooSlow \in BOOLEAN /\ test.stray \in BOOLEAN /\ test.input \in Nat
           /\ ~test.fork => /\ {test.end, test.end2} \subseteq {"returns", "throws", "hangs"}
                            /\ ~test.stray
<1>1. test \in ScenarioSet
  BY ScenarioAssumption DEF TypeOK
<1>2. test \in Scenarios
  BY DEF TypeOK
<1> QED
  BY <1>1, <1>2, ScenarioAssumption DEF ScenarioSet

LEMMA PayloadFacts ==
    /\ Error \in Payloads /\ Torn \in Payloads /\ Error # Torn
    /\ \A s \in Statuses : Complete(s) \in Payloads /\ Complete(s) # Torn
    /\ \A m \in Payloads : m.status \in Statuses
  BY DEF Payloads, Complete, Error, Torn, Statuses

(* What becomes of the wire. *)
LEMMA WireFacts ==
    ASSUME wire \in Seq(Payloads)
    PROVE  /\ Len(wire) \in Nat
           /\ <<>> \in Seq(Payloads)
           /\ \A m \in Payloads : Append(wire, m) \in Seq(Payloads)
           /\ wire # <<>> => /\ Tail(wire) \in Seq(Payloads)
                             /\ Head(wire) \in Payloads /\ Head(wire).status \in Statuses
  BY PayloadFacts, EmptySeq, AppendProperties, HeadTailProperties

LEMMA CheckedType ==
    ASSUME NEW s \in Statuses
    PROVE  Checked(s) \in Statuses
  BY DEF Checked, CheckPerformance, CheckTimeout, CheckMemoryLeak, Statuses

(* TypeOK in two halves, which the provers find easier than the whole. *)
Flags == /\ measured \in BOOLEAN /\ late \in BOOLEAN /\ finished \in BOOLEAN
         /\ eof \in BOOLEAN /\ tracking \in BOOLEAN
Places ==
    /\ test \in Scenarios /\ round \in {1, 2} /\ first \in Statuses
    /\ ppc \in {"feed", "join", "poll", "idle", "recv", "reap", "cleanup",
                "returned", "crashed"}
    /\ fed \in 0..PipeCapacity /\ status \in Statuses /\ cstatus \in Statuses
    /\ conn \in {"none", "backlog", "open", "disposed"} /\ wire \in Seq(Payloads)
    /\ child \in {"none", "running", "zombie", "reaped"}
    /\ cpc \in {"none", "connect", "enter", "body", "complete", "close",
                "closed", "gone"}
    /\ handler \in {"none", "sent"} /\ counter \in 0..2

LEMMA Halves == TypeOK <=> Flags /\ Places
  BY DEF TypeOK, Flags, Places

LEMMA TypeInit == Init => TypeOK
<1> SUFFICES ASSUME Init PROVE Flags /\ Places
  BY Halves
<1>1. Flags
  BY DEF Init, Flags
<1>2. Places
  BY ScenarioAssumption, EmptySeq DEF Init, Places, Statuses
<1> QED
  BY <1>1, <1>2

LEMMA FlagsStep ==
    ASSUME TypeOK, Switch, [Next]_vars
    PROVE  Flags'
<1> USE DEF TypeOK, Flags, rounds, parent, testrun
<1>1. CASE Feed
  BY <1>1 DEF Feed
<1>2. CASE Fork
  BY <1>2 DEF Fork
<1>3. CASE Join
  BY <1>3 DEF Join
<1>4. CASE PollConnection
  BY <1>4 DEF PollConnection
<1>5. CASE PollNothing
  BY <1>5 DEF PollNothing
<1>6. CASE Idle
  <2>1. eof' \in BOOLEAN
    BY <1>6 DEF Idle, Kill
  <2> QED
    BY <1>6, <2>1 DEF Idle
<1>7. CASE RecvNothing
  BY <1>7 DEF RecvNothing
<1>8. CASE RecvMessage
  BY <1>8 DEF RecvMessage
<1>9. CASE RecvTorn
  BY <1>9 DEF RecvTorn
<1>10. CASE Reap
  BY <1>10 DEF Reap, Kill
<1>11. CASE Cleanup
  BY <1>11 DEF Cleanup
<1>12. CASE SecondRun
  BY <1>12 DEF SecondRun
<1>13. CASE Connect
  BY <1>13 DEF Connect
<1>14. CASE Enter
  BY <1>14 DEF Enter
<1>15. CASE BodyReturns
  BY <1>15 DEF BodyReturns
<1>16. CASE BodyThrows
  BY <1>16 DEF BodyThrows, ExitAll
<1>17. CASE BodyCrashes
  BY <1>17 DEF BodyCrashes, ExitAll
<1>18. CASE BodyVanishes
  BY <1>18 DEF BodyVanishes
<1>19. CASE SendComplete
  BY <1>19 DEF SendComplete
<1>20. CASE SendTorn
  BY <1>20 DEF SendTorn
<1>21. CASE Close
  BY <1>21 DEF Close
<1>22. CASE Exit
  BY <1>22 DEF Exit
<1>23. CASE StrayExit
  BY <1>23 DEF StrayExit
<1>24. CASE BodyHangs
  BY <1>24 DEF BodyHangs, vars
<1>25. CASE StrayCrash
  BY <1>25 DEF StrayCrash, ExitAll
<1>26. CASE Tick
  BY <1>26 DEF Tick
<1>27. CASE Returned
  BY <1>27 DEF Returned, vars
<1>28. CASE UNCHANGED vars
  BY <1>28 DEF vars
<1> QED
  BY <1>1, <1>2, <1>3, <1>4, <1>5, <1>6, <1>7, <1>8, <1>9, <1>10, <1>11, <1>12,
     <1>13, <1>14, <1>15, <1>16, <1>17, <1>18, <1>19, <1>20, <1>21, <1>22, <1>23,
     <1>24, <1>25, <1>26, <1>27, <1>28 DEF Next, ParentStep, ChildStep

LEMMA PlacesStep ==
    ASSUME TypeOK, Switch, [Next]_vars
    PROVE  Places'
<1>0. /\ test.fork \in BOOLEAN /\ test.input \in Nat /\ "FAIL" \in Statuses
      /\ "TIMEOUT" \in Statuses /\ "PASS" \in Statuses
  BY ScenarioFacts DEF Statuses
<1> USE <1>0 DEF TypeOK, Places, Switch, rounds, parent, testrun
<1>1. CASE Feed
  BY <1>1, ScenarioAssumption DEF Feed, Input
<1>2. CASE Fork
  BY <1>2 DEF Fork, Input
<1>3. CASE Join
  BY <1>3 DEF Join
<1>4. CASE PollConnection
  BY <1>4 DEF PollConnection
<1>5. CASE PollNothing
  BY <1>5 DEF PollNothing
<1>6. CASE Idle
  <2>1. child' \in {child, "reaped"} /\ cpc' \in {cpc, "gone"}
    BY <1>6 DEF Idle, Kill
  <2>2. status' \in {status, "FAIL"} /\ ppc' \in {"cleanup", "poll"}
    BY <1>6 DEF Idle
  <2>3. UNCHANGED <<test, round, first, fed, conn, wire, handler, cstatus, counter>>
    BY <1>6 DEF Idle
  <2> QED
    BY <2>1, <2>2, <2>3
<1>7. CASE RecvNothing
  BY <1>7 DEF RecvNothing
<1>8. CASE RecvMessage
  BY <1>8, WireFacts, PayloadFacts DEF RecvMessage, AfterMessage
<1>9. CASE RecvTorn
  BY <1>9, WireFacts, PayloadFacts DEF RecvTorn, AfterMessage
<1>10. CASE Reap
  BY <1>10 DEF Reap, Kill
<1>11. CASE Cleanup
  BY <1>11 DEF Cleanup
<1>12. CASE SecondRun
  BY <1>12, EmptySeq, ScenarioAssumption DEF SecondRun
<1>13. CASE Connect
  BY <1>13 DEF Connect
<1>14. CASE Enter
  BY <1>14 DEF Enter
<1>15. CASE BodyReturns
  BY <1>15 DEF BodyReturns
<1>16. CASE BodyThrows
  BY <1>16, WireFacts, PayloadFacts DEF BodyThrows, ExitAll
<1>17. CASE BodyCrashes
  BY <1>17, WireFacts, PayloadFacts DEF BodyCrashes, ExitAll
<1>18. CASE BodyVanishes
  BY <1>18 DEF BodyVanishes
<1>19. CASE SendComplete
  BY <1>19, WireFacts, PayloadFacts, CheckedType DEF SendComplete
<1>20. CASE SendTorn
  BY <1>20, WireFacts, PayloadFacts, CheckedType DEF SendTorn
<1>21. CASE Close
  BY <1>21 DEF Close
<1>22. CASE Exit
  BY <1>22 DEF Exit
<1>23. CASE StrayExit
  BY <1>23 DEF StrayExit
<1>24. CASE BodyHangs
  BY <1>24 DEF BodyHangs, vars
<1>25. CASE StrayCrash
  BY <1>25, WireFacts, PayloadFacts DEF StrayCrash, ExitAll
<1>26. CASE Tick
  BY <1>26 DEF Tick
<1>27. CASE Returned
  BY <1>27 DEF Returned, vars
<1>28. CASE UNCHANGED vars
  BY <1>28 DEF vars
<1> QED
  BY <1>1, <1>2, <1>3, <1>4, <1>5, <1>6, <1>7, <1>8, <1>9, <1>10, <1>11, <1>12,
     <1>13, <1>14, <1>15, <1>16, <1>17, <1>18, <1>19, <1>20, <1>21, <1>22, <1>23,
     <1>24, <1>25, <1>26, <1>27, <1>28 DEF Next, ParentStep, ChildStep

LEMMA TypeStep ==
    ASSUME TypeOK, Switch, [Next]_vars
    PROVE  TypeOK'
  BY FlagsStep, PlacesStep DEF TypeOK, Flags, Places

LEMMA ProcessesStep ==
    ASSUME TypeOK, Processes, [Next]_vars
    PROVE  Processes'
<1>0. test.fork \in BOOLEAN
  BY ScenarioFacts
<1> USE <1>0 DEF Processes, Runs, rounds, parent, testrun
<1>1. CASE Feed
  BY <1>1 DEF Feed
<1>2. CASE Fork
  BY <1>2 DEF Fork
<1>3. CASE Join
  BY <1>3 DEF Join
<1>4. CASE PollConnection
  BY <1>4 DEF PollConnection
<1>5. CASE PollNothing
  BY <1>5 DEF PollNothing
<1>6. CASE Idle
  BY <1>6 DEF Idle, Kill
<1>7. CASE RecvNothing
  BY <1>7 DEF RecvNothing
<1>8. CASE RecvMessage
  BY <1>8 DEF RecvMessage, AfterMessage
<1>9. CASE RecvTorn
  BY <1>9 DEF RecvTorn, AfterMessage
<1>10. CASE Reap
  BY <1>10 DEF Reap, Kill
<1>11. CASE Cleanup
  BY <1>11 DEF Cleanup
<1>12. CASE SecondRun
  BY <1>12 DEF SecondRun
<1>13. CASE Connect
  BY <1>13 DEF Connect
<1>14. CASE Enter
  BY <1>14 DEF Enter
<1>15. CASE BodyReturns
  BY <1>15 DEF BodyReturns
<1>16. CASE BodyThrows
  BY <1>16 DEF BodyThrows, ExitAll
<1>17. CASE BodyCrashes
  BY <1>17 DEF BodyCrashes, ExitAll
<1>18. CASE BodyVanishes
  BY <1>18, ScenarioFacts DEF BodyVanishes, End
<1>19. CASE SendComplete
  BY <1>19 DEF SendComplete
<1>20. CASE SendTorn
  BY <1>20, ScenarioFacts DEF SendTorn, End
<1>21. CASE Close
  BY <1>21 DEF Close
<1>22. CASE Exit
  BY <1>22 DEF Exit
<1>23. CASE StrayExit
  BY <1>23 DEF StrayExit
<1>24. CASE BodyHangs
  BY <1>24 DEF BodyHangs, vars
<1>25. CASE StrayCrash
  BY <1>25 DEF StrayCrash, ExitAll
<1>26. CASE Tick
  BY <1>26 DEF Tick
<1>27. CASE Returned
  BY <1>27 DEF Returned, vars
<1>28. CASE UNCHANGED vars
  BY <1>28 DEF vars
<1> QED
  BY <1>1, <1>2, <1>3, <1>4, <1>5, <1>6, <1>7, <1>8, <1>9, <1>10, <1>11, <1>12,
     <1>13, <1>14, <1>15, <1>16, <1>17, <1>18, <1>19, <1>20, <1>21, <1>22, <1>23,
     <1>24, <1>25, <1>26, <1>27, <1>28 DEF Next, ParentStep, ChildStep

LEMMA SwitchStep ==
    ASSUME TypeOK, Processes, Switch, [Next]_vars
    PROVE  Switch'
<1>0. test.fork \in BOOLEAN
  BY ScenarioFacts
<1> USE <1>0 DEF Processes, Switch, Runs, rounds, parent, testrun
<1>1. CASE Feed
  BY <1>1 DEF Feed
<1>2. CASE Fork
  BY <1>2 DEF Fork
<1>3. CASE Join
  BY <1>3 DEF Join
<1>4. CASE PollConnection
  BY <1>4 DEF PollConnection
<1>5. CASE PollNothing
  BY <1>5 DEF PollNothing
<1>6. CASE Idle
  BY <1>6 DEF Idle, Kill
<1>7. CASE RecvNothing
  BY <1>7 DEF RecvNothing
<1>8. CASE RecvMessage
  BY <1>8 DEF RecvMessage, AfterMessage
<1>9. CASE RecvTorn
  BY <1>9 DEF RecvTorn, AfterMessage
<1>10. CASE Reap
  BY <1>10 DEF Reap, Kill
<1>11. CASE Cleanup
  BY <1>11 DEF Cleanup
<1>12. CASE SecondRun
  BY <1>12 DEF SecondRun
<1>13. CASE Connect
  BY <1>13 DEF Connect
<1>14. CASE Enter
  <2>1. counter - 1 = 0 /\ counter' = counter - 1 /\ cpc' = "body"
    BY <1>14 DEF Enter
  <2>2. tracking' = (counter - 1 = 0)
    BY <1>14 DEF Enter
  <2>3. tracking' = TRUE
    BY <2>1, <2>2, Zenon
  <2> QED
    BY <2>1, <2>3
<1>15. CASE BodyReturns
  <2>1. counter = 0 /\ counter' = counter + 1 /\ cpc' = "complete"
    BY <1>15 DEF BodyReturns
  <2>2. tracking' = (tracking /\ counter # 0)
    BY <1>15 DEF BodyReturns
  <2>3. tracking' = FALSE
    BY <2>1, <2>2, Zenon
  <2> QED
    BY <2>1, <2>3
<1>16. CASE BodyThrows
  BY <1>16 DEF BodyThrows, ExitAll
<1>17. CASE BodyCrashes
  BY <1>17 DEF BodyCrashes, ExitAll
<1>18. CASE BodyVanishes
  BY <1>18 DEF BodyVanishes
<1>19. CASE SendComplete
  BY <1>19 DEF SendComplete
<1>20. CASE SendTorn
  BY <1>20 DEF SendTorn
<1>21. CASE Close
  BY <1>21 DEF Close
<1>22. CASE Exit
  BY <1>22 DEF Exit
<1>23. CASE StrayExit
  BY <1>23 DEF StrayExit
<1>24. CASE BodyHangs
  BY <1>24 DEF BodyHangs, vars
<1>25. CASE StrayCrash
  BY <1>25 DEF StrayCrash, ExitAll
<1>26. CASE Tick
  BY <1>26 DEF Tick
<1>27. CASE Returned
  BY <1>27 DEF Returned, vars
<1>28. CASE UNCHANGED vars
  BY <1>28 DEF vars
<1> QED
  BY <1>1, <1>2, <1>3, <1>4, <1>5, <1>6, <1>7, <1>8, <1>9, <1>10, <1>11, <1>12,
     <1>13, <1>14, <1>15, <1>16, <1>17, <1>18, <1>19, <1>20, <1>21, <1>22, <1>23,
     <1>24, <1>25, <1>26, <1>27, <1>28 DEF Next, ParentStep, ChildStep

-----------------------------------------------------------------------------
(* The verdict: what the checks make of the status is the worst of what is *)
(* true of the test.                                                       *)
LEMMA WorstIs ==
    ASSUME NEW S, NEW i \in 1..6, Order[i] \in S, \A j \in (i + 1)..6 : Order[j] \notin S
    PROVE  Worst(S) = Order[i]
<1> DEFINE P(n) == Order[n] \in S /\ \A j \in (n + 1)..6 : Order[j] \notin S
           k == CHOOSE n \in 1..6 : P(n)
<1>1. k \in 1..6 /\ P(k)
  OBVIOUS
<1> HIDE DEF k
<1>2. ~(k < i) /\ ~(i < k)
  BY <1>1
<1>3. k = i
  BY <1>1, <1>2
<1> QED
  BY <1>3 DEF Worst, k

LEMMA OrderFacts ==
    /\ Order[1] = "PASS" /\ Order[2] = "PASS_WITH_MEMORY_LEAK"
    /\ Order[3] = "MEMORY_LIMIT_EXCEEDED" /\ Order[4] = "TOO_SLOW"
    /\ Order[5] = "TIMEOUT" /\ Order[6] = "FAIL"
  BY DEF Order

LEMMA WorstOfOne ==
    ASSUME NEW s \in Statuses \ {"PENDING"}
    PROVE  Worst({s}) = s
<1>1. \A i, j \in 1..6 : i # j => Order[i] # Order[j]
  BY OrderFacts
<1>2. PICK i \in 1..6 : Order[i] = s
  BY OrderFacts, 1 \in 1..6, 2 \in 1..6, 3 \in 1..6, 4 \in 1..6, 5 \in 1..6, 6 \in 1..6
     DEF Statuses
<1>3. \A j \in (i + 1)..6 : Order[j] \notin {s}
  BY <1>1, <1>2
<1> QED
  BY <1>2, <1>3, WorstIs

LEMMA WorstOverPass ==
    ASSUME NEW s \in Statuses \ {"PENDING", "PASS"}
    PROVE  Worst({s, "PASS"}) = s
<1>1. \A i, j \in 1..6 : i # j => Order[i] # Order[j]
  BY OrderFacts
<1>2. PICK i \in 2..6 : Order[i] = s
  BY OrderFacts, 2 \in 2..6, 3 \in 2..6, 4 \in 2..6, 5 \in 2..6, 6 \in 2..6
     DEF Statuses
<1>3. \A j \in (i + 1)..6 : Order[j] \notin {s, "PASS"}
  BY <1>1, <1>2, OrderFacts
<1> QED
  BY <1>2, <1>3, WorstIs

(* The same over what is due of a body that returned. *)
LEMMA WorstOfMemory ==
    ASSUME TypeOK
    PROVE  Due("returns", Memory) = CheckMemoryLeak("PASS")
<1> USE ScenarioFacts, OrderFacts DEF Due, Memory, CheckMemoryLeak
<1>1. CASE test.limit
  BY <1>1, WorstIs, 3 \in 1..6
<1>2. CASE ~test.limit /\ test.leak
  BY <1>2, WorstIs, 2 \in 1..6
<1>3. CASE ~test.limit /\ ~test.leak
  BY <1>3, WorstIs, 1 \in 1..6
<1> QED
  BY <1>1, <1>2, <1>3

(* What the code finds in the first run is what is due, but for the time   *)
(* of a worker.                                                            *)
LEMMA ToldFirst ==
    ASSUME TypeOK, Whole, Speaks, round = 1
    PROVE  Told = Reference \/ (SlowWorker /\ Told = Due("returns", Memory))
<1> USE ScenarioFacts, OrderFacts
<1>1. End = test.end /\ Reference = Due(test.end, Memory \union Overtime)
  BY DEF End, Reference
<1>2. CASE test.end # "returns"
  BY <1>1, <1>2 DEF Told, Speaks, Due
<1>3. CASE test.end = "returns" /\ ~test.slow
  <2>1. Told = CheckMemoryLeak("PASS")
    BY <1>1, <1>3 DEF Told, Checked, CheckTimeout
  <2>2. Memory \union Overtime = Memory
    BY <1>3 DEF Overtime
  <2> QED
    BY <1>1, <1>3, <2>1, <2>2, WorstOfMemory
<1>4. CASE test.end = "returns" /\ test.slow
  <2>1. CASE test.kind = "worker"
    BY <1>1, <1>4, <2>1, WorstOfMemory DEF Told, Checked, CheckTimeout, SlowWorker
  <2>2. CASE test.kind # "worker"
    <3>1. Told = "TIMEOUT"
      BY <1>1, <1>4, <2>2 DEF Told, Checked, CheckTimeout
    <3>2. Order[5] \in {"PASS"} \union (Memory \union Overtime)
          /\ Order[6] \notin {"PASS"} \union (Memory \union Overtime)
      BY <1>4 DEF Overtime, Memory
    <3>3. Worst({"PASS"} \union (Memory \union Overtime)) = Order[5]
      BY <3>2, WorstIs, 5 \in 1..6
    <3> QED
      BY <1>1, <1>4, <3>1, <3>3 DEF Due
  <2> QED
    BY <2>1, <2>2
<1> QED
  BY <1>2, <1>3, <1>4

(* And in the second run, unless it replaced the status of the first. *)
LEMMA ToldSecond ==
    ASSUME TypeOK, Before, Whole, Speaks, round = 2
    PROVE  Told = Reference \/ (FirstReplaced /\ Told = Worst(Again))
<1> USE ScenarioFacts, OrderFacts DEF TypeOK
<1>1. End = test.end2 /\ Reference = Worst({first, Due(test.end2, Slowness)})
  BY DEF End, Reference
<1>2. first \in Statuses \ {"PENDING"}
  BY DEF Before, Whole
<1>3. CASE test.end2 # "returns"
  <2>1. Due(test.end2, Slowness) = "FAIL" /\ Told = "FAIL"
    BY <1>1, <1>3 DEF Due, Speaks, Told
  <2>2. Worst({first, "FAIL"}) = Order[6]
    BY WorstIs, 6 \in 1..6
  <2> QED
    BY <1>1, <2>1, <2>2
<1>4. CASE test.end2 = "returns" /\ Again = {}
  <2>1. ~test.tooSlow /\ ~(measured /\ (test.limit \/ test.leak))
    BY <1>4 DEF Again, Slowness, Memory
  <2>2. Told = first
    BY <1>1, <1>4, <2>1 DEF Told, Checked, CheckPerformance, CheckMemoryLeak
  <2>3. Due(test.end2, Slowness) = "PASS"
    <3>1. {"PASS"} \union Slowness = {"PASS"}
      BY <2>1 DEF Slowness
    <3>2. "PASS" \in Statuses \ {"PENDING"}
      BY DEF Statuses
    <3> QED
      BY <1>4, <3>1, <3>2, WorstOfOne DEF Due
  <2>4. Worst({first, "PASS"}) = first
    <3>1. CASE first = "PASS"
      BY <1>2, <3>1, WorstOfOne
    <3>2. CASE first # "PASS"
      BY <1>2, <3>2, WorstOverPass
    <3> QED
      BY <3>1, <3>2
  <2> QED
    BY <1>1, <2>2, <2>3, <2>4
<1>5. CASE test.end2 = "returns" /\ Again # {}
  <2>1. FirstReplaced
    BY <1>1, <1>5 DEF FirstReplaced
  <2>2. Told = CheckPerformance(IF measured THEN CheckMemoryLeak(first) ELSE first)
    BY <1>1, <1>5 DEF Told, Checked
  <2>3. CASE test.tooSlow
    <3>1. Told = "TOO_SLOW"
      BY <2>2, <2>3 DEF CheckPerformance
    <3>2. /\ "TOO_SLOW" \in Again
          /\ "TIMEOUT" \notin Again /\ "FAIL" \notin Again
      BY <2>3 DEF Again, Slowness, Memory
    <3>3. Order[4] \in Again /\ \A j \in (4 + 1)..6 : Order[j] \notin Again
      BY <3>2
    <3>4. Worst(Again) = Order[4]
      BY <3>3, WorstIs, 4 \in 1..6
    <3> QED
      BY <2>1, <3>1, <3>4
  <2>4. CASE ~test.tooSlow /\ measured /\ test.limit
    <3>1. Told = "MEMORY_LIMIT_EXCEEDED"
      BY <2>2, <2>4 DEF CheckPerformance, CheckMemoryLeak
    <3>2. /\ "MEMORY_LIMIT_EXCEEDED" \in Again
          /\ "TOO_SLOW" \notin Again /\ "TIMEOUT" \notin Again /\ "FAIL" \notin Again
      BY <2>4 DEF Again, Slowness, Memory
    <3>3. Order[3] \in Again /\ \A j \in (3 + 1)..6 : Order[j] \notin Again
      BY <3>2
    <3>4. Worst(Again) = Order[3]
      BY <3>3, WorstIs, 3 \in 1..6
    <3> QED
      BY <2>1, <3>1, <3>4
  <2>5. CASE ~test.tooSlow /\ measured /\ ~test.limit /\ test.leak
    <3>1. Told = "PASS_WITH_MEMORY_LEAK"
      BY <2>2, <2>5 DEF CheckPerformance, CheckMemoryLeak
    <3>2. Again = {"PASS_WITH_MEMORY_LEAK"}
      BY <2>5 DEF Again, Slowness, Memory
    <3>3. "PASS_WITH_MEMORY_LEAK" \in Statuses \ {"PENDING"}
      BY DEF Statuses
    <3> QED
      BY <2>1, <3>1, <3>2, <3>3, WorstOfOne
  <2> QED
    BY <1>5, <2>3, <2>4, <2>5 DEF Again, Slowness, Memory
<1> QED
  BY <1>3, <1>4, <1>5

(* What is reported is a verdict, and PASS is earned in both runs. *)
LEMMA ToldFacts ==
    ASSUME TypeOK, Before, Whole, Speaks
    PROVE  /\ Told \in Statuses \ {"PENDING"}
           /\ Told = "PASS" =>
                  Sound /\ End = "returns" /\ (round = 2 => first = "PASS" /\ ~test.tooSlow)
<1>1. round = 1 => End = test.end
  BY DEF End
<1>2. CASE End = "returns" /\ round = 1
  BY <1>1, <1>2, ScenarioFacts
     DEF Told, Checked, CheckTimeout, CheckMemoryLeak, Sound, Statuses
<1>3. CASE End = "returns" /\ round = 2
  BY <1>3, ScenarioFacts
     DEF Told, Checked, CheckPerformance, CheckMemoryLeak, Statuses, Before, Whole
<1>4. CASE End # "returns"
  BY <1>4 DEF Told, Statuses
<1> QED
  BY <1>2, <1>3, <1>4 DEF TypeOK

(* Within a run what there is to tell does not move. *)
LEMMA ToldStable ==
    ASSUME UNCHANGED rounds, round = 1 \/ UNCHANGED measured
    PROVE  /\ Told' = Told /\ End' = End /\ (Whole <=> Whole') /\ (Speaks <=> Speaks')
<1>1. End' = End /\ test' = test
  BY DEF End, rounds
<1>2. Told' = Told
  BY <1>1 DEF Told, Checked, CheckTimeout, CheckPerformance, CheckMemoryLeak, rounds
<1> QED
  BY <1>1, <1>2 DEF Whole, Speaks

(* Only the second run of a performance test changes what is asked. *)
LEMMA SameRun ==
    ASSUME TypeOK, ~SecondRun, [Next]_vars
    PROVE  UNCHANGED rounds /\ (round = 1 \/ UNCHANGED measured)
<1> USE DEF TypeOK, rounds, parent
<1>1. CASE Feed
  BY <1>1 DEF Feed
<1>2. CASE Fork
  BY <1>2 DEF Fork
<1>3. CASE Join
  BY <1>3 DEF Join
<1>4. CASE PollConnection
  BY <1>4 DEF PollConnection
<1>5. CASE PollNothing
  BY <1>5 DEF PollNothing
<1>6. CASE Idle
  BY <1>6 DEF Idle, Kill
<1>7. CASE RecvNothing
  BY <1>7 DEF RecvNothing
<1>8. CASE RecvMessage
  <2>1. measured' = (measured \/ (round = 1 /\ Head(wire).code = "COMPLETE"))
    BY <1>8 DEF RecvMessage
  <2>2. UNCHANGED rounds
    BY <1>8 DEF RecvMessage
  <2> QED
    BY <2>1, <2>2
<1>9. CASE RecvTorn
  BY <1>9 DEF RecvTorn, AfterMessage
<1>10. CASE Reap
  BY <1>10 DEF Reap, Kill
<1>11. CASE Cleanup
  BY <1>11 DEF Cleanup
<1>12. CASE SecondRun
  BY <1>12
<1>13. CASE Connect
  BY <1>13 DEF Connect
<1>14. CASE Enter
  <2>1. measured' = (measured \/ (round = 1 /\ ~test.fork)) /\ UNCHANGED rounds
    BY <1>14 DEF Enter
  <2> QED
    BY <2>1
<1>15. CASE BodyReturns
  BY <1>15 DEF BodyReturns
<1>16. CASE BodyThrows
  BY <1>16 DEF BodyThrows, ExitAll
<1>17. CASE BodyCrashes
  BY <1>17 DEF BodyCrashes, ExitAll
<1>18. CASE BodyVanishes
  BY <1>18 DEF BodyVanishes
<1>19. CASE SendComplete
  BY <1>19 DEF SendComplete
<1>20. CASE SendTorn
  BY <1>20 DEF SendTorn
<1>21. CASE Close
  BY <1>21 DEF Close
<1>22. CASE Exit
  BY <1>22 DEF Exit
<1>23. CASE StrayExit
  BY <1>23 DEF StrayExit
<1>24. CASE BodyHangs
  BY <1>24 DEF BodyHangs, vars
<1>25. CASE StrayCrash
  BY <1>25 DEF StrayCrash, ExitAll
<1>26. CASE Tick
  BY <1>26 DEF Tick
<1>27. CASE Returned
  BY <1>27 DEF Returned, vars
<1>28. CASE UNCHANGED vars
  BY <1>28 DEF vars
<1> QED
  BY <1>1, <1>2, <1>3, <1>4, <1>5, <1>6, <1>7, <1>8, <1>9, <1>10, <1>11, <1>12,
     <1>13, <1>14, <1>15, <1>16, <1>17, <1>18, <1>19, <1>20, <1>21, <1>22, <1>23,
     <1>24, <1>25, <1>26, <1>27, <1>28 DEF Next, ParentStep, ChildStep

LEMMA BeforeStep ==
    ASSUME TypeOK, Processes, Before, Judged, [Next]_vars
    PROVE  Before'
<1> USE DEF Before, Sound, Runs, rounds, parent, testrun
<1>1. CASE Feed
  BY <1>1 DEF Feed
<1>2. CASE Fork
  BY <1>2, ScenarioFacts DEF Fork, Processes
<1>3. CASE Join
  BY <1>3 DEF Join
<1>4. CASE PollConnection
  BY <1>4 DEF PollConnection
<1>5. CASE PollNothing
  BY <1>5 DEF PollNothing
<1>6. CASE Idle
  BY <1>6, ScenarioFacts DEF Idle, Kill, Processes
<1>7. CASE RecvNothing
  BY <1>7 DEF RecvNothing
<1>8. CASE RecvMessage
  BY <1>8 DEF RecvMessage, AfterMessage, Processes
<1>9. CASE RecvTorn
  BY <1>9 DEF RecvTorn, AfterMessage, Processes
<1>10. CASE Reap
  BY <1>10, ScenarioFacts DEF Reap, Kill, Processes
<1>11. CASE Cleanup
  BY <1>11 DEF Cleanup, Processes
<1>12. CASE SecondRun
  <2>1. /\ round = 1 /\ round' = 2 /\ first' = status /\ status' = status
        /\ test' = test /\ cpc' = "none" /\ ppc = "returned"
    BY <1>12 DEF SecondRun
  <2>2. ASSUME test.end # "torn"
        PROVE  status \in Statuses \ {"PENDING"} /\ (status = "PASS" => Sound)
    <3>1. Whole
      BY <2>1, <2>2 DEF Whole, End
    <3>2. /\ finished => (Speaks /\ status = Told) \/ status = "FAIL"
          /\ ~finished => status = "TIMEOUT"
      BY <2>1, <3>1 DEF Judged
    <3>3. Speaks => /\ Told \in Statuses \ {"PENDING"}
                    /\ Told = "PASS" => Sound
      BY <3>1, ToldFacts
    <3> QED
      BY <3>2, <3>3 DEF Statuses
  <2> QED
    BY <2>1, <2>2
<1>13. CASE Connect
  BY <1>13 DEF Connect
<1>14. CASE Enter
  BY <1>14, ScenarioFacts DEF Enter
<1>15. CASE BodyReturns
  BY <1>15 DEF BodyReturns
<1>16. CASE BodyThrows
  BY <1>16 DEF BodyThrows, ExitAll
<1>17. CASE BodyCrashes
  BY <1>17 DEF BodyCrashes, ExitAll
<1>18. CASE BodyVanishes
  BY <1>18 DEF BodyVanishes
<1>19. CASE SendComplete
  BY <1>19 DEF SendComplete
<1>20. CASE SendTorn
  BY <1>20 DEF SendTorn
<1>21. CASE Close
  BY <1>21 DEF Close
<1>22. CASE Exit
  BY <1>22 DEF Exit
<1>23. CASE StrayExit
  BY <1>23 DEF StrayExit
<1>24. CASE BodyHangs
  BY <1>24 DEF BodyHangs, vars
<1>25. CASE StrayCrash
  BY <1>25 DEF StrayCrash, ExitAll
<1>26. CASE Tick
  BY <1>26 DEF Tick
<1>27. CASE Returned
  BY <1>27 DEF Returned, vars
<1>28. CASE UNCHANGED vars
  BY <1>28 DEF vars
<1> QED
  BY <1>1, <1>2, <1>3, <1>4, <1>5, <1>6, <1>7, <1>8, <1>9, <1>10, <1>11, <1>12,
     <1>13, <1>14, <1>15, <1>16, <1>17, <1>18, <1>19, <1>20, <1>21, <1>22, <1>23,
     <1>24, <1>25, <1>26, <1>27, <1>28 DEF Next, ParentStep, ChildStep

(* What a step does to the wire. *)
LEMMA WireStep ==
    ASSUME TypeOK, Before, Whole, ~SecondRun, [Next]_vars
    PROVE  \/ wire' = wire
           \/ wire # <<>> /\ wire' = Tail(wire)
           \/ \E m \in Payloads : Genuine(m) /\ wire' = Append(wire, m)
<1> USE DEF rounds, parent, testrun
<1>1. CASE Feed
  BY <1>1 DEF Feed
<1>2. CASE Fork
  BY <1>2 DEF Fork
<1>3. CASE Join
  BY <1>3 DEF Join
<1>4. CASE PollConnection
  BY <1>4 DEF PollConnection
<1>5. CASE PollNothing
  BY <1>5 DEF PollNothing
<1>6. CASE Idle
  BY <1>6 DEF Idle, Kill
<1>7. CASE RecvNothing
  BY <1>7 DEF RecvNothing
<1>8. CASE RecvMessage
  BY <1>8 DEF RecvMessage, AfterMessage
<1>9. CASE RecvTorn
  BY <1>9 DEF RecvTorn, AfterMessage
<1>10. CASE Reap
  BY <1>10 DEF Reap, Kill
<1>11. CASE Cleanup
  BY <1>11 DEF Cleanup
<1>12. CASE SecondRun
  BY <1>12
<1>13. CASE Connect
  BY <1>13 DEF Connect
<1>14. CASE Enter
  BY <1>14 DEF Enter
<1>15. CASE BodyReturns
  BY <1>15 DEF BodyReturns
<1>16. CASE BodyThrows
  BY <1>16, PayloadFacts DEF BodyThrows, ExitAll, Genuine
<1>17. CASE BodyCrashes
  BY <1>17, PayloadFacts DEF BodyCrashes, ExitAll, Genuine
<1>18. CASE BodyVanishes
  BY <1>18 DEF BodyVanishes
<1>19. CASE SendComplete
  <2>1. Checked(cstatus) = Told /\ End = "returns" /\ cstatus \in Statuses
    BY <1>19 DEF SendComplete, Whole, Told, Before, TypeOK
  <2>2. Genuine(Complete(Checked(cstatus))) /\ Complete(Checked(cstatus)) \in Payloads
    BY <2>1, CheckedType, PayloadFacts DEF Genuine
  <2> QED
    BY <1>19, <2>2 DEF SendComplete
<1>20. CASE SendTorn
  BY <1>20 DEF SendTorn, Whole
<1>21. CASE Close
  BY <1>21 DEF Close
<1>22. CASE Exit
  BY <1>22 DEF Exit
<1>23. CASE StrayExit
  BY <1>23 DEF StrayExit
<1>24. CASE BodyHangs
  BY <1>24 DEF BodyHangs, vars
<1>25. CASE StrayCrash
  BY <1>25, PayloadFacts DEF StrayCrash, ExitAll, Genuine
<1>26. CASE Tick
  BY <1>26 DEF Tick
<1>27. CASE Returned
  BY <1>27 DEF Returned, vars
<1>28. CASE UNCHANGED vars
  BY <1>28 DEF vars
<1> QED
  BY <1>1, <1>2, <1>3, <1>4, <1>5, <1>6, <1>7, <1>8, <1>9, <1>10, <1>11, <1>12,
     <1>13, <1>14, <1>15, <1>16, <1>17, <1>18, <1>19, <1>20, <1>21, <1>22, <1>23,
     <1>24, <1>25, <1>26, <1>27, <1>28 DEF Next, ParentStep, ChildStep

LEMMA OnTheWayStep ==
    ASSUME TypeOK, TypeOK', Before, OnTheWay, [Next]_vars
    PROVE  OnTheWay'
<1> SUFFICES ASSUME Whole', NEW i \in 1..Len(wire')
             PROVE  (Genuine(wire[i]))'
  BY DEF OnTheWay
<1>1. CASE SecondRun
  BY <1>1 DEF SecondRun
<1>2. CASE ~SecondRun
  <2>1. Whole /\ Told' = Told /\ End' = End /\ test' = test
    BY <1>2, SameRun, ToldStable DEF rounds
  <2>2. SUFFICES Genuine(wire'[i])
    BY <2>1 DEF Genuine
  <2>3. /\ wire \in Seq(Payloads)
        /\ \A k \in 1..Len(wire) : Genuine(wire[k])
    BY <2>1 DEF OnTheWay, TypeOK
  <2>4. CASE wire' = wire
    BY <2>3, <2>4
  <2>5. CASE wire # <<>> /\ wire' = Tail(wire)
    <3>1. Len(wire) \in Nat /\ Len(Tail(wire)) = Len(wire) - 1 /\ i + 1 \in 1..Len(wire)
      BY <2>3, <2>5, HeadTailProperties, LenProperties
    <3>2. Tail(wire)[i] = wire[i + 1]
      BY <2>3, <2>5, HeadTailProperties
    <3> QED
      BY <2>3, <2>5, <3>1, <3>2
  <2>6. ASSUME NEW m \in Payloads, Genuine(m), wire' = Append(wire, m)
        PROVE  Genuine(wire'[i])
    <3>1. /\ Len(wire) \in Nat /\ Len(wire') = Len(wire) + 1
          /\ \A k \in 1..Len(wire) : wire'[k] = wire[k]
          /\ wire'[Len(wire) + 1] = m
      BY <2>3, <2>6, AppendProperties, LenProperties
    <3>2. i \in 1..Len(wire) \/ i = Len(wire) + 1
      BY <3>1
    <3> QED
      BY <2>3, <2>6, <3>1, <3>2
  <2> QED
    BY <1>2, <2>1, <2>4, <2>5, <2>6, WireStep
<1> QED
  BY <1>1, <1>2

(* What the parent makes of the message it receives. *)
LEMMA Received ==
    ASSUME TypeOK, OnTheWay, Whole, wire # <<>>
    PROVE  /\ Head(wire) # Torn
           /\ \/ Speaks /\ Head(wire).status = Told
              \/ Head(wire).status = "FAIL" /\ test.stray
<1>1. Genuine(Head(wire))
  <2>1. Len(wire) \in Nat /\ 1 \in 1..Len(wire) /\ Head(wire) = wire[1]
    BY HeadTailProperties, LenProperties, EmptySeq DEF TypeOK
  <2> QED
    BY <2>1 DEF OnTheWay
<1>2. CASE Head(wire) = Complete(Told) /\ End = "returns"
  BY <1>2 DEF Complete, Torn, Speaks
<1>3. CASE Head(wire) = Error
  <2>1. End \in {"throws", "crashes"} => Speaks /\ Told = "FAIL"
    BY DEF Told, Speaks
  <2> QED
    BY <1>1, <1>3, <2>1 DEF Genuine, Complete, Error, Torn
<1> QED
  BY <1>1, <1>2, <1>3 DEF Genuine

LEMMA JudgedInRun ==
    ASSUME TypeOK, Processes, OnTheWay, Judged, ~SecondRun, [Next]_vars
    PROVE  Judged'
<1>0. Told' = Told /\ (Whole <=> Whole') /\ (Speaks <=> Speaks') /\ test' = test
  BY SameRun, ToldStable DEF rounds
<1> USE <1>0, ScenarioFacts DEF Judged, rounds, parent, testrun
<1>1. CASE Feed
  BY <1>1 DEF Feed
<1>2. CASE Fork
  BY <1>2 DEF Fork
<1>3. CASE Join
  BY <1>3 DEF Join
<1>4. CASE PollConnection
  BY <1>4 DEF PollConnection
<1>5. CASE PollNothing
  BY <1>5 DEF PollNothing
<1>6. CASE Idle
  BY <1>6 DEF Idle, Kill
<1>7. CASE RecvNothing
  BY <1>7 DEF RecvNothing
<1>8. CASE RecvMessage
  BY <1>8, Received DEF RecvMessage, AfterMessage
<1>9. CASE RecvTorn
  BY <1>9, Received DEF RecvTorn, AfterMessage
<1>10. CASE Reap
  BY <1>10 DEF Reap, Kill
<1>11. CASE Cleanup
  BY <1>11 DEF Cleanup
<1>12. CASE SecondRun
  BY <1>12
<1>13. CASE Connect
  BY <1>13 DEF Connect
<1>14. CASE Enter
  BY <1>14 DEF Enter
<1>15. CASE BodyReturns
  BY <1>15 DEF BodyReturns
<1>16. CASE BodyThrows
  BY <1>16 DEF BodyThrows, ExitAll
<1>17. CASE BodyCrashes
  BY <1>17 DEF BodyCrashes, ExitAll
<1>18. CASE BodyVanishes
  BY <1>18 DEF BodyVanishes
<1>19. CASE SendComplete
  BY <1>19 DEF SendComplete
<1>20. CASE SendTorn
  BY <1>20 DEF SendTorn
<1>21. CASE Close
  BY <1>21 DEF Close
<1>22. CASE Exit
  BY <1>22 DEF Exit
<1>23. CASE StrayExit
  BY <1>23 DEF StrayExit
<1>24. CASE BodyHangs
  BY <1>24 DEF BodyHangs, vars
<1>25. CASE StrayCrash
  BY <1>25 DEF StrayCrash, ExitAll
<1>26. CASE Tick
  BY <1>26 DEF Tick
<1>27. CASE Returned
  BY <1>27 DEF Returned, vars
<1>28. CASE UNCHANGED vars
  BY <1>28 DEF vars
<1> QED
  BY <1>1, <1>2, <1>3, <1>4, <1>5, <1>6, <1>7, <1>8, <1>9, <1>10, <1>11, <1>12,
     <1>13, <1>14, <1>15, <1>16, <1>17, <1>18, <1>19, <1>20, <1>21, <1>22, <1>23,
     <1>24, <1>25, <1>26, <1>27, <1>28 DEF Next, ParentStep, ChildStep

LEMMA JudgedStep ==
    ASSUME TypeOK, Processes, OnTheWay, Judged, [Next]_vars
    PROVE  Judged'
<1>1. CASE SecondRun
  BY <1>1 DEF SecondRun, Judged
<1> QED
  BY <1>1, JudgedInRun
-----------------------------------------------------------------------------
(* The invariant of Sandbox::run holds in every reachable state. *)
THEOREM Invariance == Spec => []IndInv
<1>1. Init => IndInv
  <2> SUFFICES ASSUME Init PROVE IndInv
    OBVIOUS
  <2>1. TypeOK
    BY TypeInit
  <2>2. Processes /\ Switch /\ Before /\ Judged
    BY <2>1, ScenarioFacts DEF Init, Processes, Switch, Before, Judged
  <2>3. OnTheWay
    BY DEF Init, OnTheWay
  <2> QED
    BY <2>1, <2>2, <2>3 DEF IndInv
<1>2. IndInv /\ [Next]_vars => IndInv'
  BY TypeStep, ProcessesStep, SwitchStep, BeforeStep, OnTheWayStep, JudgedStep DEF IndInv
<1> QED
  BY <1>1, <1>2, PTL DEF Spec

(* Whatever the test does to itself, Sandbox::run returns with its child   *)
(* dead and waited for (src/src/sandbox.cpp, the two waitpid paths).       *)
THEOREM NoChildIsLeft == Spec => []ChildReaped
<1>1. IndInv => ChildReaped
  BY DEF IndInv, Processes, ChildReaped
<1> QED
  BY <1>1, Invariance, PTL

(* Sandbox::exit and exitAll leave no tracking behind, neither in the      *)
(* child that goes on to report nor in a driver that ran a test in process.*)
THEOREM TrackingIsOver == Spec => []TrackingEnds
<1>1. IndInv => TrackingEnds
  BY DEF IndInv, Processes, Switch, TrackingEnds
<1> QED
  BY <1>1, Invariance, PTL

(* The status that _driverRun and _workerRun are left with is the one that *)
(* is due of the body and of the baseline, unless the deadline or a stray  *)
(* crash made it worse, or a slow worker or the second run of a performance*)
(* test made it better, and then it is exactly what the later checks found;*)
(* PASS is reported only when both runs went well, but for a worker's time.*)
THEOREM VerdictIsEarned == Spec => []VerdictExact
<1>1. IndInv => VerdictExact
  <2> SUFFICES ASSUME IndInv, ppc = "returned", "torn" \notin {test.end, End}
               PROVE  /\ \/ status = Reference
                         \/ status = "TIMEOUT" /\ late /\ ~finished
                         \/ status = "FAIL" /\ finished /\ (late \/ test.stray)
                         \/ SlowWorker /\ status = Due("returns", Memory)
                         \/ FirstReplaced /\ status = Worst(Again)
                      /\ status = "PASS" =>
                             /\ {test.end, End} = {"returns"} /\ first \in {"PENDING", "PASS"}
                             /\ Memory = {} /\ ~(test.tooSlow /\ round = 2)
                             /\ test.slow => test.kind = "worker"
    BY DEF VerdictExact
  <2>1. TypeOK /\ Before /\ Judged /\ Whole
    BY DEF IndInv, Whole
  <2>2. /\ finished => (Speaks /\ status = Told)
                       \/ (status = "FAIL" /\ (late \/ test.stray))
        /\ ~finished => late /\ status = "TIMEOUT"
    BY <2>1 DEF Judged
  <2>3. finished \in BOOLEAN /\ round \in {1, 2}
    BY <2>1 DEF TypeOK
  <2>4. Speaks /\ status = Told =>
            \/ status = Reference
            \/ SlowWorker /\ status = Due("returns", Memory)
            \/ FirstReplaced /\ status = Worst(Again)
    BY <2>1, <2>3, ToldFirst, ToldSecond
  <2>5. status = "PASS" =>
            Sound /\ End = "returns" /\ (round = 2 => first = "PASS" /\ ~test.tooSlow)
    BY <2>1, <2>2, <2>3, ToldFacts
  <2>6. \/ status = Reference
        \/ status = "TIMEOUT" /\ late /\ ~finished
        \/ status = "FAIL" /\ finished /\ (late \/ test.stray)
        \/ SlowWorker /\ status = Due("returns", Memory)
        \/ FirstReplaced /\ status = Worst(Again)
    BY <2>2, <2>3, <2>4
  <2> QED
    BY <2>1, <2>3, <2>5, <2>6 DEF Before, Sound, Memory
<1> QED
  BY <1>1, Invariance, PTL
-----------------------------------------------------------------------------
(* Stdio.  The table is described as a set of contents, each held by one   *)
(* number, so that which number the kernel picks plays no part; how many   *)
(* there are tells when the limit is met.                                  *)

(* What a number can refer to. *)
FilesOf == {File(k) : k \in 0..(2 + OpenBefore)}
PipesOf == {Pipe(e, k, r) : e \in {"read", "write"}, k \in Std, r \in 1..MaxRuns}
SocketsOf == {Server(r) : r \in 1..MaxRuns} \union {Connection(r) : r \in 1..MaxRuns}
Contents == {Closed} \union FilesOf \union PipesOf \union SocketsOf

(* The numbers that are open besides 0, 1 and 2 refer to the members of C, *)
(* to each once; there are n of them.                                      *)
Others(f) == {m \in DOMAIN f \ Std : f[m] # Closed}
IsTable(f) == f \in [Numbers -> Contents]
Holds(f, C, n) ==
    /\ {f[m] : m \in Others(f)} = C
    /\ \A i, j \in Others(f) : f[i] = f[j] => i = j
    /\ IsFiniteSet(Others(f)) /\ Cardinality(Others(f)) = n

(* Table g is f with number l, which was free, referring to x. *)
Adds(f, g, l, x) ==
    /\ l \in Numbers \ Std /\ f[l] = Closed /\ g[l] = x
    /\ \A m \in Numbers : m # l => g[m] = f[m]

(* What is open besides 0, 1 and 2 after n runs, and its number; and what   *)
(* run r has open while file k is put aside.                               *)
Former(n) == Elder \union UNION {LeftBehind(r) : r \in 1..n}
Rest(n) == 3 * n + OpenBefore
Aside(k, r) == {File(k), Pipe("read", k, r)}
                   \union (IF k = 0 THEN {} ELSE {Pipe("write", k, r)})
AllAside(r) == Aside(0, r) \union Aside(1, r) \union Aside(2, r)

(* The pieces that run r has open at place p, and their number. *)
Pieces(p, r) ==
    CASE p = "stdin" -> {}
      [] p = "stdout" -> Aside(0, r)
      [] p = "stderr" -> Aside(0, r) \union Aside(1, r)
      [] p \in {"serve", "unbox stdin"} -> AllAside(r)
      [] p \in {"body", "poll", "close"} -> AllAside(r) \union {Server(r)}
      [] p \in {"read stdout", "unbox stdout"} -> AllAside(r) \ {File(0)}
      [] OTHER -> AllAside(r) \ {File(0), File(1), Pipe("read", 1, r)}
HowMany(p) ==
    CASE p = "stdin" -> 0
      [] p = "stdout" -> 2
      [] p = "stderr" -> 5
      [] p \in {"serve", "unbox stdin"} -> 8
      [] p \in {"body", "poll", "close"} -> 9
      [] p \in {"read stdout", "unbox stdout"} -> 7
      [] OTHER -> 5

(* The table at each place. *)
Boxing == {"stdin", "stdout", "stderr", "serve"}
Serving == {"body", "poll", "close"}
Reading(k) == IF k = 1 THEN {"read stdout", "unbox stdout"} ELSE {"read stderr", "unbox stderr"}
Running == Boxing \union Serving \union {"unbox stdin"} \union Reading(1) \union Reading(2)

Table ==
    /\ pc = "idle" => Holds(fds, Former(run), Rest(run))
    /\ pc \in Running =>
        \/ Holds(fds, Former(run - 1) \union Pieces(pc, run), Rest(run - 1) + HowMany(pc))
        \/ /\ pc = "close"
           /\ Holds(fds, Former(run - 1) \union Pieces(pc, run) \union {Connection(run)},
                    Rest(run - 1) + HowMany(pc) + 1)

(* The buffer of stdout: a run that is reported finds it empty, and a child *)
(* that exits leaves it so.                                                *)
Buffer ==
    /\ kept \in Nat /\ old \in Nat /\ own \in Nat /\ strange \in Nat
    /\ reported \in BOOLEAN /\ exited \in BOOLEAN
    /\ own <= wrote[1]
    /\ exited => own = 0 /\ pc \notin Boxing \union {"body"}
    /\ reported => old = 0 /\ strange = 0
    /\ reported /\ pc \in Boxing \union {"body"} => kept = 0

(* File k has been put aside; until its turn in _unsandbox_stdio comes a    *)
(* pipe is in its place.                                                   *)
Redirected(k) ==
    pc \in Serving \union {"serve", "unbox stdin"}
           \union (CASE k = 0 -> {"stdout", "stderr"}
                     [] k = 1 -> {"stderr"}
                     [] OTHER -> Reading(1))
PutAside(k) == Redirected(k) \/ (k \in Outputs /\ pc \in Reading(k))
Standard ==
    pc \in Running \union {"idle"} =>
        \A k \in Std :
            /\ Redirected(k) => fds[k] = Pipe(IF k = 0 THEN "read" ELSE "write", k, run)
            /\ PutAside(k) /\ ~Redirected(k) => fds[k] = Closed
            /\ ~PutAside(k) => fds[k] = File(k)

(* Where the old files and the read ends are kept. *)
Keeps == \A k \in Std : PutAside(k) =>
            /\ saved[k] \in Numbers \ Std /\ fds[saved[k]] = File(k)
            /\ k \in Outputs => /\ boxed[k] \in Numbers \ Std
                                /\ fds[boxed[k]] = Pipe("read", k, run)

(* A run that has its server has found all the numbers it needs. *)
Enough == /\ pc \in Serving \union {"unbox stdin"} \union Reading(1) \union Reading(2)
                  => limit >= Rest(run) + 10
          /\ pc = "idle" /\ run > 0 => limit >= Rest(run) + 10
          /\ pc = "exhausted" => limit < Rest(run) + 10

(* What has left the buffer of a run's stdout, and what the body wrote to   *)
(* its stderr.                                                             *)
Given == [k \in Outputs |-> IF k = 1 THEN strange + wrote[1] - own ELSE wrote[2]]

(* It is in the pipe or read; a pipe is read to its end. *)
Flow ==
    /\ \A k \in Outputs : held[k] + pos[k] = Least(Given[k], Capacity)
    /\ pc \in Boxing \union Serving \union {"unbox stdin"} => pos = [k \in Outputs |-> 0]
    /\ pc \in {"unbox stdout", "unbox stderr", "idle"} \union Reading(2) =>
           held[1] = 0 /\ buf[1] = pos[1]
    /\ pc \in {"unbox stderr", "idle"} => held[2] = 0 /\ buf[2] = pos[2]

Variables ==
    /\ limit \in Limits /\ run \in 0..MaxRuns /\ forked \in BOOLEAN
    /\ pc \in Running \union {"idle", "exhausted"}
    /\ pc \in Running => run > 0
    /\ IsTable(fds)
    /\ saved \in [Std -> {-1} \union Numbers] /\ boxed \in [Std -> {-1} \union Numbers]
    /\ held \in [Outputs -> Nat] /\ wrote \in [Outputs -> Nat]
    /\ buf \in [Outputs -> Nat] /\ pos \in [Outputs -> Nat]

Layout == Table /\ Standard /\ Keeps
StdioInv == Variables /\ Layout /\ Enough /\ Buffer /\ Flow

(* Files, pipes and sockets are different things, each with its numbers. *)
LEMMA FileFacts ==
    /\ \A k : File(k) # Closed
    /\ \A j, k : File(j) = File(k) => j = k
    /\ \A e \in {"read", "write"} : \A k, r : Pipe(e, k, r) # Closed
    /\ \A e \in {"read", "write"} : \A k, r, j : Pipe(e, k, r) # File(j)
    /\ \A e, d \in {"read", "write"} : \A k, j, r, q :
          Pipe(e, k, r) = Pipe(d, j, q) => e = d /\ k = j /\ r = q
    /\ \A r : Server(r) # Closed /\ Connection(r) # Closed
    /\ \A r, k : Server(r) # File(k) /\ Connection(r) # File(k)
    /\ \A e \in {"read", "write"} : \A r, q, k :
          Server(r) # Pipe(e, k, q) /\ Connection(r) # Pipe(e, k, q)
    /\ \A r, q : Server(r) # Connection(q)
BY DEF File, Closed, Pipe, Server, Connection

LEMMA KnownContents ==
    /\ Closed \in Contents
    /\ Std \subseteq 0..(2 + OpenBefore)
    /\ \A k \in 0..(2 + OpenBefore) : File(k) \in Contents
    /\ \A e \in {"read", "write"}, k \in Std, r \in 1..MaxRuns : Pipe(e, k, r) \in Contents
    /\ \A r \in 1..MaxRuns : Server(r) \in Contents /\ Connection(r) \in Contents
BY StdioAssumption DEF Contents, FilesOf, PipesOf, SocketsOf, Std

LEMMA NumberFacts ==
    ASSUME limit \in Limits
    PROVE  /\ limit \in Nat /\ OpenBefore \in Nat /\ limit > 3 + OpenBefore /\ Std \subseteq Numbers
           /\ IsFiniteSet(Numbers) /\ Cardinality(Numbers) = limit
           /\ IsFiniteSet(Std) /\ Cardinality(Std) = 3
<1>1. limit \in Nat /\ OpenBefore \in Nat /\ limit > 3 + OpenBefore
  BY StdioAssumption
<1>2. Std \subseteq Numbers
  BY <1>1 DEF Std, Numbers
<1>3. IsFiniteSet(Numbers) /\ Cardinality(Numbers) = limit
  BY <1>1, FS_Interval DEF Numbers
<1>4. IsFiniteSet(Std) /\ Cardinality(Std) = 3
  <2>1. PICK a \in Int, b \in Int : a = 0 /\ b = 2
    OBVIOUS
  <2>2. IsFiniteSet(a..b) /\ Cardinality(a..b) = IF a > b THEN 0 ELSE b - a + 1
    BY FS_Interval
  <2> QED
    BY <2>1, <2>2 DEF Std
<1> QED
  BY <1>1, <1>2, <1>3, <1>4

(* pipe2 and dup find the lowest free number, if there is one. *)
LEMMA LowestIsFree ==
    ASSUME NEW f, FreeOf(f) # {}, limit \in Limits
    PROVE  Lowest(f) \in FreeOf(f)
<1> DEFINE R == OpToRel(<, Nat)
           N == FreeOf(f)
<1>1. IsWellFoundedOn(R, Nat)
  BY NatLessThanWellFounded
<1>2. \A x, y \in Nat : y < x => <<y, x>> \in R
  BY DEF OpToRel
<1>3. N \subseteq Nat /\ N # {}
  BY NumberFacts DEF FreeOf, Numbers
<1> HIDE DEF R, N
<1>4. PICK n \in N : \A m \in N : ~(<<m, n>> \in R)
  BY <1>1, <1>3, WFMin
<1>5. ASSUME NEW m \in N
      PROVE  n <= m
  <2>1. m \in Nat /\ n \in Nat /\ ~(<<m, n>> \in R)
    BY <1>3, <1>4
  <2>2. ~(m < n)
    BY <1>2, <2>1, Zenon
  <2> QED
    BY <2>1, <2>2
<1> QED
  BY <1>4, <1>5 DEF Lowest, N
-----------------------------------------------------------------------------
(* One change of the table. *)

LEMMA Placing ==
    ASSUME limit \in Limits, NEW f, IsTable(f), NEW C, NEW n \in Nat, Holds(f, C, n),
           NEW k \in Std, NEW x \in Contents
    PROVE  /\ IsTable([f EXCEPT ![k] = x])
           /\ Holds([f EXCEPT ![k] = x], C, n)
<1> DEFINE g == [f EXCEPT ![k] = x]
<1>1. k \in Numbers
  BY NumberFacts
<1>2. g \in [Numbers -> Contents] /\ \A m \in Numbers \ Std : g[m] = f[m]
  BY <1>1 DEF IsTable
<1> HIDE DEF g
<1>3. Others(g) = Others(f)
  BY <1>1, <1>2 DEF Others, IsTable
<1>4. \A m \in Others(f) : g[m] = f[m]
  BY <1>2 DEF Others, IsTable
<1>5. Holds(g, C, n)
  BY <1>2, <1>3, <1>4 DEF Holds
<1> QED
  BY <1>2, <1>5 DEF g, IsTable

LEMMA Opening ==
    ASSUME limit \in Limits, NEW f, IsTable(f), NEW C, NEW n \in Nat, Holds(f, C, n),
           FreeOf(f) # {}, \A k \in Std : f[k] # Closed,
           NEW x \in Contents, x # Closed, x \notin C
    PROVE  /\ IsTable(Opened(f, x))
           /\ Holds(Opened(f, x), C \union {x}, n + 1)
           /\ Adds(f, Opened(f, x), Lowest(f), x)
<1> DEFINE l == Lowest(f)
           g == [f EXCEPT ![l] = x]
<1>1. l \in FreeOf(f)
  BY LowestIsFree
<1>2. l \in Numbers \ Std /\ f[l] = Closed
  BY <1>1 DEF FreeOf
<1> HIDE DEF l
<1>3. /\ g \in [Numbers -> Contents] /\ g[l] = x
      /\ \A m \in Numbers : m # l => g[m] = f[m]
  BY <1>1, <1>2 DEF IsTable
<1> HIDE DEF g
<1>4. Others(g) = Others(f) \union {l} /\ l \notin Others(f)
  BY <1>2, <1>3 DEF Others, IsTable
<1>5. \A m \in Others(f) : m # l /\ g[m] = f[m]
  BY <1>3, <1>4 DEF Others, IsTable
<1>6. {g[m] : m \in Others(g)} = C \union {x}
  BY <1>3, <1>4, <1>5 DEF Holds
<1>7. \A i, j \in Others(g) : g[i] = g[j] => i = j
  BY <1>3, <1>4, <1>5 DEF Holds
<1>8. IsFiniteSet(Others(g)) /\ Cardinality(Others(g)) = n + 1
  BY <1>4, FS_AddElement DEF Holds
<1>9. Holds(g, C \union {x}, n + 1)
  BY <1>3, <1>6, <1>7, <1>8 DEF Holds
<1>10. g = Opened(f, x)
  BY DEF g, l, Opened
<1> QED
  BY <1>2, <1>3, <1>9, <1>10 DEF l, IsTable, Adds

LEMMA Closing ==
    ASSUME NEW f, IsTable(f), NEW C, NEW n \in Nat, Holds(f, C, n),
           NEW l \in Numbers \ Std, f[l] # Closed
    PROVE  /\ n > 0
           /\ IsTable([f EXCEPT ![l] = Closed])
           /\ Holds([f EXCEPT ![l] = Closed], C \ {f[l]}, n - 1)
<1> DEFINE g == [f EXCEPT ![l] = Closed]
<1>2. /\ g \in [Numbers -> Contents] /\ g[l] = Closed
      /\ \A m \in Numbers : m # l => g[m] = f[m]
  BY KnownContents DEF IsTable
<1> HIDE DEF g
<1>3. Others(g) = Others(f) \ {l} /\ l \in Others(f)
  BY <1>2 DEF Others, IsTable
<1>4. \A m \in Others(g) : m \in Others(f) /\ m # l /\ g[m] = f[m]
  BY <1>2, <1>3 DEF Others, IsTable
<1>5. \A m \in Others(f) : f[m] = f[l] => m = l
  BY <1>3 DEF Holds
<1>6. {g[m] : m \in Others(g)} = C \ {f[l]}
  BY <1>3, <1>4, <1>5 DEF Holds
<1>7. \A i, j \in Others(g) : g[i] = g[j] => i = j
  BY <1>4 DEF Holds
<1>8. /\ n > 0
      /\ IsFiniteSet(Others(g)) /\ Cardinality(Others(g)) = n - 1
  <2>1. IsFiniteSet(Others(f)) /\ Cardinality(Others(f)) = n
    BY DEF Holds
  <2>2. /\ IsFiniteSet(Others(g))
        /\ Cardinality(Others(g)) = Cardinality(Others(f)) - 1
    BY <1>3, <2>1, FS_RemoveElement
  <2>3. Cardinality(Others(g)) \in Nat
    BY <2>2, FS_CardinalityType
  <2> QED
    BY <2>1, <2>2, <2>3
<1>9. Holds(g, C \ {f[l]}, n - 1)
  BY <1>2, <1>6, <1>7, <1>8 DEF Holds
<1> QED
  BY <1>2, <1>8, <1>9 DEF g, IsTable

(* While 0, 1 and 2 are open, what is free is known. *)
LEMMA Counted ==
    ASSUME limit \in Limits, NEW f, IsTable(f), NEW C, NEW n \in Nat, Holds(f, C, n),
           \A k \in Std : f[k] # Closed
    PROVE  /\ Cardinality(Open(f)) = 3 + n
           /\ Cardinality(FreeOf(f)) = limit - (3 + n)
           /\ limit > 3 + n => FreeOf(f) # {}
           /\ limit >= 3 + n
<1>1. Open(f) = Std \union Others(f) /\ Std \cap Others(f) = {}
  BY NumberFacts DEF Open, Others, IsTable
<1>2. IsFiniteSet(Others(f)) /\ Cardinality(Others(f)) = n
  BY DEF Holds
<1>3. IsFiniteSet(Open(f)) /\ Cardinality(Open(f)) = 3 + n
  BY <1>1, <1>2, NumberFacts, FS_Union, FS_EmptySet
<1>4. Numbers = Open(f) \union FreeOf(f) /\ Open(f) \cap FreeOf(f) = {}
  BY DEF Open, FreeOf
<1>5. IsFiniteSet(FreeOf(f)) /\ Cardinality(FreeOf(f)) \in Nat
  BY NumberFacts, FS_Subset, FS_CardinalityType DEF FreeOf
<1>6. limit = 3 + n + Cardinality(FreeOf(f))
  <2>1. Cardinality(Open(f) \union FreeOf(f))
            = Cardinality(Open(f)) + Cardinality(FreeOf(f)) - Cardinality(Open(f) \cap FreeOf(f))
    BY <1>3, <1>5, FS_Union
  <2>2. Cardinality(Open(f) \cap FreeOf(f)) = 0
    BY <1>4, FS_EmptySet
  <2>3. limit = Cardinality(Open(f) \union FreeOf(f))
    BY <1>4, NumberFacts
  <2> QED
    BY <1>3, <1>5, <2>1, <2>2, <2>3
<1> QED
  BY <1>3, <1>5, <1>6, FS_EmptySet, NumberFacts

(* The files from before, and the pipes of the runs before and of this one. *)
LEMMA FormerFacts ==
    ASSUME NEW n \in Nat, NEW x \in Former(n)
    PROVE  \/ \E k \in 3..(2 + OpenBefore) : x = File(k)
           \/ \E e \in {"read", "write"}, k \in Std, r \in 1..n : x = Pipe(e, k, r)
<1>1. CASE x \in Elder
  BY <1>1 DEF Elder
<1>2. CASE x \in UNION {LeftBehind(r) : r \in 1..n}
  BY <1>2 DEF LeftBehind, Std
<1> QED
  BY <1>1, <1>2 DEF Former

LEMMA FormerNext ==
    ASSUME NEW n \in Nat \ {0}
    PROVE  Former(n) = Former(n - 1) \union LeftBehind(n)
<1>1. 1..n = 1..(n - 1) \union {n}
  OBVIOUS
<1> QED
  BY <1>1 DEF Former

(* Three numbers are taken: the old file, and the two ends of a pipe. *)
LEMMA BoxedFacts ==
    ASSUME limit \in Limits, run \in 1..MaxRuns, NEW k \in Std, NEW e \in {"read", "write"},
           IsTable(fds),
           NEW C, NEW n \in Nat, Holds(fds, C, n), \A j \in Std : fds[j] # Closed,
           fds[k] = File(k), Room(3),
           File(k) \notin C, Pipe("read", k, run) \notin C, Pipe("write", k, run) \notin C
    PROVE  /\ IsTable(Boxed(k, e))
           /\ Holds(Boxed(k, e),
                    C \union {File(k), Pipe("read", k, run), Pipe("write", k, run)}, n + 3)
           /\ Lowest(fds) \in Numbers \ Std /\ Boxed(k, e)[Lowest(fds)] = File(k)
           /\ Reader(k) \in Numbers \ Std /\ Boxed(k, e)[Reader(k)] = Pipe("read", k, run)
           /\ Writer(k) \in Numbers \ Std /\ Boxed(k, e)[Writer(k)] = Pipe("write", k, run)
           /\ Boxed(k, e)[k] = Pipe(e, k, run)
           /\ \A m \in Numbers : m # k /\ fds[m] # Closed => Boxed(k, e)[m] = fds[m]
<1> DEFINE r == Pipe("read", k, run)
           w == Pipe("write", k, run)
           f1 == Saved(k)
           f2 == Opened(f1, r)
           f3 == Opened(f2, w)
           f4 == Boxed(k, e)
<1>0. /\ r # Closed /\ w # Closed /\ File(k) # Closed
      /\ r # w /\ r # File(k) /\ w # File(k)
      /\ r \in Contents /\ w \in Contents /\ File(k) \in Contents /\ Pipe(e, k, run) \in Contents
  BY FileFacts, KnownContents
<1>1. limit \in Nat /\ Std \subseteq Numbers /\ limit >= 6 + n
  <2>1. Cardinality(FreeOf(fds)) = limit - (3 + n) /\ Cardinality(FreeOf(fds)) >= 3
    BY Counted DEF Room
  <2> QED
    BY <2>1, NumberFacts
<1>2. IsTable(f1) /\ Holds(f1, C \union {File(k)}, n + 1) /\ Adds(fds, f1, Lowest(fds), File(k))
  <2>1. FreeOf(fds) # {}
    BY <1>1, Counted
  <2>2. f1 = Opened(fds, File(k))
    BY DEF Saved
  <2> QED
    BY <1>0, <2>1, <2>2, Opening
<1> HIDE DEF r, w, f1, f4
<1>3. \A j \in Std : f1[j] # Closed
  BY <1>1, <1>2 DEF Adds
<1>4. IsTable(f2) /\ Holds(f2, C \union {File(k)} \union {r}, n + 1 + 1) /\ Adds(f1, f2, Lowest(f1), r)
  <2>1. FreeOf(f1) # {}
    BY <1>1, <1>2, <1>3, Counted
  <2>2. r \notin C \union {File(k)}
    BY <1>0 DEF r
  <2> QED
    BY <1>0, <1>2, <1>3, <2>1, <2>2, Opening
<1> HIDE DEF f2
<1>5. \A j \in Std : f2[j] # Closed
  BY <1>1, <1>3, <1>4 DEF Adds
<1>6. /\ IsTable(f3) /\ Holds(f3, C \union {File(k)} \union {r} \union {w}, n + 1 + 1 + 1)
      /\ Adds(f2, f3, Lowest(f2), w)
  <2>1. FreeOf(f2) # {}
    BY <1>1, <1>4, <1>5, Counted
  <2>2. w \notin C \union {File(k)} \union {r}
    BY <1>0 DEF w
  <2> QED
    BY <1>0, <1>4, <1>5, <2>1, <2>2, Opening
<1> HIDE DEF f3
<1>7. f4 = [f3 EXCEPT ![k] = Pipe(e, k, run)]
  BY DEF f4, f3, f2, f1, r, w, Boxed
<1>8. /\ IsTable(f4)
      /\ Holds(f4, C \union {File(k)} \union {r} \union {w}, n + 1 + 1 + 1)
  <2> DEFINE D == C \union {File(k)} \union {r} \union {w}
             o == n + 1 + 1 + 1
  <2>1. Holds(f3, D, o) /\ o \in Nat
    BY <1>6
  <2> HIDE DEF D, o
  <2>2. Holds([f3 EXCEPT ![k] = Pipe(e, k, run)], D, o)
    BY <1>0, <1>6, <2>1, Placing
  <2>3. IsTable([f3 EXCEPT ![k] = Pipe(e, k, run)])
    BY <1>0, <1>6, <2>1, Placing
  <2> QED
    BY <1>7, <2>2, <2>3 DEF D, o
<1>9. /\ f4[k] = Pipe(e, k, run) /\ k \in Numbers
      /\ \A m \in Numbers : m # k => f4[m] = f3[m]
  BY <1>1, <1>6, <1>7 DEF IsTable
<1>10. /\ C \union {File(k)} \union {r} \union {w} = C \union {File(k), r, w}
       /\ n + 1 + 1 + 1 = n + 3
  OBVIOUS
<1>11. Reader(k) = Lowest(f1) /\ Writer(k) = Lowest(f2)
  BY DEF Reader, Writer, f1, f2, r
<1>12. Holds(f4, C \union {File(k), r, w}, n + 3)
  BY <1>8, <1>10
<1>13. f4[Lowest(f2)] = w
  BY <1>6, <1>9 DEF Adds
<1>14. f4[Lowest(f1)] = r
  BY <1>0, <1>4, <1>6, <1>9 DEF Adds
<1>15. f4[Lowest(fds)] = File(k)
  BY <1>0, <1>2, <1>4, <1>6, <1>9 DEF Adds
<1>16. ASSUME NEW m \in Numbers, m # k, fds[m] # Closed
       PROVE  f4[m] = fds[m]
  BY <1>2, <1>4, <1>6, <1>9, <1>16 DEF Adds
<1> QED
  BY <1>2, <1>4, <1>6, <1>9, <1>11, <1>8, <1>12, <1>13, <1>14, <1>15, <1>16 DEF f4, r, w, Adds
-----------------------------------------------------------------------------
(* The steps of a run and the table. *)

LEMMA PiecesAre ==
    ASSUME NEW r
    PROVE  /\ Pieces("stdin", r) = {} /\ HowMany("stdin") = 0
           /\ Pieces("stdout", r) = {File(0), Pipe("read", 0, r)} /\ HowMany("stdout") = 2
           /\ Pieces("stderr", r) = Pieces("stdout", r)
                  \union {File(1), Pipe("read", 1, r), Pipe("write", 1, r)}
           /\ HowMany("stderr") = 5
           /\ \A p \in {"serve", "unbox stdin"} :
                 /\ Pieces(p, r) = Pieces("stderr", r)
                        \union {File(2), Pipe("read", 2, r), Pipe("write", 2, r)}
                 /\ HowMany(p) = 8
           /\ \A p \in Serving :
                 Pieces(p, r) = Pieces("serve", r) \union {Server(r)} /\ HowMany(p) = 9
           /\ \A p \in Reading(1) :
                 Pieces(p, r) = Pieces("serve", r) \ {File(0)} /\ HowMany(p) = 7
           /\ \A p \in Reading(2) :
                 /\ Pieces(p, r) = Pieces("serve", r) \ {File(0), File(1), Pipe("read", 1, r)}
                 /\ HowMany(p) = 5
BY DEF Pieces, HowMany, AllAside, Aside, Serving, Reading

(* A run's own pieces are not those of the runs before. *)
LEMMA Fresh ==
    ASSUME NEW n \in Nat, NEW r \in Nat, n < r
    PROVE  /\ \A k \in Std : File(k) \notin Former(n)
           /\ \A e \in {"read", "write"}, k \in Std : Pipe(e, k, r) \notin Former(n)
           /\ Server(r) \notin Former(n) /\ Connection(r) \notin Former(n)
<1>1. \A k \in Std : k \notin 3..(2 + OpenBefore)
  BY StdioAssumption DEF Std
<1>2. r \notin 1..n
  OBVIOUS
<1>3. \A k \in Std : File(k) \notin Former(n)
  BY <1>1, FormerFacts, FileFacts
<1>4. \A e \in {"read", "write"}, k \in Std : Pipe(e, k, r) \notin Former(n)
  BY <1>2, FormerFacts, FileFacts
<1>5. Server(r) \notin Former(n) /\ Connection(r) \notin Former(n)
  BY FormerFacts, FileFacts
<1> QED
  BY <1>3, <1>4, <1>5

LEMMA CallLayout ==
    ASSUME StdioInv, Call
    PROVE  Layout'
<1>1. run' - 1 = run /\ run \in Nat /\ run' = run + 1
  BY DEF Call, StdioInv, Variables
<1>2. Holds(fds, Former(run), Rest(run))
  BY DEF Call, StdioInv, Layout, Table
<1>3. Table'
  <2>0. Pieces("stdin", run') = {} /\ HowMany("stdin") = 0
    BY PiecesAre
  <2>1. /\ Former(run' - 1) \union Pieces("stdin", run') = Former(run)
        /\ Rest(run' - 1) + HowMany("stdin") = Rest(run)
    BY <1>1, <2>0, StdioAssumption DEF Rest
  <2> QED
    BY <1>2, <2>1 DEF Table, Call
<1>4. Standard'
  BY DEF Call, Standard, Redirected, PutAside, StdioInv, Layout, Serving, Reading, Running, Boxing
<1>5. Keeps'
  BY DEF Call, Keeps, Redirected, PutAside, Serving, Reading
<1> QED
  BY <1>3, <1>4, <1>5 DEF Layout

LEMMA RunningIs ==
    /\ Reading(1) = {"read stdout", "unbox stdout"}
    /\ Reading(2) = {"read stderr", "unbox stderr"}
    /\ Running = {"stdin", "stdout", "stderr", "serve", "body", "poll", "close", "unbox stdin",
                  "read stdout", "unbox stdout", "read stderr", "unbox stderr"}
<1>1. /\ Reading(1) = {"read stdout", "unbox stdout"}
      /\ Reading(2) = {"read stderr", "unbox stderr"}
  BY DEF Reading
<1> QED
  BY <1>1 DEF Running, Boxing, Serving

LEMMA InRun ==
    ASSUME StdioInv, pc \in Running
    PROVE  /\ limit \in Limits /\ run \in 1..MaxRuns /\ run - 1 \in Nat /\ run - 1 < run
           /\ run \in Nat /\ Rest(run - 1) \in Nat /\ IsTable(fds)
           /\ pc # "close" => Holds(fds, Former(run - 1) \union Pieces(pc, run),
                                    Rest(run - 1) + HowMany(pc))
<1>1. /\ limit \in Limits /\ run \in 1..MaxRuns /\ run - 1 \in Nat /\ run - 1 < run
      /\ run \in Nat /\ IsTable(fds)
  BY StdioAssumption DEF StdioInv, Variables
<1>2. Rest(run - 1) \in Nat
  BY <1>1, StdioAssumption DEF Rest
<1> QED
  BY <1>1, <1>2 DEF StdioInv, Layout, Table

LEMMA BoxStdinLayout ==
    ASSUME StdioInv, BoxStdin, Room(3)
    PROVE  Layout' /\ IsTable(fds') /\ Lowest(fds) \in Numbers /\ Writer(0) \in Numbers
<1> DEFINE C == Former(run - 1)
           n == Rest(run - 1)
           B == Boxed(0, "read")
           w == Writer(0)
           l == Lowest(fds)
<1>1. /\ pc = "stdin" /\ pc' = "stdout" /\ limit' = limit /\ run' = run
      /\ fds' = [B EXCEPT ![w] = Closed]
      /\ saved' = [saved EXCEPT ![0] = l]
  BY DEF BoxStdin
<1>2. /\ limit \in Limits /\ run \in 1..MaxRuns /\ run - 1 \in Nat /\ run - 1 < run
      /\ run \in Nat /\ n \in Nat /\ IsTable(fds) /\ Holds(fds, C, n)
  <2>1. Pieces("stdin", run) = {} /\ HowMany("stdin") = 0
    BY PiecesAre
  <2>2. pc \in Running /\ pc # "close"
    BY <1>1 DEF Running, Boxing
  <2>3. /\ run - 1 \in Nat /\ n \in Nat
        /\ Holds(fds, C \union Pieces(pc, run), n + HowMany(pc))
    BY <2>2, InRun
  <2>4. C \union Pieces(pc, run) = C /\ n + HowMany(pc) = n
    BY <1>1, <2>1, <2>3
  <2> QED
    BY <2>2, <2>3, <2>4, InRun
<1>3. \A k \in Std : fds[k] = File(k)
  BY <1>1 DEF StdioInv, Layout, Standard, PutAside, Redirected, Running, Boxing, Serving,
              Reading
<1>4. /\ File(0) \notin C /\ Pipe("read", 0, run) \notin C /\ Pipe("write", 0, run) \notin C
  BY <1>2, Fresh DEF Std
<1>5. \A j \in Std : fds[j] # Closed
  BY <1>3, FileFacts
<1> HIDE DEF C, n
<1>6. /\ IsTable(B)
      /\ Holds(B, C \union {File(0), Pipe("read", 0, run), Pipe("write", 0, run)}, n + 3)
      /\ l \in Numbers \ Std /\ B[l] = File(0)
      /\ w \in Numbers \ Std /\ B[w] = Pipe("write", 0, run)
      /\ B[0] = Pipe("read", 0, run)
      /\ \A m \in Numbers : m # 0 /\ fds[m] # Closed => B[m] = fds[m]
  <2>1. 0 \in Std /\ fds[0] = File(0)
    BY <1>3 DEF Std
  <2>2. /\ IsTable(B)
        /\ Holds(B, C \union {File(0), Pipe("read", 0, run), Pipe("write", 0, run)}, n + 3)
    BY <1>2, <1>4, <1>5, <2>1, BoxedFacts
  <2>3. /\ l \in Numbers \ Std /\ B[l] = File(0)
        /\ w \in Numbers \ Std /\ B[w] = Pipe("write", 0, run)
        /\ B[0] = Pipe("read", 0, run)
    BY <1>2, <1>4, <1>5, <2>1, BoxedFacts
  <2>4. \A m \in Numbers : m # 0 /\ fds[m] # Closed => B[m] = fds[m]
    BY <1>2, <1>4, <1>5, <2>1, BoxedFacts
  <2> QED
    BY <2>2, <2>3, <2>4
<1> HIDE DEF B, w, l
<1>7. /\ File(0) # Pipe("write", 0, run) /\ Pipe("read", 0, run) # Pipe("write", 0, run)
      /\ Pipe("write", 0, run) # Closed
  BY FileFacts
<1>8. IsTable(fds') /\ Holds(fds', C \union {File(0), Pipe("read", 0, run)}, n + 2)
  <2> DEFINE D == C \union {File(0), Pipe("read", 0, run), Pipe("write", 0, run)}
             o == n + 3
  <2>1. IsTable(B) /\ Holds(B, D, o) /\ o \in Nat
    BY <1>2, <1>6
  <2>2. D \ {Pipe("write", 0, run)} = C \union {File(0), Pipe("read", 0, run)} /\ o - 1 = n + 2
    BY <1>2, <1>4, <1>7
  <2> HIDE DEF D, o
  <2>3. IsTable([B EXCEPT ![w] = Closed]) /\ Holds([B EXCEPT ![w] = Closed], D \ {B[w]}, o - 1)
    BY <1>6, <1>7, <2>1, Closing
  <2> QED
    BY <1>1, <1>6, <2>2, <2>3
<1>9. \A m \in Numbers : m # w => fds'[m] = B[m]
  BY <1>1, <1>6 DEF IsTable
<1>10. Table'
  <2>1. Pieces("stdout", run) = {File(0), Pipe("read", 0, run)} /\ HowMany("stdout") = 2
    BY PiecesAre
  <2> QED
    BY <1>1, <1>8, <2>1 DEF Table, C, n
<1>11. Std \subseteq Numbers
  BY <1>2, NumberFacts
<1>12. fds'[0] = Pipe("read", 0, run) /\ fds'[1] = File(1) /\ fds'[2] = File(2)
  BY <1>3, <1>5, <1>6, <1>9, <1>11 DEF Std
<1>13. Standard'
  BY <1>1, <1>12 DEF Standard, PutAside, Redirected, Serving, Reading, Std, Outputs
<1>14. l # w /\ fds'[l] = File(0)
  BY <1>6, <1>7, <1>9
<1>15. saved'[0] = l
  BY <1>1 DEF StdioInv, Variables, Std
<1>16. Keeps'
  BY <1>1, <1>6, <1>14, <1>15 DEF Keeps, PutAside, Redirected, Serving, Reading, Std, Outputs, Numbers
<1> QED
  BY <1>6, <1>8, <1>10, <1>13, <1>16 DEF Layout, l, w

LEMMA BoxOutputLayout ==
    ASSUME StdioInv, NEW k \in Outputs, BoxOutput(k), Room(3)
    PROVE  Layout' /\ IsTable(fds') /\ Lowest(fds) \in Numbers /\ Reader(k) \in Numbers
<1> DEFINE C == Former(run - 1) \union Pieces(pc, run)
           n == Rest(run - 1) + HowMany(pc)
           B == Boxed(k, "write")
           l == Lowest(fds)
           r == Reader(k)
<1>1. /\ pc = (IF k = 1 THEN "stdout" ELSE "stderr")
      /\ pc' = (IF k = 1 THEN "stderr" ELSE "serve")
      /\ limit' = limit /\ run' = run /\ fds' = B
      /\ saved' = [saved EXCEPT ![k] = l] /\ boxed' = [boxed EXCEPT ![k] = r]
  BY DEF BoxOutput
<1>1a. k \in {1, 2} /\ k \in Std
  BY DEF Outputs, Std
<1>1b. /\ Pieces("stdout", run) = {File(0), Pipe("read", 0, run)} /\ HowMany("stdout") = 2
       /\ Pieces("stderr", run) = Pieces("stdout", run)
              \union {File(1), Pipe("read", 1, run), Pipe("write", 1, run)}
       /\ HowMany("stderr") = 5
       /\ Pieces("serve", run) = Pieces("stderr", run)
              \union {File(2), Pipe("read", 2, run), Pipe("write", 2, run)}
       /\ HowMany("serve") = 8
  BY PiecesAre
<1>2. /\ limit \in Limits /\ run \in 1..MaxRuns /\ run - 1 \in Nat /\ run - 1 < run
      /\ run \in Nat /\ n \in Nat /\ IsTable(fds) /\ Holds(fds, C, n)
  BY <1>1, <1>1b, InRun DEF Running, Boxing
<1>3. /\ fds[k] = File(k)
      /\ \A j \in Std : \E e \in {"read", "write"} : fds[j] \in {File(j), Pipe(e, j, run)}
  BY <1>1, <1>1a DEF StdioInv, Layout, Standard, PutAside, Redirected, Running, Boxing, Serving,
              Reading, Outputs, Std
<1>4. File(k) \notin C /\ Pipe("read", k, run) \notin C /\ Pipe("write", k, run) \notin C
  <2>1. /\ File(k) \notin Pieces(pc, run)
        /\ \A e \in {"read", "write"} : Pipe(e, k, run) \notin Pieces(pc, run)
    BY <1>1, <1>1a, <1>1b, FileFacts
  <2> QED
    BY <1>1a, <1>2, <2>1, Fresh
<1>5. \A j \in Std : fds[j] # Closed
  BY <1>3, FileFacts
<1> HIDE DEF C, n
<1>6. /\ IsTable(B)
      /\ Holds(B, C \union {File(k), Pipe("read", k, run), Pipe("write", k, run)}, n + 3)
      /\ l \in Numbers \ Std /\ B[l] = File(k)
      /\ r \in Numbers \ Std /\ B[r] = Pipe("read", k, run)
      /\ B[k] = Pipe("write", k, run)
      /\ \A m \in Numbers : m # k /\ fds[m] # Closed => B[m] = fds[m]
  BY <1>1a, <1>2, <1>3, <1>4, <1>5, BoxedFacts
<1> HIDE DEF B, l, r
<1>7. Table'
  <2>1. /\ C \union {File(k), Pipe("read", k, run), Pipe("write", k, run)}
            = Former(run - 1) \union Pieces(pc', run)
        /\ n + 3 = Rest(run - 1) + HowMany(pc')
    <3>1. Rest(run - 1) \in Nat
      BY <1>1, InRun DEF Running, Boxing
    <3>2. C \union {File(k), Pipe("read", k, run), Pipe("write", k, run)}
              = Former(run - 1) \union Pieces(pc', run)
      BY <1>1, <1>1a, <1>1b DEF C
    <3>3. n + 3 = Rest(run - 1) + HowMany(pc')
      BY <1>1, <1>1a, <1>1b, <3>1 DEF n
    <3> QED
      BY <3>2, <3>3
  <2> QED
    BY <1>1, <1>6, <2>1 DEF Table
<1>8. Std \subseteq Numbers
  BY <1>2, NumberFacts
<1>9. \A j \in Std \ {k} : fds'[j] = fds[j]
  BY <1>1, <1>5, <1>6, <1>8
<1>10. Standard'
  <2>1. CASE k = 1
    <3>1. fds[0] = Pipe("read", 0, run) /\ fds[2] = File(2)
      BY <1>1, <2>1 DEF StdioInv, Layout, Standard, PutAside, Redirected, Running, Boxing, Serving,
                        Reading, Std, Outputs
    <3>2. /\ fds'[0] = Pipe("read", 0, run) /\ fds'[1] = Pipe("write", 1, run)
          /\ fds'[2] = File(2)
      BY <1>1, <1>6, <1>9, <2>1, <3>1 DEF Std
    <3> QED
      BY <1>1, <2>1, <3>2 DEF Standard, PutAside, Redirected, Serving, Reading, Std, Outputs
  <2>2. CASE k = 2
    <3>1. fds[0] = Pipe("read", 0, run) /\ fds[1] = Pipe("write", 1, run)
      BY <1>1, <2>2 DEF StdioInv, Layout, Standard, PutAside, Redirected, Running, Boxing, Serving,
                        Reading, Std, Outputs
    <3>2. /\ fds'[0] = Pipe("read", 0, run) /\ fds'[1] = Pipe("write", 1, run)
          /\ fds'[2] = Pipe("write", 2, run)
      BY <1>1, <1>6, <1>9, <2>2, <3>1 DEF Std
    <3> QED
      BY <1>1, <2>2, <3>2 DEF Standard, PutAside, Redirected, Serving, Reading, Std, Outputs
  <2> QED
    BY <1>1a, <2>1, <2>2
<1>11. saved'[k] = l /\ boxed'[k] = r
  BY <1>1, <1>1a DEF StdioInv, Variables
<1>12. \A j \in Std \ {k} : saved'[j] = saved[j] /\ boxed'[j] = boxed[j]
  BY <1>1 DEF StdioInv, Variables
<1>13. Numbers' = Numbers
  BY <1>1 DEF Numbers
<1>14. ASSUME NEW j \in Std, PutAside(j)'
       PROVE  /\ saved'[j] \in Numbers \ Std /\ fds'[saved'[j]] = File(j)
              /\ j \in Outputs => /\ boxed'[j] \in Numbers \ Std
                                  /\ fds'[boxed'[j]] = Pipe("read", j, run)
  <2>1. CASE j = k
    BY <1>1, <1>6, <1>11, <2>1
  <2>2. CASE j # k
    <3>1. PutAside(j)
      <4>1. CASE k = 1
        BY <1>1, <1>14, <2>2, <4>1 DEF PutAside, Redirected, Serving, Reading, Std, Outputs
      <4>2. CASE k = 2
        BY <1>1, <1>14, <2>2, <4>2 DEF PutAside, Redirected, Serving, Reading, Std, Outputs
      <4> QED
        BY <1>1a, <4>1, <4>2
    <3>2. /\ saved[j] \in Numbers \ Std /\ fds[saved[j]] = File(j)
          /\ j \in Outputs => /\ boxed[j] \in Numbers \ Std
                              /\ fds[boxed[j]] = Pipe("read", j, run)
      BY <3>1 DEF StdioInv, Layout, Keeps
    <3>3. File(j) # Closed /\ Pipe("read", j, run) # Closed
      BY FileFacts
    <3> QED
      BY <1>1, <1>1a, <1>6, <1>12, <2>2, <3>2, <3>3
  <2> QED
    BY <2>1, <2>2
<1>15. Keeps'
  BY <1>1, <1>13, <1>14 DEF Keeps
<1> QED
  BY <1>1, <1>6, <1>7, <1>10, <1>15 DEF Layout, l, r

(* The steps that leave the table alone. *)
LEMMA SteadyLayout ==
    ASSUME StdioInv, UNCHANGED <<limit, fds, run, saved, boxed>>,
           \/ pc' = pc
           \/ pc' = "exhausted"
           \/ pc = "body" /\ pc' = "poll"
           \/ pc = "poll" /\ pc' = "close"
           \/ pc = "read stdout" /\ pc' = "unbox stdout"
           \/ pc = "read stderr" /\ pc' = "unbox stderr"
    PROVE  Layout'
<1>1. CASE pc' = pc
  BY <1>1 DEF StdioInv, Layout, Table, Standard, Keeps, PutAside, Redirected, Numbers
<1>2. CASE pc' = "exhausted"
  BY <1>2 DEF Layout, Table, Standard, Keeps, PutAside, Redirected, Running, Boxing, Serving, Reading
<1>3. CASE \/ pc = "body" /\ pc' = "poll"
           \/ pc = "poll" /\ pc' = "close"
           \/ pc = "read stdout" /\ pc' = "unbox stdout"
           \/ pc = "read stderr" /\ pc' = "unbox stderr"
  <2>1. Pieces(pc', run) = Pieces(pc, run) /\ HowMany(pc') = HowMany(pc)
    BY <1>3 DEF Pieces, HowMany
  <2>2. pc \in Running /\ pc' \in Running /\ pc # "close" /\ pc' # "idle"
    <3>1. {"body", "poll", "close", "read stdout", "unbox stdout", "read stderr", "unbox stderr"}
              \subseteq Running
      BY RunningIs
    <3> QED
      BY <1>3, <3>1
  <2>3. Table'
    BY <2>1, <2>2, InRun DEF Table
  <2>4. \A k \in Std : /\ Redirected(k)' <=> Redirected(k)
                       /\ PutAside(k)' <=> PutAside(k)
    BY <1>3 DEF PutAside, Redirected, Serving, Reading, Std
  <2>5. Standard'
    BY <2>2, <2>4 DEF StdioInv, Layout, Standard
  <2>6. Keeps'
    BY <2>4 DEF StdioInv, Layout, Keeps, Numbers
  <2> QED
    BY <2>3, <2>5, <2>6 DEF Layout
<1> QED
  BY <1>1, <1>2, <1>3

(* A socket is opened. *)
LEMMA SocketFacts ==
    ASSUME StdioInv, NEW C, NEW n \in Nat, Holds(fds, C, n), pc \in {"serve", "poll"},
           NEW x \in Contents, x # Closed, x \notin C, NEW m \in Nat \ {0}, Room(m),
           fds' = Opened(fds, x), UNCHANGED <<limit, run, saved, boxed>>,
           pc' \in {"body", "close"}
    PROVE  /\ IsTable(fds') /\ Holds(fds', C \union {x}, n + 1)
           /\ Standard' /\ Keeps'
<1>1. limit \in Limits /\ IsTable(fds) /\ pc \in Running
  BY InRun DEF Running, Boxing, Serving
<1>2. \A k \in Std : fds[k] # Closed
  <2>1. \A k \in Std : \E e \in {"read", "write"} : fds[k] = Pipe(e, k, run)
    BY <1>1 DEF StdioInv, Layout, Standard, PutAside, Redirected, Serving, Reading, Std
  <2> QED
    BY <2>1, FileFacts
<1>3. FreeOf(fds) # {}
  <2>1. limit \in Nat /\ Cardinality(FreeOf(fds)) = limit - (3 + n) /\ Cardinality(FreeOf(fds)) >= m
    BY <1>1, <1>2, Counted, NumberFacts DEF Room
  <2> QED
    BY <1>1, <1>2, <2>1, Counted
<1>4. /\ IsTable(fds') /\ Holds(fds', C \union {x}, n + 1)
      /\ Adds(fds, fds', Lowest(fds), x)
  BY <1>1, <1>2, <1>3, Opening
<1>5. \A j \in Numbers : fds[j] # Closed => fds'[j] = fds[j]
  BY <1>4 DEF Adds
<1>6. Std \subseteq Numbers
  BY <1>1, NumberFacts
<1>7. \A k \in Std : /\ PutAside(k)' /\ PutAside(k) /\ Redirected(k)' /\ Redirected(k)
                     /\ fds'[k] = fds[k]
  BY <1>2, <1>5, <1>6 DEF PutAside, Redirected, Serving, Std
<1>8. Standard'
  BY <1>1, <1>7 DEF StdioInv, Layout, Standard
<1>9. Keeps'
  BY <1>5, <1>7, FileFacts DEF StdioInv, Layout, Keeps, Numbers
<1> QED
  BY <1>4, <1>8, <1>9

LEMMA ServeLayout ==
    ASSUME StdioInv, Serve, Room(2)
    PROVE  Layout' /\ IsTable(fds')
<1> DEFINE C == Former(run - 1) \union Pieces("serve", run)
           n == Rest(run - 1) + 8
<1>1. /\ pc = "serve" /\ pc' = "body" /\ fds' = Opened(fds, Server(run))
      /\ UNCHANGED <<limit, run, saved, boxed>>
  BY DEF Serve, boxes
<1>2. /\ Pieces("stdout", run) = {File(0), Pipe("read", 0, run)}
      /\ Pieces("stderr", run) = Pieces("stdout", run)
             \union {File(1), Pipe("read", 1, run), Pipe("write", 1, run)}
      /\ Pieces("serve", run) = Pieces("stderr", run)
             \union {File(2), Pipe("read", 2, run), Pipe("write", 2, run)}
      /\ HowMany("serve") = 8 /\ HowMany("body") = 9
      /\ Pieces("body", run) = Pieces("serve", run) \union {Server(run)}
  BY PiecesAre DEF Serving
<1>3. /\ run \in 1..MaxRuns /\ run - 1 \in Nat /\ run \in Nat /\ run - 1 < run
      /\ n \in Nat /\ Holds(fds, C, n)
  BY <1>1, <1>2, InRun DEF Running, Boxing
<1>4. Server(run) \notin C /\ Server(run) \in Contents /\ Server(run) # Closed
  <2>1. Server(run) \notin Former(run - 1)
    BY <1>3, Fresh
  <2>2. Server(run) \notin Pieces("serve", run)
    BY <1>2, FileFacts
  <2> QED
    BY <1>3, <2>1, <2>2, FileFacts, KnownContents
<1> HIDE DEF C, n
<1>5. IsTable(fds') /\ Holds(fds', C \union {Server(run)}, n + 1) /\ Standard' /\ Keeps'
  BY <1>1, <1>3, <1>4, 2 \in Nat \ {0}, SocketFacts
<1>6. Table'
  <2>1. /\ C \union {Server(run)} = Former(run - 1) \union Pieces("body", run)
        /\ n + 1 = Rest(run - 1) + HowMany("body")
    <3>1. Rest(run - 1) \in Nat
      BY <1>1, InRun DEF Running, Boxing
    <3> QED
      BY <1>2, <3>1 DEF C, n
  <2> QED
    BY <1>1, <1>5, <2>1 DEF Table
<1> QED
  BY <1>5, <1>6 DEF Layout

(* How many numbers are free where one is asked for. *)
LEMMA FreeNow ==
    ASSUME StdioInv, pc \in Boxing \union {"body", "poll"}
    PROVE  /\ limit \in Nat /\ run \in Nat /\ Rest(run) \in Nat /\ HowMany(pc) \in {0, 2, 5, 8, 9}
           /\ Cardinality(FreeOf(fds)) = limit - Rest(run) - HowMany(pc)
<1>1. pc \in Running /\ pc # "close"
  <2>1. pc \in {"stdin", "stdout", "stderr", "serve", "body", "poll"}
    BY DEF Boxing
  <2> QED
    BY <2>1, RunningIs
<1>2. HowMany(pc) \in {0, 2, 5, 8, 9}
  <2>1. /\ HowMany("stdin") = 0 /\ HowMany("stdout") = 2 /\ HowMany("stderr") = 5
        /\ HowMany("serve") = 8 /\ HowMany("body") = 9 /\ HowMany("poll") = 9
    BY DEF HowMany
  <2>2. pc \in {"stdin", "stdout", "stderr", "serve", "body", "poll"}
    BY DEF Boxing
  <2> QED
    BY <2>1, <2>2
<1>3. /\ limit \in Limits /\ run - 1 \in Nat /\ run \in Nat /\ Rest(run - 1) \in Nat /\ IsTable(fds)
      /\ Holds(fds, Former(run - 1) \union Pieces(pc, run), Rest(run - 1) + HowMany(pc))
  BY <1>1, InRun
<1>4. \A k \in Std : \E e \in {"read", "write"} : fds[k] \in {File(k), Pipe(e, k, run)}
  BY <1>1 DEF StdioInv, Layout, Standard, PutAside, Redirected, Boxing, Serving, Reading, Std, Outputs
<1>5. \A k \in Std : fds[k] # Closed
  BY <1>4, FileFacts
<1>6. PICK n \in Nat : n = Rest(run - 1) + HowMany(pc)
  BY <1>2, <1>3
<1>7. Cardinality(FreeOf(fds)) = limit - (3 + n)
  BY <1>3, <1>5, <1>6, Counted
<1>8. limit \in Nat
  BY <1>3, NumberFacts
<1>9. 3 + Rest(run - 1) = Rest(run) /\ Rest(run) \in Nat
  BY <1>3, StdioAssumption DEF Rest
<1>10. 3 + n = Rest(run) + HowMany(pc)
  BY <1>2, <1>3, <1>6, <1>9
<1> QED
  BY <1>10, <1>2, <1>3, <1>6, <1>7, <1>8, <1>9

LEMMA AcceptLayout ==
    ASSUME StdioInv, Accept
    PROVE  Layout' /\ IsTable(fds')
<1> DEFINE C == Former(run - 1) \union Pieces("poll", run)
           n == Rest(run - 1) + 9
<1>1. /\ pc = "poll" /\ pc' = "close" /\ fds' = Opened(fds, Connection(run))
      /\ UNCHANGED <<limit, run, saved, boxed>>
  BY DEF Accept, boxes
<1>2. /\ Pieces("stdout", run) = {File(0), Pipe("read", 0, run)}
      /\ Pieces("stderr", run) = Pieces("stdout", run)
             \union {File(1), Pipe("read", 1, run), Pipe("write", 1, run)}
      /\ Pieces("serve", run) = Pieces("stderr", run)
             \union {File(2), Pipe("read", 2, run), Pipe("write", 2, run)}
      /\ HowMany("poll") = 9 /\ HowMany("close") = 9
      /\ Pieces("poll", run) = Pieces("serve", run) \union {Server(run)}
      /\ Pieces("close", run) = Pieces("serve", run) \union {Server(run)}
  BY PiecesAre DEF Serving
<1>3. /\ run \in 1..MaxRuns /\ run - 1 \in Nat /\ run \in Nat /\ run - 1 < run
      /\ n \in Nat /\ Holds(fds, C, n)
  BY <1>1, <1>2, InRun DEF Running, Serving
<1>4. Connection(run) \notin C /\ Connection(run) \in Contents /\ Connection(run) # Closed
  <2>1. Connection(run) \notin Former(run - 1)
    BY <1>3, Fresh
  <2>2. Connection(run) \notin Pieces("poll", run)
    BY <1>2, FileFacts
  <2> QED
    BY <1>3, <2>1, <2>2, FileFacts, KnownContents
<1> HIDE DEF C, n
<1>5. Room(1)
  <2>1. limit >= Rest(run) + 10
    BY <1>1 DEF StdioInv, Enough, Serving
  <2>2. /\ limit \in Nat /\ Rest(run) \in Nat
        /\ Cardinality(FreeOf(fds)) = limit - Rest(run) - HowMany("poll")
    BY <1>1, FreeNow
  <2> QED
    BY <1>2, <2>1, <2>2 DEF Room
<1>6. IsTable(fds') /\ Holds(fds', C \union {Connection(run)}, n + 1) /\ Standard' /\ Keeps'
  BY <1>1, <1>3, <1>4, <1>5, 1 \in Nat \ {0}, SocketFacts
<1>7. Table'
  <2>1. /\ C \union {Connection(run)}
            = Former(run - 1) \union Pieces("close", run) \union {Connection(run)}
        /\ n + 1 = Rest(run - 1) + HowMany("close") + 1
    BY <1>2, <1>3 DEF C, n
  <2> QED
    BY <1>1, <1>6, <2>1 DEF Table
<1> QED
  BY <1>6, <1>7 DEF Layout

(* What a number besides 0, 1 and 2 refers to can be closed by name. *)
ClosedAll(f, x) == [m \in Numbers |-> IF f[m] = x THEN Closed ELSE f[m]]

LEMMA ClosingAll ==
    ASSUME NEW f, IsTable(f), NEW C, NEW n \in Nat, Holds(f, C, n),
           NEW x \in C, \A k \in Std : f[k] # x
    PROVE  n > 0 /\ IsTable(ClosedAll(f, x)) /\ Holds(ClosedAll(f, x), C \ {x}, n - 1)
<1>1. PICK l \in Others(f) : f[l] = x
  BY DEF Holds
<1>2. l \in Numbers \ Std /\ f[l] # Closed
  BY <1>1 DEF Others, IsTable
<1>3. \A m \in Numbers : f[m] = x => m = l
  <2> SUFFICES ASSUME NEW m \in Numbers, f[m] = x
               PROVE  m = l
    OBVIOUS
  <2>1. m \in Others(f)
    BY <1>1, <1>2 DEF Others, IsTable
  <2> QED
    BY <1>1, <2>1 DEF Holds
<1>4. ClosedAll(f, x) = [f EXCEPT ![l] = Closed]
  BY <1>1, <1>2, <1>3 DEF ClosedAll, IsTable
<1>5. /\ n > 0 /\ IsTable([f EXCEPT ![l] = Closed])
      /\ Holds([f EXCEPT ![l] = Closed], C \ {f[l]}, n - 1)
  BY <1>2, Closing
<1> QED
  BY <1>1, <1>4, <1>5

LEMMA CloseServerLayout ==
    ASSUME StdioInv, CloseServer
    PROVE  Layout' /\ IsTable(fds')
<1> DEFINE C == Former(run - 1) \union Pieces("serve", run)
           n == Rest(run - 1) + 8
           s == Server(run)
           c == Connection(run)
<1>1. /\ pc = "close" /\ pc' = "unbox stdin"
      /\ fds' = [m \in Numbers |-> IF fds[m] \in {s, c} THEN Closed ELSE fds[m]]
      /\ UNCHANGED <<limit, run, saved, boxed>>
  BY DEF CloseServer, boxes
<1>2. /\ Pieces("stdout", run) = {File(0), Pipe("read", 0, run)}
      /\ Pieces("stderr", run) = Pieces("stdout", run)
             \union {File(1), Pipe("read", 1, run), Pipe("write", 1, run)}
      /\ Pieces("serve", run) = Pieces("stderr", run)
             \union {File(2), Pipe("read", 2, run), Pipe("write", 2, run)}
      /\ Pieces("close", run) = Pieces("serve", run) \union {s} /\ HowMany("close") = 9
      /\ Pieces("unbox stdin", run) = Pieces("serve", run) /\ HowMany("unbox stdin") = 8
  <2>1. "close" \in Serving /\ "unbox stdin" \in {"serve", "unbox stdin"}
        /\ "serve" \in {"serve", "unbox stdin"}
    BY DEF Serving
  <2> QED
    BY <2>1, PiecesAre
<1>3. /\ limit \in Limits /\ run - 1 \in Nat /\ run \in Nat /\ run - 1 < run /\ n \in Nat
      /\ IsTable(fds)
  <2>1. pc \in Running
    BY <1>1, RunningIs
  <2>2. Rest(run - 1) \in Nat
    BY <2>1, InRun
  <2> QED
    BY <2>1, <2>2, InRun
<1>3a. Rest(run - 1) \in Nat
  BY <1>1, RunningIs, InRun
<1>4. s \notin C /\ c \notin C /\ s # c
  <2>1. s \notin Former(run - 1) /\ c \notin Former(run - 1)
    BY <1>3, Fresh
  <2>2. s \notin Pieces("serve", run) /\ c \notin Pieces("serve", run)
    BY <1>2, FileFacts
  <2> QED
    BY <2>1, <2>2, FileFacts
<1>5. \A k \in Std : \E e \in {"read", "write"} : fds[k] = Pipe(e, k, run)
  BY <1>1, RunningIs DEF StdioInv, Layout, Standard, PutAside, Redirected, Serving, Std
<1>6. \A k \in Std : fds[k] # s /\ fds[k] # c /\ fds[k] # Closed
  BY <1>5, FileFacts
<1>7. \/ Holds(fds, C \union {s}, n + 1)
      \/ Holds(fds, C \union {s} \union {c}, n + 2)
  <2>1. Former(run - 1) \union Pieces("close", run) = C \union {s}
    BY <1>2
  <2>2. Rest(run - 1) + HowMany("close") = n + 1 /\ n + 1 + 1 = n + 2
    <3>1. HowMany("close") = 9
      BY <1>2
    <3>2. Rest(run - 1) \in Nat
      BY <1>3a
    <3> QED
      BY <3>1, <3>2
  <2>3. \/ Holds(fds, C \union {s}, n + 1)
        \/ Holds(fds, C \union {s} \union {c}, n + 1 + 1)
    BY <1>1, <2>1, <2>2, RunningIs DEF StdioInv, Layout, Table
  <2> QED
    BY <2>2, <2>3
<1> HIDE DEF C, n
<1>8. IsTable(fds') /\ Holds(fds', C, n)
  <2>1. CASE Holds(fds, C \union {s}, n + 1)
    <3>1. IsTable(ClosedAll(fds, s)) /\ Holds(ClosedAll(fds, s), (C \union {s}) \ {s}, n + 1 - 1)
      BY <1>3, <1>6, <2>1, ClosingAll
    <3>2. (C \union {s}) \ {s} = C /\ n + 1 - 1 = n
      BY <1>3, <1>4
    <3>3. \A m \in Numbers : fds[m] # c
      <4> SUFFICES ASSUME NEW m \in Numbers, fds[m] = c
                   PROVE  FALSE
        OBVIOUS
      <4>1. m \in Others(fds)
        BY <1>3, <1>6, FileFacts DEF Others, IsTable
      <4> QED
        BY <1>4, <2>1, <4>1 DEF Holds
    <3>4. fds' = ClosedAll(fds, s)
      BY <1>1, <3>3 DEF ClosedAll
    <3> QED
      BY <3>1, <3>2, <3>4
  <2>2. CASE Holds(fds, C \union {s} \union {c}, n + 2)
    <3> DEFINE g == ClosedAll(fds, c)
    <3>1. IsTable(g) /\ Holds(g, (C \union {s} \union {c}) \ {c}, n + 2 - 1)
      BY <1>3, <1>6, <2>2, ClosingAll
    <3>2. (C \union {s} \union {c}) \ {c} = C \union {s} /\ n + 2 - 1 = n + 1
          /\ (C \union {s}) \ {s} = C /\ n + 1 - 1 = n
      BY <1>3, <1>4
    <3>3. \A k \in Std : g[k] # s
      BY <1>3, <1>6, NumberFacts DEF ClosedAll
    <3>4. \A m \in Numbers : g[m] = IF fds[m] = c THEN Closed ELSE fds[m]
      BY DEF ClosedAll
    <3> HIDE DEF g
    <3>5. IsTable(ClosedAll(g, s)) /\ Holds(ClosedAll(g, s), (C \union {s}) \ {s}, n + 1 - 1)
      BY <1>3, <3>1, <3>2, <3>3, ClosingAll
    <3>6. fds' = ClosedAll(g, s)
      BY <1>1, <3>4, FileFacts DEF ClosedAll
    <3> QED
      BY <3>2, <3>5, <3>6
  <2> QED
    BY <1>7, <2>1, <2>2
<1>9. Table'
  BY <1>1, <1>2, <1>8, RunningIs DEF Table, C, n
<1>10. \A m \in Numbers : fds[m] \notin {s, c} => fds'[m] = fds[m]
  BY <1>1
<1>11. Std \subseteq Numbers
  BY <1>3, NumberFacts
<1>12. \A k \in Std : /\ PutAside(k)' /\ PutAside(k) /\ Redirected(k)' /\ Redirected(k)
                      /\ fds'[k] = fds[k]
  BY <1>1, <1>6, <1>10, <1>11 DEF PutAside, Redirected, Serving, Std
<1>13. Standard'
  BY <1>1, <1>12, RunningIs DEF StdioInv, Layout, Standard
<1>14. Keeps'
  <2>1. \A k \in Std : /\ File(k) \notin {s, c} /\ Pipe("read", k, run) \notin {s, c}
    BY FileFacts
  <2>2. Numbers' = Numbers
    BY <1>1 DEF Numbers
  <2>3. ASSUME NEW k \in Std
        PROVE  /\ saved[k] \in Numbers \ Std /\ fds'[saved[k]] = File(k)
               /\ k \in Outputs => /\ boxed[k] \in Numbers \ Std
                                   /\ fds'[boxed[k]] = Pipe("read", k, run)
    BY <1>10, <1>12, <2>1 DEF StdioInv, Layout, Keeps
  <2> QED
    BY <1>1, <2>2, <2>3 DEF Keeps
<1> QED
  BY <1>8, <1>9, <1>13, <1>14 DEF Layout

(* An old file is put back. *)
LEMMA RestoredFacts ==
    ASSUME limit \in Limits, NEW f, IsTable(f), NEW C, NEW n \in Nat, Holds(f, C, n),
           NEW k \in Std, saved[k] \in Numbers \ Std, f[saved[k]] = File(k)
    PROVE  /\ n > 0 /\ IsTable(Restored(f, k)) /\ Holds(Restored(f, k), C \ {File(k)}, n - 1)
           /\ Restored(f, k)[k] = File(k)
           /\ \A m \in Numbers : m # k /\ m # saved[k] => Restored(f, k)[m] = f[m]
<1> DEFINE l == saved[k]
           g == [f EXCEPT ![k] = File(k)]
<1>1. File(k) \in Contents /\ File(k) # Closed /\ k \in Numbers /\ l # k
  BY KnownContents, FileFacts, NumberFacts
<1>2. IsTable(g) /\ Holds(g, C, n)
  BY <1>1, Placing
<1>3. g[l] = File(k) /\ \A m \in Numbers : m # k => g[m] = f[m]
  BY <1>1 DEF IsTable
<1>4. Restored(f, k) = [g EXCEPT ![l] = Closed]
  BY <1>1 DEF Restored, IsTable
<1> HIDE DEF g
<1>5. n > 0 /\ IsTable([g EXCEPT ![l] = Closed]) /\ Holds([g EXCEPT ![l] = Closed], C \ {g[l]}, n - 1)
  BY <1>1, <1>2, <1>3, Closing
<1>6. g[k] = File(k)
  BY <1>1 DEF g, IsTable
<1>7. \A m \in Numbers : m # l => [g EXCEPT ![l] = Closed][m] = g[m]
  BY <1>2 DEF IsTable
<1> QED
  BY <1>1, <1>3, <1>4, <1>5, <1>6, <1>7

LEMMA UnboxStdinLayout ==
    ASSUME StdioInv, UnboxStdin
    PROVE  Layout' /\ IsTable(fds')
<1> DEFINE C == Former(run - 1) \union Pieces("unbox stdin", run)
           n == Rest(run - 1) + 8
           g == Restored(fds, 0)
<1>1. /\ pc = "unbox stdin" /\ pc' = "read stdout" /\ fds' = [g EXCEPT ![1] = Closed]
      /\ UNCHANGED <<limit, run, saved, boxed>>
  BY DEF UnboxStdin, boxes
<1>2. /\ HowMany("unbox stdin") = 8 /\ HowMany("read stdout") = 7
      /\ Pieces("unbox stdin", run) = Pieces("serve", run)
      /\ Pieces("read stdout", run) = Pieces("serve", run) \ {File(0)}
  <2>1. "unbox stdin" \in {"serve", "unbox stdin"} /\ "serve" \in {"serve", "unbox stdin"}
        /\ "read stdout" \in Reading(1)
    BY RunningIs
  <2> QED
    BY <2>1, PiecesAre
<1>3. /\ limit \in Limits /\ run - 1 \in Nat /\ run - 1 < run /\ run \in Nat /\ n \in Nat
      /\ Rest(run - 1) \in Nat /\ IsTable(fds) /\ Holds(fds, C, n)
  <2>1. pc \in Running /\ pc # "close"
    BY <1>1, RunningIs
  <2>2. Rest(run - 1) \in Nat
    BY <2>1, InRun
  <2>3. Holds(fds, Former(run - 1) \union Pieces(pc, run), Rest(run - 1) + HowMany(pc))
    BY <2>1, InRun
  <2>4. Holds(fds, C, n)
    BY <1>1, <1>2, <2>3
  <2>5. n \in Nat
    BY <2>2
  <2> QED
    BY <2>1, <2>2, <2>4, <2>5, InRun
<1>4. File(0) \notin Former(run - 1)
  <2>1. 0 \in Std
    BY DEF Std
  <2> QED
    BY <1>3, <2>1, Fresh
<1>5. fds[2] = Pipe("write", 2, run)
  <2>1. pc \in Running
    BY <1>1, RunningIs
  <2>2. Redirected(2)
    BY <1>1 DEF Redirected
  <2>3. 2 \in Std
    BY DEF Std
  <2> QED
    BY <2>1, <2>2, <2>3 DEF StdioInv, Layout, Standard
<1>6. \A k \in Std : PutAside(k)
  BY <1>1 DEF PutAside, Redirected
<1>7. \A k \in Std : /\ saved[k] \in Numbers \ Std /\ fds[saved[k]] = File(k)
                     /\ k \in Outputs => /\ boxed[k] \in Numbers \ Std
                                         /\ fds[boxed[k]] = Pipe("read", k, run)
  BY <1>6 DEF StdioInv, Layout, Keeps
<1> HIDE DEF C, n
<1>8. /\ n > 0 /\ IsTable(g) /\ Holds(g, C \ {File(0)}, n - 1)
      /\ g[0] = File(0)
      /\ \A m \in Numbers : m # 0 /\ m # saved[0] => g[m] = fds[m]
  <2>1. 0 \in Std
    BY DEF Std
  <2> QED
    BY <1>3, <1>7, <2>1, RestoredFacts
<1> HIDE DEF g
<1>9. IsTable(fds') /\ Holds(fds', C \ {File(0)}, n - 1)
  <2>1. 1 \in Std /\ Closed \in Contents /\ n - 1 \in Nat
    BY <1>3, <1>8, KnownContents DEF Std
  <2> QED
    BY <1>1, <1>3, <1>8, <2>1, Placing
<1>10. Table'
  <2>1. C \ {File(0)} = Former(run - 1) \union Pieces("read stdout", run)
    BY <1>2, <1>4 DEF C
  <2>2. HowMany("read stdout") = 7
    BY <1>2
  <2>3. n - 1 = Rest(run - 1) + 7
    BY <1>3 DEF n
  <2> QED
    BY <1>1, <1>9, <2>1, <2>2, <2>3 DEF Table
<1>11. /\ Std \subseteq Numbers
       /\ fds'[1] = Closed /\ \A m \in Numbers : m # 1 => fds'[m] = g[m]
  <2>1. Std \subseteq Numbers /\ 1 \in Numbers
    BY <1>3, NumberFacts DEF Std
  <2> QED
    BY <1>1, <1>8, <2>1 DEF IsTable
<1>12. fds'[0] = File(0) /\ fds'[2] = Pipe("write", 2, run)
  <2>1. 0 \in Numbers /\ 2 \in Numbers /\ saved[0] # 2
    BY <1>7, <1>11 DEF Std
  <2> QED
    BY <1>5, <1>8, <1>11, <2>1
<1>13. Standard'
  <2>1. \A k \in Std : k = 0 \/ k = 1 \/ k = 2
    BY DEF Std
  <2> QED
    BY <1>1, <1>11, <1>12, <2>1 DEF Standard, PutAside, Redirected, Serving, Reading, Outputs
<1>14. Keeps'
  <2>1. \A k \in Outputs : File(k) # File(0) /\ Pipe("read", k, run) # File(0)
    BY FileFacts DEF Outputs
  <2>2. ASSUME NEW k \in Std, PutAside(k)'
        PROVE  /\ saved'[k] \in Numbers \ Std /\ fds'[saved'[k]] = File(k)
               /\ k \in Outputs => /\ boxed'[k] \in Numbers \ Std
                                   /\ fds'[boxed'[k]] = Pipe("read", k, run)
    <3>0. k \in Outputs
      <4>1. k = 0 \/ k \in Outputs
        BY DEF Std, Outputs
      <4>2. ASSUME k = 0
            PROVE  FALSE
        <5>1. PutAside(0)' /\ 0 \notin Outputs
          BY <2>2, <4>2 DEF Outputs
        <5>2. Redirected(0)'
          BY <5>1 DEF PutAside
        <5> QED
          BY <1>1, <5>2 DEF Redirected, Serving
      <4> QED
        BY <4>1, <4>2
    <3>1. k \in Std /\ 0 \in Std /\ 1 \in Std
      BY DEF Outputs, Std
    <3>2. /\ saved[k] \in Numbers \ Std /\ fds[saved[k]] = File(k)
          /\ boxed[k] \in Numbers \ Std /\ fds[boxed[k]] = Pipe("read", k, run)
          /\ fds[saved[0]] = File(0)
      BY <1>7, <3>0, <3>1
    <3>3. saved[k] # saved[0] /\ boxed[k] # saved[0]
      BY <2>1, <3>0, <3>2
    <3> QED
      BY <1>1, <1>8, <1>11, <3>1, <3>2, <3>3
  <2>3. Numbers' = Numbers
    BY <1>1 DEF Numbers
  <2> QED
    BY <1>1, <2>2, <2>3 DEF Keeps
<1> QED
  BY <1>9, <1>10, <1>13, <1>14 DEF Layout

(* A read end is closed, and an old file put back. *)
LEMMA UnboxedFacts ==
    ASSUME limit \in Limits, IsTable(fds), NEW C, NEW n \in Nat, Holds(fds, C, n),
           NEW k \in Outputs, saved[k] \in Numbers \ Std, fds[saved[k]] = File(k),
           boxed[k] \in Numbers \ Std, fds[boxed[k]] = Pipe("read", k, run)
    PROVE  LET g == Restored([fds EXCEPT ![boxed[k]] = Closed], k)
           IN  /\ n - 2 \in Nat /\ IsTable(g)
               /\ Holds(g, C \ {Pipe("read", k, run), File(k)}, n - 2)
               /\ g[k] = File(k)
               /\ \A m \in Numbers : m \notin {k, saved[k], boxed[k]} => g[m] = fds[m]
<1> DEFINE f == [fds EXCEPT ![boxed[k]] = Closed]
           g == Restored(f, k)
           D == C \ {Pipe("read", k, run)}
<1>1. Pipe("read", k, run) # Closed /\ Pipe("read", k, run) # File(k) /\ k \in Std
  BY FileFacts DEF Outputs, Std
<1>2. n > 0 /\ IsTable(f) /\ Holds(f, D, n - 1)
  BY <1>1, Closing
<1>3. \A m \in Numbers : m # boxed[k] => f[m] = fds[m]
  BY DEF IsTable
<1>4. f[saved[k]] = File(k)
  BY <1>1, <1>3
<1>5. g = Restored(f, k)
  OBVIOUS
<1> HIDE DEF f, g, D
<1>6. /\ n - 1 > 0 /\ IsTable(g) /\ Holds(g, D \ {File(k)}, n - 1 - 1)
      /\ g[k] = File(k)
      /\ \A m \in Numbers : m # k /\ m # saved[k] => g[m] = f[m]
  <2>1. PICK o \in Nat : o = n - 1
    BY <1>2
  <2>2. Holds(f, D, o)
    BY <1>2, <2>1
  <2>3. /\ o > 0 /\ IsTable(Restored(f, k)) /\ Holds(Restored(f, k), D \ {File(k)}, o - 1)
        /\ Restored(f, k)[k] = File(k)
        /\ \A m \in Numbers : m # k /\ m # saved[k] => Restored(f, k)[m] = f[m]
    BY <1>1, <1>2, <1>4, <2>2, RestoredFacts
  <2> QED
    BY <1>5, <2>1, <2>3
<1>7. D \ {File(k)} = C \ {Pipe("read", k, run), File(k)}
  BY DEF D
<1>8. n - 1 - 1 = n - 2 /\ n - 2 \in Nat
  BY <1>6
<1> QED
  BY <1>3, <1>6, <1>7, <1>8 DEF f, g

(* Stdout is put back, and the write end of stderr's pipe closed. *)
LEMMA UnboxStdoutLayout ==
    ASSUME StdioInv, UnboxOutput(1)
    PROVE  Layout' /\ IsTable(fds')
<1> DEFINE C == Former(run - 1) \union Pieces("unbox stdout", run)
           n == Rest(run - 1) + 7
           g == Restored([fds EXCEPT ![boxed[1]] = Closed], 1)
<1>1. /\ pc = "unbox stdout" /\ pc' = "read stderr" /\ fds' = [g EXCEPT ![2] = Closed]
      /\ UNCHANGED <<limit, run, saved, boxed>>
  BY DEF UnboxOutput, boxes
<1>2. /\ HowMany("unbox stdout") = 7 /\ HowMany("read stderr") = 5
      /\ Pieces("unbox stdout", run) = Pieces("serve", run) \ {File(0)}
      /\ Pieces("read stderr", run) = Pieces("serve", run)
             \ {File(0), File(1), Pipe("read", 1, run)}
  <2>1. "unbox stdout" \in Reading(1) /\ "read stderr" \in Reading(2)
    BY RunningIs
  <2> QED
    BY <2>1, PiecesAre
<1>3. /\ limit \in Limits /\ run - 1 \in Nat /\ run - 1 < run /\ run \in Nat /\ n \in Nat
      /\ Rest(run - 1) \in Nat /\ IsTable(fds) /\ Holds(fds, C, n)
  <2>1. pc \in Running /\ pc # "close"
    BY <1>1, RunningIs
  <2>2. Rest(run - 1) \in Nat
    BY <2>1, InRun
  <2>3. Holds(fds, Former(run - 1) \union Pieces(pc, run), Rest(run - 1) + HowMany(pc))
    BY <2>1, InRun
  <2>4. Holds(fds, C, n)
    BY <1>1, <1>2, <2>3
  <2>5. n \in Nat
    BY <2>2
  <2> QED
    BY <2>1, <2>2, <2>4, <2>5, InRun
<1>4. File(1) \notin Former(run - 1) /\ Pipe("read", 1, run) \notin Former(run - 1)
  <2>1. 1 \in Std
    BY DEF Std
  <2> QED
    BY <1>3, <2>1, Fresh
<1>5. fds[0] = File(0)
  <2>1. pc \in Running
    BY <1>1, RunningIs
  <2>2. ~PutAside(0)
    <3>1. ~Redirected(0)
      BY <1>1 DEF Redirected, Serving
    <3>2. 0 \notin Outputs
      BY DEF Outputs
    <3> QED
      BY <3>1, <3>2 DEF PutAside
  <2>3. 0 \in Std
    BY DEF Std
  <2> QED
    BY <2>1, <2>2, <2>3 DEF StdioInv, Layout, Standard
<1>6. \A k \in Outputs : /\ saved[k] \in Numbers \ Std /\ fds[saved[k]] = File(k)
                         /\ boxed[k] \in Numbers \ Std /\ fds[boxed[k]] = Pipe("read", k, run)
  <2>1. PutAside(1)
    BY <1>1, RunningIs DEF PutAside, Outputs
  <2>2. Redirected(2)
    <3>1. pc \in Reading(1)
      BY <1>1, RunningIs
    <3>2. 2 # 0 /\ 2 # 1
      OBVIOUS
    <3> QED
      BY <3>1, <3>2 DEF Redirected
  <2>3. \A k \in Outputs : k \in Std /\ PutAside(k)
    BY <2>1, <2>2 DEF PutAside, Outputs, Std
  <2> QED
    BY <2>3 DEF StdioInv, Layout, Keeps
<1> HIDE DEF C, n
<1>7. /\ n - 2 \in Nat /\ IsTable(g) /\ Holds(g, C \ {Pipe("read", 1, run), File(1)}, n - 2)
      /\ g[1] = File(1)
      /\ \A m \in Numbers : m \notin {1, saved[1], boxed[1]} => g[m] = fds[m]
  <2>1. 1 \in Outputs
    BY DEF Outputs
  <2> QED
    BY <1>3, <1>6, <2>1, UnboxedFacts
<1> HIDE DEF g
<1>8. IsTable(fds') /\ Holds(fds', C \ {Pipe("read", 1, run), File(1)}, n - 2)
  <2>1. 2 \in Std /\ Closed \in Contents
    BY KnownContents DEF Std
  <2> QED
    BY <1>1, <1>3, <1>7, <2>1, Placing
<1>9. Table'
  <2>1. C \ {Pipe("read", 1, run), File(1)}
            = Former(run - 1) \union Pieces("read stderr", run)
    BY <1>2, <1>4 DEF C
  <2>2. HowMany("read stderr") = 5
    BY <1>2
  <2>3. n - 2 = Rest(run - 1) + 5
    BY <1>3 DEF n
  <2> QED
    BY <1>1, <1>8, <2>1, <2>2, <2>3 DEF Table
<1>10. /\ Std \subseteq Numbers
       /\ fds'[2] = Closed /\ \A m \in Numbers : m # 2 => fds'[m] = g[m]
  <2>1. Std \subseteq Numbers /\ 2 \in Numbers
    BY <1>3, NumberFacts DEF Std
  <2> QED
    BY <1>1, <1>7, <2>1 DEF IsTable
<1>11. fds'[0] = File(0) /\ fds'[1] = File(1)
  <2>1. 0 \in Numbers /\ 1 \in Numbers /\ 1 \in Outputs /\ saved[1] # 0 /\ boxed[1] # 0
    BY <1>6, <1>10 DEF Std, Outputs
  <2> QED
    BY <1>5, <1>7, <1>10, <2>1
<1>12. Standard'
  <2>1. \A k \in Std : k = 0 \/ k = 1 \/ k = 2
    BY DEF Std
  <2> QED
    BY <1>1, <1>10, <1>11, <2>1 DEF Standard, PutAside, Redirected, Serving, Reading, Outputs
<1>13. Keeps'
  <2>1. /\ File(2) # File(1) /\ Pipe("read", 2, run) # File(1)
        /\ Pipe("read", 1, run) # File(2) /\ Pipe("read", 1, run) # Pipe("read", 2, run)
    BY FileFacts
  <2>2. ASSUME NEW k \in Std, PutAside(k)'
        PROVE  k = 2
    <3>1. k = 0 \/ k = 1 \/ k = 2
      BY DEF Std
    <3>2. ASSUME k = 0
          PROVE  FALSE
      <4>1. PutAside(0)' /\ 0 \notin Outputs
        BY <2>2, <3>2 DEF Outputs
      <4>2. Redirected(0)'
        BY <4>1 DEF PutAside
      <4> QED
        BY <1>1, <4>2 DEF Redirected, Serving
    <3>3. ASSUME k = 1
          PROVE  FALSE
      <4>1. PutAside(1)'
        BY <2>2, <3>3
      <4>2. Redirected(1)'
        BY <1>1, <4>1, RunningIs DEF PutAside
      <4> QED
        BY <1>1, <4>2 DEF Redirected, Serving
    <3> QED
      BY <3>1, <3>2, <3>3
  <2>3. /\ saved[2] \in Numbers \ Std /\ fds[saved[2]] = File(2)
        /\ boxed[2] \in Numbers \ Std /\ fds[boxed[2]] = Pipe("read", 2, run)
        /\ fds[saved[1]] = File(1) /\ fds[boxed[1]] = Pipe("read", 1, run)
    BY <1>6 DEF Outputs
  <2>4. 1 \in Std /\ 2 \in Std
    BY DEF Std
  <2>5. saved[2] \notin {1, saved[1], boxed[1]} /\ boxed[2] \notin {1, saved[1], boxed[1]}
    BY <2>1, <2>3, <2>4
  <2>6. /\ saved'[2] \in Numbers \ Std /\ fds'[saved'[2]] = File(2)
        /\ boxed'[2] \in Numbers \ Std /\ fds'[boxed'[2]] = Pipe("read", 2, run)
    BY <1>1, <1>7, <1>10, <2>3, <2>4, <2>5
  <2>7. Numbers' = Numbers
    BY <1>1 DEF Numbers
  <2> QED
    BY <1>1, <2>2, <2>6, <2>7 DEF Keeps
<1> QED
  BY <1>8, <1>9, <1>12, <1>13 DEF Layout

(* Stderr is put back: the run is over, and leaves three ends of pipes. *)
LEMMA UnboxStderrLayout ==
    ASSUME StdioInv, UnboxOutput(2)
    PROVE  Layout' /\ IsTable(fds')
<1> DEFINE C == Former(run - 1) \union Pieces("unbox stderr", run)
           n == Rest(run - 1) + 5
           g == Restored([fds EXCEPT ![boxed[2]] = Closed], 2)
<1>1. /\ pc = "unbox stderr" /\ pc' = "idle" /\ fds' = g
      /\ UNCHANGED <<limit, run, saved, boxed>>
  <2>1. 2 # 1
    OBVIOUS
  <2> QED
    BY <2>1 DEF UnboxOutput, boxes
<1>2. /\ Pieces("stdout", run) = {File(0), Pipe("read", 0, run)}
      /\ Pieces("stderr", run) = Pieces("stdout", run)
             \union {File(1), Pipe("read", 1, run), Pipe("write", 1, run)}
      /\ Pieces("serve", run) = Pieces("stderr", run)
             \union {File(2), Pipe("read", 2, run), Pipe("write", 2, run)}
      /\ Pieces("unbox stderr", run) = Pieces("serve", run)
             \ {File(0), File(1), Pipe("read", 1, run)}
      /\ HowMany("unbox stderr") = 5
  <2>1. "unbox stderr" \in Reading(2) /\ "serve" \in {"serve", "unbox stdin"}
    BY RunningIs
  <2> QED
    BY <2>1, PiecesAre
<1>3. /\ limit \in Limits /\ run - 1 \in Nat /\ run - 1 < run /\ run \in Nat \ {0} /\ n \in Nat
      /\ Rest(run - 1) \in Nat /\ IsTable(fds) /\ Holds(fds, C, n)
  <2>1. pc \in Running /\ pc # "close"
    BY <1>1, RunningIs
  <2>2. Rest(run - 1) \in Nat
    BY <2>1, InRun
  <2>3. Holds(fds, Former(run - 1) \union Pieces(pc, run), Rest(run - 1) + HowMany(pc))
    BY <2>1, InRun
  <2>4. Holds(fds, C, n)
    BY <1>1, <1>2, <2>3
  <2>5. n \in Nat
    BY <2>2
  <2> QED
    <3>1. run \in Nat \ {0}
      BY <2>1, InRun
    <3> QED
      BY <2>1, <2>2, <2>4, <2>5, <3>1, InRun
<1>4. File(2) \notin Former(run - 1) /\ Pipe("read", 2, run) \notin Former(run - 1)
  <2>1. 2 \in Std
    BY DEF Std
  <2> QED
    BY <1>3, <2>1, Fresh
<1>5. \A k \in {0, 1} : fds[k] = File(k)
  <2>1. pc \in Running
    BY <1>1, RunningIs
  <2>2. ~Redirected(0) /\ ~Redirected(1)
    BY <1>1 DEF Redirected, Serving
  <2>3. ~PutAside(0) /\ ~PutAside(1)
    <3>1. 0 \notin Outputs /\ pc \notin Reading(1)
      <4>1. 0 \notin Outputs
        BY DEF Outputs
      <4> QED
        BY <1>1, <4>1, RunningIs
    <3> QED
      BY <2>2, <3>1 DEF PutAside
  <2>4. 0 \in Std /\ 1 \in Std
    BY DEF Std
  <2> QED
    BY <2>1, <2>3, <2>4 DEF StdioInv, Layout, Standard
<1>6. /\ saved[2] \in Numbers \ Std /\ fds[saved[2]] = File(2)
      /\ boxed[2] \in Numbers \ Std /\ fds[boxed[2]] = Pipe("read", 2, run)
  <2>1. 2 \in Outputs /\ 2 \in Std
    BY DEF Outputs, Std
  <2>2. PutAside(2)
    BY <1>1, <2>1, RunningIs DEF PutAside
  <2> QED
    BY <2>1, <2>2 DEF StdioInv, Layout, Keeps
<1> HIDE DEF C, n
<1>7. /\ n - 2 \in Nat /\ IsTable(fds')
      /\ Holds(fds', C \ {Pipe("read", 2, run), File(2)}, n - 2)
      /\ fds'[2] = File(2)
      /\ \A m \in Numbers : m \notin {2, saved[2], boxed[2]} => fds'[m] = fds[m]
  <2>1. 2 \in Outputs
    BY DEF Outputs
  <2> QED
    BY <1>1, <1>3, <1>6, <2>1, UnboxedFacts
<1>8. Table'
  <2>1. C \ {Pipe("read", 2, run), File(2)} = Former(run - 1) \union LeftBehind(run)
    <3>1. Pieces("unbox stderr", run) \ {Pipe("read", 2, run), File(2)} = LeftBehind(run)
      <4>1. Pieces("serve", run)
                = {File(0), Pipe("read", 0, run), File(1), Pipe("read", 1, run),
                   Pipe("write", 1, run), File(2), Pipe("read", 2, run), Pipe("write", 2, run)}
        BY <1>2
      <4>2. /\ Pipe("read", 0, run) # Pipe("read", 1, run)
            /\ Pipe("read", 0, run) # Pipe("read", 2, run)
            /\ \A k, j : Pipe("write", k, run) # Pipe("read", j, run)
            /\ \A e \in {"read", "write"} : \A k, j : Pipe(e, k, run) # File(j)
        BY FileFacts
      <4> QED
        BY <1>2, <4>1, <4>2 DEF LeftBehind
    <3> QED
      BY <1>4, <3>1 DEF C
  <2>2. Former(run) = Former(run - 1) \union LeftBehind(run)
    BY <1>3, FormerNext
  <2>3. n - 2 = Rest(run)
    BY <1>3, StdioAssumption DEF n, Rest
  <2>4. pc' \notin Running
    BY <1>1, RunningIs
  <2> QED
    BY <1>1, <1>7, <2>1, <2>2, <2>3, <2>4 DEF Table
<1>9. \A k \in Std : fds'[k] = File(k)
  <2>1. 0 \in Numbers \cap Std /\ 1 \in Numbers \cap Std
    BY <1>3, NumberFacts DEF Std
  <2>2. fds'[0] = fds[0] /\ fds'[1] = fds[1]
    BY <1>6, <1>7, <2>1
  <2>3. \A k \in Std : k \in {0, 1} \/ k = 2
    BY DEF Std
  <2> QED
    BY <1>5, <1>7, <2>2, <2>3
<1>10. Standard'
  BY <1>1, <1>9 DEF Standard, PutAside, Redirected, Serving, Reading
<1>11. Keeps'
  BY <1>1 DEF Keeps, PutAside, Redirected, Serving, Reading
<1> QED
  BY <1>7, <1>8, <1>10, <1>11 DEF Layout

(* Every step, and the table. *)
LEMMA LayoutStep ==
    ASSUME StdioInv, [StdioNext]_stdioVars
    PROVE  Layout' /\ IsTable(fds)'
<1>0. IsTable(fds)
  BY DEF StdioInv, Variables
<1>1. ASSUME UNCHANGED <<limit, fds, run, saved, boxed>>, Layout'
      PROVE  Layout' /\ IsTable(fds)'
  BY <1>0, <1>1 DEF IsTable, Numbers
<1>2. ASSUME limit' = limit, Layout', IsTable(fds')
      PROVE  Layout' /\ IsTable(fds)'
  BY <1>2 DEF IsTable, Numbers
<1>3. CASE Call
  <2>1. Layout' /\ limit' = limit /\ fds' = fds
    BY <1>3, CallLayout DEF Call
  <2> QED
    BY <1>0, <2>1 DEF IsTable, Numbers
<1>4. CASE BoxStdin
  <2>1. CASE Room(3)
    BY <1>2, <1>4, <2>1, BoxStdinLayout DEF BoxStdin
  <2>2. CASE ~Room(3)
    BY <1>1, <1>4, <2>2, SteadyLayout DEF BoxStdin, Exhausted, boxes
  <2> QED
    BY <2>1, <2>2
<1>5. ASSUME NEW k \in Outputs, BoxOutput(k)
      PROVE  Layout' /\ IsTable(fds)'
  <2>1. CASE Room(3)
    BY <1>2, <1>5, <2>1, BoxOutputLayout DEF BoxOutput
  <2>2. CASE ~Room(3)
    BY <1>1, <1>5, <2>2, SteadyLayout DEF BoxOutput, Exhausted, boxes
  <2> QED
    BY <2>1, <2>2
<1>6. CASE Serve
  <2>1. CASE Room(2)
    BY <1>2, <1>6, <2>1, ServeLayout DEF Serve
  <2>2. CASE ~Room(2)
    BY <1>1, <1>6, <2>2, SteadyLayout DEF Serve, Exhausted, boxes
  <2> QED
    BY <2>1, <2>2
<1>7. CASE BodyExits \/ BodyKilled \/ BodyJoined
  BY <1>1, <1>7, SteadyLayout DEF boxes, BodyExits, BodyKilled, BodyJoined
<1>8. CASE Accept
  BY <1>2, <1>8, AcceptLayout DEF Accept
<1>9. CASE NoConnection
  BY <1>1, <1>9, SteadyLayout DEF boxes, NoConnection
<1>10. CASE CloseServer
  BY <1>2, <1>10, CloseServerLayout DEF CloseServer
<1>11. CASE UnboxStdin
  BY <1>2, <1>11, UnboxStdinLayout DEF UnboxStdin
<1>12. ASSUME NEW k \in Outputs, ReadTurn(k)
       PROVE  Layout' /\ IsTable(fds)'
  <2>1. UNCHANGED <<limit, fds, run, saved, boxed>>
    BY <1>12 DEF ReadTurn, boxes
  <2>2. k = 1 \/ k = 2
    BY DEF Outputs
  <2>3. \/ pc' = pc
        \/ pc = "read stdout" /\ pc' = "unbox stdout"
        \/ pc = "read stderr" /\ pc' = "unbox stderr"
    BY <1>12, <2>2 DEF ReadTurn, Reads
  <2> QED
    BY <1>1, <2>1, <2>3, SteadyLayout
<1>13. ASSUME NEW k \in Outputs, UnboxOutput(k)
       PROVE  Layout' /\ IsTable(fds)'
  <2>1. limit' = limit
    BY <1>13 DEF UnboxOutput
  <2>2. k = 1 \/ k = 2
    BY DEF Outputs
  <2> QED
    BY <1>2, <1>13, <2>1, <2>2, UnboxStdoutLayout, UnboxStderrLayout
<1>14. CASE Prints \/ Flush \/ \E k \in Outputs : Write(k)
  BY <1>1, <1>14, SteadyLayout DEF boxes, Write, Prints, Flush
<1>15. CASE Over \/ UNCHANGED stdioVars
  BY <1>1, <1>15, SteadyLayout DEF Over, stdioVars, boxes
<1> QED
  BY <1>3, <1>4, <1>5, <1>6, <1>7, <1>8, <1>9, <1>10, <1>11, <1>12, <1>13, <1>14, <1>15
     DEF StdioNext, RunStep

(* Where Sandbox::run goes. *)
LEMMA PlaceStep ==
    ASSUME StdioInv, [StdioNext]_stdioVars
    PROVE  /\ pc' \in Running \union {"idle", "exhausted"}
           /\ limit' \in Limits /\ Numbers' = Numbers
           /\ run' \in 0..MaxRuns /\ (pc' \in Running => run' > 0)
           /\ forked' \in BOOLEAN
<1>1. /\ limit \in Limits /\ run \in 0..MaxRuns /\ forked \in BOOLEAN /\ MaxRuns \in Nat
      /\ pc \in Running \union {"idle", "exhausted"} /\ (pc \in Running => run > 0)
  BY StdioAssumption DEF StdioInv, Variables
<1>2. CASE Call
  <2>1. run' = run + 1 /\ run < MaxRuns /\ limit' = limit /\ forked' \in BOOLEAN /\ pc' = "stdin"
    BY <1>2 DEF Call
  <2>2. run' \in 0..MaxRuns /\ run' > 0
    BY <1>1, <2>1
  <2>3. pc' \in Running
    BY <2>1, RunningIs
  <2> QED
    BY <1>1, <2>1, <2>2, <2>3 DEF Numbers
<1>3. ASSUME pc \in Running, pc' \in Running \union {"idle", "exhausted"},
             UNCHANGED <<limit, run, forked>>
      PROVE  /\ pc' \in Running \union {"idle", "exhausted"}
             /\ limit' \in Limits /\ Numbers' = Numbers
             /\ run' \in 0..MaxRuns /\ (pc' \in Running => run' > 0)
             /\ forked' \in BOOLEAN
  BY <1>1, <1>3 DEF Numbers
<1>4. CASE \/ BoxStdin \/ Serve \/ BodyExits \/ BodyKilled \/ BodyJoined \/ Prints \/ Flush
           \/ Accept \/ NoConnection \/ CloseServer \/ UnboxStdin
  <2>1. UNCHANGED <<limit, run, forked>>
    BY <1>4 DEF BoxStdin, Serve, BodyExits, BodyKilled, BodyJoined, Prints, Flush, Accept,
                NoConnection, CloseServer, UnboxStdin, Exhausted
  <2>2. pc \in Running /\ pc' \in Running \union {"exhausted"}
    BY <1>4, RunningIs
       DEF BoxStdin, Serve, BodyExits, BodyKilled, BodyJoined, Prints, Flush, Accept,
           NoConnection, CloseServer, UnboxStdin, Exhausted
  <2> QED
    BY <1>3, <2>1, <2>2
<1>5. ASSUME NEW k \in Outputs, BoxOutput(k) \/ ReadTurn(k) \/ UnboxOutput(k) \/ Write(k)
      PROVE  /\ pc' \in Running \union {"idle", "exhausted"}
             /\ limit' \in Limits /\ Numbers' = Numbers
             /\ run' \in 0..MaxRuns /\ (pc' \in Running => run' > 0)
             /\ forked' \in BOOLEAN
  <2>1. UNCHANGED <<limit, run, forked>>
    BY <1>5 DEF BoxOutput, ReadTurn, UnboxOutput, Write, Exhausted
  <2>2. k = 1 \/ k = 2
    BY DEF Outputs
  <2>3. CASE BoxOutput(k)
    BY <1>3, <2>1, <2>2, <2>3, RunningIs DEF BoxOutput, Exhausted
  <2>4. CASE ReadTurn(k)
    BY <1>3, <2>1, <2>2, <2>4, RunningIs DEF ReadTurn, Reads
  <2>5. CASE UnboxOutput(k)
    BY <1>3, <2>1, <2>2, <2>5, RunningIs DEF UnboxOutput
  <2>6. CASE Write(k)
    BY <1>3, <2>1, <2>6, RunningIs DEF Write
  <2> QED
    BY <1>5, <2>3, <2>4, <2>5, <2>6
<1>6. CASE Over \/ UNCHANGED stdioVars
  BY <1>1, <1>6 DEF Over, stdioVars, Numbers
<1> QED
  BY <1>2, <1>4, <1>5, <1>6 DEF StdioNext, RunStep

LEMMA VariablesStep ==
    ASSUME StdioInv, [StdioNext]_stdioVars
    PROVE  Variables'
<1> DEFINE Descriptors == [Std -> {-1} \union Numbers]
           Counts == [Outputs -> Nat]
<1>1. /\ saved \in Descriptors /\ boxed \in Descriptors
      /\ held \in Counts /\ wrote \in Counts /\ buf \in Counts /\ pos \in Counts
  BY DEF StdioInv, Variables
<1>2. saved' \in Descriptors /\ boxed' \in Descriptors
  <2>1. CASE BoxStdin /\ Room(3)
    <3>1. /\ Lowest(fds) \in Numbers /\ Writer(0) \in Numbers
      BY <2>1, BoxStdinLayout
    <3> QED
      BY <1>1, <2>1, <3>1 DEF BoxStdin
  <2>2. ASSUME NEW k \in Outputs, BoxOutput(k), Room(3)
        PROVE  saved' \in Descriptors /\ boxed' \in Descriptors
    <3>1. /\ Lowest(fds) \in Numbers /\ Reader(k) \in Numbers
      BY <2>2, BoxOutputLayout
    <3> QED
      BY <1>1, <2>2, <3>1 DEF BoxOutput
  <2>3. CASE UNCHANGED <<saved, boxed>>
    BY <1>1, <2>3
  <2> QED
    BY <2>1, <2>2, <2>3
       DEF StdioNext, RunStep, Call, BoxStdin, Serve, BodyExits, BodyKilled, BodyJoined, Accept,
           NoConnection, CloseServer, UnboxStdin, BoxOutput, ReadTurn, UnboxOutput, Write, Prints,
           Flush, Over, Exhausted, stdioVars, boxes
<1>3. held' \in Counts /\ wrote' \in Counts /\ buf' \in Counts /\ pos' \in Counts
  <2>1. CASE Call
    BY <2>1 DEF Call, Nothing
  <2>2. CASE Prints \/ Flush \/ BodyExits \/ \E k \in Outputs : Write(k)
    <3>1. ASSUME NEW k \in Outputs, NEW n \in Nat, Put(k, n)
          PROVE  held' \in Counts
      BY <1>1, <3>1, StdioAssumption DEF Put, Least
    <3>2. 1 \in Outputs /\ 1 \in Nat /\ old + own \in Nat
      BY DEF Outputs, StdioInv, Buffer
    <3>3. held' \in Counts
      BY <1>1, <2>2, <3>1, <3>2 DEF Prints, Flush, BodyExits, Write, Emit, pipes
    <3> QED
      BY <1>1, <2>2, <3>3 DEF Prints, Flush, BodyExits, Write, pipes
  <2>3. ASSUME NEW k \in Outputs, ReadTurn(k)
        PROVE  held' \in Counts /\ wrote' \in Counts /\ buf' \in Counts /\ pos' \in Counts
    <3> DEFINE n == Least(held[k], ReadSize)
    <3>1. held[k] \in Nat /\ pos[k] \in Nat /\ buf[k] \in Nat /\ ReadSize \in Nat
      BY <1>1, StdioAssumption
    <3>2. n \in Nat /\ n <= held[k]
      BY <3>1 DEF Least
    <3>3. Larger(buf[k], pos[k] + ReadSize) \in Nat
      BY <3>1 DEF Larger
    <3>4. /\ held' \in {held, [held EXCEPT ![k] = held[k] - n]}
          /\ pos' \in {pos, [pos EXCEPT ![k] = pos[k] + n]}
          /\ buf' \in {[buf EXCEPT ![k] = Larger(buf[k], pos[k] + ReadSize)],
                       [buf EXCEPT ![k] = pos[k]]}
          /\ wrote' = wrote
      BY <2>3 DEF ReadTurn, printed
    <3> HIDE DEF n
    <3>5. held[k] - n \in Nat /\ pos[k] + n \in Nat
      BY <3>1, <3>2
    <3> QED
      BY <1>1, <3>1, <3>3, <3>4, <3>5
  <2>4. CASE UNCHANGED <<held, wrote, buf, pos>>
    BY <1>1, <2>4
  <2> QED
    BY <2>1, <2>2, <2>3, <2>4
       DEF StdioNext, RunStep, BoxStdin, Serve, BodyKilled, BodyJoined, Accept, NoConnection,
           CloseServer, UnboxStdin, BoxOutput, UnboxOutput, Over, stdioVars, pipes, printed
<1> QED
  BY <1>2, <1>3, PlaceStep, LayoutStep DEF Variables

LEMMA EnoughStep ==
    ASSUME StdioInv, [StdioNext]_stdioVars
    PROVE  Enough'
<1> DEFINE Late == Serving \union {"unbox stdin"} \union Reading(1) \union Reading(2)
<1>1. Late = {"body", "poll", "close", "unbox stdin",
              "read stdout", "unbox stdout", "read stderr", "unbox stderr"}
  BY RunningIs DEF Serving
<1>2. /\ pc \in Late => limit >= Rest(run) + 10
      /\ pc = "idle" /\ run > 0 => limit >= Rest(run) + 10
      /\ pc = "exhausted" => limit < Rest(run) + 10
  BY DEF StdioInv, Enough
<1>3. ASSUME limit' = limit, run' = run,
             pc' \in Late \union {"idle"} => pc \in Late \/ limit >= Rest(run) + 10
                                             \/ (pc' = "idle" /\ pc = "idle"),
             pc' = "exhausted" => pc = "exhausted" \/ limit < Rest(run) + 10
      PROVE  Enough'
  BY <1>2, <1>3 DEF Enough, Rest
<1>4. CASE Call
  <2>1. pc' = "stdin"
    BY <1>4 DEF Call
  <2> QED
    BY <1>1, <2>1 DEF Enough
<1>5. ASSUME NEW m \in {2, 3}, pc \in Boxing, ~Room(m), Exhausted,
             m = 3 => pc \in {"stdin", "stdout", "stderr"}
      PROVE  Enough'
  <2>1. /\ limit \in Nat /\ run \in Nat /\ Rest(run) \in Nat
        /\ Cardinality(FreeOf(fds)) = limit - Rest(run) - HowMany(pc)
        /\ HowMany(pc) \in {0, 2, 5, 8, 9}
    BY <1>5, FreeNow
  <2>2. Cardinality(FreeOf(fds)) < m
    BY <1>5, <2>1 DEF Room
  <2>3. HowMany(pc) <= 8 /\ (m = 3 => HowMany(pc) <= 5)
    <3>1. /\ HowMany("stdin") = 0 /\ HowMany("stdout") = 2 /\ HowMany("stderr") = 5
          /\ HowMany("serve") = 8
      BY DEF HowMany
    <3> QED
      BY <1>5, <3>1 DEF Boxing
  <2>4. limit < Rest(run) + 10
    BY <2>1, <2>2, <2>3
  <2>5. limit' = limit /\ run' = run /\ pc' = "exhausted"
    BY <1>5 DEF Exhausted
  <2> QED
    BY <1>1, <2>4, <2>5 DEF Enough, Rest
<1>6. CASE BoxStdin
  <2>1. CASE Room(3)
    BY <1>1, <1>3, <1>6, <2>1 DEF BoxStdin
  <2>2. CASE ~Room(3)
    BY <1>5, <1>6, <2>2 DEF BoxStdin, Boxing
  <2> QED
    BY <2>1, <2>2
<1>7. ASSUME NEW k \in Outputs, BoxOutput(k)
      PROVE  Enough'
  <2>1. k = 1 \/ k = 2
    BY DEF Outputs
  <2>2. pc \in {"stdout", "stderr"}
    BY <1>7 DEF BoxOutput
  <2>3. CASE Room(3)
    <3>1. pc' \in {"stderr", "serve"} /\ limit' = limit /\ run' = run
      BY <1>7, <2>3 DEF BoxOutput
    <3> QED
      BY <1>1, <1>3, <3>1
  <2>4. CASE ~Room(3)
    BY <1>5, <1>7, <2>2, <2>4 DEF BoxOutput, Boxing
  <2> QED
    BY <2>3, <2>4
<1>8. CASE Serve
  <2>1. CASE Room(2)
    <3>1. /\ limit \in Nat /\ run \in Nat /\ Rest(run) \in Nat
          /\ Cardinality(FreeOf(fds)) = limit - Rest(run) - HowMany("serve")
      BY <1>8, FreeNow DEF Serve, Boxing
    <3>2. HowMany("serve") = 8
      BY DEF HowMany
    <3>3. limit >= Rest(run) + 10
      BY <2>1, <3>1, <3>2 DEF Room
    <3>4. limit' = limit /\ run' = run /\ pc' = "body"
      BY <1>8, <2>1 DEF Serve
    <3> QED
      BY <1>3, <3>3, <3>4
  <2>2. CASE ~Room(2)
    BY <1>5, <1>8, <2>2 DEF Serve, Boxing
  <2> QED
    BY <2>1, <2>2
<1>9. CASE BodyExits \/ BodyKilled \/ BodyJoined \/ Accept \/ Prints \/ Flush
  <2>1. /\ limit' = limit /\ run' = run /\ pc \in {"body", "poll"}
        /\ pc' \in {"body", "poll", "close"}
    BY <1>9 DEF BodyExits, BodyKilled, BodyJoined, Accept, Prints, Flush
  <2> QED
    BY <1>1, <1>3, <2>1
<1>10. CASE NoConnection \/ CloseServer \/ UnboxStdin
  <2>1. /\ limit' = limit /\ run' = run /\ pc \in {"poll", "close", "unbox stdin"}
        /\ pc' \in {"close", "unbox stdin", "read stdout"}
    BY <1>10 DEF NoConnection, CloseServer, UnboxStdin
  <2> QED
    BY <1>1, <1>3, <2>1
<1>11. ASSUME NEW k \in Outputs, ReadTurn(k) \/ UnboxOutput(k) \/ Write(k)
       PROVE  Enough'
  <2>1. k = 1 \/ k = 2
    BY DEF Outputs
  <2>2. limit' = limit /\ run' = run
    BY <1>11 DEF ReadTurn, UnboxOutput, Write
  <2>3. pc \in {"body", "read stdout", "unbox stdout", "read stderr", "unbox stderr"}
    BY <1>11 DEF ReadTurn, Reads, UnboxOutput, Write
  <2>4. pc' # "exhausted"
    BY <1>11, <2>3 DEF ReadTurn, UnboxOutput, Write
  <2> QED
    BY <1>1, <1>3, <2>2, <2>3, <2>4
<1>12. CASE Over \/ UNCHANGED stdioVars
  BY <1>2, <1>12 DEF Over, stdioVars, Enough, Rest
<1> QED
  BY <1>4, <1>6, <1>7, <1>8, <1>9, <1>10, <1>11, <1>12 DEF StdioNext, RunStep

(* The steps that fill or empty the buffer. *)
LEMMA BufferStep ==
    ASSUME StdioInv, [StdioNext]_stdioVars
    PROVE  Buffer'
<1>1. /\ kept \in Nat /\ old \in Nat /\ own \in Nat /\ strange \in Nat
      /\ reported \in BOOLEAN /\ exited \in BOOLEAN
      /\ own <= wrote[1]
      /\ exited => own = 0 /\ pc \notin Boxing \union {"body"}
      /\ reported => old = 0 /\ strange = 0
      /\ reported /\ pc \in Boxing \union {"body"} => kept = 0
  BY DEF StdioInv, Buffer
<1>2. wrote \in [Outputs -> Nat] /\ wrote[1] \in Nat
  BY DEF StdioInv, Variables, Outputs
<1>3. Boxing = {"stdin", "stdout", "stderr", "serve"}
  BY DEF Boxing
<1>4. ASSUME UNCHANGED printed,
             pc' \in {"stdin", "stdout", "stderr", "serve", "body"} =>
                 pc \in {"stdin", "stdout", "stderr", "serve", "body"}
      PROVE  Buffer'
  BY <1>1, <1>3, <1>4 DEF Buffer, printed, Boxing
<1>5. CASE Call
  <2>1. /\ own' = 0 /\ old' = 0 /\ strange' = 0 /\ exited' = FALSE /\ reported' \in BOOLEAN
        /\ kept' = (IF reported' THEN 0 ELSE kept) /\ wrote' = Nothing
    BY <1>5 DEF Call, Flushed
  <2>2. wrote'[1] = 0
    BY <2>1 DEF Nothing, Outputs
  <2>3. kept' \in Nat /\ (reported' => kept' = 0)
    BY <1>1, <2>1
  <2>4. own' \in Nat /\ old' \in Nat /\ strange' \in Nat /\ own' <= wrote'[1]
    BY <2>1, <2>2
  <2> QED
    BY <2>1, <2>3, <2>4, Zenon DEF Buffer
<1>6. CASE Serve
  <2>1. /\ UNCHANGED <<wrote, kept, own, strange, reported, exited>> /\ pc = "serve"
        /\ \/ old' = kept /\ pc' = "body"
           \/ old' = old /\ pc' = "exhausted"
    BY <1>6 DEF Serve, Exhausted
  <2> QED
    BY <1>1, <1>3, <2>1 DEF Buffer, Boxing
<1>7. ASSUME NEW k \in Outputs, Write(k)
      PROVE  Buffer'
  <2>1. /\ UNCHANGED <<pc, kept, old, own, strange, reported, exited>>
        /\ wrote' = [wrote EXCEPT ![k] = wrote[k] + 1] /\ pc = "body"
    BY <1>7 DEF Write
  <2>2. wrote'[1] >= wrote[1] /\ wrote'[1] \in Nat
    BY <1>2, <2>1 DEF Outputs
  <2>3. own' <= wrote'[1]
    BY <1>1, <1>2, <2>1, <2>2
  <2> QED
    BY <1>1, <1>3, <2>1, <2>3 DEF Buffer, Boxing
<1>8. CASE Prints
  <2>1. /\ UNCHANGED <<pc, kept, old, strange, reported, exited>>
        /\ wrote' = [wrote EXCEPT ![1] = wrote[1] + 1] /\ own' = own + 1 /\ pc = "body"
    BY <1>8 DEF Prints
  <2>2. own' \in Nat /\ own' <= wrote'[1]
    BY <1>1, <1>2, <2>1 DEF Outputs
  <2> QED
    BY <1>1, <1>3, <2>1, <2>2 DEF Buffer, Boxing
<1>9. CASE Flush \/ BodyExits
  <2>1. /\ UNCHANGED <<wrote, kept, reported>> /\ pc = "body"
        /\ strange' = strange + old /\ old' = 0 /\ own' = 0
        /\ \/ exited' = exited /\ pc' = "body"
           \/ exited' = TRUE /\ pc' = "poll"
    BY <1>9 DEF Flush, BodyExits, Emit
  <2>2. strange' \in Nat /\ old' \in Nat /\ own' \in Nat /\ own' <= wrote'[1]
    BY <1>1, <1>2, <2>1
  <2>3. reported' => strange' = 0
    BY <1>1, <2>1
  <2>4. exited' \in BOOLEAN /\ (exited' => pc' = "poll")
    <3>1. pc \in Boxing \union {"body"}
      BY <2>1
    <3>2. exited = FALSE
      BY <1>1, <3>1, Zenon
    <3> QED
      BY <2>1, <3>2
  <2>5. pc' = "poll" => pc' \notin Boxing \union {"body"}
    BY DEF Boxing
  <2>6. kept' \in Nat /\ reported' \in BOOLEAN /\ (reported' => kept' = 0)
    BY <1>1, <2>1
  <2> QED
    BY <2>1, <2>2, <2>3, <2>4, <2>5, <2>6, Zenon DEF Buffer
<1>10. CASE BodyJoined
  <2>1. /\ UNCHANGED <<wrote, old, own, strange, reported, exited>> /\ pc' = "poll"
        /\ kept' = old + own
    BY <1>10 DEF BodyJoined
  <2>2. kept' \in Nat
    BY <1>1, <2>1
  <2> QED
    BY <1>1, <1>3, <2>1, <2>2 DEF Buffer, Boxing
<1>11. CASE BoxStdin \/ BodyKilled \/ Accept \/ NoConnection \/ CloseServer \/ UnboxStdin
  <2>1. UNCHANGED printed
    BY <1>11 DEF BoxStdin, BodyKilled, Accept, NoConnection, CloseServer, UnboxStdin
  <2>2. /\ pc \in {"stdin", "stdout", "stderr", "serve", "body"}
               \/ pc' \notin {"stdin", "stdout", "stderr", "serve", "body"}
    BY <1>11 DEF BoxStdin, BodyKilled, Accept, NoConnection, CloseServer, UnboxStdin
  <2> QED
    BY <1>4, <2>1, <2>2
<1>12. ASSUME NEW k \in Outputs, BoxOutput(k) \/ ReadTurn(k) \/ UnboxOutput(k)
       PROVE  Buffer'
  <2>1. UNCHANGED printed
    BY <1>12 DEF BoxOutput, ReadTurn, UnboxOutput
  <2>2. /\ pc \in {"stdin", "stdout", "stderr", "serve", "body"}
               \/ pc' \notin {"stdin", "stdout", "stderr", "serve", "body"}
    BY <1>12 DEF BoxOutput, ReadTurn, Reads, UnboxOutput
  <2> QED
    BY <1>4, <2>1, <2>2
<1>13. CASE Over \/ UNCHANGED stdioVars
  <2>1. UNCHANGED printed /\ pc' = pc
    BY <1>13 DEF Over, stdioVars
  <2> QED
    BY <1>4, <2>1
<1> QED
  BY <1>5, <1>6, <1>7, <1>8, <1>9, <1>10, <1>11, <1>12, <1>13 DEF StdioNext, RunStep

(* The steps that move bytes. *)
LEMMA FlowStep ==
    ASSUME StdioInv, [StdioNext]_stdioVars
    PROVE  Flow'
<1>1. /\ \A k \in Outputs : held[k] + pos[k] = Least(Given[k], Capacity)
      /\ pc \in Boxing \union Serving \union {"unbox stdin"} => pos = [k \in Outputs |-> 0]
      /\ pc \in {"unbox stdout", "unbox stderr", "idle"} \union Reading(2) =>
             held[1] = 0 /\ buf[1] = pos[1]
      /\ pc \in {"unbox stderr", "idle"} => held[2] = 0 /\ buf[2] = pos[2]
  BY DEF StdioInv, Flow
<1>2. /\ held \in [Outputs -> Nat] /\ wrote \in [Outputs -> Nat]
      /\ buf \in [Outputs -> Nat] /\ pos \in [Outputs -> Nat]
      /\ Capacity \in Nat /\ ReadSize \in Nat \ {0}
      /\ strange \in Nat /\ own \in Nat /\ old \in Nat /\ own <= wrote[1]
  BY StdioAssumption DEF StdioInv, Variables, Buffer
<1>3. /\ Boxing \union Serving \union {"unbox stdin"}
             = {"stdin", "stdout", "stderr", "serve", "body", "poll", "close", "unbox stdin"}
      /\ Reading(2) = {"read stderr", "unbox stderr"}
  BY RunningIs DEF Boxing, Serving
<1>4. CASE Call
  <2>1. /\ pc' = "stdin" /\ held' = Nothing /\ wrote' = Nothing /\ pos' = Nothing
        /\ strange' = 0 /\ own' = 0
    BY <1>4 DEF Call
  <2>2. \A k \in Outputs : held'[k] = 0 /\ pos'[k] = 0 /\ wrote'[k] = 0
    BY <2>1 DEF Nothing
  <2>3. \A k \in Outputs : Given'[k] = 0
    BY <2>1, <2>2 DEF Given, Outputs
  <2>4. \A k \in Outputs : held'[k] + pos'[k] = Least(Given'[k], Capacity)
    BY <1>2, <2>2, <2>3 DEF Least
  <2> QED
    BY <1>3, <2>1, <2>4 DEF Flow, Nothing
<1>5. ASSUME UNCHANGED <<held, wrote, buf, pos, strange, own>>,
             pc' \in {"stdin", "stdout", "stderr", "serve", "body", "poll", "close",
                     "unbox stdin"} =>
                 pc \in {"stdin", "stdout", "stderr", "serve", "body", "poll", "close",
                        "unbox stdin"},
             pc' \in {"unbox stdout", "read stderr", "unbox stderr", "idle"} =>
                 pc \in {"unbox stdout", "read stderr", "unbox stderr", "idle"},
             pc' \in {"unbox stderr", "idle"} => pc \in {"unbox stderr", "idle"}
      PROVE  Flow'
  <2>1. \A k \in Outputs : Given'[k] = Given[k]
    BY <1>5 DEF Given
  <2> QED
    BY <1>1, <1>3, <1>5, <2>1 DEF Flow
<1>6. CASE BoxStdin \/ Serve \/ BodyKilled \/ BodyJoined \/ Accept \/ NoConnection \/ CloseServer
           \/ UnboxStdin
  <2>1. UNCHANGED <<held, wrote, buf, pos, strange, own>>
    BY <1>6 DEF BoxStdin, Serve, BodyKilled, BodyJoined, Accept, NoConnection, CloseServer,
                UnboxStdin, pipes, printed
  <2>2. /\ pc \in {"stdin", "serve", "body", "poll", "close", "unbox stdin"}
        /\ pc' \in {"stdout", "body", "poll", "close", "unbox stdin", "read stdout", "exhausted"}
    BY <1>6 DEF BoxStdin, Serve, BodyKilled, BodyJoined, Accept, NoConnection, CloseServer,
                UnboxStdin, Exhausted
  <2>3. pc = "unbox stdin" <=> pc' = "read stdout"
    BY <1>6 DEF BoxStdin, Serve, BodyKilled, BodyJoined, Accept, NoConnection, CloseServer,
                UnboxStdin, Exhausted
  <2> QED
    BY <1>5, <2>1, <2>2, <2>3
<1>7. ASSUME NEW k \in Outputs, BoxOutput(k)
      PROVE  Flow'
  <2>1. UNCHANGED <<held, wrote, buf, pos, strange, own>>
    BY <1>7 DEF BoxOutput, pipes, printed
  <2>2. pc \in {"stdout", "stderr"} /\ pc' \in {"stderr", "serve", "exhausted"}
    BY <1>7 DEF BoxOutput, Exhausted
  <2> QED
    BY <1>5, <2>1, <2>2
<1>8. ASSUME NEW k \in Outputs, UnboxOutput(k)
      PROVE  Flow'
  <2>1. UNCHANGED <<held, wrote, buf, pos, strange, own>>
    BY <1>8 DEF UnboxOutput, pipes, printed
  <2>2. \/ pc = "unbox stdout" /\ pc' = "read stderr"
        \/ pc = "unbox stderr" /\ pc' = "idle"
    BY <1>8 DEF UnboxOutput
  <2> QED
    BY <1>5, <2>1, <2>2
<1>9. CASE Prints \/ Flush \/ BodyExits \/ \E k \in Outputs : Write(k)
  <2>1. pc = "body" /\ pc' \in {"body", "poll"} /\ UNCHANGED <<buf, pos>>
    BY <1>9 DEF Prints, Flush, BodyExits, Write, pipes
  <2>2. pos = [j \in Outputs |-> 0]
    BY <1>1, <1>3, <2>1
  <2>3. \A j \in Outputs : Given[j] \in Nat /\ held[j] = Least(Given[j], Capacity) /\ pos'[j] = 0
    <3>1. \A j \in Outputs : Given[j] \in Nat
      BY <1>2 DEF Given, Outputs
    <3> QED
      BY <1>1, <1>2, <2>1, <2>2, <3>1
  <2>4. \A k \in Outputs : fds[k] = Pipe("write", k, run)
    <3>1. pc \in Running
      BY <2>1, RunningIs
    <3>2. \A k \in Outputs : Redirected(k) /\ k \in Std /\ k # 0
      BY <2>1 DEF Redirected, Serving, Outputs, Std
    <3> QED
      BY <3>1, <3>2 DEF StdioInv, Layout, Standard
  <2>5. ASSUME NEW k \in Outputs, NEW n \in Nat, Put(k, n), Given'[k] = Given[k] + n,
               \A j \in Outputs \ {k} : Given'[j] = Given[j]
        PROVE  \A j \in Outputs : held'[j] + pos'[j] = Least(Given'[j], Capacity)
    <3>1. held' = [held EXCEPT ![k] = Least(held[k] + n, Capacity)]
      BY <2>4, <2>5 DEF Put
    <3>2. \A j \in Outputs : held'[j] = IF j = k THEN Least(held[k] + n, Capacity) ELSE held[j]
      BY <1>2, <3>1
    <3>3. Least(held[k] + n, Capacity) = Least(Given[k] + n, Capacity)
      BY <1>2, <2>3, <2>5 DEF Least
    <3>4. \A j \in Outputs : held'[j] = Least(Given'[j], Capacity)
      BY <2>3, <2>5, <3>2, <3>3
    <3>5. \A j \in Outputs : held'[j] \in Nat
      BY <1>2, <2>3, <2>5, <3>4 DEF Least
    <3> QED
      BY <2>3, <3>4, <3>5
  <2>6. ASSUME NEW k \in Outputs, Write(k)
        PROVE  \A j \in Outputs : held'[j] + pos'[j] = Least(Given'[j], Capacity)
    <3>1. /\ Put(k, 1) /\ wrote' = [wrote EXCEPT ![k] = wrote[k] + 1]
          /\ strange' = strange /\ own' = own
      BY <2>6 DEF Write
    <3>2. \A j \in Outputs : wrote'[j] = IF j = k THEN wrote[j] + 1 ELSE wrote[j]
      BY <1>2, <3>1
    <3>3. Given'[k] = Given[k] + 1 /\ \A j \in Outputs \ {k} : Given'[j] = Given[j]
      BY <1>2, <3>1, <3>2 DEF Given, Outputs
    <3> QED
      BY <2>5, <3>1, <3>3
  <2>7. ASSUME Prints
        PROVE  \A j \in Outputs : held'[j] + pos'[j] = Least(Given'[j], Capacity)
    <3>1. /\ held' = held /\ wrote' = [wrote EXCEPT ![1] = wrote[1] + 1]
          /\ strange' = strange /\ own' = own + 1
      BY <2>7 DEF Prints, pipes
    <3>2. wrote'[1] = wrote[1] + 1 /\ wrote'[2] = wrote[2]
      BY <1>2, <3>1 DEF Outputs
    <3>3. \A j \in Outputs : Given'[j] = Given[j]
      BY <1>2, <3>1, <3>2 DEF Given, Outputs
    <3> QED
      BY <1>1, <2>1, <3>1, <3>3
  <2>8. ASSUME Flush \/ BodyExits
        PROVE  \A j \in Outputs : held'[j] + pos'[j] = Least(Given'[j], Capacity)
    <3>1. /\ Put(1, old + own) /\ wrote' = wrote /\ strange' = strange + old /\ own' = 0
      BY <2>8 DEF Flush, BodyExits, Emit
    <3>2. 1 \in Outputs /\ old + own \in Nat /\ wrote[1] \in Nat
      BY <1>2 DEF Outputs
    <3>3. /\ Given'[1] = Given[1] + (old + own)
          /\ \A j \in Outputs \ {1} : Given'[j] = Given[j]
      BY <1>2, <3>1, <3>2 DEF Given
    <3> QED
      BY <2>5, <3>1, <3>2, <3>3
  <2>9. \A j \in Outputs : held'[j] + pos'[j] = Least(Given'[j], Capacity)
    BY <1>9, <2>6, <2>7, <2>8
  <2> QED
    BY <1>3, <2>1, <2>2, <2>9 DEF Flow
<1>10. ASSUME NEW k \in Outputs, ReadTurn(k)
       PROVE  Flow'
  <2> DEFINE n == Least(held[k], ReadSize)
  <2>1. /\ held[k] \in Nat /\ pos[k] \in Nat /\ n \in Nat /\ n <= held[k]
        /\ n = 0 => held[k] = 0
    BY <1>2 DEF Least
  <2>2. /\ wrote' = wrote /\ strange' = strange /\ own' = own
        /\ n > 0 => /\ held' = [held EXCEPT ![k] = held[k] - n]
                    /\ pos' = [pos EXCEPT ![k] = pos[k] + n] /\ pc' = pc
        /\ n > 0 => buf' = [buf EXCEPT ![k] = Larger(buf[k], pos[k] + ReadSize)]
        /\ ~(n > 0) => /\ pc' = IF k = 1 THEN "unbox stdout" ELSE "unbox stderr"
                       /\ buf' = [buf EXCEPT ![k] = pos[k]] /\ held' = held /\ pos' = pos
    BY <1>10 DEF ReadTurn, printed
  <2>3. pc = IF k = 1 THEN "read stdout" ELSE "read stderr"
    BY <1>10 DEF ReadTurn, Reads
  <2> HIDE DEF n
  <2>4. ASSUME NEW j \in Outputs
        PROVE  held'[j] + pos'[j] = held[j] + pos[j]
    <3>1. CASE n > 0
      <4>1. /\ held' = [held EXCEPT ![k] = held[k] - n]
            /\ pos' = [pos EXCEPT ![k] = pos[k] + n]
        BY <2>2, <3>1
      <4>2. CASE j = k
        <5>1. held'[k] = held[k] - n /\ pos'[k] = pos[k] + n
          BY <1>2, <4>1
        <5> QED
          BY <2>1, <4>2, <5>1
      <4>3. CASE j # k
        BY <1>2, <4>1, <4>3
      <4> QED
        BY <4>2, <4>3
    <3>2. CASE ~(n > 0)
      BY <2>2, <3>2
    <3> QED
      BY <3>1, <3>2
  <2>5. \A j \in Outputs \ {k} : held'[j] = held[j] /\ pos'[j] = pos[j] /\ buf'[j] = buf[j]
    BY <1>2, <2>1, <2>2
  <2>6. ~(n > 0) => held'[k] = 0 /\ buf'[k] = pos'[k]
    <3> SUFFICES ASSUME ~(n > 0)
                 PROVE  held'[k] = 0 /\ buf'[k] = pos'[k]
      OBVIOUS
    <3>1. held' = held /\ pos' = pos /\ buf' = [buf EXCEPT ![k] = pos[k]]
      BY <2>2
    <3>2. held[k] = 0
      BY <2>1
    <3> QED
      BY <1>2, <3>1, <3>2
  <2>7. \A j \in Outputs : held'[j] + pos'[j] = Least(Given'[j], Capacity)
    BY <1>1, <2>2, <2>4 DEF Given
  <2>8. CASE k = 1
    <3>1. pc = "read stdout" /\ pc' \in {"read stdout", "unbox stdout"}
      BY <2>1, <2>2, <2>3, <2>8
    <3>2. pc' = "unbox stdout" => held'[1] = 0 /\ buf'[1] = pos'[1]
      BY <2>2, <2>6, <2>8, <3>1
    <3> QED
      BY <1>3, <2>7, <3>1, <3>2 DEF Flow
  <2>9. CASE k = 2
    <3>1. pc = "read stderr" /\ pc' \in {"read stderr", "unbox stderr"}
      <4>1. k # 1
        BY <2>9
      <4>2. pc = "read stderr"
        BY <2>3, <4>1
      <4>3. pc' = pc \/ pc' = "unbox stderr"
        BY <2>2, <4>1
      <4> QED
        BY <4>2, <4>3
    <3>2. pc' = "unbox stderr" => held'[2] = 0 /\ buf'[2] = pos'[2]
      BY <2>2, <2>6, <2>9, <3>1
    <3>3. held'[1] = 0 /\ buf'[1] = pos'[1]
      <4>1. 1 \in Outputs \ {k}
        BY <2>9 DEF Outputs
      <4> QED
        BY <1>1, <1>3, <2>5, <3>1, <4>1
    <3> QED
      BY <1>3, <2>7, <3>1, <3>2, <3>3 DEF Flow
  <2> QED
    BY <2>8, <2>9 DEF Outputs
<1>11. CASE Over \/ UNCHANGED stdioVars
  <2>1. UNCHANGED <<held, wrote, buf, pos, strange, own>> /\ pc' = pc
    BY <1>11 DEF Over, stdioVars, pipes, printed
  <2> QED
    BY <1>5, <2>1
<1> QED
  BY <1>4, <1>6, <1>7, <1>8, <1>9, <1>10, <1>11 DEF StdioNext, RunStep
-----------------------------------------------------------------------------
(* At the start the process has its three files, and no run has begun. *)
LEMMA StdioStarts == StdioInit => StdioInv
<1> SUFFICES ASSUME StdioInit
             PROVE  StdioInv
  OBVIOUS
<1>1. /\ limit \in Limits /\ pc = "idle" /\ run = 0 /\ forked = TRUE
      /\ fds = [n \in Numbers |-> IF n < 3 + OpenBefore THEN File(n) ELSE Closed]
      /\ saved = [k \in Std |-> -1] /\ boxed = [k \in Std |-> -1]
      /\ held = [k \in Outputs |-> 0] /\ wrote = [k \in Outputs |-> 0]
      /\ buf = [k \in Outputs |-> 0] /\ pos = [k \in Outputs |-> 0]
      /\ kept = 0 /\ old = 0 /\ own = 0 /\ strange = 0 /\ reported = FALSE /\ exited = FALSE
  BY DEF StdioInit, Nothing
<1>2. "idle" \notin Running /\ MaxRuns \in Nat /\ Capacity \in Nat
  BY RunningIs, StdioAssumption
<1>3. IsTable(fds)
  <2> SUFFICES ASSUME NEW n \in Numbers
               PROVE  (IF n < 3 + OpenBefore THEN File(n) ELSE Closed) \in Contents
    BY <1>1 DEF IsTable
  <2>1. n < 3 + OpenBefore => n \in 0..(2 + OpenBefore)
    BY NumberFacts, <1>1 DEF Numbers
  <2> QED
    BY <2>1, KnownContents
<1>4. Variables
  <2>1. run \in 0..MaxRuns
    BY <1>1, <1>2
  <2>2. saved \in [Std -> {-1} \union Numbers] /\ boxed \in [Std -> {-1} \union Numbers]
    BY <1>1
  <2>3. /\ held \in [Outputs -> Nat] /\ wrote \in [Outputs -> Nat]
        /\ buf \in [Outputs -> Nat] /\ pos \in [Outputs -> Nat]
    BY <1>1
  <2> QED
    BY <1>1, <1>2, <1>3, <2>1, <2>2, <2>3 DEF Variables
<1>5. Table
  <2>1. limit \in Nat /\ OpenBefore \in Nat /\ limit > 3 + OpenBefore
    BY <1>1, NumberFacts
  <2>2. Others(fds) = 3..(2 + OpenBefore)
    <3>1. \A n \in Numbers : fds[n] # Closed <=> n < 3 + OpenBefore
      BY <1>1, FileFacts
    <3>2. DOMAIN fds = Numbers
      BY <1>1
    <3>3. \A n : n \in Others(fds) <=> n \in Numbers /\ n \notin Std /\ n < 3 + OpenBefore
      BY <3>1, <3>2 DEF Others
    <3>4. \A n : n \in 3..(2 + OpenBefore) <=> n \in Numbers /\ n \notin Std /\ n < 3 + OpenBefore
      BY <2>1 DEF Numbers, Std
    <3> QED
      BY <3>3, <3>4
  <2>3. \A n \in Others(fds) : fds[n] = File(n)
    BY <1>1, <2>1, <2>2 DEF Numbers
  <2>4. Former(0) = Elder /\ Rest(0) = OpenBefore
    <3>1. 1..0 = {}
      OBVIOUS
    <3> QED
      BY <2>1, <3>1 DEF Former, Rest
  <2>5. {fds[n] : n \in Others(fds)} = Elder
    BY <2>2, <2>3 DEF Elder
  <2>6. \A i, j \in Others(fds) : fds[i] = fds[j] => i = j
    BY <2>3, FileFacts
  <2>7. IsFiniteSet(Others(fds)) /\ Cardinality(Others(fds)) = OpenBefore
    <3>1. PICK a \in Int, b \in Int : a = 3 /\ b = 2 + OpenBefore
      BY <2>1
    <3>2. IsFiniteSet(a..b) /\ Cardinality(a..b) = IF a > b THEN 0 ELSE b - a + 1
      BY FS_Interval
    <3>3. (IF a > b THEN 0 ELSE b - a + 1) = OpenBefore
      BY <2>1, <3>1
    <3> QED
      BY <2>2, <3>1, <3>2, <3>3
  <2>8. Holds(fds, Former(0), Rest(0))
    BY <2>4, <2>5, <2>6, <2>7 DEF Holds
  <2> QED
    BY <1>1, <1>2, <2>8 DEF Table
<1>6. Standard
  <2>1. \A k \in Std : fds[k] = File(k)
    BY <1>1, NumberFacts DEF Std
  <2> QED
    BY <1>1, <2>1 DEF Standard, PutAside, Redirected, Serving, Reading
<1>7. Keeps
  BY <1>1 DEF Keeps, PutAside, Redirected, Serving, Reading
<1>8. Enough
  <2>1. ~(run > 0) /\ pc # "exhausted"
    BY <1>1
  <2>2. pc \notin Serving \union {"unbox stdin"} \union Reading(1) \union Reading(2)
    BY <1>1, RunningIs DEF Serving
  <2> QED
    BY <2>1, <2>2 DEF Enough
<1>9. Flow
  <2>1. \A k \in Outputs : held[k] = 0 /\ pos[k] = 0 /\ wrote[k] = 0 /\ buf[k] = 0
    BY <1>1
  <2>2. Least(0, Capacity) = 0
    BY <1>2 DEF Least
  <2>3. \A k \in Outputs : held[k] + pos[k] = Least(Given[k], Capacity)
    <3>1. \A k \in Outputs : Given[k] = 0
      BY <1>1, <2>1 DEF Given, Outputs
    <3> QED
      BY <2>1, <2>2, <3>1
  <2>4. held[1] = 0 /\ buf[1] = pos[1] /\ held[2] = 0 /\ buf[2] = pos[2]
    BY <2>1 DEF Outputs
  <2> QED
    BY <1>1, <2>3, <2>4 DEF Flow
<1>10. Buffer
  <2>1. wrote[1] = 0
    BY <1>1 DEF Outputs
  <2>2. own <= wrote[1] /\ 0 \in Nat
    BY <1>1, <2>1
  <2> QED
    BY <1>1, <2>2, Zenon DEF Buffer
<1> QED
  BY <1>4, <1>5, <1>6, <1>7, <1>8, <1>9, <1>10 DEF StdioInv, Layout

LEMMA StdioStep == StdioInv /\ [StdioNext]_stdioVars => StdioInv'
BY VariablesStep, LayoutStep, EnoughStep, BufferStep, FlowStep DEF StdioInv

(* At every step of every run the table holds the pieces of this run and   *)
(* of the runs before, each once; the old files and the read ends are      *)
(* where _saved_stdio and _sandboxed_stdio say; and what the body wrote    *)
(* is in a pipe or read.                                                   *)
THEOREM StdioInvariance == StdioSpec => []StdioInv
<1>1. StdioInit => StdioInv
  BY StdioStarts
<1>2. StdioInv /\ [StdioNext]_stdioVars => StdioInv'
  BY StdioStep
<1> QED
  BY <1>1, <1>2, PTL DEF StdioSpec

(* After any number of calls of Sandbox::run the standard files are back   *)
(* and exactly three ends of pipes per run are left: _unsandbox_stdio      *)
(* closes no more.  A run fails for want of a number only as said.         *)
THEOREM DescriptorsAreExact == StdioSpec => []TableExact
<1>1. StdioInv => TableExact
  <2> SUFFICES ASSUME StdioInv
               PROVE  TableExact
    OBVIOUS
  <2>1. /\ limit \in Limits /\ run \in 0..MaxRuns /\ run \in Nat /\ IsTable(fds) /\ Enough
    BY StdioAssumption DEF StdioInv, Variables
  <2>2. StdioTypeOK
    <3>1. \A n \in Numbers : Len(fds[n]) \in 1..3
      <4> SUFFICES ASSUME NEW x \in Contents
                   PROVE  Len(x) \in 1..3
        BY <2>1 DEF IsTable
      <4>1. CASE x = Closed
        BY <4>1 DEF Closed
      <4>2. CASE \E k : x = File(k)
        BY <4>2 DEF File
      <4>3. CASE \E e, k, r : x = Pipe(e, k, r)
        BY <4>3 DEF Pipe
      <4>4. CASE \E r : x = Server(r) \/ x = Connection(r)
        BY <4>4 DEF Server, Connection
      <4> QED
        BY <4>1, <4>2, <4>3, <4>4 DEF Contents, FilesOf, PipesOf, SocketsOf
    <3> QED
      BY <2>1, <3>1 DEF StdioTypeOK, StdioInv, Variables, Buffer
  <2>3. ASSUME pc = "idle"
        PROVE  /\ \A k \in Std : fds[k] = File(k)
               /\ Cardinality(Open(fds)) = 3 + OpenBefore + 3 * run
               /\ {fds[n] : n \in Open(fds) \ Std}
                      = Elder \union UNION {LeftBehind(r) : r \in 1..run}
    <3>1. \A k \in Std : fds[k] = File(k)
      BY <2>3 DEF StdioInv, Layout, Standard, PutAside, Redirected, Serving, Reading
    <3>2. Holds(fds, Former(run), Rest(run))
      BY <2>3 DEF StdioInv, Layout, Table
    <3>3. /\ Rest(run) \in Nat /\ 3 + Rest(run) = 3 + OpenBefore + 3 * run
          /\ \A k \in Std : fds[k] # Closed
      BY <2>1, <3>1, FileFacts, StdioAssumption DEF Rest
    <3>4. Cardinality(Open(fds)) = 3 + Rest(run)
      BY <2>1, <3>2, <3>3, Counted
    <3>5. Open(fds) \ Std = Others(fds)
      BY <2>1 DEF Open, Others, IsTable
    <3> QED
      BY <3>1, <3>2, <3>3, <3>4, <3>5 DEF Holds, Former
  <2>4. /\ pc = "idle" /\ run > 0 => limit >= 3 * run + 10 + OpenBefore
        /\ pc = "exhausted" => limit < 3 * run + 10 + OpenBefore
    <3>1. Rest(run) + 10 = 3 * run + 10 + OpenBefore
      BY <2>1, StdioAssumption DEF Rest
    <3> QED
      BY <2>1, <3>1 DEF Enough
  <2> QED
    BY <2>2, <2>3, <2>4 DEF TableExact
<1> QED
  BY <1>1, StdioInvariance, PTL

(* What _unsandbox_stdio has read is all that the pipe of this run took,   *)
(* however the bytes fall into reads, and of a run that is reported it is  *)
(* the run's own.                                                          *)
THEOREM OutputIsExact == StdioSpec => []OutputExact
<1>1. StdioInv => OutputExact
  <2> SUFFICES ASSUME StdioInv, pc = "idle"
               PROVE  OutputExact
    BY DEF OutputExact
  <2>1. held[1] = 0 /\ buf[1] = pos[1] /\ held[2] = 0 /\ buf[2] = pos[2]
    BY DEF StdioInv, Flow
  <2>2. /\ held[1] + pos[1] = Least(strange + wrote[1] - own, Capacity)
        /\ held[2] + pos[2] = Least(wrote[2], Capacity)
    <3>1. \A k \in Outputs : held[k] + pos[k] = Least(Given[k], Capacity)
      BY DEF StdioInv, Flow
    <3> QED
      BY <3>1 DEF Given, Outputs
  <2>3. pos[1] \in Nat /\ pos[2] \in Nat
    BY DEF StdioInv, Variables, Outputs
  <2>4. (exited => own = 0) /\ (reported => strange = 0)
    BY DEF StdioInv, Buffer
  <2> QED
    BY <2>1, <2>2, <2>3, <2>4 DEF OutputExact, Outputs
<1> QED
  BY <1>1, StdioInvariance, PTL
=============================================================================
