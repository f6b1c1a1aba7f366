------------------------- MODULE WorkerPool_proofs -------------------------
(***************************************************************************)
(* Proofs about WorkerPool, for any number of workers and of tests, any    *)
(* needs, any workers that die or lack the tests, and any order in which   *)
(* messages arrive: each allocated worker is in one stage of the test, the *)
(* join is complete, and nothing is left between tests.                    *)
(***************************************************************************)
EXTENDS WorkerPool, FiniteSetTheorems, SequenceTheorems, TLAPS

(* The workers that the driver's loop has not finished with. *)
Left == todo \union ({cur} \ {None})

Running == dpc \in {"driver", "join"}
IsReport(m) == m.op = "FINISHED_TEST"

(* The loops of the driver, and what is empty between them. *)
Loops ==
    /\ cur \notin todo
    /\ dpc \in {"next", "spawn", "driver"} => cur = None /\ todo = {}
    /\ dpc \in {"next", "spawn"} => allocated = {}
    /\ dpc = "next" => spawned = {}
    /\ dpc # "next" => round \in 1..Len(Needs)
    /\ dpc = "waitpid" => cur # None
    /\ dpc = "alloc" => Left \intersect allocated = {}
    /\ dpc = "join" => Left \subseteq allocated

(* Which workers there are.  The ids that _spawnWorker gives are those     *)
(* after the registered ones (it leaves out one), so none is given twice.  *)
Population ==
    /\ spawned \intersect Registered = {}
    /\ dpc \in {"next", "spawn", "alloc", "driver", "join"} => known = Registered \union spawned
    /\ dpc \in {"dealloc", "waitpid"} =>
          Left \subseteq spawned /\ known = Registered \union Left
    /\ dpc = "spawn" => /\ spawned = (NumRegistered + 1)..Cardinality(known)
                        /\ NumRegistered <= Cardinality(known)
    /\ \A w \in Ids : proc[w] # "none" => w \in Remote \/ w \in known \ Registered

(* What there is to read for a worker. *)
Channel(w) ==
    /\ dpc \in {"next", "spawn", "alloc", "dealloc"} => chan[w] = <<>>
    /\ Running => chan[w] = <<>> \/ (w \in allocated /\ chan[w] = <<RunTest(round)>>)
    /\ dpc = "waitpid" => chan[w] = <<>> \/ (w = cur /\ chan[w] = <<Terminate>>)
    /\ dpc = "crashed" => chan[w] \in {<<>>, <<Terminate>>}

(* Where the test is for a worker. *)
Stage(w) ==
    /\ InTest(w) => Running /\ w \in allocated /\ at[w] = round /\ chan[w] = <<>>
                    /\ ~Reported(w) /\ ~done[w]
    /\ Reported(w) => Running /\ w \in allocated /\ chan[w] = <<>> /\ ~done[w]
    /\ Running /\ chan[w] # <<>> => ~done[w]
    /\ Running /\ w \in allocated =>
          chan[w] # <<>> \/ InTest(w) \/ Reported(w) \/ done[w] \/ Lost(w)
    /\ dpc = "alloc" /\ w \in allocated => ~done[w]

(* A worker reports once, and about this test. *)
Reports ==
    /\ \A m \in super : IsReport(m) => m.round = round
    /\ \A m, n \in super : IsReport(m) /\ IsReport(n) /\ m.id = n.id => m = n

(* The results that _join has taken. *)
Judged ==
    /\ dpc = "join" => \A w \in allocated \ Left : done[w] /\ result[w] <= status
    /\ dpc \in {"dealloc", "waitpid"} => \A w \in allocated : done[w] /\ result[w] <= status

IndInv == /\ TypeOK /\ Loops /\ Population /\ Reports /\ Judged
          /\ \A w \in Ids : Channel(w) /\ Stage(w)
-----------------------------------------------------------------------------
(* Messages to the super socket. *)
LEMMA MessageFacts ==
    ASSUME TypeOK
    PROVE  /\ \A m \in super : /\ m \in SuperMessages /\ m.id \in Ids
                               /\ m.op \in {"WORKER_STARTED", "FINISHED_TEST"}
                               /\ IsReport(m) => m.status \in Status
           /\ \A w \in Ids : /\ WorkerStarted(w) \in SuperMessages
                             /\ ~IsReport(WorkerStarted(w)) /\ WorkerStarted(w).id = w
           /\ \A w \in Ids, r \in 0..Len(Needs), v \in Status :
                 /\ FinishedTest(w, r, v) \in SuperMessages /\ IsReport(FinishedTest(w, r, v))
                 /\ FinishedTest(w, r, v).id = w /\ FinishedTest(w, r, v).round = r
<1>1. \A w : WorkerStarted(w).op = "WORKER_STARTED" /\ WorkerStarted(w).id = w
  BY DEF WorkerStarted
<1>2. \A w, r, v : /\ FinishedTest(w, r, v).op = "FINISHED_TEST" /\ FinishedTest(w, r, v).id = w
                   /\ FinishedTest(w, r, v).round = r /\ FinishedTest(w, r, v).status = v
  BY DEF FinishedTest
<1>3. ASSUME NEW m \in super
      PROVE  /\ m \in SuperMessages /\ m.id \in Ids
             /\ m.op \in {"WORKER_STARTED", "FINISHED_TEST"}
             /\ IsReport(m) => m.status \in Status
  <2>1. m \in SuperMessages
    BY <1>3 DEF TypeOK
  <2>2. CASE \E w \in Ids : m = WorkerStarted(w)
    BY <2>1, <2>2, <1>1 DEF IsReport
  <2>3. CASE \E w \in Ids, r \in 0..Len(Needs), v \in Status : m = FinishedTest(w, r, v)
    BY <2>1, <2>3, <1>2 DEF IsReport
  <2> QED
    BY <2>1, <2>2, <2>3 DEF SuperMessages
<1>4. \A w \in Ids : /\ WorkerStarted(w) \in SuperMessages
                     /\ ~IsReport(WorkerStarted(w)) /\ WorkerStarted(w).id = w
  BY <1>1 DEF SuperMessages, IsReport
<1>5. \A w \in Ids, r \in 0..Len(Needs), v \in Status :
         /\ FinishedTest(w, r, v) \in SuperMessages /\ IsReport(FinishedTest(w, r, v))
         /\ FinishedTest(w, r, v).id = w /\ FinishedTest(w, r, v).round = r
  BY <1>2 DEF SuperMessages, IsReport
<1> QED
  BY <1>3, <1>4, <1>5

(* What a channel holds, for whoever reads it. *)
LEMMA HeadFacts ==
    /\ \A r : <<RunTest(r)>> # <<>> /\ Head(<<RunTest(r)>>) = RunTest(r)
             /\ Tail(<<RunTest(r)>>) = <<>> /\ Head(<<RunTest(r)>>) # Terminate
             /\ RunTest(r).round = r /\ RunTest(r).op = "RUN_TEST"
    /\ <<Terminate>> # <<>> /\ Head(<<Terminate>>) = Terminate
    /\ Tail(<<Terminate>>) = <<>> /\ Terminate.op = "TERMINATE"
    /\ \A r : Append(<<>>, RunTest(r)) = <<RunTest(r)>>
    /\ Append(<<>>, Terminate) = <<Terminate>>
BY DEF RunTest, Terminate

LEMMA NoneIsNoId == None \notin Ids
BY PoolAssumption DEF None, Ids

(* The ids of the registered workers, and the next one. *)
LEMMA RegisteredFacts ==
    ASSUME Len(Needs) > 0
    PROVE  /\ Registered = 0..(NumRegistered - 1) /\ IsFiniteSet(Registered)
           /\ Cardinality(Registered) = NumRegistered
<1>1. Len(Needs) \in Nat /\ 1 \in 1..Len(Needs) /\ Needs[1] \in Nat /\ NumRegistered \in Nat
      /\ MaxId \in Nat /\ Needs[1] + NumRegistered + 1 <= MaxId
  BY PoolAssumption, LenProperties, ElementOfSeq
<1>2. NumRegistered + 1 <= MaxId
  BY <1>1
<1>3. Registered = 0..(NumRegistered - 1)
  BY <1>1, <1>2 DEF Registered, Ids
<1>4. /\ IsFiniteSet(0..(NumRegistered - 1))
      /\ Cardinality(0..(NumRegistered - 1))
           = IF 0 > NumRegistered - 1 THEN 0 ELSE (NumRegistered - 1) - 0 + 1
  <2>1. 0 \in Int /\ NumRegistered - 1 \in Int
    BY <1>1
  <2> QED
    BY <2>1, FS_Interval, Zenon
<1> QED
  BY <1>1, <1>3, <1>4

LEMMA IdsAreFinite ==
    ASSUME NEW S \in SUBSET Ids
    PROVE  IsFiniteSet(S) /\ Cardinality(S) \in Nat
<1>1. IsFiniteSet(Ids)
  BY PoolAssumption, FS_Interval DEF Ids
<1> QED
  BY <1>1, FS_Subset, FS_CardinalityType

LEMMA NewIdIsNew ==
    ASSUME TypeOK, Loops, Population, Spawn
    PROVE  /\ NewId \in Ids /\ NewId \notin known /\ NewId \notin Registered
           /\ Cardinality(known') = NewId
           /\ spawned' = (NumRegistered + 1)..NewId /\ NumRegistered <= NewId
<1>1. /\ round \in 1..Len(Needs) /\ dpc = "spawn"
      /\ Cardinality(known) < Needs[round]
      /\ known' = known \union {NewId} /\ spawned' = spawned \union {NewId}
  BY DEF Spawn, Loops
<1>2. /\ Len(Needs) \in Nat /\ Needs[round] \in Nat /\ NumRegistered \in Nat /\ MaxId \in Nat
      /\ Needs[round] + NumRegistered + 1 <= MaxId
  BY <1>1, PoolAssumption, LenProperties, ElementOfSeq
<1> DEFINE K == Cardinality(known)
<1>3. IsFiniteSet(known) /\ K \in Nat
  BY IdsAreFinite DEF TypeOK
<1>4. /\ known = Registered \union ((NumRegistered + 1)..K) /\ NumRegistered <= K
      /\ spawned = (NumRegistered + 1)..K
  BY <1>1 DEF Population
<1>5. \A w \in Registered : w \in Int /\ w < NumRegistered
  BY <1>2 DEF Registered, Ids
<1>6. NewId = K + 1
  BY DEF NewId
<1> HIDE DEF K
<1>7. NewId \in Ids
  BY <1>1, <1>2, <1>3, <1>6 DEF Ids, K
<1>8. NewId \notin Registered /\ NewId \notin known
  BY <1>2, <1>3, <1>4, <1>5, <1>6
<1>9. Cardinality(known') = NewId
  BY <1>1, <1>3, <1>6, <1>8, FS_AddElement DEF K
<1>10. spawned' = (NumRegistered + 1)..NewId /\ NumRegistered <= NewId
  BY <1>1, <1>2, <1>3, <1>4, <1>6
<1> QED
  BY <1>7, <1>8, <1>9, <1>10
-----------------------------------------------------------------------------
(* The steps, one lemma for each part of the invariant. *)

LEMMA LoopsStep ==
    ASSUME TypeOK, Loops, Population, [Next]_vars
    PROVE  Loops'
<1>0. None \notin Ids /\ None \notin todo /\ None \notin known /\ None \notin allocated /\ None \notin spawned
  BY NoneIsNoId DEF TypeOK
<1> USE DEF Loops, Left, pool
<1>1. CASE NextTest
  <2>1. /\ round' = round + 1 /\ round < Len(Needs) /\ dpc = "next" /\ dpc' = "spawn"
        /\ cur' = cur /\ todo' = todo /\ allocated' = allocated
    BY <1>1 DEF NextTest
  <2>2. round' \in 1..Len(Needs)
    BY <2>1, LenProperties, PoolAssumption DEF TypeOK
  <2> QED
    BY <2>1, <2>2
<1>2. CASE Spawn
  BY <1>2, <1>0 DEF Spawn
<1>3. CASE Choose
  <2>1. /\ dpc = "spawn" /\ dpc' = "alloc" /\ cur' = cur /\ todo' \subseteq known
        /\ allocated' = allocated /\ round' = round
    BY <1>3 DEF Choose
  <2> QED
    BY <2>1, <1>0
<1>4. CASE Allocate
  BY <1>4, <1>0 DEF Allocate
<1>5. CASE Run
  BY <1>5, <1>0 DEF Run
<1>6. CASE RunFails
  BY <1>6, <1>0 DEF RunFails
<1>7. CASE Joined
  BY <1>7, <1>0 DEF Joined
<1>8. CASE JoinedAll
  BY <1>8, <1>0 DEF JoinedAll
<1>9. CASE SendTerminate
  BY <1>9, <1>0 DEF SendTerminate
<1>10. CASE Waitpid
  BY <1>10, <1>0 DEF Waitpid
<1>11. CASE Clear
  BY <1>11, <1>0 DEF Clear
<1>12. ASSUME NEW u \in Ids, Reach(u)
       PROVE  Loops'
  BY <1>12, <1>0 DEF Reach
<1>13. ASSUME NEW m \in super, SuperEvent(m)
       PROVE  Loops'
  BY <1>13, <1>0 DEF SuperEvent
<1>14. ASSUME NEW v \in Status, DriverRun(v)
       PROVE  Loops'
  BY <1>14, <1>0 DEF DriverRun
<1>15. ASSUME NEW u \in Ids, Start(u)
       PROVE  Loops'
  BY <1>15, <1>0 DEF Start
<1>16. ASSUME NEW u \in Ids, RecvRun(u)
       PROVE  Loops'
  BY <1>16, <1>0 DEF RecvRun
<1>17. ASSUME NEW u \in Ids, RecvTerminate(u)
       PROVE  Loops'
  BY <1>17, <1>0 DEF RecvTerminate
<1>18. ASSUME NEW u \in Ids, Die(u)
       PROVE  Loops'
  BY <1>18, <1>0 DEF Die
<1>19. ASSUME NEW u \in Ids, NEW v \in Status, FinishTest(u, v)
       PROVE  Loops'
  BY <1>19, <1>0 DEF FinishTest
<1>20. CASE UNCHANGED vars
  BY <1>20, <1>0 DEF vars
<1> QED
  BY <1>1, <1>2, <1>3, <1>4, <1>5, <1>6, <1>7, <1>8, <1>9, <1>10, <1>11, <1>12,
     <1>13, <1>14, <1>15, <1>16, <1>17, <1>18, <1>19, <1>20 DEF Next, DriverStep,
     WorkerStep, PollAgain, AllDone

LEMMA PopulationStep ==
    ASSUME TypeOK, Loops, Population, [Next]_vars
    PROVE  Population'
<1> USE DEF Left, pool
<1>1. CASE NextTest
  <2>1. /\ dpc = "next" /\ dpc' = "spawn" /\ round < Len(Needs) /\ known' = known
        /\ spawned' = spawned /\ proc' = proc /\ spawned = {} /\ known = Registered
    BY <1>1 DEF NextTest, Population, Loops
  <2>2. Cardinality(Registered) = NumRegistered /\ NumRegistered \in Nat
    <3>1. Len(Needs) > 0
      BY <2>1, LenProperties, PoolAssumption DEF TypeOK
    <3> QED
      BY <3>1, RegisteredFacts, PoolAssumption
  <2>3. (NumRegistered + 1)..Cardinality(known) = {}
    BY <2>1, <2>2
  <2> QED
    BY <2>1, <2>2, <2>3 DEF Population
<1>2. CASE Spawn
  <2>1. /\ dpc = "spawn" /\ dpc' = "spawn" /\ known' = known \union {NewId}
        /\ spawned' = spawned \union {NewId} /\ proc' = [proc EXCEPT ![NewId] = "starting"]
        /\ known = Registered \union spawned
    BY <1>2 DEF Spawn, Population
  <2>2. /\ NewId \in Ids /\ NewId \notin Registered /\ Cardinality(known') = NewId
        /\ spawned' = (NumRegistered + 1)..NewId /\ NumRegistered <= NewId
    BY <1>2, NewIdIsNew
  <2>3. \A w \in Ids : proc'[w] # "none" => w \in Remote \/ w \in known' \ Registered
    BY <2>1, <2>2 DEF Population, TypeOK
  <2>4. spawned' \intersect Registered = {} /\ known' = Registered \union spawned'
    BY <2>1, <2>2 DEF Population
  <2> QED
    BY <2>1, <2>2, <2>3, <2>4 DEF Population
<1>3. CASE Choose
  BY <1>3 DEF Choose, Population, Loops
<1>4. CASE Allocate
  BY <1>4 DEF Allocate, Population, Loops
<1>5. CASE Run
  BY <1>5 DEF Run, Population, Loops
<1>6. CASE RunFails
  BY <1>6 DEF RunFails, Population, Loops
<1>7. CASE Joined
  BY <1>7 DEF Joined, Population, Loops
<1>8. CASE JoinedAll
  <2>1. /\ dpc = "join" /\ cur = None /\ todo' = spawned /\ dpc' = "dealloc" /\ cur' = cur
        /\ spawned' = spawned /\ known' = known /\ proc' = proc
    BY <1>8 DEF JoinedAll
  <2>2. Left' = spawned
    BY <2>1, NoneIsNoId DEF TypeOK
  <2> QED
    BY <2>1, <2>2 DEF Population
<1>9. CASE SendTerminate
  <2>1. /\ dpc = "dealloc" /\ dpc' \in {"waitpid", "crashed"} /\ cur' = cur /\ todo' = todo
        /\ spawned' = spawned /\ known' = known /\ proc' = proc
    BY <1>9 DEF SendTerminate
  <2>2. Left' = Left
    BY <2>1
  <2> QED
    BY <2>1, <2>2 DEF Population
<1>10. CASE Waitpid
  <2>1. /\ dpc = "waitpid" /\ dpc' = "dealloc" /\ known' = known \ {cur}
        /\ proc' = [proc EXCEPT ![cur] = "none"] /\ cur' = None /\ todo' = todo
        /\ spawned' = spawned /\ cur \notin todo /\ cur # None
    BY <1>10 DEF Waitpid, Loops
  <2>2. cur \in spawned /\ cur \notin Registered /\ None \notin todo
    BY <2>1, NoneIsNoId DEF Population, TypeOK
  <2>3. Left' = Left \ {cur} /\ known' = Registered \union Left'
    BY <2>1, <2>2 DEF Population
  <2>4. \A w \in Ids : proc'[w] # "none" => w \in Remote \/ w \in known' \ Registered
    BY <2>1, <2>2 DEF Population, TypeOK
  <2> QED
    BY <2>1, <2>3, <2>4 DEF Population
<1>11. CASE Clear
  <2>1. /\ dpc = "dealloc" /\ cur = None /\ todo = {} /\ spawned' = {} /\ dpc' = "next"
        /\ known' = known /\ proc' = proc
    BY <1>11 DEF Clear
  <2>2. Left = {}
    BY <2>1
  <2> QED
    BY <2>1, <2>2 DEF Population
<1>12. ASSUME NEW u \in Ids, Reach(u)
       PROVE  Population'
  <2>1. /\ cur = None /\ u \in todo /\ cur' = u /\ todo' = todo \ {u} /\ dpc' = dpc
        /\ spawned' = spawned /\ known' = known /\ proc' = proc /\ dpc \in {"alloc", "join", "dealloc"}
    BY <1>12 DEF Reach
  <2>2. Left' = Left
    BY <2>1, NoneIsNoId
  <2> QED
    BY <2>1, <2>2 DEF Population
<1>13. ASSUME NEW m \in super, SuperEvent(m)
       PROVE  Population'
  BY <1>13 DEF SuperEvent, Population, Loops
<1>14. ASSUME NEW v \in Status, DriverRun(v)
       PROVE  Population'
  BY <1>14 DEF DriverRun, Population, Loops
<1>15. ASSUME NEW u \in Ids, Start(u)
       PROVE  Population'
  BY <1>15 DEF Start, Population, Loops, TypeOK
<1>16. ASSUME NEW u \in Ids, RecvRun(u)
       PROVE  Population'
  BY <1>16 DEF RecvRun, Population, Loops, TypeOK
<1>17. ASSUME NEW u \in Ids, RecvTerminate(u)
       PROVE  Population'
  BY <1>17 DEF RecvTerminate, Population, Loops, TypeOK
<1>18. ASSUME NEW u \in Ids, Die(u)
       PROVE  Population'
  BY <1>18 DEF Die, Population, Loops, TypeOK
<1>19. ASSUME NEW u \in Ids, NEW v \in Status, FinishTest(u, v)
       PROVE  Population'
  BY <1>19 DEF FinishTest, Population, Loops, TypeOK
<1>20. CASE UNCHANGED vars
  BY <1>20 DEF vars, Population, Loops
<1> QED
  BY <1>1, <1>2, <1>3, <1>4, <1>5, <1>6, <1>7, <1>8, <1>9, <1>10, <1>11, <1>12,
     <1>13, <1>14, <1>15, <1>16, <1>17, <1>18, <1>19, <1>20 DEF Next, DriverStep,
     WorkerStep, PollAgain, AllDone

LEMMA ChannelStep ==
    ASSUME IndInv, [Next]_vars, NEW w \in Ids
    PROVE  Channel(w)'
<1>0. /\ chan \in [Ids -> Seq({RunTest(r) : r \in 1..Len(Needs)} \union {Terminate})]
      /\ Loops /\ Channel(w) /\ cur \in Ids \union {None} /\ (cur # None => cur \in Ids)
  BY DEF IndInv, TypeOK
<1> USE HeadFacts DEF pool, Channel, Running
<1>1. CASE NextTest
  <2>1. dpc = "next" /\ dpc' = "spawn" /\ chan' = chan
    BY <1>1 DEF NextTest
  <2> QED
    BY <2>1, <1>0
<1>2. CASE Spawn
  BY <1>2, <1>0 DEF Spawn
<1>3. CASE Choose
  BY <1>3, <1>0 DEF Choose
<1>4. CASE Allocate
  BY <1>4, <1>0 DEF Allocate
<1>5. CASE Run
  <2>1. /\ dpc = "alloc" /\ dpc' = "driver" /\ allocated' = allocated /\ round' = round
        /\ chan[w] = <<>>
    BY <1>5, <1>0 DEF Run
  <2>2. chan'[w] = IF w \in allocated THEN <<RunTest(round)>> ELSE <<>>
    BY <1>5, <2>1 DEF Run
  <2> QED
    BY <2>1, <2>2
<1>6. CASE RunFails
  BY <1>6, <1>0 DEF RunFails
<1>7. CASE Joined
  BY <1>7, <1>0 DEF Joined
<1>8. CASE JoinedAll
  <2>1. /\ dpc = "join" /\ dpc' = "dealloc" /\ chan' = chan /\ cur = None /\ todo = {}
    BY <1>8 DEF JoinedAll
  <2>2. w \in allocated => done[w]
    BY <2>1 DEF IndInv, Judged, Left
  <2>3. chan[w] # <<>> => ~done[w]
    BY <2>1 DEF IndInv, Stage
  <2> QED
    BY <2>1, <2>2, <2>3, <1>0
<1>9. CASE SendTerminate
  <2>1. /\ dpc = "dealloc" /\ cur # None /\ dpc' \in {"waitpid", "crashed"} /\ cur' = cur
        /\ chan' = [chan EXCEPT ![cur] = Append(chan[cur], Terminate)]
    BY <1>9 DEF SendTerminate
  <2>2. chan[w] = <<>> /\ (w = cur => chan'[w] = <<Terminate>>) /\ (w # cur => chan'[w] = <<>>)
    BY <2>1, <1>0
  <2> QED
    BY <2>1, <2>2
<1>10. CASE Waitpid
  <2>1. /\ dpc = "waitpid" /\ cur # None /\ dpc' = "dealloc"
        /\ chan' = [chan EXCEPT ![cur] = <<>>]
    BY <1>10, <1>0 DEF Waitpid, Loops
  <2>2. chan'[w] = <<>>
    BY <2>1, <1>0
  <2> QED
    BY <2>1, <2>2
<1>11. CASE Clear
  BY <1>11, <1>0 DEF Clear
<1>12. ASSUME NEW u \in Ids, Reach(u)
       PROVE  Channel(w)'
  BY <1>12, <1>0 DEF Reach
<1>13. ASSUME NEW m \in super, SuperEvent(m)
       PROVE  Channel(w)'
  BY <1>13, <1>0 DEF SuperEvent
<1>14. ASSUME NEW v \in Status, DriverRun(v)
       PROVE  Channel(w)'
  BY <1>14, <1>0 DEF DriverRun, Loops
<1>15. ASSUME NEW u \in Ids, Start(u)
       PROVE  Channel(w)'
  BY <1>15, <1>0 DEF Start
<1>16. ASSUME NEW u \in Ids, RecvRun(u)
       PROVE  Channel(w)'
  <2>1. /\ chan' = [chan EXCEPT ![u] = Tail(chan[u])]
        /\ dpc' = dpc /\ round' = round /\ cur' = cur /\ allocated' = allocated
        /\ chan[u] # <<>> /\ Head(chan[u]).op = "RUN_TEST"
    BY <1>16 DEF RecvRun
  <2>2. chan[w] # <<>> => Tail(chan[w]) = <<>>
    BY <1>0, <1>16 DEF TypeOK, IndInv
  <2> QED
    BY <2>1, <2>2, <1>0
<1>17. ASSUME NEW u \in Ids, RecvTerminate(u)
       PROVE  Channel(w)'
  <2>1. /\ chan' = [chan EXCEPT ![u] = Tail(chan[u])]
        /\ dpc' = dpc /\ round' = round /\ cur' = cur /\ allocated' = allocated
        /\ chan[u] # <<>> /\ Head(chan[u]) = Terminate
    BY <1>17 DEF RecvTerminate
  <2>2. chan[w] # <<>> => Tail(chan[w]) = <<>>
    BY <1>0, <1>17 DEF TypeOK, IndInv
  <2> QED
    BY <2>1, <2>2, <1>0
<1>18. ASSUME NEW u \in Ids, Die(u)
       PROVE  Channel(w)'
  BY <1>18, <1>0 DEF Die
<1>19. ASSUME NEW u \in Ids, NEW v \in Status, FinishTest(u, v)
       PROVE  Channel(w)'
  BY <1>19, <1>0 DEF FinishTest
<1>20. CASE UNCHANGED vars
  BY <1>20, <1>0 DEF vars
<1> QED
  BY <1>1, <1>2, <1>3, <1>4, <1>5, <1>6, <1>7, <1>8, <1>9, <1>10, <1>11, <1>12,
     <1>13, <1>14, <1>15, <1>16, <1>17, <1>18, <1>19, <1>20 DEF Next, DriverStep,
     WorkerStep, PollAgain, AllDone

LEMMA ReportsStep ==
    ASSUME IndInv, [Next]_vars
    PROVE  Reports'
<1>0. /\ Reports
      /\ \A m, n \in super : IsReport(m) /\ IsReport(n) /\ m.id = n.id => m = n
      /\ \A m \in super : IsReport(m) => m.round = round
  BY DEF IndInv, Reports
<1> USE DEF Reports, IsReport
<1>1. CASE NextTest
  <2>1. dpc = "next" /\ super' = super
    BY <1>1 DEF NextTest
  <2>2. ASSUME NEW m \in super, IsReport(m) PROVE FALSE
    <3>1. m.id \in Ids /\ Reported(m.id)
      BY <2>2, MessageFacts DEF IndInv, Reported
    <3> QED
      BY <3>1, <2>1 DEF IndInv, Stage, Running
  <2> QED
    BY <2>1, <2>2
<1>2. CASE Spawn
  BY <1>2, <1>0 DEF Spawn
<1>3. CASE Choose
  BY <1>3, <1>0 DEF Choose
<1>4. CASE Allocate
  BY <1>4, <1>0 DEF Allocate
<1>5. CASE Run
  BY <1>5, <1>0 DEF Run
<1>6. CASE RunFails
  BY <1>6, <1>0 DEF RunFails
<1>7. CASE Joined
  BY <1>7, <1>0 DEF Joined
<1>8. CASE JoinedAll
  BY <1>8, <1>0 DEF JoinedAll
<1>9. CASE SendTerminate
  BY <1>9, <1>0 DEF SendTerminate
<1>10. CASE Waitpid
  BY <1>10, <1>0 DEF Waitpid
<1>11. CASE Clear
  BY <1>11, <1>0 DEF Clear
<1>12. ASSUME NEW u \in Ids, Reach(u)
       PROVE  Reports'
  BY <1>12, <1>0 DEF Reach
<1>13. ASSUME NEW m \in super, SuperEvent(m)
       PROVE  Reports'
  BY <1>13, <1>0 DEF SuperEvent
<1>14. ASSUME NEW v \in Status, DriverRun(v)
       PROVE  Reports'
  BY <1>14, <1>0 DEF DriverRun
<1>15. ASSUME NEW u \in Ids, Start(u)
       PROVE  Reports'
  <2>1. super' = super \union {WorkerStarted(u)} /\ round' = round
    BY <1>15 DEF Start
  <2>2. ~IsReport(WorkerStarted(u))
    BY MessageFacts DEF IndInv
  <2> QED
    BY <2>1, <2>2, <1>0
<1>16. ASSUME NEW u \in Ids, RecvRun(u)
       PROVE  Reports'
  BY <1>16, <1>0 DEF RecvRun
<1>17. ASSUME NEW u \in Ids, RecvTerminate(u)
       PROVE  Reports'
  BY <1>17, <1>0 DEF RecvTerminate
<1>18. ASSUME NEW u \in Ids, Die(u)
       PROVE  Reports'
  BY <1>18, <1>0 DEF Die
<1>19. ASSUME NEW u \in Ids, NEW v \in Status, FinishTest(u, v)
       PROVE  Reports'
  <2>1. super' = super \union {FinishedTest(u, at[u], v)} /\ round' = round /\ InTest(u)
    BY <1>19 DEF FinishTest, InTest
  <2>2. at[u] = round /\ ~Reported(u)
    BY <2>1 DEF IndInv, Stage
  <2>3. FinishedTest(u, at[u], v).id = u /\ FinishedTest(u, at[u], v).round = round
    BY <2>2 DEF FinishedTest
  <2>4. \A m \in super : IsReport(m) => m.id # u
    BY <2>2 DEF Reported
  <2> QED
    BY <2>1, <2>3, <2>4, <1>0
<1>20. CASE UNCHANGED vars
  BY <1>20, <1>0 DEF vars
<1> QED
  BY <1>1, <1>2, <1>3, <1>4, <1>5, <1>6, <1>7, <1>8, <1>9, <1>10, <1>11, <1>12,
     <1>13, <1>14, <1>15, <1>16, <1>17, <1>18, <1>19, <1>20 DEF Next, DriverStep,
     WorkerStep, PollAgain, AllDone

LEMMA JudgedStep ==
    ASSUME IndInv, [Next]_vars
    PROVE  Judged'
<1>0. /\ Judged /\ Loops
      /\ \A w \in allocated : w \in Ids /\ result[w] \in Status \union {Pending} /\ result[w] \in Nat
      /\ status \in Nat /\ cur \notin todo
      /\ done \in [Ids -> BOOLEAN] /\ result \in [Ids -> Status \union {Pending}]
  <2>1. Status \union {Pending} \subseteq Nat
    BY PoolAssumption DEF Pending
  <2> QED
    BY <2>1 DEF IndInv, TypeOK, Loops
<1> USE DEF Judged, Left, pool
<1>1. CASE NextTest
  BY <1>1, <1>0 DEF NextTest
<1>2. CASE Spawn
  BY <1>2, <1>0 DEF Spawn
<1>3. CASE Choose
  BY <1>3, <1>0 DEF Choose
<1>4. CASE Allocate
  BY <1>4, <1>0 DEF Allocate
<1>5. CASE Run
  BY <1>5, <1>0 DEF Run
<1>6. CASE RunFails
  BY <1>6, <1>0 DEF RunFails
<1>7. CASE Joined
  <2>1. /\ dpc = "join" /\ dpc' = dpc /\ cur # None /\ done[cur]
        /\ status' = (IF result[cur] > status THEN result[cur] ELSE status)
        /\ cur' = None /\ todo' = todo /\ UNCHANGED <<allocated, done, result>>
    BY <1>7 DEF Joined
  <2>2. cur \in allocated /\ Left' \subseteq Left /\ Left \subseteq Left' \union {cur}
    BY <2>1, <1>0 DEF Loops
  <2>3. status <= status' /\ result[cur] <= status'
    BY <2>1, <2>2, <1>0
  <2>4. ASSUME NEW w \in allocated, w \notin Left' PROVE done[w] /\ result[w] <= status'
    <3>1. CASE w = cur
      BY <3>1, <2>1, <2>3
    <3>2. CASE w # cur
      <4>1. w \notin Left
        BY <3>2, <2>2, <2>4
      <4>2. done[w] /\ result[w] <= status
        BY <4>1, <2>1, <1>0
      <4>3. status' \in Nat
        BY <2>1, <2>2, <1>0
      <4> QED
        BY <4>2, <4>3, <2>3, <1>0
    <3> QED
      BY <3>1, <3>2
  <2> QED
    BY <2>1, <2>4
<1>8. CASE JoinedAll
  BY <1>8, <1>0 DEF JoinedAll
<1>9. CASE SendTerminate
  BY <1>9, <1>0 DEF SendTerminate
<1>10. CASE Waitpid
  BY <1>10, <1>0 DEF Waitpid
<1>11. CASE Clear
  BY <1>11, <1>0 DEF Clear
<1>12. ASSUME NEW u \in Ids, Reach(u)
       PROVE  Judged'
  <2>1. /\ cur = None /\ u \in todo /\ cur' = u /\ todo' = todo \ {u} /\ dpc' = dpc
        /\ UNCHANGED <<allocated, done, result, status>>
    BY <1>12 DEF Reach
  <2>2. Left' = Left
    BY <2>1, NoneIsNoId
  <2> QED
    BY <2>1, <2>2, <1>0
<1>13. ASSUME NEW m \in super, SuperEvent(m)
       PROVE  Judged'
  <2>1. /\ Waiting /\ dpc' = dpc /\ cur' = cur /\ todo' = todo /\ allocated' = allocated
        /\ status' = status /\ dpc \in {"alloc", "join"}
    BY <1>13 DEF SuperEvent, Waiting
  <2>2. CASE done' = done /\ result' = result
    BY <2>1, <2>2, <1>0
  <2>3. CASE /\ IsReport(m) /\ m.id \in allocated
             /\ done' = [done EXCEPT ![m.id] = TRUE]
             /\ result' = [result EXCEPT ![m.id] = m.status]
    <3>1. m.id \in Ids /\ ~done[m.id]
      BY <2>3 DEF IndInv, Stage, Reported, TypeOK, IsReport
    <3>2. dpc = "join" => m.id \in Left
      BY <3>1, <2>3, <1>0
    <3> QED
      BY <3>1, <3>2, <2>1, <2>3, <1>0
  <2> QED
    BY <1>13, <2>2, <2>3, MessageFacts DEF SuperEvent, IsReport, IndInv
<1>14. ASSUME NEW v \in Status, DriverRun(v)
       PROVE  Judged'
  <2>1. /\ dpc' = "join" /\ todo' = allocated /\ allocated' = allocated
    BY <1>14 DEF DriverRun
  <2> QED
    BY <2>1
<1>15. ASSUME NEW u \in Ids, Start(u)
       PROVE  Judged'
  BY <1>15, <1>0 DEF Start
<1>16. ASSUME NEW u \in Ids, RecvRun(u)
       PROVE  Judged'
  BY <1>16, <1>0 DEF RecvRun
<1>17. ASSUME NEW u \in Ids, RecvTerminate(u)
       PROVE  Judged'
  BY <1>17, <1>0 DEF RecvTerminate
<1>18. ASSUME NEW u \in Ids, Die(u)
       PROVE  Judged'
  BY <1>18, <1>0 DEF Die
<1>19. ASSUME NEW u \in Ids, NEW v \in Status, FinishTest(u, v)
       PROVE  Judged'
  BY <1>19, <1>0 DEF FinishTest
<1>20. CASE UNCHANGED vars
  BY <1>20, <1>0 DEF vars
<1> QED
  BY <1>1, <1>2, <1>3, <1>4, <1>5, <1>6, <1>7, <1>8, <1>9, <1>10, <1>11, <1>12,
     <1>13, <1>14, <1>15, <1>16, <1>17, <1>18, <1>19, <1>20 DEF Next, DriverStep,
     WorkerStep, PollAgain, AllDone

LEMMA StageStep ==
    ASSUME IndInv, [Next]_vars, NEW w \in Ids
    PROVE  Stage(w)'
<1>0. /\ Stage(w) /\ Channel(w) /\ Loops /\ Channel(w)'
      /\ proc \in [Ids -> {"none", "starting", "up", "intest", "exited", "dead"}]
      /\ done \in [Ids -> BOOLEAN]
  BY ChannelStep DEF IndInv, TypeOK
<1> USE DEF Stage, InTest, Reported, Lost, pool, Running
<1>1. CASE NextTest
  BY <1>1, <1>0 DEF NextTest, Loops
<1>2. CASE Spawn
  <2>1. /\ dpc = "spawn" /\ dpc' = "spawn" /\ super' = super
        /\ proc' = [proc EXCEPT ![NewId] = "starting"]
    BY <1>2 DEF Spawn
  <2>2. proc'[w] = proc[w] \/ proc'[w] # "intest"
    BY <2>1, <1>0
  <2> QED
    BY <2>1, <2>2, <1>0
<1>3. CASE Choose
  <2>1. /\ dpc = "spawn" /\ dpc' = "alloc" /\ super' = super /\ proc' = proc
        /\ allocated' = allocated /\ allocated = {}
    BY <1>3, <1>0 DEF Choose, Loops
  <2> QED
    BY <2>1, <1>0
<1>4. CASE Allocate
  <2>1. /\ dpc = "alloc" /\ dpc' = dpc /\ super' = super /\ proc' = proc
        /\ allocated' = allocated \union {cur} /\ done' = [done EXCEPT ![cur] = FALSE]
    BY <1>4 DEF Allocate
  <2>2. w \in allocated' => ~done'[w]
    BY <2>1, <1>0
  <2> QED
    BY <2>1, <2>2, <1>0
<1>5. CASE Run
  <2>1. /\ dpc = "alloc" /\ dpc' = "driver" /\ super' = super /\ proc' = proc
        /\ allocated' = allocated /\ done' = done /\ chan[w] = <<>>
    BY <1>5, <1>0 DEF Run, Channel
  <2>2. chan'[w] = IF w \in allocated THEN <<RunTest(round)>> ELSE <<>>
    BY <1>5, <2>1, HeadFacts DEF Run
  <2>3. w \in allocated => chan'[w] # <<>> /\ ~done[w]
    BY <2>1, <2>2, <1>0, HeadFacts
  <2> QED
    BY <2>1, <2>2, <2>3, <1>0
<1>6. CASE RunFails
  BY <1>6, <1>0 DEF RunFails
<1>7. CASE Joined
  BY <1>7, <1>0 DEF Joined
<1>8. CASE JoinedAll
  <2>1. /\ dpc = "join" /\ dpc' = "dealloc" /\ cur = None /\ todo = {}
        /\ super' = super /\ proc' = proc
    BY <1>8 DEF JoinedAll
  <2>2. w \in allocated => done[w]
    BY <2>1 DEF IndInv, Judged, Left
  <2> QED
    BY <2>1, <2>2, <1>0
<1>9. CASE SendTerminate
  BY <1>9, <1>0 DEF SendTerminate
<1>10. CASE Waitpid
  <2>1. /\ dpc = "waitpid" /\ dpc' = "dealloc" /\ super' = super
        /\ proc' = [proc EXCEPT ![cur] = "none"]
    BY <1>10 DEF Waitpid
  <2>2. proc'[w] = proc[w] \/ proc'[w] # "intest"
    BY <2>1, <1>0
  <2> QED
    BY <2>1, <2>2, <1>0
<1>11. CASE Clear
  BY <1>11, <1>0 DEF Clear
<1>12. ASSUME NEW u \in Ids, Reach(u)
       PROVE  Stage(w)'
  BY <1>12, <1>0 DEF Reach
<1>13. ASSUME NEW m \in super, SuperEvent(m)
       PROVE  Stage(w)'
  <2>1. /\ dpc' = dpc /\ proc' = proc /\ chan' = chan /\ at' = at /\ round' = round
        /\ allocated' = allocated /\ lacking' = lacking /\ super' = super \ {m}
    BY <1>13 DEF SuperEvent
  <2>2. CASE ~(IsReport(m) /\ m.id = w)
    <3>1. done'[w] = done[w]
      BY <1>13, <2>2, <1>0, MessageFacts DEF SuperEvent, IsReport, IndInv
    <3>2. Reported(w)' <=> Reported(w)
      BY <2>1, <2>2 DEF IsReport
    <3> QED
      BY <2>1, <3>1, <3>2, <1>0
  <2>3. CASE IsReport(m) /\ m.id = w
    <3>1. /\ Reported(w) /\ Running /\ w \in allocated /\ chan[w] = <<>> /\ ~InTest(w)
      BY <2>3, <1>0 DEF IsReport
    <3>2. ~Reported(w)'
      BY <2>1, <2>3 DEF IndInv, Reports, IsReport
    <3>3. done'[w] = TRUE
      BY <1>13, <2>3, <3>1, <1>0 DEF SuperEvent, IsReport
    <3> QED
      BY <2>1, <3>1, <3>2, <3>3, <1>0
  <2> QED
    BY <2>2, <2>3
<1>14. ASSUME NEW v \in Status, DriverRun(v)
       PROVE  Stage(w)'
  BY <1>14, <1>0 DEF DriverRun
<1>15. ASSUME NEW u \in Ids, Start(u)
       PROVE  Stage(w)'
  <2>1. /\ dpc' = dpc /\ chan' = chan /\ at' = at /\ round' = round /\ done' = done
        /\ allocated' = allocated /\ lacking' = lacking
        /\ super' = super \union {WorkerStarted(u)} /\ proc[u] = "starting"
        /\ proc' = [proc EXCEPT ![u] = "up"]
    BY <1>15 DEF Start
  <2>2. Reported(w)' <=> Reported(w)
    BY <2>1, MessageFacts DEF IndInv, IsReport
  <2>3. (proc'[w] = "intest" <=> proc[w] = "intest") /\ (proc[w] = "dead" => proc'[w] = "dead")
    BY <2>1, <1>0
  <2> QED
    BY <2>1, <2>2, <2>3, <1>0
<1>16. ASSUME NEW u \in Ids, RecvRun(u)
       PROVE  Stage(w)'
  <2>1. /\ dpc' = dpc /\ super' = super /\ round' = round /\ done' = done
        /\ allocated' = allocated /\ lacking' = lacking
        /\ proc[u] = "up" /\ chan[u] # <<>> /\ Head(chan[u]).op = "RUN_TEST"
        /\ chan' = [chan EXCEPT ![u] = Tail(chan[u])]
        /\ proc' = [proc EXCEPT ![u] = IF u \in lacking THEN "up" ELSE "intest"]
        /\ at' = [at EXCEPT ![u] = Head(chan[u]).round]
    BY <1>16 DEF RecvRun
  <2>2. CASE u # w
    <3>1. chan'[w] = chan[w] /\ proc'[w] = proc[w] /\ at'[w] = at[w]
      BY <2>1, <2>2 DEF IndInv, TypeOK
    <3> QED
      BY <2>1, <3>1, <1>0
  <2>3. CASE u = w
    <3>1. Running /\ w \in allocated /\ chan[w] = <<RunTest(round)>>
      <4>1. Terminate.op # "RUN_TEST" /\ Head(<<Terminate>>) = Terminate
        BY HeadFacts
      <4> QED
        BY <2>1, <2>3, <4>1, <1>0 DEF Channel, IndInv, TypeOK
    <3>2. ~Reported(w) /\ ~done[w]
      BY <2>1, <2>3, <3>1, <1>0
    <3>3. chan'[w] = <<>> /\ at'[w] = round
      BY <2>1, <2>3, <3>1, HeadFacts DEF IndInv, TypeOK
    <3>4. proc'[w] = IF w \in lacking THEN "up" ELSE "intest"
      BY <2>1, <2>3, <1>0
    <3> QED
      BY <2>1, <3>1, <3>2, <3>3, <3>4, <1>0
  <2> QED
    BY <2>2, <2>3
<1>17. ASSUME NEW u \in Ids, RecvTerminate(u)
       PROVE  Stage(w)'
  <2>1. /\ dpc' = dpc /\ super' = super /\ chan[u] # <<>> /\ Head(chan[u]) = Terminate
        /\ chan' = [chan EXCEPT ![u] = Tail(chan[u])] /\ proc[u] = "up"
        /\ proc' = [proc EXCEPT ![u] = "exited"]
    BY <1>17 DEF RecvTerminate
  <2>2. ~Running /\ dpc # "alloc"
    <3>1. Channel(u)
      BY DEF IndInv
    <3>2. \A r : Head(<<RunTest(r)>>) # Terminate
      BY HeadFacts
    <3> QED
      BY <2>1, <3>1, <3>2 DEF Channel
  <2>3. proc'[w] = proc[w] \/ proc'[w] # "intest"
    BY <2>1, <1>0
  <2> QED
    BY <2>1, <2>2, <2>3, <1>0
<1>18. ASSUME NEW u \in Ids, Die(u)
       PROVE  Stage(w)'
  <2>1. /\ dpc' = dpc /\ super' = super /\ chan' = chan /\ at' = at /\ round' = round /\ done' = done
        /\ allocated' = allocated /\ lacking' = lacking
        /\ proc' = [proc EXCEPT ![u] = "dead"]
    BY <1>18 DEF Die
  <2>2. proc'[w] = proc[w] \/ proc'[w] = "dead"
    BY <2>1, <1>0
  <2> QED
    BY <2>1, <2>2, <1>0
<1>19. ASSUME NEW u \in Ids, NEW v \in Status, FinishTest(u, v)
       PROVE  Stage(w)'
  <2>1. /\ dpc' = dpc /\ chan' = chan /\ at' = at /\ round' = round /\ done' = done
        /\ allocated' = allocated /\ lacking' = lacking /\ proc[u] = "intest"
        /\ super' = super \union {FinishedTest(u, at[u], v)}
        /\ proc' = [proc EXCEPT ![u] = "up"]
    BY <1>19 DEF FinishTest
  <2>0. FinishedTest(u, at[u], v).op = "FINISHED_TEST" /\ FinishedTest(u, at[u], v).id = u
    BY DEF FinishedTest
  <2>2. CASE u # w
    <3>1. proc'[w] = proc[w]
      BY <2>1, <2>2, <1>0
    <3>2. Reported(w)' <=> Reported(w)
      BY <2>0, <2>1, <2>2
    <3> QED
      BY <2>1, <3>1, <3>2, <1>0
  <2>3. CASE u = w
    <3>1. Reported(w)' /\ ~InTest(w)'
      BY <2>0, <2>1, <2>3, <1>0
    <3>2. Running /\ w \in allocated /\ chan[w] = <<>> /\ ~done[w]
      BY <2>1, <2>3, <1>0
    <3> QED
      BY <2>1, <3>1, <3>2
  <2> QED
    BY <2>2, <2>3
<1>20. CASE UNCHANGED vars
  BY <1>20, <1>0 DEF vars
<1> QED
  BY <1>1, <1>2, <1>3, <1>4, <1>5, <1>6, <1>7, <1>8, <1>9, <1>10, <1>11, <1>12,
     <1>13, <1>14, <1>15, <1>16, <1>17, <1>18, <1>19, <1>20 DEF Next, DriverStep,
     WorkerStep, PollAgain, AllDone

LEMMA TypeStep ==
    ASSUME IndInv, [Next]_vars
    PROVE  TypeOK'
<1> DEFINE M == {RunTest(r) : r \in 1..Len(Needs)} \union {Terminate}
<1>0. TypeOK /\ Loops /\ NumRegistered \in Nat
  BY PoolAssumption DEF IndInv
<1> USE DEF TypeOK, pool
<1>1. CASE NextTest
  <2>1. round' \in 0..Len(Needs)
    BY <1>1, PoolAssumption, LenProperties, <1>0 DEF NextTest
  <2> QED
    BY <1>1, <2>1, <1>0 DEF NextTest
<1>2. CASE Spawn
  <2>1. NewId \in Ids
    BY <1>2, NewIdIsNew DEF IndInv
  <2>2. running' \in [Ids -> BOOLEAN]
    BY <1>2, <1>0, <2>1 DEF Spawn
  <2>3. proc' \in [Ids -> {"none", "starting", "up", "intest", "exited", "dead"}]
    BY <1>2, <1>0 DEF Spawn
  <2> QED
    BY <1>2, <1>0, <2>1, <2>2, <2>3 DEF Spawn
<1>3. CASE Choose
  BY <1>3, <1>0 DEF Choose
<1>4. CASE Allocate
  <2>1. done' = [done EXCEPT ![cur] = FALSE]
    BY <1>4 DEF Allocate
  <2>2. done \in [Ids -> BOOLEAN]
    BY <1>0
  <2>3. done' \in [Ids -> BOOLEAN]
    BY <2>1, <2>2
  <2> QED
    BY <1>4, <1>0, <2>3 DEF Allocate
<1>5. CASE Run
  <2>1. /\ chan' = [w \in Ids |-> IF w \in allocated
                                 THEN Append(chan[w], RunTest(round)) ELSE chan[w]]
        /\ dpc = "alloc"
    BY <1>5 DEF Run
  <2>2. RunTest(round) \in M
    BY <2>1, <1>0 DEF Loops
  <2>3. chan \in [Ids -> Seq(M)]
    BY <1>0
  <2> HIDE DEF M
  <2>4. chan' \in [Ids -> Seq(M)]
    BY <2>1, <2>2, <2>3, AppendProperties
  <2> QED
    BY <1>5, <1>0, <2>4 DEF Run, M
<1>6. CASE RunFails
  BY <1>6, <1>0 DEF RunFails
<1>7. CASE Joined
  <2>1. status' \in Status \union {Pending}
    BY <1>7, <1>0, NoneIsNoId DEF Joined
  <2> QED
    BY <1>7, <1>0, <2>1 DEF Joined
<1>8. CASE JoinedAll
  BY <1>8, <1>0 DEF JoinedAll
<1>9. CASE SendTerminate
  <2>1. chan' = [chan EXCEPT ![cur] = Append(chan[cur], Terminate)] /\ cur \in Ids
    BY <1>9, <1>0 DEF SendTerminate
  <2>2. Terminate \in M /\ chan \in [Ids -> Seq(M)]
    BY <1>0
  <2> HIDE DEF M
  <2>3. chan' \in [Ids -> Seq(M)]
    BY <2>1, <2>2, AppendProperties
  <2> QED
    BY <1>9, <1>0, <2>3 DEF SendTerminate, M
<1>10. CASE Waitpid
  <2>1. chan' = [chan EXCEPT ![cur] = <<>>] /\ <<>> \in Seq(M) /\ chan \in [Ids -> Seq(M)]
    BY <1>10, <1>0 DEF Waitpid
  <2>2. chan' \in [Ids -> Seq(M)]
    BY <2>1
  <2>3. proc' \in [Ids -> {"none", "starting", "up", "intest", "exited", "dead"}]
    BY <1>10, <1>0 DEF Waitpid
  <2> QED
    BY <1>10, <1>0, <2>2, <2>3 DEF Waitpid
<1>11. CASE Clear
  BY <1>11, <1>0 DEF Clear
<1>12. ASSUME NEW u \in Ids, Reach(u)
       PROVE  TypeOK'
  BY <1>12, <1>0 DEF Reach
<1>13. ASSUME NEW m \in super, SuperEvent(m)
       PROVE  TypeOK'
  <2>1. /\ m.id \in Ids /\ m.op \in {"WORKER_STARTED", "FINISHED_TEST"}
        /\ m.op = "FINISHED_TEST" => m.status \in Status
    BY <1>0, MessageFacts DEF IsReport
  <2>2. CASE m.op = "WORKER_STARTED"
    <3>1. running' = running \/ running' = [running EXCEPT ![m.id] = TRUE]
      BY <1>13, <2>2 DEF SuperEvent
    <3>2. running \in [Ids -> BOOLEAN]
      BY <1>0
    <3>3. running' \in [Ids -> BOOLEAN]
      BY <3>1, <3>2
    <3> QED
      BY <1>13, <1>0, <2>2, <3>3 DEF SuperEvent
  <2>3. CASE m.op = "FINISHED_TEST"
    <3>1. /\ done' = done \/ done' = [done EXCEPT ![m.id] = TRUE]
          /\ result' = result \/ result' = [result EXCEPT ![m.id] = m.status]
      BY <1>13, <2>3 DEF SuperEvent
    <3>2. done \in [Ids -> BOOLEAN] /\ result \in [Ids -> Status \union {Pending}]
      BY <1>0
    <3>3. done' \in [Ids -> BOOLEAN]
      BY <3>1, <3>2
    <3>4. result' \in [Ids -> Status \union {Pending}]
      BY <3>1, <3>2, <2>1, <2>3
    <3> QED
      BY <1>13, <1>0, <2>3, <3>3, <3>4 DEF SuperEvent
  <2> QED
    BY <2>1, <2>2, <2>3
<1>14. ASSUME NEW v \in Status, DriverRun(v)
       PROVE  TypeOK'
  BY <1>14, <1>0 DEF DriverRun
<1>15. ASSUME NEW u \in Ids, Start(u)
       PROVE  TypeOK'
  <2>1. super' \subseteq SuperMessages
    BY <1>15, <1>0, MessageFacts DEF Start
  <2>2. proc' \in [Ids -> {"none", "starting", "up", "intest", "exited", "dead"}]
    BY <1>15, <1>0 DEF Start
  <2> QED
    BY <1>15, <1>0, <2>1, <2>2 DEF Start
<1>16. ASSUME NEW u \in Ids, RecvRun(u)
       PROVE  TypeOK'
  <2>1. /\ chan' = [chan EXCEPT ![u] = Tail(chan[u])] /\ chan[u] # <<>>
        /\ at' = [at EXCEPT ![u] = Head(chan[u]).round] /\ Head(chan[u]).op = "RUN_TEST"
    BY <1>16 DEF RecvRun
  <2>2. chan \in [Ids -> Seq(M)]
    BY <1>0
  <2>3. \A r \in 1..Len(Needs) : RunTest(r).round = r
    BY DEF RunTest
  <2>4. \A x \in M : x.op = "RUN_TEST" => x.round \in 1..Len(Needs)
    BY <2>3, HeadFacts
  <2> HIDE DEF M
  <2>5. Tail(chan[u]) \in Seq(M) /\ Head(chan[u]) \in M
    BY <2>1, <2>2, HeadTailProperties
  <2>6. chan' \in [Ids -> Seq(M)]
    BY <2>1, <2>2, <2>5
  <2>7. at' \in [Ids -> 0..Len(Needs)]
    <3>1. Head(chan[u]).round \in 0..Len(Needs)
      BY <2>1, <2>4, <2>5, PoolAssumption, LenProperties
    <3> QED
      BY <3>1, <2>1, <1>0
  <2>8. proc' \in [Ids -> {"none", "starting", "up", "intest", "exited", "dead"}]
    BY <1>16, <1>0 DEF RecvRun
  <2> QED
    BY <1>16, <1>0, <2>6, <2>7, <2>8 DEF RecvRun, M
<1>17. ASSUME NEW u \in Ids, RecvTerminate(u)
       PROVE  TypeOK'
  <2>1. chan' = [chan EXCEPT ![u] = Tail(chan[u])] /\ chan[u] # <<>>
    BY <1>17 DEF RecvTerminate
  <2>2. chan \in [Ids -> Seq(M)]
    BY <1>0
  <2> HIDE DEF M
  <2>3. Tail(chan[u]) \in Seq(M)
    BY <2>1, <2>2, HeadTailProperties
  <2>4. chan' \in [Ids -> Seq(M)]
    BY <2>1, <2>2, <2>3
  <2>5. proc' \in [Ids -> {"none", "starting", "up", "intest", "exited", "dead"}]
    BY <1>17, <1>0 DEF RecvTerminate
  <2> QED
    BY <1>17, <1>0, <2>4, <2>5 DEF RecvTerminate, M
<1>18. ASSUME NEW u \in Ids, Die(u)
       PROVE  TypeOK'
  <2>1. proc' \in [Ids -> {"none", "starting", "up", "intest", "exited", "dead"}]
    BY <1>18, <1>0 DEF Die
  <2> QED
    BY <1>18, <1>0, <2>1 DEF Die
<1>19. ASSUME NEW u \in Ids, NEW v \in Status, FinishTest(u, v)
       PROVE  TypeOK'
  <2>1. super' \subseteq SuperMessages
    BY <1>19, <1>0, MessageFacts DEF FinishTest
  <2>2. proc' \in [Ids -> {"none", "starting", "up", "intest", "exited", "dead"}]
    BY <1>19, <1>0 DEF FinishTest
  <2> QED
    BY <1>19, <1>0, <2>1, <2>2 DEF FinishTest
<1>20. CASE UNCHANGED vars
  BY <1>20, <1>0 DEF vars
<1> QED
  BY <1>1, <1>2, <1>3, <1>4, <1>5, <1>6, <1>7, <1>8, <1>9, <1>10, <1>11, <1>12,
     <1>13, <1>14, <1>15, <1>16, <1>17, <1>18, <1>19, <1>20 DEF Next, DriverStep,
     WorkerStep, PollAgain, AllDone

-----------------------------------------------------------------------------
LEMMA Initially == Init => IndInv
<1> SUFFICES ASSUME Init PROVE IndInv
  OBVIOUS
<1>0. /\ Registered \subseteq Ids /\ None \notin Ids /\ MaxId \in Nat
      /\ Len(Needs) \in Nat /\ Lacks \subseteq Ids
  BY PoolAssumption, NoneIsNoId, LenProperties DEF Registered, Ids
<1>1. TypeOK
  <2>1. proc \in [Ids -> {"none", "starting", "up", "intest", "exited", "dead"}]
    BY DEF Init
  <2>2. at \in [Ids -> 0..Len(Needs)] /\ 0 \in 0..Len(Needs)
    BY <1>0 DEF Init
  <2>3. chan \in [Ids -> Seq({RunTest(r) : r \in 1..Len(Needs)} \union {Terminate})]
    BY DEF Init
  <2>4. running \in [Ids -> BOOLEAN] /\ done \in [Ids -> BOOLEAN]
    BY DEF Init
  <2>5. result \in [Ids -> Status \union {Pending}] /\ status \in Status \union {Pending}
    BY DEF Init
  <2>6. super \subseteq SuperMessages /\ lacking \subseteq Ids
    BY <1>0 DEF Init
  <2> QED
    BY <1>0, <2>1, <2>2, <2>3, <2>4, <2>5, <2>6 DEF Init, TypeOK
<1>2. Loops /\ Reports /\ Judged
  BY DEF Init, Loops, Reports, Judged, Left
<1>3. Population
  BY DEF Init, Population, Left
<1>4. ASSUME NEW w \in Ids PROVE Channel(w) /\ Stage(w)
  BY DEF Init, Channel, Stage, InTest, Reported, Running
<1> QED
  BY <1>1, <1>2, <1>3, <1>4 DEF IndInv

(* What is true of every state of the driver and the workers: see IndInv. *)
THEOREM Invariance == Spec => []IndInv
<1>1. IndInv /\ [Next]_vars => IndInv'
  <2> SUFFICES ASSUME IndInv, [Next]_vars PROVE IndInv'
    OBVIOUS
  <2>1. TypeOK' /\ Loops' /\ Population'
    BY TypeStep, LoopsStep, PopulationStep DEF IndInv
  <2>2. Reports' /\ Judged'
    BY ReportsStep, JudgedStep
  <2>3. \A w \in Ids : (Channel(w))' /\ (Stage(w))'
    BY ChannelStep, StageStep
  <2> QED
    BY <2>1, <2>2, <2>3 DEF IndInv
<1> QED
  BY <1>1, Initially, PTL DEF Spec

(* FINISHED_TEST carries no test: a worker that the driver has allocated   *)
(* is in exactly one stage of the test being run, so DriverContext never   *)
(* takes a result for that of another test.                                *)
THEOREM OneStageAtATime == Spec => []OneStageEach
<1>1. IndInv => OneStageEach
  <2> SUFFICES ASSUME IndInv PROVE OneStageEach
    OBVIOUS
  <2>1. ASSUME Running, NEW w \in allocated
        PROVE  /\ Asked(w) => ~InTest(w) /\ ~Reported(w) /\ ~done[w]
               /\ InTest(w) => ~Reported(w) /\ ~done[w] /\ at[w] = round
               /\ Reported(w) => ~done[w]
               /\ Asked(w) \/ InTest(w) \/ Reported(w) \/ done[w] \/ Lost(w)
    <3>1. Channel(w) /\ Stage(w)
      BY DEF IndInv, TypeOK
    <3>2. Asked(w) <=> chan[w] # <<>>
      BY <2>1, <3>1 DEF Channel, Asked
    <3> QED
      BY <2>1, <3>1, <3>2 DEF Stage
  <2>2. ASSUME NEW m \in super, IsReport(m) PROVE m.round = round /\ m.id \in allocated
    <3>1. m.id \in Ids /\ Reported(m.id)
      BY <2>2, MessageFacts DEF IndInv, Reported, IsReport
    <3> QED
      BY <3>1, <2>2 DEF IndInv, Stage, Reports
  <2> QED
    BY <2>1, <2>2 DEF OneStageEach, Running, IsReport
<1> QED
  BY <1>1, Invariance, PTL

(* DriverContext::_join returns when every allocated worker has reported,  *)
(* and Test::_status is then the worst of all.                             *)
THEOREM JoinWasComplete == Spec => []JoinIsComplete
<1>1. IndInv => JoinIsComplete
  <2> SUFFICES ASSUME IndInv, dpc \in {"dealloc", "waitpid"}, NEW w \in allocated
               PROVE  done[w] /\ ~InTest(w) /\ ~Asked(w) /\ result[w] <= status
    BY DEF JoinIsComplete, IndInv
  <2>1. Channel(w) /\ Stage(w) /\ done[w] /\ result[w] <= status
    BY DEF IndInv, TypeOK, Judged
  <2>2. chan[w] \in {<<>>, <<Terminate>>} /\ ~Running
    BY <2>1 DEF Channel, Running
  <2>3. RunTest(round) # Terminate
    BY HeadFacts
  <2>4. ~Asked(w)
    BY <2>2, <2>3 DEF Asked
  <2> QED
    BY <2>1, <2>2, <2>4 DEF Stage
<1> QED
  BY <1>1, Invariance, PTL

(* After _deallocateWorkers the workers a test has spawned are reaped, no  *)
(* result is on its way, and nobody has anything to read.                  *)
THEOREM TestsLeaveNothing == Spec => []QuietBetweenTests
<1>1. IndInv => QuietBetweenTests
  <2> SUFFICES ASSUME IndInv, dpc = "next" PROVE QuietBetweenTests
    BY DEF QuietBetweenTests
  <2>1. known = Registered
    BY DEF IndInv, Population, Loops
  <2>2. \A w \in Ids : w \notin Remote => proc[w] = "none"
    BY <2>1 DEF IndInv, Population
  <2>3. \A w \in Ids : ~InTest(w) /\ ~Reported(w) /\ chan[w] = <<>>
    BY DEF IndInv, Stage, Channel, Running
  <2> QED
    BY <2>1, <2>2, <2>3 DEF QuietBetweenTests
<1> QED
  BY <1>1, Invariance, PTL
=============================================================================
