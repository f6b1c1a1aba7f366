----------------------------- MODULE WorkerPool -----------------------------
(***************************************************************************)
(* The control plane of distributed tests: how Test::_run on the driver    *)
(* obtains workers (_allocateWorkers, _spawnWorker), starts a test on them *)
(* (_run), collects their results (_join) and lets them go                 *)
(* (_deallocateWorkers, WorkerHandle::terminate), and the worker's loop in *)
(* runWorker.                                                              *)
(*                                                                         *)
(* Driver to worker: one connection per worker and test, read in order.    *)
(* Worker to driver: every message travels on a connection of its own to   *)
(* the super socket, so messages arrive in any order.                      *)
(***************************************************************************)
EXTENDS Naturals, Sequences, FiniteSets

CONSTANTS
    NumRegistered,  \* --workers: the driver registers the ids 0 .. N-1
    Remote,         \* the ids of the worker processes started elsewhere
    Needs,          \* the numbers of workers the tests ask for, in order
    MaxId,          \* bound on worker ids
    Status,         \* Test::Status as numbers, larger is worse
    MayDie,         \* workers whose process may die
    Lacks           \* workers that may lack the tests in their image

ASSUME PoolAssumption ==
    /\ NumRegistered \in Nat /\ MaxId \in Nat
    /\ Status \subseteq 0..6 /\ Status # {}
    /\ Needs \in Seq(Nat)
    /\ Remote \subseteq 0..MaxId /\ Lacks \subseteq 0..MaxId
    /\ \A i \in 1..Len(Needs) : Needs[i] + NumRegistered + 1 <= MaxId

Ids == 0..MaxId
None == MaxId + 1           \* no worker
Pending == 7                \* Status::PENDING, the last of the enumeration
Registered == {i \in Ids : i < NumRegistered}

VARIABLES
    round,      \* the index of the test being run
    dpc,        \* where the driver is
    cur,        \* the worker its current loop is at, or None
    todo,       \* the workers its current loop has yet to reach
    known,      \* the keys of _workers
    running,    \* WorkerHandle::_running of those
    allocated,  \* the keys of _allocatedWorkers
    done,       \* WorkerHandle::_done of those
    result,     \* WorkerHandle::_status of those
    spawned,    \* extraWorkers of Test::_run
    status,     \* Test::_status of the test being run
    proc,       \* the worker processes
    at,         \* the round a worker's test belongs to
    chan,       \* what the driver sent and the worker has not read
    super,      \* messages on their way to the super socket
    lacking     \* the workers that do lack the tests

pool == <<known, running, allocated, done, result, spawned>>
vars == <<round, dpc, cur, todo, pool, status, proc, at, chan, super, lacking>>

(* Messages to the super socket.  The round is not part of the message: it *)
(* only records which test the worker has finished.                        *)
WorkerStarted(w) == [op |-> "WORKER_STARTED", id |-> w]
FinishedTest(w, r, v) == [op |-> "FINISHED_TEST", id |-> w, round |-> r, status |-> v]
RunTest(r) == [op |-> "RUN_TEST", round |-> r]
Terminate == [op |-> "TERMINATE"]

Init == /\ round = 0 /\ dpc = "next" /\ cur = None /\ todo = {}
        /\ known = Registered
        /\ running = [w \in Ids |-> FALSE]
        /\ allocated = {} /\ spawned = {}
        /\ done = [w \in Ids |-> FALSE]
        /\ result = [w \in Ids |-> Pending]
        /\ status = Pending
        /\ proc = [w \in Ids |-> IF w \in Remote THEN "starting" ELSE "none"]
        /\ at = [w \in Ids |-> 0]
        /\ chan = [w \in Ids |-> <<>>]
        /\ super = {}
        /\ lacking \in {{}, Lacks}
-----------------------------------------------------------------------------
(* The driver. *)

Gone(w) == proc[w] \in {"exited", "dead"}

(* runAll takes the next distributed test. *)
NextTest == /\ dpc = "next" /\ round < Len(Needs)
            /\ round' = round + 1 /\ dpc' = "spawn" /\ status' = Pending
            /\ UNCHANGED <<cur, todo, pool, proc, chan, super, at, lacking>>

(* _spawnWorker: id = _workers.size() + 1, and a new WorkerHandle. *)
NewId_CountsSpawned == Cardinality(spawned) + 1   \* mutant
NewId == Cardinality(known) + 1

Spawn == /\ dpc = "spawn" /\ Cardinality(known) < Needs[round]
         /\ known' = known \union {NewId}
         /\ spawned' = spawned \union {NewId}
         /\ running' = [running EXCEPT ![NewId] = FALSE]
         /\ proc' = [proc EXCEPT ![NewId] = "starting"]
         /\ UNCHANGED <<round, dpc, cur, todo, allocated, done, result, status,
                        chan, super, at, lacking>>

(* The loop over _workers takes the first n it meets, in hash order. *)
Choose == /\ dpc = "spawn" /\ Cardinality(known) >= Needs[round]
          /\ \E S \in SUBSET known : Cardinality(S) = Needs[round] /\ todo' = S
          /\ dpc' = "alloc"
          /\ UNCHANGED <<round, cur, pool, status, proc, chan, super, at, lacking>>

(* The head of the loops of _allocateWorkers, _join and _deallocateWorkers. *)
Reach(w) == /\ dpc \in {"alloc", "join", "dealloc"}
            /\ cur = None /\ w \in todo
            /\ cur' = w /\ todo' = todo \ {w}
            /\ UNCHANGED <<round, dpc, pool, status, proc, chan, super, at, lacking>>

(* _waitForSuperEvent, until the worker the loop is at is running or done. *)
Waiting == /\ cur # None
           /\ \/ dpc = "alloc" /\ ~running[cur]
              \/ dpc = "join" /\ ~done[cur]

(* Mutant: the driver drops what it is not waiting for. *)
SuperEvent_OnlyExpected(m) ==
    /\ Waiting /\ m \in super
    /\ super' = super \ {m}
    /\ IF m.op = "WORKER_STARTED"
       THEN /\ running' = [running EXCEPT ![m.id] = @ \/ dpc = "alloc"]
            /\ UNCHANGED <<done, result>>
       ELSE /\ done' = [done EXCEPT ![m.id] = @ \/ dpc = "join"]
            /\ result' = [result EXCEPT ![m.id] = m.status]
            /\ UNCHANGED running
    /\ UNCHANGED <<round, dpc, cur, todo, known, allocated, spawned, status, proc,
                   chan, at, lacking>>

(* pollOrAccept goes on polling while nothing arrives. *)
PollAgain == Waiting /\ super = {} /\ UNCHANGED vars

SuperEvent(m) ==
    /\ Waiting /\ m \in super
    /\ super' = super \ {m}
    /\ IF m.op = "WORKER_STARTED"
       THEN /\ running' = IF m.id \in known THEN [running EXCEPT ![m.id] = TRUE]
                                            ELSE running
            /\ UNCHANGED <<done, result>>
       ELSE /\ IF m.id \in allocated
               THEN /\ done' = [done EXCEPT ![m.id] = TRUE]
                    /\ result' = [result EXCEPT ![m.id] = m.status]
               ELSE UNCHANGED <<done, result>>
            /\ UNCHANGED running
    /\ UNCHANGED <<round, dpc, cur, todo, known, allocated, spawned, status, proc,
                   chan, at, lacking>>

(* Mutant: _done is not reset. *)
Allocate_KeepsDone ==
    /\ dpc = "alloc" /\ cur # None /\ running[cur]
    /\ result' = [result EXCEPT ![cur] = Pending]
    /\ allocated' = allocated \union {cur}
    /\ cur' = None
    /\ UNCHANGED <<round, dpc, todo, known, running, done, spawned, status, proc,
                   chan, super, at, lacking>>

(* The end of the loop body in _allocateWorkers. *)
Allocate == /\ dpc = "alloc" /\ cur # None /\ running[cur]
            /\ done' = [done EXCEPT ![cur] = FALSE]
            /\ result' = [result EXCEPT ![cur] = Pending]
            /\ allocated' = allocated \union {cur}
            /\ cur' = None
            /\ UNCHANGED <<round, dpc, todo, known, running, spawned, status, proc,
                           chan, super, at, lacking>>

(* DriverContext::_run: RUN_TEST to every allocated worker. *)
Run == /\ dpc = "alloc" /\ cur = None /\ todo = {}
       /\ \A w \in allocated : ~Gone(w)
       /\ chan' = [w \in Ids |-> IF w \in allocated
                                 THEN Append(chan[w], RunTest(round)) ELSE chan[w]]
       /\ dpc' = "driver"
       /\ UNCHANGED <<round, cur, todo, pool, status, proc, super, at, lacking>>

(* Connecting to a dead worker throws, and nothing catches it. *)
RunFails == /\ dpc = "alloc" /\ cur = None /\ todo = {}
            /\ \E w \in allocated : Gone(w)
            /\ dpc' = "crashed"
            /\ UNCHANGED <<round, cur, todo, pool, status, proc, chan, super, at, lacking>>

(* _driverRun ends with some status, and _join begins. *)
DriverRun(v) == /\ dpc = "driver"
                /\ status' = v
                /\ dpc' = "join" /\ todo' = allocated
                /\ UNCHANGED <<round, cur, pool, proc, chan, super, at, lacking>>

(* The end of the loop body in _join: the worst status wins. *)
Joined == /\ dpc = "join" /\ cur # None /\ done[cur]
          /\ status' = IF result[cur] > status THEN result[cur] ELSE status
          /\ cur' = None
          /\ UNCHANGED <<round, dpc, todo, pool, proc, chan, super, at, lacking>>

(* Mutant: _join returns after the first worker. *)
JoinedAll_First == /\ dpc = "join" /\ cur = None
                   /\ dpc' = "dealloc" /\ todo' = spawned
                   /\ UNCHANGED <<round, cur, pool, status, proc, chan, super, at, lacking>>

(* _join returns, _deallocateWorkers begins. *)
JoinedAll == /\ dpc = "join" /\ cur = None /\ todo = {}
             /\ dpc' = "dealloc" /\ todo' = spawned
             /\ UNCHANGED <<round, cur, pool, status, proc, chan, super, at, lacking>>

(* WorkerHandle::terminate sends TERMINATE and waits in waitpid; sending   *)
(* to a dead worker may raise SIGPIPE in the driver.                       *)
SendTerminate == /\ dpc = "dealloc" /\ cur # None
                 /\ chan' = [chan EXCEPT ![cur] = Append(@, Terminate)]
                 /\ \/ dpc' = "waitpid"
                    \/ dpc' = "crashed" /\ Gone(cur)
                 /\ UNCHANGED <<round, cur, todo, pool, status, proc, super, at, lacking>>

Waitpid == /\ dpc = "waitpid" /\ Gone(cur)
           /\ proc' = [proc EXCEPT ![cur] = "none"]
           /\ chan' = [chan EXCEPT ![cur] = <<>>]
           /\ known' = known \ {cur}
           /\ cur' = None /\ dpc' = "dealloc"
           /\ UNCHANGED <<round, todo, running, allocated, done, result, spawned,
                          status, super, at, lacking>>

(* _allocatedWorkers.clear() *)
Clear == /\ dpc = "dealloc" /\ cur = None /\ todo = {}
         /\ allocated' = {} /\ spawned' = {}
         /\ dpc' = "next"
         /\ UNCHANGED <<round, cur, todo, known, running, done, result, status,
                        proc, chan, super, at, lacking>>

AllDone == /\ \/ dpc = "next" /\ round = Len(Needs)
              \/ dpc = "crashed"
           /\ UNCHANGED vars
-----------------------------------------------------------------------------
(* The workers. *)

(* WorkerContext::_start *)
Start(w) == /\ proc[w] = "starting"
            /\ proc' = [proc EXCEPT ![w] = "up"]
            /\ super' = super \union {WorkerStarted(w)}
            /\ UNCHANGED <<round, dpc, cur, todo, pool, status, chan, at, lacking>>

(* RUN_TEST in WorkerContext::_waitForEvent: the test begins, or is not    *)
(* found and then nothing is sent back.                                    *)
RecvRun(w) == /\ proc[w] = "up" /\ chan[w] # <<>> /\ Head(chan[w]).op = "RUN_TEST"
              /\ chan' = [chan EXCEPT ![w] = Tail(@)]
              /\ proc' = [proc EXCEPT ![w] = IF w \in lacking THEN "up" ELSE "intest"]
              /\ at' = [at EXCEPT ![w] = Head(chan[w]).round]
              /\ UNCHANGED <<round, dpc, cur, todo, pool, status, super, lacking>>

(* t->_run() has returned: FINISHED_TEST with the worker's status. *)
FinishTest(w, v) == /\ proc[w] = "intest"
                    /\ proc' = [proc EXCEPT ![w] = "up"]
                    /\ super' = super \union {FinishedTest(w, at[w], v)}
                    /\ UNCHANGED <<round, dpc, cur, todo, pool, status, chan, at, lacking>>

RecvTerminate(w) == /\ proc[w] = "up" /\ chan[w] # <<>>
                    /\ Head(chan[w]) = Terminate
                    /\ chan' = [chan EXCEPT ![w] = Tail(@)]
                    /\ proc' = [proc EXCEPT ![w] = "exited"]
                    /\ UNCHANGED <<round, dpc, cur, todo, pool, status, super, at, lacking>>

(* The worker process dies. *)
Die(w) == /\ w \in MayDie /\ proc[w] \in {"starting", "up", "intest"}
          /\ proc' = [proc EXCEPT ![w] = "dead"]
          /\ UNCHANGED <<round, dpc, cur, todo, pool, status, chan, super, at, lacking>>
-----------------------------------------------------------------------------
DriverStep == \/ NextTest \/ Spawn \/ Choose \/ \E w \in Ids : Reach(w)
              \/ \E m \in super : SuperEvent(m)
              \/ Allocate \/ Run \/ RunFails \/ (\E v \in Status : DriverRun(v))
              \/ Joined \/ JoinedAll \/ SendTerminate \/ Waitpid \/ Clear
WorkerStep(w) == \/ Start(w) \/ RecvRun(w) \/ RecvTerminate(w)
                 \/ \E v \in Status : FinishTest(w, v)
Next == \/ DriverStep \/ PollAgain \/ AllDone
        \/ \E w \in Ids : WorkerStep(w) \/ Die(w)

(* The driver and each worker keep running; a test on a worker ends        *)
(* because Sandbox::run returns.                                           *)
Spec == /\ Init /\ [][Next]_vars
        /\ WF_vars(DriverStep) /\ \A w \in Ids : WF_vars(WorkerStep(w))
-----------------------------------------------------------------------------
SuperMessages == {WorkerStarted(w) : w \in Ids}
                 \union {FinishedTest(w, r, v) : w \in Ids, r \in 0..Len(Needs), v \in Status}

TypeOK ==
    /\ round \in 0..Len(Needs)
    /\ dpc \in {"next", "spawn", "alloc", "driver", "join", "dealloc", "waitpid",
                "crashed"}
    /\ cur \in Ids \union {None} /\ todo \subseteq Ids
    /\ known \subseteq Ids /\ allocated \subseteq Ids /\ spawned \subseteq Ids
    /\ running \in [Ids -> BOOLEAN] /\ done \in [Ids -> BOOLEAN]
    /\ result \in [Ids -> Status \union {Pending}]
    /\ status \in Status \union {Pending}
    /\ proc \in [Ids -> {"none", "starting", "up", "intest", "exited",
                       "dead"}]
    /\ at \in [Ids -> 0..Len(Needs)]
    /\ chan \in [Ids -> Seq({RunTest(r) : r \in 1..Len(Needs)} \union {Terminate})]
    /\ super \subseteq SuperMessages /\ lacking \subseteq Ids

(* Where the test of the current round is, for a worker. *)
Asked(w) == RunTest(round) \in {chan[w][i] : i \in DOMAIN chan[w]}
InTest(w) == proc[w] = "intest"
Reported(w) == \E m \in super : m.op = "FINISHED_TEST" /\ m.id = w
Lost(w) == proc[w] = "dead" \/ w \in lacking

(* FINISHED_TEST does not say which test it is about.  It need not: while  *)
(* a test runs, each allocated worker is in exactly one of the stages      *)
(* asked, in test, reported and done, and in that of this very test, so a  *)
(* result is never taken for that of another test.                         *)
OneStageEach ==
    /\ dpc \in {"driver", "join"} =>
         \A w \in allocated :
            /\ Asked(w) => ~InTest(w) /\ ~Reported(w) /\ ~done[w]
            /\ InTest(w) => ~Reported(w) /\ ~done[w] /\ at[w] = round
            /\ Reported(w) => ~done[w]
            /\ Asked(w) \/ InTest(w) \/ Reported(w) \/ done[w] \/ Lost(w)
    /\ \A m \in super : m.op = "FINISHED_TEST" => m.round = round /\ m.id \in allocated

(* When _join has returned, no allocated worker is still in the test, and  *)
(* the test's status is a status, at least as bad as each worker's.        *)
JoinIsComplete ==
    /\ TypeOK
    /\ dpc \in {"dealloc", "waitpid"} =>
        \A w \in allocated : done[w] /\ ~InTest(w) /\ ~Asked(w) /\ result[w] <= status

(* Between tests nothing is left of the last one: the workers it spawned   *)
(* are dead and reaped, the others wait with nothing to read.              *)
QuietBetweenTests ==
    dpc = "next" =>
        /\ known = Registered
        /\ \A w \in Ids : w \notin Remote => proc[w] = "none"
        /\ \A w \in Ids : ~InTest(w) /\ ~Reported(w)
        /\ \A w \in Ids : proc[w] # "dead" => chan[w] = <<>>

(* Every distributed test comes to an end, unless a worker dies or lacks   *)
(* the test: then the driver may wait for it for ever.                     *)
AllTestsEnd == <>(\/ dpc = "next" /\ round = Len(Needs)
                  \/ \E w \in Ids : Lost(w))
=============================================================================
