------------------------------ MODULE Scheduler ------------------------------
(***************************************************************************)
(* Test::runAll and main: the driver's single-threaded loop that takes     *)
(* tests from the ready list, runs or skips each, and unblocks the tests   *)
(* whose last module dependency has just been completed.                   *)
(*                                                                         *)
(* How one test is executed (Sandbox, WorkerPool) is abstracted to the     *)
(* status the execution ends with.                                         *)
(***************************************************************************)
EXTENDS Integers, Sequences, FiniteSets

CONSTANTS Tests,        \* the registered tests, Test::__tests
          Modules,      \* module names, including names no test belongs to
          moduleOf,     \* Test::_module
          expected,     \* Test::_expectedStatus
          Verdicts,     \* the statuses a run may end with
          DepChoices,   \* the dependency declarations considered
          EnabledChoices,   \* the sets of enabled tests considered
          FilterChoices     \* the sets of modules named by --module considered

ASSUME TestsAssumption == IsFiniteSet(Tests)
ASSUME ModuleOfAssumption == moduleOf \in [Tests -> Modules]
ASSUME VerdictAssumption == /\ "SKIP" \notin Verdicts
                            /\ "PENDING" \notin Verdicts
                            /\ expected \in [Tests -> Verdicts]
ASSUME ChoiceAssumption == /\ DepChoices \subseteq [Tests -> SUBSET Modules]
                           /\ EnabledChoices \subseteq SUBSET Tests
                           /\ FilterChoices \subseteq SUBSET Modules

VARIABLES
    deps,               \* Test::_dependencies
    enabled,            \* the tests with _enabled
    filter,             \* the modules named by --module, {} for all
    rank,               \* the order in which the loop over __tests meets them
    ready,              \* list of tests that may run
    blocked,            \* module -> tests that wait for it
    remaining,          \* module -> its tests that have not succeeded
    remainingDeps,      \* Test::_remainingDependencies
    status,             \* Test::_status
    success,            \* runAll's result so far
    runCount, skipCount, successCount,
    nominal,            \* expectedStatusSummary
    unexpected,         \* unExpectedStatusSummary
    over                \* the loop has ended and the totals are printed

settings == <<deps, enabled, filter, rank>>
counters == <<success, runCount, skipCount, successCount, nominal, unexpected>>
vars == <<settings, ready, blocked, remaining, remainingDeps, status,
          counters, over>>

Statuses == Verdicts \union {"SKIP", "PENDING"}

TestsOf(m) == {t \in Tests : moduleOf[t] = m}

Elements(s) == {s[i] : i \in DOMAIN s}

(* The list holding S in the order the tests were met. *)
IsListing(s, S) ==
    /\ s \in Seq(S)
    /\ \A t \in S : \E i \in DOMAIN s : s[i] = t
    /\ \A i, j \in DOMAIN s : i < j => rank[s[i]] < rank[s[j]]

Listings(S) == {s \in [1..Cardinality(S) -> S] : IsListing(s, S)}

(* Any hash order of the modules, any registration order inside a module. *)
GroupedByModule(r) ==
    /\ \A t, u \in Tests : t # u => r[t] # r[u]
    /\ \A t, u, v \in Tests :
          r[t] < r[u] /\ r[u] < r[v] /\ moduleOf[t] = moduleOf[v]
              => moduleOf[u] = moduleOf[t]

(* The first loop of runAll fills ready, blocked and remaining. *)
Init ==
    /\ deps \in DepChoices
    /\ enabled \in EnabledChoices
    /\ filter \in FilterChoices
    /\ rank \in {r \in [Tests -> 1..Cardinality(Tests)] : GroupedByModule(r)}
    /\ ready \in Listings({t \in Tests : deps[t] = {}})
    /\ blocked = [m \in Modules |-> {t \in Tests : m \in deps[t]}]
    /\ remaining = [m \in Modules |-> TestsOf(m)]
    /\ remainingDeps = deps
    /\ status = [t \in Tests |-> "PENDING"]
    /\ success = TRUE
    /\ runCount = 0 /\ skipCount = 0 /\ successCount = 0
    /\ nominal = [v \in Statuses |-> 0]
    /\ unexpected = [v \in Statuses |-> 0]
    /\ over = FALSE

(* --module selects modules; a disabled test is skipped by _run itself. *)
Selected(t) == (filter = {} \/ moduleOf[t] \in filter) /\ t \in enabled

(* Mutant: a test is queued by the first of its modules. *)
Unblocked_Early(m) == blocked[m]

(* Mutant: the test for "no more dependencies" comes before the erase. *)
Unblocked_Late(m) == {u \in blocked[m] : remainingDeps[u] = {}}

(* The tests that completing module m leaves without dependencies. *)
Unblocked(m) == {u \in blocked[m] : remainingDeps[u] \ {m} = {}}

(* Mutant: the completed module is not erased from the dependencies. *)
Succeeded_KeepsDeps(t) ==
    LET m == moduleOf[t] IN
    /\ remaining' = [remaining EXCEPT ![m] = @ \ {t}]
    /\ IF remaining[m] \ {t} = {}
       THEN \E s \in Listings(Unblocked(m)) : ready' = s \o Tail(ready)
       ELSE ready' = Tail(ready)
    /\ successCount' = successCount + 1
    /\ nominal' = [nominal EXCEPT ![status'[t]] = @ + 1]
    /\ UNCHANGED <<success, unexpected, remainingDeps>>

(* The bookkeeping for a test that succeeded; the unblocked tests are put  *)
(* before what was the head of the ready list.                             *)
Succeeded(t) ==
    LET m == moduleOf[t] IN
    /\ remaining' = [remaining EXCEPT ![m] = @ \ {t}]
    /\ IF remaining[m] \ {t} = {}
       THEN /\ remainingDeps' = [u \in Tests |-> IF u \in blocked[m]
                                                 THEN remainingDeps[u] \ {m}
                                                 ELSE remainingDeps[u]]
            /\ \E s \in Listings(Unblocked(m)) : ready' = s \o Tail(ready)
       ELSE /\ UNCHANGED remainingDeps
            /\ ready' = Tail(ready)
    /\ successCount' = successCount + 1
    /\ nominal' = [nominal EXCEPT ![status'[t]] = @ + 1]
    /\ UNCHANGED <<success, unexpected>>

(* Mutant: a failure takes back a success. *)
Failed_TakesBack(t) ==
    /\ success' = FALSE
    /\ successCount' = successCount - 1
    /\ unexpected' = [unexpected EXCEPT ![status'[t]] = @ + 1]
    /\ ready' = Tail(ready)
    /\ UNCHANGED <<remaining, remainingDeps, nominal>>

Failed(t) ==
    /\ success' = FALSE
    /\ unexpected' = [unexpected EXCEPT ![status'[t]] = @ + 1]
    /\ ready' = Tail(ready)
    /\ UNCHANGED <<remaining, remainingDeps, successCount, nominal>>

(* Mutant: any status completes the test. *)
RunTest_AnyStatus(t, v) ==
    /\ ready # <<>> /\ t = Head(ready)
    /\ Selected(t)
    /\ status' = [status EXCEPT ![t] = v]
    /\ Succeeded(t)
    /\ runCount' = runCount + 1
    /\ UNCHANGED <<settings, blocked, skipCount, over>>

(* Test::_run on the head of the list, ending with status v. *)
RunTest(t, v) ==
    /\ ready # <<>> /\ t = Head(ready)
    /\ Selected(t)
    /\ status' = [status EXCEPT ![t] = v]
    /\ IF v = expected[t] THEN Succeeded(t) ELSE Failed(t)
    /\ runCount' = runCount + 1
    /\ UNCHANGED <<settings, blocked, skipCount, over>>

(* Mutant: a skipped test is not popped. *)
SkipTest_Again(t) == ready # <<>> /\ t = Head(ready) /\ ~Selected(t) /\ UNCHANGED vars

(* Test::_skip: status SKIP, which always counts as a success. *)
SkipTest(t) ==
    /\ ready # <<>> /\ t = Head(ready)
    /\ ~Selected(t)
    /\ status' = [status EXCEPT ![t] = "SKIP"]
    /\ Succeeded(t)
    /\ skipCount' = skipCount + 1
    /\ runCount' = runCount + 1
    /\ UNCHANGED <<settings, blocked, over>>

Passed_WithSkipped == successCount      \* mutant

(* The totals on stderr and the exit code of main. *)
Passed == successCount - skipCount
NotMatched == runCount - successCount
NotRun == Cardinality(Tests) - runCount
Total == Cardinality(Tests) - skipCount
ExitCode == IF success THEN 0 ELSE 1

Summarize ==
    /\ ~over /\ ready = <<>>
    /\ over' = TRUE
    /\ UNCHANGED <<settings, ready, blocked, remaining, remainingDeps, status,
                   counters>>

Finished == over /\ UNCHANGED vars

Next == \/ \E t \in Tests : SkipTest(t) \/ \E v \in Verdicts : RunTest(t, v)
        \/ Summarize
        \/ Finished

(* The loop is the driver's only thread, so it does not stop by itself. *)
Spec == Init /\ [][Next]_vars /\ WF_vars(Next)
-----------------------------------------------------------------------------
Taken(t) == status[t] # "PENDING"
Succeeding(t) == status[t] = "SKIP" \/ status[t] = expected[t]
Completed(m) == TestsOf(m) # {} /\ \A t \in TestsOf(m) : Succeeding(t)

(* Every variable of runAll keeps its type. *)
TypeOK ==
    /\ deps \in [Tests -> SUBSET Modules]
    /\ enabled \in SUBSET Tests /\ filter \in SUBSET Modules
    /\ rank \in [Tests -> Nat]
    /\ ready \in Seq(Tests)
    /\ blocked \in [Modules -> SUBSET Tests]
    /\ remaining \in [Modules -> SUBSET Tests]
    /\ remainingDeps \in [Tests -> SUBSET Modules]
    /\ status \in [Tests -> Statuses]
    /\ success \in BOOLEAN
    /\ runCount \in Nat /\ skipCount \in Nat /\ successCount \in Nat
    /\ nominal \in [Statuses -> Nat] /\ unexpected \in [Statuses -> Nat]
    /\ over \in BOOLEAN

(* The three tables runAll keeps up to date by hand agree with the         *)
(* statuses: a module's remaining tests are those that have not succeeded, *)
(* a test's remaining dependencies are the modules not yet completed, and  *)
(* the blocked lists still name every declared dependency.                 *)
TablesExact ==
    /\ \A m \in Modules : remaining[m] = {t \in TestsOf(m) : ~Succeeding(t)}
    /\ \A m \in Modules : blocked[m] = {t \in Tests : m \in deps[t]}
    /\ \A t \in Tests : remainingDeps[t] = {d \in deps[t] : ~Completed(d)}

(* The ready list holds exactly the tests that have not been taken and     *)
(* whose dependencies are all completed, none of them twice: a test that   *)
(* waits for several modules is queued by the last of them, once.          *)
ReadyExact ==
    /\ Elements(ready) = {t \in Tests : ~Taken(t) /\ \A d \in deps[t] : Completed(d)}
    /\ \A i, j \in DOMAIN ready : ready[i] = ready[j] => i = j

(* A test is run or skipped only when every module it depends on has tests *)
(* and all of them succeeded, and it stays so.                             *)
DependencyOrder ==
    \A t \in Tests : Taken(t) => \A d \in deps[t] : Completed(d)

(* runAll deletes a test once it is taken but leaves it on the blocked     *)
(* lists: no list that a later completion will walk holds a deleted test.  *)
NoDanglingBlocked ==
    \A m \in Modules : remaining[m] # {} => \A u \in blocked[m] : ~Taken(u)

(* What is printed adds up: passed, failed and not-run tests partition     *)
(* those not skipped, no unsigned subtraction wraps, and the per-status    *)
(* summaries count each test once; and main's exit code is 0 exactly when  *)
(* no test that was run missed its expected status.  (Tests that were not  *)
(* run do not count: then main still says that all tests are OK.)          *)
SummaryExact ==
    over =>
        /\ Passed = Cardinality({t \in Tests : status[t] = expected[t]})
        /\ NotMatched = Cardinality({t \in Tests : Taken(t) /\ ~Succeeding(t)})
        /\ NotRun = Cardinality({t \in Tests : ~Taken(t)})
        /\ Passed + NotMatched + NotRun = Total
        /\ \A v \in Statuses \ {"PENDING"} :
              nominal[v] + unexpected[v] = Cardinality({t \in Tests : status[t] = v})
        /\ ExitCode = 0 <=> \A t \in Tests : Taken(t) => Succeeding(t)

(* The loop ends, whatever the dependency graph looks like. *)
RunAllEnds == <>over

(* The inductive invariant behind the theorems of Scheduler_proofs. *)
IndInv == /\ TypeOK /\ TablesExact /\ ReadyExact /\ DependencyOrder
          /\ over => ready = <<>>

(* runAll implements Schedule: a test is taken only after its modules are  *)
(* completed, and the loop ends only when no test may be taken.            *)
A == INSTANCE Schedule WITH
        outcome <- [t \in Tests |-> IF ~Taken(t) THEN "none"
                                    ELSE IF Succeeding(t) THEN "ok" ELSE "bad"],
        over <- over

ImplementsSchedule == A!Spec
=============================================================================
