------------------------------ MODULE Schedule ------------------------------
(***************************************************************************)
(* What Test::runAll promises: tests run one at a time, a test only after  *)
(* every module it depends on has been completed, and the loop ends only   *)
(* when no further test may run.  Nothing is said about how the tests that *)
(* may run are found; Scheduler implements that.                           *)
(***************************************************************************)
CONSTANTS Tests,        \* the registered tests
          Modules,      \* module names, including names no test belongs to
          moduleOf      \* Test::_module

VARIABLES deps,         \* Test::_dependencies, fixed before runAll starts
          outcome,      \* "none" until the test was taken, then "ok" or "bad"
          over          \* runAll has left its loop

vars == <<deps, outcome, over>>

TestsOf(m) == {t \in Tests : moduleOf[t] = m}

(* A module is completed when it has tests and each of them succeeded. *)
Completed(m) == /\ TestsOf(m) # {}
                /\ \A t \in TestsOf(m) : outcome[t] = "ok"

MayRun(t) == outcome[t] = "none" /\ \A d \in deps[t] : Completed(d)

Init == /\ deps \in [Tests -> SUBSET Modules]
        /\ outcome = [t \in Tests |-> "none"]
        /\ over = FALSE

Take(t) == /\ ~over
           /\ MayRun(t)
           /\ \E r \in {"ok", "bad"} : outcome' = [outcome EXCEPT ![t] = r]
           /\ UNCHANGED <<deps, over>>

Stop == /\ ~over
        /\ \A t \in Tests : ~MayRun(t)
        /\ over' = TRUE
        /\ UNCHANGED <<deps, outcome>>

Next == (\E t \in Tests : Take(t)) \/ Stop

Spec == Init /\ [][Next]_vars
=============================================================================
