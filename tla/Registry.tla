------------------------------ MODULE Registry ------------------------------
(***************************************************************************)
(* The registration of tests, before runAll: static initialisers construct *)
(* tests, declare the dependencies of modules and of single tests, in an   *)
(* order that the linker chooses.  A registry is a record and a program a  *)
(* sequence of calls.                                                      *)
(***************************************************************************)
EXTENDS Integers, Sequences

Nothing == [x \in {} |-> {}]
With(f, x, v) == [y \in DOMAIN f \union {x} |-> IF y = x THEN v ELSE f[y]]

(* Test::__globalDependencies, Test::_module and Test::_dependencies. *)
NoTests == [globals |-> Nothing, module |-> Nothing, deps |-> Nothing]

(* Mutant: the tests that exist keep the dependencies they were given. *)
SetGlobal_Later(r, m, D) == [r EXCEPT !.globals = With(@, m, D)]

(* module(m).dependsOn(D): replaces what is kept for the tests to come,    *)
(* adds to the tests that are there.                                       *)
SetGlobal(r, m, D) ==
    [r EXCEPT !.globals = With(@, m, D),
              !.deps = [t \in DOMAIN @ |->
                           IF r.module[t] = m THEN @[t] \union D ELSE @[t]]]

Construct(r, t, m) ==
    [r EXCEPT !.module = With(@, t, m),
              !.deps = With(@, t, IF m \in DOMAIN r.globals THEN r.globals[m] ELSE {})]

DependsOn(r, t, D) == [r EXCEPT !.deps[t] = @ \union D]

Call(r, c) ==
    CASE c.op = "module" -> SetGlobal(r, c.of, c.on)
      [] c.op = "test" -> Construct(r, c.of, c.on)
      [] c.op = "dependsOn" -> DependsOn(r, c.of, c.on)

(* The registry after the first n calls, and after all of them. *)
After(calls) ==
    LET after[n \in 0..Len(calls)] ==
            IF n = 0 THEN NoTests ELSE Call(after[n - 1], calls[n])
    IN  after
Register(calls) == After(calls)[Len(calls)]
-----------------------------------------------------------------------------
(* What the calls ask for, with no table in between. *)
At(calls, op, x) == {i \in DOMAIN calls : calls[i].op = op /\ calls[i].of = x}
Asked(calls, I) == UNION {calls[i].on : i \in I}
Made(calls, t) == CHOOSE i \in At(calls, "test", t) : TRUE

(* A test is constructed once, and before its own dependsOn. *)
IsProgram(calls) ==
    \A i \in DOMAIN calls :
        /\ calls[i].op = "test" => At(calls, "test", calls[i].of) = {i}
        /\ calls[i].op = "dependsOn" => \E j \in At(calls, "test", calls[i].of) : j < i

(* The declarations of its module that a test constructed at i misses:     *)
(* those replaced before it was there.                                     *)
Replaced(calls, m, i) ==
    LET before == {j \in At(calls, "module", m) : j < i}
    IN  {j \in before : \E k \in before : k > j}

(* The modules a test should wait for: all that it and its module were     *)
(* ever declared to depend on, less what a later declaration replaced      *)
(* before the test was constructed.  Where each module is declared at most *)
(* once nothing is replaced, and the order of the calls does not matter.   *)
Declared(calls, t) ==
    LET i == Made(calls, t)
        m == calls[i].on
    IN  Asked(calls, At(calls, "dependsOn", t)
                        \union (At(calls, "module", m) \ Replaced(calls, m, i)))
=============================================================================
