---------------------------- MODULE Registration ----------------------------
(***************************************************************************)
(* Registration and runAll together: the tables that the calls of the      *)
(* static initialisers leave (Registry) are what runAll (Scheduler) starts *)
(* from.                                                                   *)
(***************************************************************************)
EXTENDS Scheduler, Registry

CONSTANT Programs       \* the sequences of calls considered

Calls == [op : {"module"}, of : Modules, on : SUBSET Modules]
         \union [op : {"test"}, of : Tests, on : Modules]
         \union [op : {"dependsOn"}, of : Tests, on : SUBSET Modules]

(* A program constructs every test, in its module. *)
ASSUME ProgramsAssumption ==
    \A p \in Programs :
        /\ p \in Seq(Calls) /\ IsProgram(p)
        /\ \A t \in Tests : \E i \in At(p, "test", t) : p[i].on = moduleOf[t]

(* What the calls of a program register, and what they declare. *)
Registered ==
    {[deps |-> Register(p).deps, declared |-> [t \in Tests |-> Declared(p, t)]] : p \in Programs}

(* In whatever order the initialisers were called, a test is taken only    *)
(* after the modules its declarations name, and is left untaken only if    *)
(* one of them was not completed.                                          *)
RegistryExact ==
    \A r \in Registered : deps = r.deps =>
        \A t \in Tests :
            LET free == \A d \in r.declared[t] : Completed(d)
            IN  /\ Taken(t) => free
                /\ over /\ free => Taken(t)
=============================================================================
