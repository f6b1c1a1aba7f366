---------------------------- MODULE MCScheduler ----------------------------
(* Instances of Scheduler for TLC. *)
EXTENDS Registration

CONSTANTS a1, a2, b1, c1, A_, B_, C_, Z_

MCTests == {a1, a2, b1, c1}
MCModules == {A_, B_, C_, Z_}      \* no test belongs to Z_
MCModuleOf == [t \in MCTests |-> CASE t \in {a1, a2} -> A_
                                   [] t = b1 -> B_
                                   [] t = c1 -> C_]
MCExpected == [t \in MCTests |-> IF t = b1 THEN "FAIL" ELSE "PASS"]
MCVerdicts == {"PASS", "FAIL"}

(* Two tests of A_ constructed among the declarations of their module and  *)
(* of one of them, in every order.                                         *)
MCCalls == [op : {"module"}, of : {A_}, on : {{B_}, {C_}}]
           \union [op : {"test"}, of : {a1, a2}, on : {A_}]
           \union [op : {"dependsOn"}, of : {a2}, on : {{C_}}]
MCOthers == << [op |-> "test", of |-> b1, on |-> B_], [op |-> "test", of |-> c1, on |-> C_] >>
MCPrograms ==
    {p \in {MCOthers \o q : q \in UNION {[1..n -> MCCalls] : n \in 2..5}} :
        /\ IsProgram(p)
        /\ \A t \in MCTests : At(p, "test", t) # {}}

(* Chains, diamonds, cycles, own and unknown modules. *)
AtMost(n) == {D \in SUBSET MCModules : Cardinality(D) <= n}
MCDepChoices ==
    {d \in [MCTests -> AtMost(2)] :
        /\ d[a2] \in {{}, {B_}}
        /\ d[b1] \in AtMost(1)}
    \union {Register(p).deps : p \in MCPrograms}
MCEnabled == {MCTests, MCTests \ {a1}}
MCFilters == {{}, {B_, C_}}
=============================================================================
