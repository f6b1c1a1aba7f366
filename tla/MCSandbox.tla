----------------------------- MODULE MCSandbox -----------------------------
(* Instances of Sandbox, Stdio and MappedBlocks for TLC. *)
EXTENDS Sandbox, Stdio, MappedBlocks

InProcess(S) == {s \in S : /\ {s.end, s.end2} \subseteq {"returns", "throws", "hangs"}
                           /\ ~s.lingers /\ ~s.stray}

(* With at most the given flags, in a child and in process. *)
Possible(kinds, ends, ends2, tooSlow, others, inputs) ==
    LET Of(f) == [kind : kinds, fork : {f}, end : ends, end2 : ends2,
                  leak : BOOLEAN, limit : BOOLEAN, slow : BOOLEAN, tooSlow : tooSlow,
                  lingers : others, stray : others, input : inputs]
    IN  Of(TRUE) \union InProcess(Of(FALSE))

WholeEnds == {"returns", "throws", "crashes", "vanishes", "hangs"}

UnitScenarios == Possible({"unit"}, WholeEnds, {"returns"}, {FALSE}, BOOLEAN, {0, 2})
    \union Possible({"unit"}, {"torn"}, {"returns"}, {FALSE}, BOOLEAN, {1})
BigInput == Possible({"unit"}, {"returns"}, {"returns"}, {FALSE}, {FALSE}, {3})
WorkerScenarios == Possible({"worker"}, WholeEnds, {"returns"}, {FALSE}, {FALSE}, {0})
PerfScenarios == Possible({"perf"}, WholeEnds, WholeEnds, BOOLEAN, {FALSE}, {1})
    \union Possible({"perf"}, {"returns", "torn"}, {"returns"}, BOOLEAN, BOOLEAN, {0})

(* Workers whose body returns, and performance tests whose body fails. *)
WorkersThatReturn == Possible({"worker"}, {"returns"}, {"returns"}, {FALSE}, {FALSE}, {0})
FailedFirst == Possible({"perf"}, {"throws", "crashes"}, {"returns"}, BOOLEAN, {FALSE}, {0})

AllScenarios == UnitScenarios \union BigInput \union WorkerScenarios \union PerfScenarios
-----------------------------------------------------------------------------
(* The three modules have no variable in common.  One run checks them side *)
(* by side: each from its own initial states, while the two others are at  *)
(* an end of their own and stay there.                                     *)
SandboxRests ==
    /\ test = CHOOSE s \in Scenarios : s.kind = "unit" /\ s.end = "torn" /\ s.fork
    /\ round = 1 /\ first = "PENDING" /\ measured = TRUE
    /\ ppc = "returned" /\ fed = 0 /\ late = FALSE /\ finished = TRUE /\ status = "PASS"
    /\ conn = "disposed" /\ wire = <<>> /\ eof = TRUE
    /\ child = "reaped" /\ cpc = "gone" /\ handler = "none"
    /\ cstatus = "PASS" /\ counter = 1 /\ tracking = FALSE

StdioRests ==
    /\ limit = CHOOSE l \in Limits : \A m \in Limits : l <= m
    /\ fds = [n \in Numbers |-> File(n)]
    /\ pc = "exhausted" /\ run = MaxRuns /\ forked = TRUE
    /\ saved = [k \in Std |-> -1] /\ boxed = [k \in Std |-> -1]
    /\ held = Nothing /\ wrote = Nothing /\ buf = Nothing /\ pos = Nothing
    /\ kept = 0 /\ old = 0 /\ own = 0 /\ strange = 0 /\ reported = FALSE /\ exited = FALSE

MapRests ==
    /\ mapped = {} /\ blocks = [k \in {} |-> 0] /\ aSize = 0 /\ fSize = 0
    /\ op = "idle" /\ ptr = 0 /\ size = 0 /\ into = NoBlock /\ lo = 0 /\ before = {}
    /\ alarm = TRUE /\ calls = 0

EachInit == \/ Init /\ StdioRests /\ MapRests
            \/ SandboxRests /\ StdioInit /\ MapRests
            \/ SandboxRests /\ StdioRests /\ MapInit
EachNext == \/ Next /\ UNCHANGED <<stdioVars, mapVars>>
            \/ StdioNext /\ UNCHANGED <<vars, mapVars>>
            \/ MapNext /\ UNCHANGED <<vars, stdioVars>>
EachSpec == /\ EachInit /\ [][EachNext]_<<vars, stdioVars, mapVars>>
            /\ WF_vars(ParentStep) /\ WF_vars(ChildStep) /\ WF_vars(Tick)
            /\ WF_stdioVars(RunStep)

(* Sandbox::run alone. *)
RunSpec == Init /\ StdioRests /\ MapRests /\ [][EachNext]_<<vars, stdioVars, mapVars>>
=============================================================================
