---------------------------- MODULE MCWorkerPool ----------------------------
(* Instances of WorkerPool for TLC. *)
EXTENDS WorkerPool

MixedNeeds == <<1, 4, 2, 1>>    \* fewer, more and as many workers as are remote
RemoteMatching == {0, 1}       \* --workers 2 and --worker-id 0, 1
=============================================================================
