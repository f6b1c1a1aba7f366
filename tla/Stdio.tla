------------------------------- MODULE Stdio -------------------------------
(***************************************************************************)
(* The descriptors of the process that calls Sandbox::run, call after      *)
(* call: _sandbox_stdio puts pipes in the place of stdin, stdout and       *)
(* stderr, _unsandbox_stdio reads what the body has written and puts the   *)
(* old files back.  The kernel hands out the lowest free number.           *)
(*                                                                         *)
(* What the body prints goes through the buffer of stdout, which std::cout *)
(* shares.  It belongs to the process: a child starts with a copy of it,   *)
(* which ::exit flushes, and a body that runs in process leaves in it what *)
(* it has not flushed.  Nothing in Sandbox::run flushes it.                *)
(*                                                                         *)
(* The results of dup, dup2 and pipe2 are not looked at by the code; the   *)
(* model ends (in "exhausted") with the first call that finds no number.   *)
(* The input fits its pipe (for larger ones see Sandbox).                  *)
(***************************************************************************)
EXTENDS Integers, Sequences, FiniteSets

CONSTANTS
    Limits,         \* the limits on open files considered
    OpenBefore,     \* how many files are open before the first run, besides
                    \* 0, 1 and 2: the log, the listening sockets, workers
    MaxRuns,        \* bound on the calls of Sandbox::run
    Capacity,       \* what a pipe holds
    MaxWrites,      \* bound on what a body writes to one of its outputs
    ReadSize        \* 1024: what readFully reads at once

ASSUME StdioAssumption ==
    /\ OpenBefore \in Nat
    /\ Limits \subseteq Nat /\ \A l \in Limits : l > 3 + OpenBefore
    /\ MaxRuns \in Nat /\ Capacity \in Nat /\ MaxWrites \in Nat
    /\ ReadSize \in Nat \ {0}

Std == 0..2
Outputs == {1, 2}

(* What a number may refer to: one of the files the process was started    *)
(* with, an end of a pipe of a run, or a socket of a run.                  *)
Closed == <<"closed">>
File(k) == <<"file", k>>
Pipe(end, k, r) == <<end, k, r>>
Server(r) == <<"server", r>>
Connection(r) == <<"connection", r>>

VARIABLES
    limit,      \* RLIMIT_NOFILE
    fds,        \* the table of descriptors
    pc,         \* where Sandbox::run is
    run,        \* which call it is
    forked,     \* Options::_fork
    saved,      \* _saved_stdio
    boxed,      \* _sandboxed_stdio
    held,       \* what the pipe of each output holds
    wrote,      \* what the body has written to each output
    buf, pos,   \* Options::_out and _err: the size, and readFully's pos
    kept,       \* stdout's buffer in the caller's process, between runs
    old, own,   \* stdout's buffer where the body runs: of earlier runs, and
                \* of this one
    strange,    \* what this run's stdout was given of earlier runs
    reported,   \* the run's outputs are those of a test's report
    exited      \* the child came to its ::exit

boxes == <<saved, boxed>>
pipes == <<held, buf, pos>>
printed == <<wrote, kept, old, own, strange, reported, exited>>
stdioVars == <<limit, fds, pc, run, forked, boxes, pipes, printed>>

Numbers == 0..(limit - 1)
FreeOf(f) == {n \in Numbers : f[n] = Closed}
Lowest(f) == CHOOSE n \in FreeOf(f) : \A m \in FreeOf(f) : n <= m
Opened(f, file) == [f EXCEPT ![Lowest(f)] = file]
Open(f) == {n \in Numbers : f[n] # Closed}
Room(n) == Cardinality(FreeOf(fds)) >= n

Nothing == [k \in Outputs |-> 0]

StdioInit ==
    /\ limit \in Limits
    /\ fds = [n \in Numbers |-> IF n < 3 + OpenBefore THEN File(n) ELSE Closed]
    /\ pc = "idle" /\ run = 0 /\ forked = TRUE
    /\ saved = [k \in Std |-> -1] /\ boxed = [k \in Std |-> -1]
    /\ held = Nothing /\ wrote = Nothing /\ buf = Nothing /\ pos = Nothing
    /\ kept = 0 /\ old = 0 /\ own = 0 /\ strange = 0
    /\ reported = FALSE /\ exited = FALSE
-----------------------------------------------------------------------------
(* Sandbox::run, up to the body. *)

(* Before the run of a test whose outputs are reported the driver logs the *)
(* test's name through std::cerr (src/src/test.cpp:208), and std::cerr is  *)
(* tied to std::cout: what is in the buffer goes to the driver's own       *)
(* stdout.  No log comes before the second run of a performance test or    *)
(* before the runs of a worker, whose outputs nobody reports.              *)
Flushed(isReported) == IF isReported THEN 0 ELSE kept

Call == /\ pc = "idle" /\ run < MaxRuns
        /\ run' = run + 1 /\ pc' = "stdin" /\ forked' \in BOOLEAN
        /\ reported' \in BOOLEAN /\ kept' = Flushed(reported')
        /\ held' = Nothing /\ wrote' = Nothing /\ buf' = Nothing /\ pos' = Nothing
        /\ old' = 0 /\ own' = 0 /\ strange' = 0 /\ exited' = FALSE
        /\ UNCHANGED <<limit, fds, boxes>>

Exhausted == pc' = "exhausted" /\ UNCHANGED <<limit, fds, run, forked, boxes>>

(* dup(k), pipe2 and dup2(its end e, k): the table, and the two numbers of *)
(* the pipe.                                                               *)
Saved(k) == Opened(fds, fds[k])
Reader(k) == Lowest(Saved(k))
Writer(k) == Lowest(Opened(Saved(k), Pipe("read", k, run)))
Boxed(k, e) ==
    LET f == Opened(Opened(Saved(k), Pipe("read", k, run)), Pipe("write", k, run))
    IN  [f EXCEPT ![k] = Pipe(e, k, run)]

(* The write end of stdin's pipe is closed when the input is in it. *)
BoxStdin ==
    /\ pc = "stdin"
    /\ IF Room(3) THEN /\ saved' = [saved EXCEPT ![0] = Lowest(fds)]
                       /\ boxed' = [boxed EXCEPT ![0] = Writer(0)]
                       /\ fds' = [Boxed(0, "read") EXCEPT ![Writer(0)] = Closed]
                       /\ pc' = "stdout"
                       /\ UNCHANGED <<limit, run, forked>>
                  ELSE Exhausted
    /\ UNCHANGED <<pipes, printed>>

BoxOutput(k) ==
    /\ pc = IF k = 1 THEN "stdout" ELSE "stderr"
    /\ IF Room(3) THEN /\ saved' = [saved EXCEPT ![k] = Lowest(fds)]
                       /\ boxed' = [boxed EXCEPT ![k] = Reader(k)]
                       /\ fds' = Boxed(k, "write")
                       /\ pc' = IF k = 1 THEN "stderr" ELSE "serve"
                       /\ UNCHANGED <<limit, run, forked>>
                  ELSE Exhausted
    /\ UNCHANGED <<pipes, printed>>

(* Socket(0, 128), which throws if there is no number left for it and for  *)
(* the socket that getifaddrs opens and closes; then fork(), which copies  *)
(* the buffer too.                                                         *)
Serve == /\ pc = "serve"
         /\ IF Room(2) THEN /\ fds' = Opened(fds, Server(run)) /\ pc' = "body"
                            /\ old' = kept
                            /\ UNCHANGED <<limit, run, forked, boxes>>
                       ELSE Exhausted /\ UNCHANGED old
         /\ UNCHANGED <<pipes, wrote, kept, own, strange, reported, exited>>
-----------------------------------------------------------------------------
(* The body: a child with a copy of the table, or a thread. *)

Least(x, y) == IF x < y THEN x ELSE y

(* A write to a pipe that is full fails, since pipes do not block. *)
Put(k, n) == held' = IF fds[k] = Pipe("write", k, run)
                     THEN [held EXCEPT ![k] = Least(@ + n, Capacity)] ELSE held

(* write(2), and everything that goes to stderr. *)
Write(k) == /\ pc = "body" /\ wrote[k] < MaxWrites
            /\ wrote' = [wrote EXCEPT ![k] = @ + 1] /\ Put(k, 1)
            /\ UNCHANGED <<limit, fds, pc, run, forked, boxes, buf, pos, kept, old, own,
                           strange, reported, exited>>

(* printf and std::cout *)
Prints == /\ pc = "body" /\ wrote[1] < MaxWrites
         /\ wrote' = [wrote EXCEPT ![1] = @ + 1] /\ own' = own + 1
         /\ UNCHANGED <<limit, fds, pc, run, forked, boxes, pipes, kept, old, strange,
                        reported, exited>>

Emit == /\ Put(1, old + own)
        /\ strange' = strange + old /\ old' = 0 /\ own' = 0

(* The buffer is full, or the body flushes it, or uses std::cerr.  (What   *)
(* the pipe does not take is lost: libc drops it.)                         *)
Flush == /\ pc = "body" /\ old + own > 0
         /\ Emit
         /\ UNCHANGED <<limit, fds, pc, run, forked, boxes, buf, pos, wrote, kept, reported,
                        exited>>

(* A child's ::exit flushes its buffer. *)
BodyExits == /\ pc = "body" /\ forked /\ pc' = "poll"
             /\ Emit /\ exited' = TRUE
             /\ UNCHANGED <<limit, fds, run, forked, boxes, buf, pos, wrote, kept, reported>>

(* A child that is killed does not. *)
BodyKilled == /\ pc = "body" /\ forked /\ pc' = "poll"
              /\ UNCHANGED <<limit, fds, run, forked, boxes, pipes, printed>>

(* In process nobody does.  (The client's socket is in the same table      *)
(* while the body runs, and closed when the thread is joined.)             *)
BodyJoined == /\ pc = "body" /\ ~forked /\ pc' = "poll"
              /\ kept' = old + own
              /\ UNCHANGED <<limit, fds, run, forked, boxes, pipes, wrote, old, own, strange,
                             reported, exited>>

(* pollOrAcceptOrTimeout; there is a number, which getifaddrs had. *)
Accept == /\ pc = "poll" /\ pc' = "close"
          /\ fds' = Opened(fds, Connection(run))
          /\ UNCHANGED <<limit, run, forked, boxes, pipes, printed>>

(* The child was killed before it had connected. *)
NoConnection == /\ pc = "poll" /\ forked /\ ~exited /\ pc' = "close"
                /\ UNCHANGED <<limit, fds, run, forked, boxes, pipes, printed>>

(* _serverSocket.close() *)
CloseServer == /\ pc = "close" /\ pc' = "unbox stdin"
               /\ fds' = [n \in Numbers |-> IF fds[n] \in {Server(run), Connection(run)}
                                            THEN Closed ELSE fds[n]]
               /\ UNCHANGED <<limit, run, forked, boxes, pipes, printed>>
-----------------------------------------------------------------------------
(* _unsandbox_stdio *)

(* close(k); dup2(saved, k); close(saved) *)
Restored(f, k) == [f EXCEPT ![k] = f[saved[k]], ![saved[k]] = Closed]

UnboxStdin == /\ pc = "unbox stdin" /\ pc' = "read stdout"
              /\ fds' = [Restored(fds, 0) EXCEPT ![1] = Closed]
              /\ UNCHANGED <<limit, run, forked, boxes, pipes, printed>>

Reads(k) == pc = IF k = 1 THEN "read stdout" ELSE "read stderr"
Larger(x, y) == IF x > y THEN x ELSE y

(* Mutant: a pipe that blocks, and is read to its end of file. *)
ReadTurn_Blocks(k) ==
    /\ Reads(k)
    /\ LET n == Least(held[k], ReadSize) IN
       IF n > 0
       THEN /\ held' = [held EXCEPT ![k] = @ - n] /\ pos' = [pos EXCEPT ![k] = @ + n]
            /\ buf' = [buf EXCEPT ![k] = Larger(@, pos[k] + ReadSize)]
            /\ UNCHANGED pc
       ELSE UNCHANGED <<held, pos, buf, pc>>
    /\ UNCHANGED <<limit, fds, run, forked, boxes, printed>>

(* Mutant: one read is taken for all. *)
ReadTurn_Once(k) ==
    /\ Reads(k)
    /\ LET n == Least(held[k], ReadSize) IN
       /\ held' = [held EXCEPT ![k] = @ - n] /\ pos' = [pos EXCEPT ![k] = @ + n]
       /\ buf' = [buf EXCEPT ![k] = pos[k] + n]
       /\ pc' = IF k = 1 THEN "unbox stdout" ELSE "unbox stderr"
    /\ UNCHANGED <<limit, fds, run, forked, boxes, printed>>

(* One turn of readFully: the buffer has room for a whole read.  The write *)
(* end is still open, so an empty pipe is EAGAIN and not end of file; it   *)
(* ends the loop, and the buffer is cut to what was read.                  *)
ReadTurn(k) ==
    /\ Reads(k)
    /\ LET n == Least(held[k], ReadSize) IN
       IF n > 0
       THEN /\ held' = [held EXCEPT ![k] = @ - n] /\ pos' = [pos EXCEPT ![k] = @ + n]
            /\ buf' = [buf EXCEPT ![k] = Larger(@, pos[k] + ReadSize)]
            /\ UNCHANGED pc
       ELSE /\ pc' = IF k = 1 THEN "unbox stdout" ELSE "unbox stderr"
            /\ buf' = [buf EXCEPT ![k] = pos[k]] /\ UNCHANGED <<held, pos>>
    /\ UNCHANGED <<limit, fds, run, forked, boxes, printed>>

(* Mutant: the pipe's read end stays open. *)
UnboxOutput_Keeps(k) ==
    /\ pc = IF k = 1 THEN "unbox stdout" ELSE "unbox stderr"
    /\ LET f == Restored(fds, k)
       IN  IF k = 1 THEN /\ fds' = [f EXCEPT ![2] = Closed] /\ pc' = "read stderr"
                    ELSE fds' = f /\ pc' = "idle"
    /\ UNCHANGED <<limit, run, forked, boxes, pipes, printed>>

(* The read end is closed; the write end is not. *)
UnboxOutput(k) ==
    /\ pc = IF k = 1 THEN "unbox stdout" ELSE "unbox stderr"
    /\ LET f == Restored([fds EXCEPT ![boxed[k]] = Closed], k)
       IN  IF k = 1 THEN /\ fds' = [f EXCEPT ![2] = Closed] /\ pc' = "read stderr"
                    ELSE fds' = f /\ pc' = "idle"
    /\ UNCHANGED <<limit, run, forked, boxes, pipes, printed>>

Over == /\ pc = "exhausted" \/ (pc = "idle" /\ run = MaxRuns)
        /\ UNCHANGED stdioVars
-----------------------------------------------------------------------------
RunStep == \/ Call \/ BoxStdin \/ Serve \/ BodyExits \/ BodyKilled \/ BodyJoined
           \/ Accept \/ NoConnection \/ CloseServer \/ UnboxStdin
           \/ \E k \in Outputs : BoxOutput(k) \/ ReadTurn(k) \/ UnboxOutput(k)
StdioNext == RunStep \/ Over \/ Prints \/ Flush \/ \E k \in Outputs : Write(k)

(* The process runs on; that a body ends is shown in Sandbox. *)
StdioSpec == StdioInit /\ [][StdioNext]_stdioVars /\ WF_stdioVars(RunStep)
-----------------------------------------------------------------------------
(* Every number refers to something, and every count is one. *)
StdioTypeOK ==
    /\ limit \in Limits /\ run \in 0..MaxRuns
    /\ {forked, reported, exited} \subseteq BOOLEAN
    /\ \A n \in Numbers : Len(fds[n]) \in 1..3
    /\ {saved[k] : k \in Std} \union {boxed[k] : k \in Std} \subseteq {-1} \union Numbers
    /\ {held, wrote, buf, pos} \subseteq [Outputs -> Nat]
    /\ {kept, old, own, strange} \subseteq Nat

(* Between runs stdin, stdout and stderr are the files they were at the    *)
(* start, and what else is open are the files that were open before and    *)
(* the three ends of pipes that every run has left behind: no more, no     *)
(* less.  So run number n works if and only if the limit on open files is  *)
(* at least 3n + 10 and the number of files that were open before.         *)
LeftBehind(r) == {Pipe("read", 0, r), Pipe("write", 1, r), Pipe("write", 2, r)}
Elder == {File(n) : n \in 3..(2 + OpenBefore)}
TableExact ==
    /\ StdioTypeOK
    /\ pc = "idle" =>
        /\ \A k \in Std : fds[k] = File(k)
        /\ Cardinality(Open(fds)) = 3 + OpenBefore + 3 * run
        /\ {fds[n] : n \in Open(fds) \ Std} = Elder \union UNION {LeftBehind(r) : r \in 1..run}
        /\ run > 0 => limit >= 3 * run + 10 + OpenBefore
    /\ pc = "exhausted" => limit < 3 * run + 10 + OpenBefore

(* What is reported as a test's stderr is what its body wrote there, up to *)
(* the capacity of a pipe (the rest is lost).  Of stdout it is what had    *)
(* left the buffer when the body ended: everything, if the child came to   *)
(* its ::exit.  And nothing of another test is in it: what an earlier body *)
(* had left in the buffer reaches only runs that are not reported.         *)
OutputExact ==
    pc = "idle" =>
        /\ \A k \in Outputs : buf[k] = pos[k]
        /\ pos[2] = Least(wrote[2], Capacity)
        /\ pos[1] = Least(strange + wrote[1] - own, Capacity)
        /\ exited => own = 0
        /\ reported => strange = 0

(* Although nobody reads the outputs before the end, and their write ends  *)
(* are open when they are read, every run ends.                            *)
RunsEnd == []<>(pc \in {"idle", "exhausted"})
=============================================================================
