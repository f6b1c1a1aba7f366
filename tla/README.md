# A TLA+ model of dtest

dtest is a C++ testing framework: test modules with dependencies between them,
every test run in a sandbox (a child process, or a thread with `inProcess`) with
a deadline, memory and network accounting, and distributed tests whose bodies
run on a driver and on workers that exchange events.  This directory holds TLA+
modules of its core, the TLC configurations that check them, and proofs for the
TLA+ proof system.  Paths are relative to the directory that holds both
`src/` (the repository) and `tla/`.

    tlc -workers 2 -config Scheduler.cfg MCScheduler    # one of the runs below
    tlapm Scheduler_proofs.tla                          # one of the proof modules

## 1. The system

| component | state | operations | talks to |
|---|---|---|---|
| Scheduler: `Test::runAll`, `main` (`src/src/test.cpp`, `src/src/dtest.cpp`) | ready list, `blocked` and `remaining` per module, each test's `_remainingDependencies`, counters | fill the tables; take the head of the list; run or skip; unblock; summary, exit code | runs each test through `Test::_run` |
| Test registry: `Test::Test`, `module()`, `dependsOn` (`test.cpp`) | `__tests`, `__moduleDependencies` | register a test, declare dependencies | static initialisers of the loaded `.so` files |
| Sandbox: `Sandbox::run`, `enter`, `exit`, `exitAll` (`src/src/sandbox.cpp`) | server and client socket, child, deadline, nesting counter, captured stdio and what stdout's buffer holds | feed stdin, fork, run the body, send COMPLETE or ERROR, poll, kill, reap | called by every kind of test; switches the trackers on and off |
| UnitTest (`src/src/unit_test.cpp`) | status, errors, times, resources | `_driverRun` with its four callbacks; leak, limit and time checks | Sandbox, trackers |
| PerformanceTest (`src/src/performance_test.cpp`) | times of body and baseline | run both, compare with the margin | UnitTest |
| DistributedUnitTest (`src/src/distributed_unit_test.cpp`) | status and resources of the worker side | `_driverRun`, `_workerRun` | Sandbox on both sides, contexts |
| DriverContext, WorkerHandle (`test.cpp`, `test.h`) | handles by id, allocated and spawned workers, super socket, event counters and queue | spawn, allocate, run, join, deallocate; notify, wait, send, receive | workers over TCP |
| WorkerContext, `runWorker` (`test.cpp`) | notification count, queue of messages | start, wait for events, run a test, report | driver over TCP |
| Socket, Message, Buffer (`src/src/socket.cpp`, `message.cpp`, `message.h`) | open connections, `_MTU`, buffers with a cursor | connect, accept, poll, send, receive, dispose; serialise and read back | everybody |
| Memory tracker and hooks (`src/src/memory.cpp`, `memory_hooks.cpp`) | two block tables, six counters, `_track`, `_locked` per thread | track, retrack, remove and their mapped forms; snapshots | body's threads call it through malloc and mmap |
| Network tracker and hooks (`src/src/network.cpp`, `network_hooks.cpp`) | traffic counters, `_track`, `_locked` and the end of the current hole per thread, the faulty-network setting | hooks of send, sendto, recv and recvfrom; nested lock and unlock; snapshots | body's threads; the framework's own messages, which lock it |
| Command line, loader (`dtest.cpp`) | options | parse, walk directories, dlopen | Scheduler |
| Lazy, CallStack, utilities | none of interest | | |

What is hard here:

* **Dependencies.**  Three tables are kept up to date by hand, and a test is
  deleted while other lists still point to it.  What matters: no test runs
  early, twice, or after its deletion; none that may run is forgotten; the
  loop ends for any graph; the totals and the exit code tell the truth.
* **Processes and deadlines.**  The child's message, its exit, its signal
  handler and the deadline race.  What matters: the verdict is the one the test
  due by the README's table, the child is always reaped, `run` returns, tracking ends.
* **Messages without identity.**  FINISHED_TEST and NOTIFY do not say which
  test they belong to; workers answer in any order; sockets and remote workers
  outlive the test.  What matters: results and events belong to this test,
  none is lost, reordered or invented, everyone ends.
* **Hooks without a lock.**  The allocation hooks call libc and then the tracker
  (or the reverse), and other threads run in between.  What matters: the tables
  mirror the heap and the mappings, so leaks and invalid frees are real.
* **Messages over a byte stream.**  Headers and bodies arrive in pieces, senders
  die in the middle, chunks are refused, and the body carries no types.  What
  matters: the receiver never loses its place, no buffer is overrun, users see
  whole messages in order.
* **State of the process that outlives a test.**  Descriptors, the buffer of stdout,
  network counters, the faulty-network setting, registration order.  What matters: a test sees
  and is charged for its own part only.

`PROJECT.json` lists the hazards one by one, each at its line, with the
properties that would catch it.

## 2. Modules

| module | models | checked by |
|---|---|---|
| `Schedule` | what `runAll` promises, abstractly | refined by `Scheduler` |
| `Scheduler` | `Test::runAll`, `main`'s exit code | `Scheduler.cfg` |
| `Registry` | registration of tests and dependencies, as operators | `Scheduler.cfg` |
| `Registration` | `Registry` and `Scheduler` composed: what a program of calls registers is what `runAll` starts from | `Scheduler.cfg` |
| `Sandbox` | `Sandbox::run` with the callbacks of unit tests, workers and performance tests | `Sandbox.cfg`, `SandboxWorker.cfg`, `SandboxSecond.cfg` |
| `Stdio` | descriptors, stdout's buffer and captured output of `Sandbox::run`, run after run | `Sandbox.cfg` |
| `WorkerPool` | control plane of distributed tests | `WorkerPool.cfg` |
| `Events` | data plane of distributed tests | `Events.cfg`, `EventsStale.cfg` |
| `Channel` | what messages over sockets promise, abstractly | refined by `Framing` |
| `Framing` | `Message::send`, `recv` and buffers over `Socket`, byte by byte | `Framing.cfg`, `FramingCut.cfg` |
| `Codec` | `operator<<` and `operator>>` of `Message`, as operators | `Framing.cfg` |
| `Payload` | `Framing` and `Codec` together: messages that have a body | `Framing.cfg` |
| `HeapTracker` | malloc family, operator delete, block table, snapshots | `HeapTracker.cfg`, `HeapTrackerRace.cfg` |
| `MappedBlocks` | mmap family, table of mappings | `Sandbox.cfg` |
| `Network` | network hooks, counters, faulty network | `Network.cfg` |
| `Scheduler_proofs`, `Sandbox_proofs`, `WorkerPool_proofs`, `Events_proofs`, `Framing_proofs`, `HeapTracker_proofs`, `MappedBlocks_proofs`, `Network_proofs` | theorems about the modules they are named after (section 5); `Scheduler_proofs` also about `Registration`, `Framing_proofs` also about `Codec` and `Payload`, `Sandbox_proofs` also about `Stdio`, whose specification is therefore called `StdioSpec` (`MapSpec` in `MappedBlocks`) | tlapm |

The `MC` modules hold only the instances; `MCSandbox` puts `Sandbox`, `Stdio` and
`MappedBlocks`, which have no variable in common, side by side in one run: each from
its own initial states, while the two others rest at an end of theirs.  Definitions whose name has an
underscore (`Unblocked_Early`) are mutants: plausible mistakes, each of which
makes TLC report the property it is listed with in `PROJECT.json`.  They are
used nowhere else.

### Scheduler

State: `ready`, `blocked`, `remaining`, `remainingDeps` and the counters are the
locals of `runAll` and `Test::_remainingDependencies`; `status` is
`Test::_status`; `deps`, `enabled`, `filter` and `rank` are fixed at the start
(declarations, `disable`, `--module`, and the order in which the hash map of
modules is walked).  `RunTest` and `SkipTest` are one turn of the `while` loop
each, from the pop to the delete, for the two outcomes of `_run`; `Succeeded`
and `Failed` are its two branches.  `Unblocked` is the inner loop over the
blocked list.  How a test is executed is abstracted to the status it ends with.
The report's text is left out; its totals are not.

### Registry

Tests and `module(...).dependsOn(...)` are registered by the static initialisers of
the files `dlopen` loads, in an order nobody fixes.  A registry is a record of
`__globalDependencies` and of each test's module and dependencies; `SetGlobal`,
`Construct` and `DependsOn` are the three calls.  `Declared` says, without tables,
what a program of calls asks for: everything ever declared for the test and its
module, less what a later declaration of the module replaced before the test was
constructed (`src/src/test.cpp:110` assigns).  `Registration` feeds what `Register`
computes to `runAll`; its `RegistryExact` compares what runs with `Declared`.

### Sandbox

One call of `Sandbox::run`, or two for a performance test.  The parent's program
counter `ppc` follows the function (feed stdin, poll, the branch without data,
receive, reap, cleanup); the child's `cpc` follows the thread that runs the test;
`conn`, `wire` and `eof` are the one connection between the two.  `late` is the
deadline.  A scenario says who calls (`unit`, `worker` or `perf`), what the body and the
baseline do: return, throw, die of a signal, call `_exit`, hang, or be killed
inside `Socket::send`; whether a leak, a limit, slowness or a missed margin would
be found; whether `::exit` comes to an end; whether a thread left behind crashes
later, so that its signal handler sends ERROR beside the result.  In process
the same steps happen in the parent, which joins first.  `Checked` is the chain of
checks of each kind, in its order; `SecondRun` starts the baseline with the status
of the body.  What the message carries is its code and the status.

`Reference` is the status that is due, and does not look at how the code gets there: by the
table in `src/README.md:33`, the worst (in the order of `Test::Status`) of what is true of the
body, whoever runs it, and of the baseline.  `VerdictExact` compares the reported status with
it and names the two places where the code reports something better: a worker's time
(`SlowWorker`) and a second run with a finding of its own (`FirstReplaced`).  In
these the reported status is fixed exactly, too, and two runs of their own
(section 3) show each of them as a violation of what `src/README.md` says.

### Stdio

The table of descriptors of the process that calls `run`: `dup`, `pipe2` and `dup2`
on the lowest free numbers, the server socket and the accepted connection,
`readFully` turn by turn, and what is closed.  `OpenBefore` files are open before the first
run, besides 0, 1 and 2: the log (`src/src/dtest.cpp:157`), the two listening sockets
(`src/src/test.cpp:421`), connections to workers.  Making the server socket needs one
number more for a moment, for `getifaddrs` (`src/src/socket.cpp:159`, `312`).  Running out
of descriptors ends the model, since the code looks at none of the results of `dup`,
`dup2` and `pipe2`.

A body writes up to and beyond the capacity of its pipes: to stderr, or with `write(2)`,
at once (`Write`), with `std::cout` or `printf` into the buffer of stdout (`Prints`), which goes
to the pipe when it is full or flushed (`Flush`; an output through `std::cerr`, which is tied to
`std::cout`, does so as well), and when a child comes to its `::exit` (`BodyExits`).  A child that
is killed loses it (`BodyKilled`), and a body that runs in process leaves it (`BodyJoined`) in
the driver, where it waits for the next flush, or is copied by the next `fork` and flushed by
that child.  `kept`, `old` and `own` say where it is and whose.  `Call` is a run whose
outputs are reported or one whose outputs nobody reads (the second run of a performance test,
a worker's): before a run of the first kind the driver has logged the test's name through
`std::cerr` (`src/src/test.cpp:208`), and so flushed what it had (`Flushed`).

### WorkerPool

`Test::_run` for a sequence of tests that ask for different numbers of workers.
The driver's steps are `_spawnWorker`, the loop of `_allocateWorkers`, `_run`, the
driver's own part, `_join` and `_deallocateWorkers`, each broken where the driver
waits (`_waitForSuperEvent`, `waitpid`).  `super` is a set because every message
of a worker travels on a connection of its own.  Worker processes start, read
RUN_TEST, finish with any status, and exit on TERMINATE; those in `MayDie` may
die at any time, those in `Lacks` may not have the test (the worker then reads
RUN_TEST and reports nothing).

### Events

The bodies of one or two tests in a row as scripts of `dtest_notify`,
`dtest_wait`, `dtest_send_msg` and `dtest_recv_msg`.  Bodies run in children: a
child starts with a copy of its parent's counters (`mcount`, `mmsgs`), shares its
sockets, and takes what it has read with it when it ends or is killed
(`DTimeout`, `WEnd`).  `inbox` is the driver's listening socket, which outlives
tests; `accepted` are the connections the running child has accepted, lost with
it.  `chan[w][r]` is the driver's connection to worker `w` in round `r`.  A
USER_MESSAGE of a worker that is not allocated makes `wait()` read
`*_allocatedWorkers.end()`; that is undefined, and `DRecvMessage` chooses any of
its outcomes.

### Framing, Channel, Codec, Payload

`Framing` counts bytes and does not store them: what the receiver reads at a
position follows from where messages end in the stream (`ends`), and away from a
message's beginning it reads an arbitrary length (`LengthsAt`).  The senders
connect, put values of several sizes into a `Message` (`Fit` is `_fit`), and send
it in chunks; a chunk longer than the path takes is refused with EMSGSIZE and
`Resized` lowers `_MTU`.  `Arrive` is the stream, which delivers any portion.  The
server is the loop of `pollOrAccept` and `Message::recv` as `Sandbox::run` and the
contexts use it: header with `returnOnBlock`, body without, dispose when `recv`
throws.  A connection ends in `ended` (end of file), `split` (dropped because only a
part of a header had come) or `closed`.

`Channel` is what the other modules assume: whole messages, in order, once; the
one exception is the last message of a sender that dies, which may come out
cut.  The refinement maps `ends` to the lengths of the messages.

`Codec` is the serialisation of numbers, strings, vectors and lists over bytes
that carry no types, and `ReadsBack` the reference: everything up to the first
string with a zero byte inside comes back as written.  `Payload` gives the messages of
`Framing` bodies, any of `Bodies` that has the length, and states `RoundTrip`.

### Network

A thread that runs tests one after the other and a helper that outlives them.
A hook is `canSend`, libc's call, and the count, as separate steps, so tracking
may be switched in between.  `Lock` and `Unlock` are the framework's messages, which
nest; `hole` is the time left of the hole in which a thread's datagrams vanish.
`own` records the body's traffic for the property.  Counters wrap at `Word`.

### HeapTracker, MappedBlocks

`HeapTracker`: one or two threads in the malloc hooks, each hook two steps (libc
and tracker, in the order of the code), and the test's own thread, which enters
the sandbox, takes the two resource snapshots and leaves.  `heap` is libc's
view, `blocks` the tracker's.  In the mode `outside` the process also allocates
between tests and callers on the tracker's list of exempt code places (`allocEx`,
`deallocEx`) call the hooks; `known` records what the tracker could not see, so that
the properties can say exactly when the table may differ from the heap.
The process that allocates outside may call `realloc`, too: of a block from outside, for which
`retrack` stops the test unless the caller is exempt (`alien`, `foreign`).
`ReallocZero` frees a block that stays in the table; `Delete` is `operator delete`,
from which the exception cannot leave.  Differences of counters are taken modulo `Word`,
the range of size_t.  `start` and `peak` record what a correct measurement
finds, which begins at the first snapshot with the bytes that are tracked then; the tracker
does not read them.

`MappedBlocks`: the table of mappings keyed by last byte, and the loop of
`remove_mapped` and `retrack_mapped`, whose turns are steps (`Cut`) although the
mutex is held, so that its loop invariant can be stated.  The six cases of the
code are one definition (`Pieces`): a piece before the range remains if the range
begins inside the block, one behind it if the range ends inside.  Both loops of
the code have this form.  The caller is never exempt code.

## 3. Runs

Passing runs:

| run | shows | bounds |
|---|---|---|
| `scheduler` | `TablesExact`, `ReadyExact`, `DependencyOrder`, `NoDanglingBlocked`: tables, list and order are right at every turn, and no list that will be walked holds a deleted test. `SummaryExact`: totals and exit code. `RegistryExact`: registration and `runAll` together. `ImplementsSchedule`, `RunAllEnds`. | 4 tests, 3 modules and an unknown one, up to 2 dependencies a test: chains, diamonds, cycles, self-dependencies, every hash order, with a disabled test and with `--module`; any test may end with a wrong status; up to 5 registration calls in every order. 294,787 states. |
| `sandbox` | Of `Sandbox`: `VerdictExact` (the reported status is the one due, unless the deadline or a stray crash replaces it, or in the two named cases; PASS only if everything went well but for a worker's time), `ChildReaped`, `TrackingEnds`, `RunReturns`. Of `Stdio`: `TableExact`, `OutputExact`, `RunsEnd`. Of `MappedBlocks`: `MappingsExact` (disjoint, covers exactly the mapped bytes, counters), `CutExact` (the loop invariant), `AlarmExact`. | `Sandbox`: every combination of the scenario's fields per kind of test (a performance test's body or baseline may also be torn or leave a stray thread); inputs that are empty, fit the pipe, and do not. `Stdio`: 3 runs, 2 files open before; limits on open files from where the first run fails to where the third works; pipes of 3 units, up to 4 written, reads of 2. `MappedBlocks`: 6 addresses, 3 calls of mmap or mremap, any number of munmaps of any range: enough for a range that spans three blocks, cuts the first and the last, or has a hole. 556,568 states. |
| `worker_pool` | `OneStageEach`: an allocated worker is asked, in the test, reported or done, one at a time and in this test. `JoinIsComplete`, `QuietBetweenTests`, `AllTestsEnd`. | two remote workers, tests that need 1, 4, 2, 1: fewer than, more than and as many as are remote, ids reused after a deallocation. One remote and one spawned worker may die, one may lack the test. 168,921 states. |
| `events` | `BarrierHolds`, `NotifyConserved` (on both sides), `MessagesInOrder`, `AllEnd`. | two workers, one of them remote; three series: two tests that use up their events, one with kills at any time, one that leaves everything unread before a test with fewer workers. 36,355 states. |
| `framing` | `BuffersFit`, `Aligned`, `MTUExact`, `RoundTrip`, `ImplementsChannel`, `Drains`. | a sender of two messages of up to 3 bytes over a path that takes one byte at a time, and may be killed; a sender of one header; header 2, buffer 3 bytes, so that a body does not fit at first; `_MTU` goes down by ones and by its jump. Bodies of up to two values for `RoundTrip`. 136,875 states. |
| `heap_tracker` | `TableExact`, `AccountingExact` (the maxima too), `LeakExact`, `AlarmExact`. | 3 addresses, 2 sizes, 3 calls of malloc or realloc, 2 tests in one process; two threads without realloc, or one with allocations outside tests and exempt callers, with and without realloc. 2,192,065 states. |
| `network` | `TrafficExact`, `LossIsAskedFor`, `EventuallyThrough`. | two tests, faulty and not, two threads, locks two deep, counters of one bit (the differences are modular, so a wider word adds nothing but states), holes of one tick. 526,801 states. |

Each bound lets the interesting case happen (a mutant of every property shows
it).  Related questions share a run.  Larger graphs, address spaces and numbers of
workers add only more of the same relations; for the properties that section 5
lists, the proofs remove the bound.

Runs that are expected to find a violation, each a disagreement between the code
and what it or its documentation says:

| run | the disagreement |
|---|---|
| `sandbox_slow_worker` | A worker whose body takes longer than the timeout passes: its check reads `_bodyTime`, which only the driver's body sets (`src/src/distributed_unit_test.cpp:48`), and the sandbox's own deadline is at least two seconds. `src/README.md:69` says such a test fails. |
| `sandbox_second_run` | The FAIL of a performance test's body becomes TOO_SLOW or MEMORY_LIMIT_EXCEEDED in the second run (`src/src/performance_test.cpp:48`). `src/README.md:40` says what FAIL means. |
| `events_stale` | A notification that a test did not wait for releases the barrier of the next test (`src/src/test.cpp:493`). |
| `heap_realloc_race` | `realloc` frees the old address before the tracker knows; another thread's `malloc` gets it, and later its `free` stops a correct test (`src/src/memory_hooks.cpp:83`). |
| `framing_cut` | `Message::recv` compares a size_t with `-1u`, so a message cut short by end of file is accepted (`src/src/message.cpp:34`). |

Observed while modelling, without a run of their own (the properties state the
behaviour as it is, exceptions included):

* Tests that stay blocked for ever (unknown module, cycle) are printed as not run,
  and `main` says "All tests OK." and exits 0 (`src/src/dtest.cpp:172`).
  `SummaryExact` states it.
* stdin is written before the fork; an input larger than the pipe keeps the driver
  in `writeFully` for ever, deadline or not (`src/src/sandbox.cpp:87`; `Stuck` in
  `Sandbox`).
* A block from before the first snapshot that `realloc` shrinks makes the
  difference of allocated bytes wrap, and a leak is reported
  (`src/src/sandbox.cpp:333`; `LeakExact` claims the verdict only without realloc).
* The second run of a performance test also replaces a TIMEOUT of the first, and a FAIL
  of the first by TIMEOUT if it does not finish (`src/src/performance_test.cpp:48`, `68`).  It
  never turns either into PASS.
* Every `Sandbox::run` leaves three ends of pipes open in the driver
  (`src/src/sandbox.cpp:98`): with k files open before, run n needs 3n + 10 + k descriptors.
* Nothing flushes stdout's buffer when outputs are collected (`src/src/sandbox.cpp:117`):
  what a body in process prints and does not flush is not captured, nor what a child has
  in it when it is killed.  What a body in process leaves there goes to the driver's own stdout
  at its next log line, so that it gets only into the outputs of runs before which nothing is
  logged, and nobody reports these.
* The maximum of the bytes is reset to 0 at the first snapshot
  (`src/include/dtest_core/memory.h:88`) and not to the bytes tracked at that moment: with blocks
  from `onInit` or left over by an earlier test in process it is too low until an allocation
  reaches that level again.  `AccountingExact` states exactly this exception.
* A header of which only a part has arrived when it is read is a failure, and the
  connection is dropped (`src/src/socket.cpp:211`); unlikely for eight bytes.
* A string with a zero byte inside shifts everything read after it
  (`src/include/dtest_core/message.h:221`).
* A second `module(m).dependsOn` replaces the first for tests constructed later
  only (`src/src/test.cpp:110`).
* A test that frees or reallocates a valid block from before tracking, or one of exempt
  code, is stopped as for an invalid one, and in `operator delete`, which is noexcept, the
  process ends (`src/src/memory.cpp:296`, `166`, `src/src/memory_hooks.cpp:197`).
* `_MTU` is lowered only after EMSGSIZE, which no socket of this program gets: all are TCP
  (`src/src/socket.cpp:96`, `116`).  `MTUExact` is about the arithmetic of that code.
* A skipped test counts as a success, so a module runs although the module it
  depends on was not run (`src/src/test.cpp:16-19`; `src/README.md:18` says "run
  without errors").
* `--workers N` registers the ids 0 .. N-1 (`src/src/dtest.cpp:100`), `sbin/run.sh`
  hands out 1 .. N: the handle 0 never gets WORKER_STARTED.  In `WorkerPool`
  this is `Remote = {1, 2}` with `NumRegistered = 2`, and `AllTestsEnd` fails.
* `dtest_wait(n)` on the driver counts workers, not messages (`src/src/test.cpp:637`,
  `src/README.md:155`): two notifications of one worker never end a wait for 2.
* A remote worker hands on what a killed body left unread to the next body.  In
  `Events` this is the series `Leftover` with a remote worker.
* The maximum of the number of blocks is not reset between tests in process
  (`src/include/dtest_core/memory.h:88`); `AccountingExact` states it as it is.
* After a worker is lost the driver waits for it without a limit
  (`src/src/test.cpp:551`).

## 4. Fairness

* `Scheduler`: weak fairness of the loop, which is the driver's only thread.
* `Sandbox`: weak fairness of the parent, of the child's thread and of the clock.
  The scheduler of the operating system justifies the first two; nothing is
  assumed of a body that hangs, of a lingering exit or of a stray crash.
* `WorkerPool`: of the driver and of each worker.  That a test on a worker ends
  is what `RunReturns` of `Sandbox` shows.
* `Events`: of each body, and of the deadline where one is set.
* `Framing`: of the server's loop, of each sender that is not killed, and of the
  arrival of bytes, since TCP delivers to a live peer.  That a body is put
  together is not assumed (`Put` is not fair).
* `Network`: of the clock and of libc's calls; strong fairness of the chance that a
  datagram gets through (`frand() < _chance` is drawn again for each datagram
  outside a hole, so with a positive chance it fails for ever with probability 0).
* `Stdio`: of the process that calls `run`; in the run `sandbox` each of the three modules
  has the fairness of its own specification.
* `HeapTracker` and `MappedBlocks` have no liveness property.

Waiting is an explicit stuttering step (`PollAgain`, `Idle`), since the code polls
in a loop; so a wait that never ends shows as a liveness violation and not as a
deadlock.

## 5. Proofs

What a run shows on a small instance the theorems below show for every value of
the constants: any set of tests and any dependency graph, any set of scenarios,
any number of workers, threads, connections, addresses and calls, any sizes and
any width of the counters.  Every module's theorems rest on the one ASSUME of
the module they are about, which says that the constants have their types and
nothing else, with these exceptions:

* `Framing`: the buffer holds a header (`BufferSize >= Header`), the ranges of
  `_resizeMTU` are in order, and a chunk of `MaxMTU` bytes fits one system call.
* `WorkerPool`: there are as many ids as the tests can ask for.
* `HeapTracker`: a size_t counts what all calls ask for together (each size is at
  most some `m` with `MaxCalls * m < Word`), so the totals themselves never wrap;
  their differences may, and do.  `TableIsExact` and `AlarmIsExact` have the hypothesis
  `Alone` besides (a thread that reallocates is the only one), and no other: blocks
  from outside may be reallocated.
* `Sandbox`: what a scenario in process may do (return, throw or hang, no stray
  thread).
* `Events`: a series has at least one test, and as many bodies of each kind as tests.
* `Registration`: each test is constructed once, in its module and before its own
  `dependsOn` (they are calls on the object that was constructed).
* `Stdio`: what is open before the first run is open, and one number more can be
  (`limit > 3 + OpenBefore`).
* `Payload`: a body is a sequence of values that the format can hold (`IsBody`): numbers and
  lengths of lists below 256, as the model writes a number into its low byte, and strings
  of bytes, zero bytes among them.  How long a body, a list or a string is, is not bounded.

Three assumptions were completed for the proofs: `Framing`'s (the value that stands
for "no connection" is not a connection), `HeapTracker`'s (the bound on sizes) and
`Events`' (bodies are sequences of the four operations).

| module | theorem | statement |
|---|---|---|
| `Scheduler_proofs` | `TypeCorrect` | `Spec => []TypeOK` |
| | `TablesAreExact` | `Spec => []TablesExact` |
| | `ReadyListExact` | `Spec => []ReadyExact` |
| | `DependenciesFirst` | `Spec => []DependencyOrder` |
| | `NoUseAfterDelete` | `Spec => []NoDanglingBlocked` |
| | `SummaryIsExact` | `Spec => []SummaryExact` |
| | `Refinement` | `Spec => ImplementsSchedule` |
| | `RegisteredIsDeclared` | what `Register` computes is `Declared`, for every program of calls |
| | `RegistrationIsKept` | `Spec => []RegistryExact` |
| `Sandbox_proofs` | `NoChildIsLeft` | `Spec => []ChildReaped` |
| | `TrackingIsOver` | `Spec => []TrackingEnds` |
| | `VerdictIsEarned` | `Spec => []VerdictExact` |
| | `DescriptorsAreExact` | `StdioSpec => []TableExact` |
| | `OutputIsExact` | `StdioSpec => []OutputExact` |
| `WorkerPool_proofs` | `OneStageAtATime` | `Spec => []OneStageEach` |
| | `JoinWasComplete` | `Spec => []JoinIsComplete` |
| | `TestsLeaveNothing` | `Spec => []QuietBetweenTests` |
| `Events_proofs` | `BarrierIsKept` | `Spec => []BarrierHolds` |
| | `NotificationsAreConserved` | `Spec => []NotifyConserved` |
| | `OrderIsKept` | `Spec => []MessagesInOrder` |
| `Framing_proofs` | `NoOverflow` | `Spec => []BuffersFit` |
| | `PlaceIsKept` | `Spec => []Aligned` |
| | `MTUIsExact` | `Spec => []MTUExact` |
| | `Refinement` | `Spec => ImplementsChannel` |
| | `BodyReadsBack` | every body satisfies `ReadsBack` |
| | `MessagesReadBack` | `Spec => []RoundTrip` |
| `HeapTracker_proofs` | `AccountsAreExact` | `Spec => []AccountingExact` |
| | `LeaksAreFound` | `Spec => []LeakExact` |
| | `TableIsExact` | `Spec /\ Alone => []TableExact` |
| | `AlarmIsExact` | `Spec /\ Alone => []AlarmExact` |
| `MappedBlocks_proofs` | `MappingsAreExact` | `MapSpec => []MappingsExact` |
| | `CutIsExact` | `MapSpec => []CutExact` |
| | `AlarmIsExact` | `MapSpec => AlarmExact` (an action property) |
| `Network_proofs` | `TrafficIsExact` | `Spec => []TrafficExact` |
| | `LossWasAskedFor` | `Spec => LossIsAskedFor` (an action property) |

Each module also has `Invariance`, `Spec => []IndInv` for its inductive invariant
(in `HeapTracker_proofs` two: `Invariance` and `Agreement`; for `Stdio`, `StdioInvariance`).  TLC has checked every one
of these invariants on the module's run.

### The arguments

**Scheduler.**  `IndInv` is `TypeOK`, `TablesExact`, `ReadyExact`, `DependencyOrder`, and
that the list is empty at the end.  None of these is inductive alone: that the
list stays exact needs the tables (which tests become ready is decided by
`remainingDeps`), that the tables stay exact needs the head of the list to be
untaken, and the order needs the list.  `HeadFacts`: the head of the list is
untaken and its modules are completed; `TakenFacts`: giving it a status changes
the predicates of no other test; `FailedStep`: a failure completes no module,
since a module with a failed test is not completed; `SucceededStep`: a success
completes at most the test's own module, and exactly the tests whose remaining
dependencies were that module become ready, none of which is on the list
already.  `ListingFacts`, `TailFacts` and `ConcatFacts` are the facts about lists.
`NoUseAfterDelete` follows: a taken test has all its modules completed, and a
completed module has no remaining tests, so its list is not walked again.
`Refinement` maps a status to none, ok or bad; a turn is a `Take`, and the end a
`Stop`, by exactness of the list.  `SummaryIsExact` needs `Counted`, that the counters
are the cardinalities of the sets of tests they stand for, at every turn.

**Registration.**  `State(p, n)` writes down, without a history, what the tables hold
after the first `n` calls of program `p`: the latest declaration of each module, and for each
test what of its and its module's declarations counts so far (`Counting`).  `StateStep` shows, for
each of the three calls, that the code's update leads from one such state to the next: a
declaration is added to the tests that are there, and a test constructed later
gets the latest one, which is what `Replaced` leaves of those before (`NewFacts`).  `AfterIs`
concludes by the least counterexample that the recursive definition has this solution
and no other.  With `DependencyOrder` and `ReadyExact` this gives `RegistryExact`.

**Sandbox.**  `Processes` ties the parent's place to the child's life and to the
thread of the test: this is what makes `ChildReaped` true.  `Switch` ties the nesting
counter and the tracking switch to that thread, except in a process that is
gone.  `Before` says what cannot have happened yet, `OnTheWay` what the connection
may hold at each place (nothing, the result, an ERROR of the signal handler
beside it), and `Judged` what status and callbacks can be when `run` goes on.
`VerdictExact` follows from `Judged` at the end, where what the code's checks made of the
run (`Told`) is compared with what is due; it cannot be inductive, since it says nothing until
then.

**Stdio.**  Which number the kernel hands out is of no account: `Table` says which contents
are open besides 0, 1 and 2 at each place of `run` (`Pieces`, with what the runs before have
left, `Former`), that each is held by one number, and how many they are.  `Opening`,
`Closing` and `Placing` are the three changes of a table; `BoxedFacts` and `UnboxedFacts`
compose them to `_sandbox_stdio` and `_unsandbox_stdio`.  `Standard` says what 0, 1 and 2 are,
`Keeps` that `saved` and `boxed` lead to the old files and to the read ends, without which
nothing could be put back.  That a run leaves three ends and no more is then a computation
on sets (`UnboxStderrLayout`), and the bound on the limit one on their numbers
(`FreeNow`, `EnoughStep`).  `Buffer`: what is in stdout's buffer where the body runs, and whose.
`Flow`: what a pipe holds and what was read of it add up to what was given to it (`Given`: all
that was written to stderr, and what has left stdout's buffer) or to its capacity; a
reader that leaves its loop leaves the pipe empty.

**WorkerPool.**  `OneStageEach` speaks of allocated workers while a test runs.  To
carry it, `Channel(w)` says what may be in the connection to each worker at each
place of the driver's loops (RUN_TEST at most once, TERMINATE last), `Stage(w)`
which of asked, in the test, reported and done can be, `Reports` that the super
socket holds nothing of an earlier test, and `Population` that no id is given to
two workers: `_spawnWorker` gives ids behind the registered ones.  `Judged` is that
the status is at least as bad as each result joined so far.

**Events.**  The argument counts.  Scripts are fixed, so what a body has sent is the
number of its operations of that kind behind its position, and that number grows by one
exactly when such an operation is done (`CountNext`).  For the driver, `pulls[w] +
dcount[w]` and what of `w` is in `inbox` make up `Notified(w)`: each step moves one
notification from one term to another, or adds one on both sides (`BalanceStep`).
`Barrier` says that each wait() for all that has returned pulled every allocated worker
once, since the set it returns with has as many members as there are workers
(`AllPulled`); with the balance this is `BarrierHolds`.  When the body is over its
counters and connections are gone and the balance with them, so `Kept` carries the
barrier on: workers only notify more.  Messages to the driver may come from any
worker, so `Received` counts those of all workers together.

For a worker, `Wires` says what its connections hold (RUN_TEST first, then what the
driver has sent in this round, positions ascending); `Awaiting`, `Notifications`
and `Messages` count before and while the body runs; `Before` says that what was
received lies before what is on its way.  What makes the next test start clean is
`Tidy`, that the round's bodies take as many as they are sent and nobody is killed:
then the counts leave nothing over at the end of either side (`Drained`, `Used`), so a
remote worker hands nothing on (`Quiet`) and nothing of an earlier round comes to the
driver (`Senders`).  Where a round was not tidy the invariant claims nothing of later rounds
for the driver and for remote workers, but still does for workers that are spawned
afresh (`Mine`); the run `events_stale` shows that more would be false.

**Framing.**  `Stream(c)`: messages lie behind each other in the stream, and what is
given to it ends inside the last one.  `Place(c)`: an open connection from which
only whole messages were taken is in place (`InPlace`), and a message that was
cut is the last, from a dead sender, with nothing behind it.  `Reading` and `Building`
bound the buffers, `Shrunk` is the order of `_MTU`'s values.  The refinement then
maps the receipt of a body to the channel's delivery, and every other step to a
send, a loss or a stutter.

**Codec, Payload.**  Writer and reader are recursive functions; `AppendedIs`, `ReadElementsIs`
and `ReadEachIs` show by the least counterexample (`UpTo`) that each is the solution of its
recursion.  One invariant serves both the elements of a list and the values of a body
(`ReadsInOrder`): the bytes that are left for the reader are those of the parts it has
not asked for, followed by what was behind them (`Regroup`, `Cancel`), and what it has read are
the parts before.  It needs that one part in front of any bytes is read
exactly: `NumberRead`, and `StringRead`, where the first zero byte is the one that the
writer appended only if the string holds none.  A string that holds one is cut
there, and what is read later is only appended to what was read before, so the
values in front of it stay right.  `Sized` is what `MessagesReadBack` needs of
`Framing`: a message that was taken has a length some sender can write.

**HeapTracker.**  Whatever the order of the hooks, the counters are those of the
table: `Ledger` says that `_allocateSize - _freeSize` is the sum over the table, and bounds
`_allocateSize` by the calls that have been entered, so that it never passes `Word`.
This needs no agreement with the heap and holds with racing reallocs.  The sum
is a fold; `Smallest` (of a family of subsets of a finite set one is smallest)
gives the induction with which `SumIs`, `SumTurn` and `SumSplit` are proved.
`TableExact` and `AlarmExact` are false if `realloc` runs beside another thread, as the
run `heap_realloc_race` shows; they are proved under `Alone`, that a thread which
calls `realloc` is the only thread, which all modes of the run `heap_tracker` satisfy.
`Matching` relates the heap, the table and what each hook is about to do (a `retrack` under
way finds its old address exactly if the block was not from outside);
`Watch`: tracking is on from `Enter` to `Exit` or to the alarm.  `InBody` carries the byte
maximum: at the first snapshot the larger of `start` and 0, and each later `Counted` raises
both sides to the bytes in the table.

**MappedBlocks.**  `Insert` and `Erase` add and remove exactly the bytes of one block
and keep blocks apart (`Inserted`, `Erased`); a turn of the loop is one `Erase` and at
most two `Insert`s, the pieces of `Pieces`.  `IndInv` holds `CutExact`, the loop
invariant, next to the parts of `TableExact`, and `Kernel`, what the kernel has done
by then.

**Network.**  `Locks`: `_locked` is the depth of the thread's calls into the framework;
`Snapshots`: the counters are, modulo `Word`, the first snapshot and the body's traffic;
`Fault`: the network is faulty only if the last test that was configured asked
for it.

### Only model-checked

Liveness (`RunAllEnds`, `RunReturns`, `AllTestsEnd`, `AllEnd`, `Drains`, `EventuallyThrough`,
`RunsEnd`): outside what the proof system does.  Every safety invariant and every action
property of the passing runs is a theorem.

## 6. Not modelled

* Address parsing and `self_address_ipv4` (`src/src/socket.cpp`, from line 312): string
  handling and look-ups of the local interface, with no state but the descriptor that
  `Serve` in `Stdio` allows for.
* Copying and moving of `Message` and `Buffer`.
* The values of options (limits, margins, numbers of workers) beyond what the
  checks find; on a worker `dtest_num_workers()` of a test that sets none is 0
  (`src/src/test.cpp:28`), which no property reads.
* `Memory::clear` (never called), `report`, the symbol look-ups of `reinitialize`,
  allocations that fail, and MAP_FIXED over an existing mapping, where the
  table holds two blocks for the same bytes.
* The buffer and end-of-file flag of `std::cin`, which outlive a test in process, and the error
  states of the streams.  Descriptors that are opened or closed between runs: connections to
  spawned workers come and go, and `OpenBefore` is the number at the time of the run.
* In `MappedBlocks`: exempt callers (C library and libgomp), for whom a range with a hole is no
  error and `remove_mapped` returns after cutting as far as the hole
  (`src/src/memory.cpp:384`); rounding to pages, since the kernel of the model maps
  single bytes; a munmap or mremap that fails.
* Directory walk, option parsing, call stacks, formatting, random numbers; `Lazy`, a
  once-only initialiser used from one thread here; build files and `sbin/run.sh`.

## 7. Plan

Done: all modules, and proofs of all their invariants and action properties.

What could be added: the width of a number in `Codec` as a constant with a proof for numbers
of more than one byte, and MAP_FIXED in `MappedBlocks`, which needs a kernel that cuts
blocks without a call.
