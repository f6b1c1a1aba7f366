------------------------------ MODULE MCEvents ------------------------------
(* Instances of Events for TLC. *)
EXTENDS Events

BothWorkers == {"w1", "w2"}

(* Two tests whose bodies use up everything they are sent. *)
Matched == [alloc |-> <<BothWorkers, BothWorkers>>, remote |-> {"w1"},
            dtimeout |-> FALSE, wtimeout |-> FALSE,
            driver |-> <<<<Send, Recv, Wait(0), Notify, Send, Notify, Recv>>,
                         <<Notify, Wait(0)>>>>,
            worker |-> <<<<Notify, Send, Recv, Wait(0), Wait(0), Recv>>,
                         <<Notify, Wait(0)>>>>]

(* One test whose bodies may be killed at any time.  Notifications pile up *)
(* while a worker receives, messages while it waits.                       *)
Killed == [alloc |-> <<BothWorkers>>, remote |-> {"w1"},
           dtimeout |-> TRUE, wtimeout |-> TRUE,
           driver |-> <<<<Notify, Send, Notify, Send, Wait(1), Send, Send, Notify, Wait(0)>>>>,
           worker |-> <<<<Recv, Recv, Notify, Wait(0), Wait(2), Recv, Recv, Notify>>>>]

(* A test whose events nobody takes, then one with fewer workers. *)
Leftover == [alloc |-> <<BothWorkers, {"w1"}>>, remote |-> {},
             dtimeout |-> TRUE, wtimeout |-> TRUE,
             driver |-> <<<<Notify, Send>>,
                          <<Send, Wait(0), Notify, Send, Notify, Recv>>>>,
             worker |-> <<<<Notify, Send>>,
                          <<Recv, Wait(0), Send, Recv, Wait(0)>>>>]

AllScenarios == {Matched, Killed, Leftover}

(* A notification that nobody waits for, then a barrier. *)
Stale == [alloc |-> <<BothWorkers, BothWorkers>>, remote |-> {},
          dtimeout |-> FALSE, wtimeout |-> FALSE,
          driver |-> <<<<>>, <<Wait(0)>>>>,
          worker |-> <<<<Notify>>, <<Notify>>>>]

StaleScenarios == {Stale}
=============================================================================
