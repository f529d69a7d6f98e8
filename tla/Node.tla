------------------------------- MODULE Node --------------------------------
(***************************************************************************)
(* A launched katana node as the tasks it runs: the critical task          *)
(* Sequencing, which builds the messaging service, spawns the tasks of     *)
(* messaging and of block production and ends when either does; the        *)
(* critical worker of the gas oracle; and the two ways the node stops,     *)
(* LaunchedNode::stop and LaunchedNode::stopped.  Messaging is composed in *)
(* full; block production is here only for how it ends.                    *)
(***************************************************************************)
EXTENDS Messaging, TaskManager

CONSTANTS MaxLaunches   \* bound: how often the node is launched

ASSUME NodeAssumption ==
    /\ Tasks = {"Sequencing", "Messaging", "Block production", "L1 Gas Oracle Worker"}
    /\ Critical = {"Sequencing", "L1 Gas Oracle Worker"}
    /\ MaxLaunches \in Nat

VARIABLES
    sequencing,  \* where the future of Sequencing is: "new" or "select"
    node,        \* "down", "up", "stopping", "stopped": what the caller of stop knows
    exited,      \* the future of stopped() has resolved
    launches

nodeVars == <<sequencing, node, exited, launches>>
vars == <<msgVars, taskVars, nodeVars>>

\* The service as it is while it does not exist: nothing to poll.
serviceVars == <<due, armed, woken, gather, answer, from, offered, rejected, poolNonces>>

Init ==
    /\ MsgInit /\ TasksInit
    /\ sequencing = "new" /\ node = "down" /\ exited = FALSE /\ launches = 0

\* Node::launch, after the process of an earlier launch is gone.
Launch ==
    /\ node \in {"down", "stopped"} \/ exited
    /\ launches < MaxLaunches
    /\ launches' = launches + 1
    /\ tasks' = [t \in Tasks |-> IF t \in Critical THEN "running" ELSE "none"]
    /\ cancelled' = FALSE /\ closed' = FALSE
    /\ sequencing' = "new" /\ node' = "up" /\ exited' = FALSE
    /\ UNCHANGED msgVars

-----------------------------------------------------------------------------
(* Sequencing *)

\* run_messaging, MessagingService::new included, and run_block_production.
RunTasks ==
    /\ Running("Sequencing") /\ sequencing = "new"
    /\ sequencing' = "select"
    /\ NewService
    /\ Spawn({"Messaging", "Block production"})
    /\ UNCHANGED <<mode, latest, failures, node, exited, launches>>

\* The messaging target cannot be reached: MessagingService::new panics.
InitFails ==
    /\ Running("Sequencing") /\ sequencing = "new"
    /\ failures < MaxFailures
    /\ failures' = failures + 1
    /\ End("Sequencing", "panicked")
    /\ UNCHANGED <<mode, latest, serviceVars, nodeVars>>

\* Plausible bug: only the end of block production ends the stage.
SelectTasksBlocks ==
    /\ sequencing = "select"
    /\ Ended("Block production")
    /\ End("Sequencing", "completed")
    /\ UNCHANGED <<msgVars, nodeVars>>

\* The select over the two handles: the end of either ends the stage.
SelectTasks ==
    /\ sequencing = "select"
    /\ Ended("Messaging") \/ Ended("Block production")
    /\ End("Sequencing", "completed")
    /\ UNCHANGED <<msgVars, nodeVars>>

-----------------------------------------------------------------------------
(* The other tasks *)

PollMessaging ==
    /\ Running("Messaging")
    /\ Poll
    /\ UNCHANGED <<taskVars, nodeVars>>

\* The unwrap of a failed fetch_events.
MessagingPanics ==
    /\ Panics
    /\ End("Messaging", "panicked")
    /\ UNCHANGED <<msgVars, nodeVars>>

\* BlockProductionTask returns the error of a block that could not be produced.
BlockProductionFails ==
    /\ failures < MaxFailures
    /\ failures' = failures + 1
    /\ End("Block production", "completed")
    /\ UNCHANGED <<mode, latest, serviceVars, nodeVars>>

\* A request of the worker fails; the error ends its loop.
GasOracleFails ==
    /\ failures < MaxFailures
    /\ failures' = failures + 1
    /\ End("L1 Gas Oracle Worker", "completed")
    /\ UNCHANGED <<mode, latest, serviceVars, nodeVars>>

CancelTask ==
    /\ \E t \in Tasks : Dropped(t)
    /\ UNCHANGED <<msgVars, nodeVars>>

-----------------------------------------------------------------------------
(* The ways to stop *)

Stop ==
    /\ node = "up" /\ ~exited
    /\ node' = "stopping"
    /\ Shutdown
    /\ UNCHANGED <<msgVars, sequencing, exited, launches>>

\* Plausible bug: stop does not wait for the tasks.
StopReturnsEarly ==
    /\ node = "stopping" /\ closed
    /\ node' = "stopped"
    /\ UNCHANGED <<msgVars, taskVars, sequencing, exited, launches>>

StopReturns ==
    /\ node = "stopping" /\ ShutdownDone
    /\ node' = "stopped"
    /\ UNCHANGED <<msgVars, taskVars, sequencing, exited, launches>>

\* The future of stopped(): it waits for the token, not for the tasks.
NodeStopped ==
    /\ node = "up" /\ ~exited /\ cancelled
    /\ exited' = TRUE
    /\ UNCHANGED <<msgVars, taskVars, sequencing, node, launches>>

Settlement == Grow /\ UNCHANGED <<taskVars, nodeVars>>

\* The timer and the requests of the service, which are dropped with its task.
Tick == Running("Messaging") /\ TimerFires /\ UNCHANGED <<taskVars, nodeVars>>

Response ==
    /\ Running("Messaging")
    /\ Answered \/ Failed
    /\ UNCHANGED <<taskVars, nodeVars>>

Wakeup == Running("Messaging") /\ Progress /\ UNCHANGED <<taskVars, nodeVars>>

\* Every launch is over: the process is left as it is.
Done == launches = MaxLaunches /\ (node = "stopped" \/ exited) /\ UNCHANGED vars

Next ==
    \/ Launch \/ RunTasks \/ InitFails \/ SelectTasks
    \/ PollMessaging \/ MessagingPanics \/ BlockProductionFails \/ GasOracleFails \/ CancelTask
    \/ Stop \/ StopReturns \/ NodeStopped \/ Settlement \/ Tick \/ Response \/ Wakeup
    \/ Done

Spec == Init /\ [][Next]_vars

\* The runtime polls what is woken and runs what is ready; the timer fires and the
\* settlement node answers or fails.  Nobody has to stop the node.
FairSpec ==
    /\ Spec
    /\ WF_vars(RunTasks \/ InitFails)
    /\ WF_vars(SelectTasks) /\ WF_vars(PollMessaging \/ MessagingPanics)
    /\ WF_vars(CancelTask)
    /\ WF_vars(StopReturns)
    /\ WF_vars(Tick) /\ WF_vars(Response)

-----------------------------------------------------------------------------
(* Properties *)

\* Every variable stays in the values the code can give it; no request asks for a
\* block that the settlement chain does not have.
TypeInv ==
    /\ latest \in 0..Height /\ from \in 0..Height + 1
    /\ due \in BOOLEAN /\ armed \in BOOLEAN /\ woken \in BOOLEAN
    /\ gather.step \in {"none", "number", "logs"}
    /\ gather.step = "logs" => gather.to \in 0..latest
    /\ answer.kind \in {"none", "ok", "err"}
    /\ tasks \in [Tasks -> {"none", "running", "cancelled", "completed", "panicked"}]
    /\ cancelled \in BOOLEAN /\ closed \in BOOLEAN

\* The messages offered to the pool since the launch are the messages of the blocks
\* from the configured one up to the cursor, each once and in the order of the
\* settlement chain, whatever requests failed and however the ticks fell
\* (gather_messages and the cursor of poll_next). The variables have their types.
GatheredExactly == TypeInv /\ offered = Messages(FromBlock, from - 1)

\* When LaunchedNode::stop returns no task runs and none is left to start: a task
\* that Sequencing still spawns during the shutdown is waited for as well
\* (TaskManager::shutdown, spawn_inner).
StopDrains == node = "stopped" => Drained /\ cancelled

\* A task of the sequencing stage that ends, by an error, a panic or the failure of
\* the start, takes the whole node down: the token is cancelled and every task ends,
\* unless the process exits before they did (the select in Sequencing, critical tasks).
FailsTogether ==
    (\E t \in Tasks : Ended(t)) ~> (cancelled /\ (Drained \/ exited))

\* The node is up and its messaging is alive.  Only a failed request can have put it
\* to sleep: a poll that ends on the error took the tick and left no waker.
Serving == Running("Messaging") /\ ~cancelled /\ ~(Asleep /\ failures > 0)

\* The service keeps catching up with the settlement chain, every block gathered,
\* unless it stops being served (poll_next, the interval).
GatheredEventually == []<>(from > latest \/ ~Serving)
=============================================================================
