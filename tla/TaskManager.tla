---------------------------- MODULE TaskManager ----------------------------
(***************************************************************************)
(* The task manager every part of a katana node spawns its tasks on: a     *)
(* cancellation token given to every task and a tracker that counts them.  *)
(* A task runs in a select with the token, so after the token is cancelled *)
(* it may still finish, or still take a step, before it is dropped.        *)
(***************************************************************************)
CONSTANTS
    Tasks,      \* the names of the tasks
    Critical    \* those built with critical()

ASSUME TasksAssumption == Critical \subseteq Tasks

VARIABLES
    tasks,      \* task -> "none", "running", "cancelled", "completed" or "panicked"
    cancelled,  \* on_cancel, the cancellation token
    closed      \* the tracker is closed

taskVars == <<tasks, cancelled, closed>>

TasksInit ==
    /\ tasks = [t \in Tasks |-> "none"]
    /\ cancelled = FALSE /\ closed = FALSE

Running(t) == tasks[t] = "running"
Ended(t) == tasks[t] \in {"cancelled", "completed", "panicked"}
Drained == \A t \in Tasks : ~Running(t)

\* spawn_inner: also after a shutdown, whatever the comment on shutdown says.
Spawn(ts) ==
    /\ tasks' = [t \in Tasks |-> IF t \in ts THEN "running" ELSE tasks[t]]
    /\ UNCHANGED <<cancelled, closed>>

\* The future of t is over; how is "completed" or "panicked".  A critical task
\* catches its panic and cancels the token in both cases.  A panic in any other
\* is caught by the runtime and seen by whoever awaits the handle.
End(t, how) ==
    /\ Running(t)
    /\ tasks' = [tasks EXCEPT ![t] = IF t \in Critical THEN "completed" ELSE how]
    /\ cancelled' = (cancelled \/ t \in Critical)
    /\ UNCHANGED closed

\* The select of make_cancellable takes the token's branch.
Dropped(t) ==
    /\ Running(t) /\ cancelled
    /\ tasks' = [tasks EXCEPT ![t] = "cancelled"]
    /\ UNCHANGED <<cancelled, closed>>

\* shutdown, up to the wait for the tracker.
Shutdown ==
    /\ cancelled' = TRUE /\ closed' = TRUE
    /\ UNCHANGED tasks

\* tracker.wait()
ShutdownDone == closed /\ Drained
=============================================================================
