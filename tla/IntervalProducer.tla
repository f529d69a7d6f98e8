-------------------------- MODULE IntervalProducer --------------------------
(***************************************************************************)
(* Katana's IntervalBlockProducer, driven by BlockProductionTask: a block  *)
(* is open while transactions are executed on a pending executor; when the *)
(* interval is over, or the block is full, a background job closes it; the *)
(* next poll opens the next block and points the pool's validator at it.   *)
(*                                                                         *)
(* Four actors share the producer: RPC threads that validate transactions, *)
(* the block production task, the blocking jobs it spawns (one executes    *)
(* transactions, one mines), and the dev API's force_mine, which runs on   *)
(* an RPC thread and holds the producer's write lock to its end. The task  *)
(* runs only when it was woken, so the wakers its futures hold are state.  *)
(*                                                                         *)
(* Transactions are numbered in the order in which the pool accepts them.  *)
(* Whether one succeeds or fails is left open.                             *)
(***************************************************************************)
EXTENDS Integers, Sequences

CONSTANTS
    MaxTxs,       \* bound: transactions accepted by the pool
    BlockTimes,   \* the modes: is block_time Some? (FALSE: on-demand mining)
    JobsMayFail,  \* may a job return an error or panic?
    (* By mode:                                                            *)
    BlockCap,     \* successful transactions that fill a block
    MaxForce,     \* bound: calls of force_mine (0: the dev API is off)
    FastJobs      \* may a job run before the poll that spawned it is over?

ASSUME MaxTxsAssumption == MaxTxs \in Nat /\ MaxForce \in [BOOLEAN -> Nat]
ASSUME BlockCapAssumption == BlockCap \in [BOOLEAN -> Nat \ {0}]
ASSUME ModeAssumption ==
    /\ BlockTimes \subseteq BOOLEAN /\ JobsMayFail \in BOOLEAN
    /\ FastJobs \in [BOOLEAN -> BOOLEAN]

VARIABLES
    accepted,   \* how many transactions the validator has accepted
    incoming,   \* accepted ones the task has not taken from the pool's stream
    pool,       \* the transactions in the pool
    queued,     \* the backlog, flattened: it is only ever taken as a whole
    timer,      \* none, running or ready (its next tick is due); off for good
                \* when block_time is None
    full,       \* is_block_full
    notified,   \* transactions handed to notify_listener
    executors,  \* the pending executors created so far; the last is current
    exec,       \* ongoing_execution and the job behind it
    mining,     \* ongoing_mining and the job behind it
    permit,     \* who holds the validator's permit: free, job or force
    validator,  \* the executor whose state the validator reads
    chain,      \* the stored blocks after genesis, by block number
    task,       \* where the block production task is in its poll
    woken,      \* the task is scheduled to be polled (again)
    wakers,     \* the futures that hold the task's waker
    force,      \* force_mine: idle, waiting (for the permit) or mining
    forced      \* how many times force_mine has been called

poolVars == <<accepted, incoming, pool>>
producerVars == <<queued, timer, full, notified>>
blockVars == <<permit, validator, chain>>
taskVars == <<task, woken, wakers>>
forceVars == <<force, forced>>
vars == <<poolVars, producerVars, executors, exec, mining, blockVars, taskVars,
          forceVars>>

current == Len(executors)

\* The mode, which never changes: has the producer an interval?
BlockTime == timer # "off"

\* update_block_env: the number of the block after the latest one.
NextNumber(c) == Len(c) + 1

\* A pending executor: the number of its block env, the successful
\* transactions it holds, how much of the block limit they have used, and
\* whether do_mine has taken its output.
NewExecutor(c) ==
    [number |-> NextNumber(c), txs |-> <<>>, used |-> 0, taken |-> FALSE]

\* A job is none, spawned, running (or locked: it holds the permit), then done
\* or failed. `todo` becomes what was left over when the block was full.
NoExec == [st |-> "none", on |-> 0, todo |-> <<>>, results |-> {}, full |-> FALSE]
NoMining == [st |-> "none", on |-> 0, ok |-> TRUE, txs |-> {}]

Elems(s) == {s[i] : i \in DOMAIN s}

Init ==
    /\ accepted = 0 /\ incoming = <<>> /\ pool = {}
    /\ timer \in {IF mode THEN "none" ELSE "off" : mode \in BlockTimes}
    /\ queued = <<>> /\ full = FALSE /\ notified = {}
    /\ executors = <<NewExecutor(<<>>)>>
    /\ exec = NoExec /\ mining = NoMining
    /\ permit = "free" /\ validator = 1 /\ chain = <<>>
    /\ task = "asleep" /\ woken = TRUE /\ wakers = {}
    /\ force = "idle" /\ forced = 0

-----------------------------------------------------------------------------
\* RPC thread, add_transaction: validate takes the permit and gives it back;
\* the subscription's channel wakes the task.
Accept ==
    /\ permit = "free"
    /\ accepted < MaxTxs
    /\ accepted' = accepted + 1
    /\ incoming' = Append(incoming, accepted + 1)
    /\ pool' = pool \union {accepted + 1}
    /\ woken' = TRUE
    /\ UNCHANGED <<producerVars, executors, exec, mining, blockVars, task,
                   wakers, forceVars>>

-----------------------------------------------------------------------------
(* The jobs run on a pool of blocking threads. A future wakes the task when *)
(* its job ends, if it was polled before.                                   *)

Wakes(future) == woken \/ future \in wakers
JobsRun == FastJobs[BlockTime] \/ task # "loop"

\* execute_transactions holds its executor's write lock while it runs.
Locked(g) == exec.st = "running" /\ exec.on = g
BlockFull(e) == e.used >= BlockCap[BlockTime]

ExecStart ==
    /\ JobsRun
    /\ exec.st = "spawned"
    /\ exec' = [exec EXCEPT !.st = "running"]
    /\ UNCHANGED <<poolVars, producerVars, executors, mining, blockVars,
                   taskVars, forceVars>>

Executed(e, x) == [e EXCEPT !.txs = Append(@, x), !.used = @ + 1]

ExecSuccess ==
    /\ JobsRun
    /\ exec.st = "running" /\ exec.todo # <<>>
    /\ ~BlockFull(executors[exec.on])
    /\ LET x == Head(exec.todo)
       IN  /\ executors' = [executors EXCEPT ![exec.on] = Executed(@, x)]
           /\ exec' = [exec EXCEPT !.todo = Tail(@), !.results = @ \union {x}]
    /\ UNCHANGED <<poolVars, producerVars, mining, blockVars, taskVars,
                   forceVars>>

\* ExecutionResult::Failed: the transaction never gets into a block.
ExecFailure ==
    /\ JobsRun
    /\ exec.st = "running" /\ exec.todo # <<>>
    /\ exec' = [exec EXCEPT !.todo = Tail(@)]
    /\ UNCHANGED <<poolVars, producerVars, executors, mining, blockVars,
                   taskVars, forceVars>>

\* The job ends: everything is executed, or LimitsExhausted was returned and
\* what has not been executed is split off, or there was an error.
ExecEnd ==
    /\ JobsRun
    /\ exec.st = "running"
    /\ \/ /\ exec.todo = <<>>
          /\ exec' = [exec EXCEPT !.st = "done"]
       \/ /\ exec.todo # <<>> /\ BlockFull(executors[exec.on])
          /\ exec' = [exec EXCEPT !.st = "done", !.full = TRUE]
       \/ /\ JobsMayFail
          /\ exec' = [exec EXCEPT !.st = "failed"]
    /\ woken' = Wakes("exec")
    /\ wakers' = wakers \ {"exec"}
    /\ UNCHANGED <<poolVars, producerVars, executors, mining, blockVars, task,
                   forceVars>>

-----------------------------------------------------------------------------
(* do_mine, in the background job and in force_mine.                        *)

\* Backend::do_mine_block stores the block under the number of the block env;
\* the provider overwrites what it has under that number.
Store(c, n, block) ==
    IF n > Len(c) THEN Append(c, block) ELSE [c EXCEPT ![n] = block]

\* take_execution_output empties the executor; what was used of the limit stays.
Taken(g) ==
    [executors EXCEPT ![g] = [number |-> @.number, txs |-> <<>>,
                              used |-> @.used, taken |-> TRUE]]

\* The block after the tip of c is opened on a new executor, the validator is
\* pointed at it and the permit, which has no guard, is unlocked.
OpenBlockStaleValidator(es, c) ==
    /\ executors' = Append(es, NewExecutor(c))
    /\ validator' = validator
    /\ permit' = "free"
OpenBlockKeepsPermit(es, c) ==
    /\ executors' = Append(es, NewExecutor(c))
    /\ validator' = Len(es) + 1
    /\ permit' = permit
OpenBlock(es, c) ==
    /\ executors' = Append(es, NewExecutor(c))
    /\ validator' = Len(es) + 1
    /\ permit' = "free"

\* The permit is locked through its raw lock: there is no guard that would
\* unlock it.
MineUnlocked ==
    /\ JobsRun
    /\ mining.st = "spawned"
    /\ mining' = [mining EXCEPT !.st = "locked"]
    /\ UNCHANGED <<poolVars, producerVars, executors, exec, blockVars, taskVars,
                   forceVars>>
MineLock ==
    /\ JobsRun
    /\ mining.st = "spawned" /\ permit = "free"
    /\ permit' = "job"
    /\ mining' = [mining EXCEPT !.st = "locked"]
    /\ UNCHANGED <<poolVars, producerVars, executors, exec, validator, chain,
                   taskVars, forceVars>>

MineBlock ==
    /\ JobsRun
    /\ mining.st = "locked" /\ ~Locked(mining.on)
    /\ executors' = Taken(mining.on)
    /\ \/ /\ chain' = Store(chain, executors[mining.on].number,
                            executors[mining.on].txs)
          /\ mining' = [mining EXCEPT !.st = "done",
                                      !.txs = Elems(executors[mining.on].txs)]
       \/ /\ JobsMayFail
          /\ \/ mining' = [mining EXCEPT !.st = "done", !.ok = FALSE]
             \/ mining' = [mining EXCEPT !.st = "failed"]
          /\ UNCHANGED chain
    /\ woken' = Wakes("mining")
    /\ wakers' = wakers \ {"mining"}
    /\ UNCHANGED <<poolVars, producerVars, exec, permit, validator, task,
                   forceVars>>

\* Time passes: the tick of the interval comes due.
Tick ==
    /\ timer = "running"
    /\ timer' = "ready"
    /\ woken' = Wakes("timer")
    /\ wakers' = wakers \ {"timer"}
    /\ UNCHANGED <<poolVars, queued, full, notified, executors, exec, mining,
                   blockVars, task, forceVars>>

-----------------------------------------------------------------------------
(* BlockProductionTask::poll. It polls the producer until it is pending,    *)
(* then moves what the pool's stream yields into the backlog, and goes to   *)
(* sleep when there is nothing. poll_next and queue take the producer's     *)
(* write lock; poll_next holds it until it returns (task = "loop").         *)

Wake ==
    /\ task = "asleep" /\ woken
    /\ task' = "poll"
    /\ woken' = FALSE
    /\ UNCHANGED <<poolVars, producerVars, executors, exec, mining, blockVars,
                   wakers, forceVars>>

\* Spawns the execution of the backlog on the current executor and starts the
\* interval, if the producer is neither executing nor mining.
MaySpawn(e, m) == queued # <<>> /\ e.st = "none" /\ m.st = "none"
SpawnNoTimer(e, m, t) ==
    /\ exec' = IF MaySpawn(e, m)
               THEN [NoExec EXCEPT !.st = "spawned", !.on = current, !.todo = queued]
               ELSE e
    /\ queued' = IF MaySpawn(e, m) THEN <<>> ELSE queued
    /\ timer' = t
Spawn(e, m, t) ==
    IF MaySpawn(e, m)
    THEN /\ exec' = [NoExec EXCEPT !.st = "spawned", !.on = current,
                                   !.todo = queued]
         /\ queued' = <<>>
         /\ timer' = IF t = "none" THEN "running" ELSE t
    ELSE exec' = e /\ queued' = queued /\ timer' = t

\* poll_next up to its loop: the block is closed if its interval is over or it
\* is full and no block is being mined; the timer goes with it. A timer that
\* was polled and is not due holds the waker.
PollNext ==
    /\ task = "poll" /\ force = "idle"
    /\ LET closes == mining.st = "none" /\ (timer = "ready" \/ full)
           m == IF closes
                THEN [NoMining EXCEPT !.st = "spawned", !.on = current]
                ELSE mining
           t == CASE closes /\ BlockTime -> "none"
                  [] ~closes /\ timer = "ready" -> "running"
                  [] OTHER -> timer
       IN  /\ mining' = m
           /\ full' = (full /\ ~closes)
           /\ wakers' = IF timer = "running" /\ ~closes
                        THEN wakers \union {"timer"} ELSE wakers \ {"timer"}
           /\ Spawn(exec, m, t)
    /\ task' = "loop"
    /\ UNCHANGED <<poolVars, notified, executors, blockVars, woken, forceVars>>

\* notify_listener: what the listeners have been told, whether or not a
\* channel had room.
Announced == notified \union exec.results

\* The execution is done and nothing is left over: the listeners are told and
\* the loop goes round, which may spawn the backlog.
LoopExecuted ==
    /\ task = "loop"
    /\ exec.st = "done" /\ ~exec.full
    /\ notified' = Announced
    /\ Spawn(NoExec, mining, timer)
    /\ UNCHANGED <<poolVars, full, executors, mining, blockVars, taskVars,
                   forceVars>>

\* The execution job failed: poll_next, and the task, return the error.
LoopFailed ==
    /\ task = "loop"
    /\ exec.st = "failed"
    /\ exec' = NoExec
    /\ task' = "dead"
    /\ UNCHANGED <<poolVars, producerVars, executors, mining, blockVars, woken,
                   wakers, forceVars>>

\* What the loop does before poll_next turns to the mining future: it leaves a
\* pending execution with the task's waker; of a full block, it puts what is
\* left over back in front of the backlog and has itself polled again.
LeftOver == exec.st = "done" /\ exec.full
Pending(job) == job.st \notin {"none", "done", "failed"}
LoopLeavesBehind ==
    /\ task = "loop"
    /\ exec.st = "none" \/ Pending(exec) \/ LeftOver
    /\ exec' = IF LeftOver THEN NoExec ELSE exec
    /\ queued' = IF LeftOver THEN queued \o exec.todo ELSE queued
    /\ woken' = (woken \/ LeftOver)
LoopLeaves ==
    /\ task = "loop"
    /\ exec.st = "none" \/ Pending(exec) \/ LeftOver
    /\ exec' = IF LeftOver THEN NoExec ELSE exec
    /\ queued' = IF LeftOver THEN exec.todo \o queued ELSE queued
    /\ woken' = (woken \/ LeftOver)

PollPending ==
    /\ LoopLeaves
    /\ mining.st = "none" \/ Pending(mining)
    /\ full' = (full \/ LeftOver)
    /\ wakers' = wakers \union {f \in {"exec", "mining"} :
                     Pending(IF f = "exec" THEN exec ELSE mining)}
    /\ task' = "miner"
    /\ UNCHANGED <<poolVars, timer, notified, executors, mining, blockVars,
                   forceVars>>

\* The task removes the transactions of a mined block from the pool.
RemoveNothing == pool' = pool
RemoveMined == pool' = pool \ mining.txs

\* It goes on polling until the producer is pending, unless there is an error.
ContinueOnce == IF mining.ok THEN "miner" ELSE "dead"
Continue == IF mining.ok THEN "poll" ELSE "dead"

\* The mining job is done: the next block is opened, also when do_mine returned
\* an error; the task then handles the outcome.
PollMined ==
    /\ LoopLeaves
    /\ mining.st = "done"
    /\ full' = FALSE
    /\ mining' = NoMining
    /\ OpenBlock(executors, chain)
    /\ RemoveMined
    /\ task' = Continue
    /\ wakers' = IF Pending(exec) THEN wakers \union {"exec"} ELSE wakers
    /\ UNCHANGED <<accepted, incoming, timer, notified, chain, forceVars>>

\* The mining job panicked, or the next block could not be opened: the task
\* ends and the permit stays locked.
PollLost ==
    /\ LoopLeaves
    /\ mining.st = "failed" \/ (mining.st = "done" /\ JobsMayFail)
    /\ full' = (full \/ LeftOver)
    /\ mining' = NoMining
    /\ task' = "dead"
    /\ UNCHANGED <<poolVars, timer, notified, executors, blockVars, wakers,
                   forceVars>>

\* TransactionMiner::poll and BlockProducer::queue.
Queue ==
    /\ task = "miner" /\ incoming # <<>> /\ force = "idle"
    /\ queued' = queued \o incoming
    /\ incoming' = <<>>
    /\ task' = "poll"
    /\ UNCHANGED <<accepted, pool, timer, full, notified, executors, exec,
                   mining, blockVars, woken, wakers, forceVars>>

Sleep ==
    /\ task = "miner" /\ incoming = <<>>
    /\ task' = "asleep"
    /\ UNCHANGED <<poolVars, producerVars, executors, exec, mining, blockVars,
                   woken, wakers, forceVars>>

-----------------------------------------------------------------------------
(* force_mine takes the producer's write lock and does not look at          *)
(* ongoing_mining. Its outcome is only logged: nothing leaves the pool and  *)
(* no listener is told.                                                     *)

ForceStart ==
    /\ force = "idle" /\ forced < MaxForce[BlockTime] /\ task # "loop"
    /\ force' = "waiting"
    /\ forced' = forced + 1
    /\ UNCHANGED <<poolVars, producerVars, executors, exec, mining, blockVars,
                   taskVars>>

ForceLock ==
    /\ force = "waiting" /\ permit = "free"
    /\ permit' = "force"
    /\ force' = "mining"
    /\ UNCHANGED <<poolVars, producerVars, executors, exec, mining, validator,
                   chain, taskVars, forced>>

\* On an error, or a panic when the next block cannot be opened, the permit is
\* not given back.
ForceMine ==
    /\ force = "mining" /\ ~Locked(current)
    /\ force' = "idle"
    /\ \/ /\ chain' = Store(chain, executors[current].number,
                            executors[current].txs)
          /\ OpenBlock(Taken(current), chain')
       \/ /\ JobsMayFail
          /\ executors' = Taken(current)
          /\ \/ UNCHANGED chain
             \/ chain' = Store(chain, executors[current].number,
                               executors[current].txs)
          /\ UNCHANGED <<permit, validator>>
    /\ UNCHANGED <<poolVars, producerVars, exec, mining, taskVars, forced>>

-----------------------------------------------------------------------------
Execution == ExecStart \/ ExecSuccess \/ ExecFailure \/ ExecEnd
Mining == MineLock \/ MineBlock
TaskStep ==
    \/ Wake \/ PollNext
    \/ LoopExecuted \/ LoopFailed
    \/ PollPending \/ PollMined \/ PollLost
    \/ Queue \/ Sleep
ForceSteps == ForceStart \/ ForceLock \/ ForceMine

Next == Accept \/ Execution \/ Mining \/ Tick \/ TaskStep \/ ForceSteps

Spec == Init /\ [][Next]_vars

\* The runtime polls a task that was woken, the blocking pool runs every job,
\* time passes, and an RPC thread in force_mine goes on when it can.
Fairness ==
    /\ WF_vars(TaskStep) /\ WF_vars(Tick)
    /\ WF_vars(Execution)
    /\ WF_vars(MineLock) /\ WF_vars(MineBlock)
    /\ WF_vars(ForceLock) /\ WF_vars(ForceMine)

FairSpec == Spec /\ Fairness

-----------------------------------------------------------------------------
(* Properties.                                                              *)

Mined == UNION {Elems(chain[n]) : n \in DOMAIN chain}

Tx == Nat \ {0}
Timer == {"off", "none", "running", "ready"}
Executor == [number: Tx, txs: Seq(Tx), used: Nat, taken: BOOLEAN]
ExecJob == [st: {"none", "spawned", "running", "done", "failed"}, on: Nat,
            todo: Seq(Tx), results: SUBSET Tx, full: BOOLEAN]
MineJob == [st: {"none", "spawned", "locked", "done", "failed"}, on: Nat,
            ok: BOOLEAN, txs: SUBSET Tx]

PoolType == accepted \in Nat /\ incoming \in Seq(Tx) /\ pool \in SUBSET Tx
BacklogType ==
    /\ queued \in Seq(Tx) /\ timer \in Timer
    /\ full \in BOOLEAN /\ notified \in SUBSET Tx
ExecutorsType == executors \in Seq(Executor) /\ executors # <<>>
ExecType == exec \in ExecJob /\ (exec.st # "none" => exec.on \in DOMAIN executors)
MiningType ==
    mining \in MineJob /\ (mining.st # "none" => mining.on \in DOMAIN executors)
BlockType ==
    /\ permit \in {"free", "job", "force"}
    /\ validator \in DOMAIN executors
    /\ chain \in Seq(Seq(Tx))
NumberType == \A g \in DOMAIN executors : executors[g].number <= Len(chain) + 1
TaskType ==
    /\ task \in {"asleep", "poll", "loop", "miner", "dead"}
    /\ woken \in BOOLEAN /\ wakers \subseteq {"exec", "mining", "timer"}
ForceType == force \in {"idle", "waiting", "mining"} /\ forced \in Nat

\* Every variable keeps its type, jobs refer to executors that exist, and an
\* executor is for a block of the chain or for the one after its tip.
TypeInv ==
    /\ PoolType /\ BacklogType /\ ExecutorsType /\ ExecType /\ MiningType
    /\ BlockType /\ NumberType /\ TaskType /\ ForceType

\* "the validator needs to always be built against the state of the block
\* producer": whenever validate can get the permit, the validator reads the
\* executor that runs the next transactions, and that executor is for the block
\* after the last stored one and has not been closed. The permit is what hides
\* the time between the storing of a block and the opening of the next.
ValidatorInSync ==
    permit = "free" =>
        /\ validator = current
        /\ executors[validator].number = Len(chain) + 1
        /\ ~executors[validator].taken

\* The permit is locked and unlocked by hand, in different functions, on
\* different threads: whoever stores a block and has not opened the next one
\* still holds it, and it is not unlocked under force_mine by the poll that
\* finishes the mining job, nor the other way round.
PermitHeld ==
    /\ mining.st \in {"locked", "done", "failed"} => permit = "job"
    /\ force = "mining" => permit = "force"

\* A force_mine that failed closed its block, opened none and kept the permit.
PermitLost == permit = "force" /\ force # "mining" /\ executors[current].taken

\* An error ends the block production task, or leaves the permit locked; until then:
Failed == task = "dead" \/ PermitLost

\* Every accepted transaction is eventually executed: it does not stay in the
\* pool's stream, the backlog or a job that was given it.
Waiting == Elems(incoming) \union Elems(queued) \union Elems(exec.todo)
EventuallyExecuted ==
    \A x \in 1 .. MaxTxs : x \in Waiting ~> (x \notin Waiting \/ Failed)

\* The comment at the call of remove_transactions: mined transactions are
\* removed from the pool (when they are mined by force_mine, they stay).
MinedLeavePool ==
    \A x \in 1 .. MaxTxs : (BlockTime /\ x \in Mined) ~> (x \notin pool \/ Failed)

\* "The block is closed after the interval is over": with an interval, a
\* transaction that was executed before the block was closed is eventually in a
\* stored block.
OpenBlockCloses ==
    \A x \in 1 .. MaxTxs :
        (BlockTime /\ x \in Elems(executors[current].txs) /\ ~executors[current].taken)
            ~> (x \in Mined \/ Failed)

\* force_mine returns, however executions and earlier calls fall, unless an earlier
\* call failed while it held the permit (the error path of force_mine).
ForceMineReturns == force # "idle" ~> (force = "idle" \/ PermitLost)

\* Whoever waits for the permit gets it: it is always given back.
PermitReleased == permit # "free" ~> (permit = "free" \/ Failed)

\* The producer implements the promise of every mining mode.
L == INSTANCE Ledger WITH accepted <- accepted, chain <- chain
ImplementsLedger == L!Spec
=============================================================================
