----------------------- MODULE IntervalProducerProofs -----------------------
(***************************************************************************)
(* The validator of an interval-mining node reads the open block whenever  *)
(* it can be used: with and without an interval, for any number of         *)
(* transactions and of force_mine calls, and also when jobs fail.  And,    *)
(* where mining jobs and force_mine do not close blocks side by side, the  *)
(* producer implements Ledger: transactions are mined in the order of their *)
(* acceptance, none of them twice, in a chain that only grows.             *)
(***************************************************************************)
EXTENDS IntervalProducer, TLAPS

-----------------------------------------------------------------------------
(* The operators the producer is built from.                                *)

\* What a sequence holds comes from the set the sequence is over.
LEMMA ElemsType ==
    ASSUME NEW S, NEW s \in Seq(S)
    PROVE  Elems(s) \in SUBSET S
BY DEF Elems

\* A new executor is for the block after the tip of the chain.
LEMMA NewExecutorType ==
    ASSUME NEW c \in Seq(Seq(Tx))
    PROVE  /\ NewExecutor(c) \in Executor
           /\ NewExecutor(c).number = Len(c) + 1
           /\ ~NewExecutor(c).taken
BY DEF NewExecutor, NextNumber, Executor, Tx

\* Taking the output of an executor changes neither how many there are nor the
\* block an executor is for.
LEMMA TakenType ==
    ASSUME ExecutorsType, NEW g \in DOMAIN executors
    PROVE  /\ Taken(g) \in Seq(Executor)
           /\ Len(Taken(g)) = Len(executors)
           /\ \A h \in DOMAIN executors : Taken(g)[h].number = executors[h].number
<1> DEFINE e == [number |-> executors[g].number, txs |-> <<>>,
               used |-> executors[g].used, taken |-> TRUE]
<1>1. executors[g] \in Executor
  BY DEF ExecutorsType
<1>2. e \in Executor
  BY <1>1 DEF Executor
<1>3. Taken(g) = [executors EXCEPT ![g] = e]
  BY DEF Taken
<1> HIDE DEF e
<1>4. Taken(g) \in Seq(Executor) /\ Len(Taken(g)) = Len(executors)
  BY <1>2, <1>3 DEF ExecutorsType
<1>5. e.number = executors[g].number
  BY DEF e
<1>6. \A h \in DOMAIN executors : Taken(g)[h].number = executors[h].number
  BY <1>3, <1>5 DEF ExecutorsType
<1> QED
  BY <1>4, <1>6

\* Nor does adding an executed transaction to an executor; and it stays open.
LEMMA ExecutedType ==
    ASSUME ExecutorsType, NEW g \in DOMAIN executors, NEW x \in Tx
    PROVE  LET es == [executors EXCEPT ![g] = Executed(@, x)]
           IN  /\ es \in Seq(Executor) /\ Len(es) = Len(executors)
               /\ \A h \in DOMAIN executors :
                     /\ es[h].number = executors[h].number
                     /\ es[h].taken = executors[h].taken
<1> DEFINE e == Executed(executors[g], x)
<1>1. executors[g] \in Executor
  BY DEF ExecutorsType
<1>2. Append(executors[g].txs, x) \in Seq(Tx) /\ executors[g].used + 1 \in Nat
  BY <1>1 DEF Executor
<1>3. e \in Executor
  BY <1>1, <1>2 DEF Executor, Executed
<1>4. e.number = executors[g].number /\ e.taken = executors[g].taken
  BY <1>1 DEF Executor, Executed
<1> HIDE DEF e
<1>5. /\ [executors EXCEPT ![g] = e] \in Seq(Executor)
      /\ Len([executors EXCEPT ![g] = e]) = Len(executors)
      /\ \A h \in DOMAIN executors :
            /\ [executors EXCEPT ![g] = e][h].number = executors[h].number
            /\ [executors EXCEPT ![g] = e][h].taken = executors[h].taken
  BY <1>3, <1>4 DEF ExecutorsType
<1> QED
  BY <1>5 DEF e

\* Storing a block under the number of an executor never shortens the chain.
LEMMA StoreType ==
    ASSUME NEW c \in Seq(Seq(Tx)), NEW n \in Tx, NEW b \in Seq(Tx),
           n <= Len(c) + 1
    PROVE  Store(c, n, b) \in Seq(Seq(Tx)) /\ Len(Store(c, n, b)) >= Len(c)
<1>1. CASE n > Len(c)
  BY <1>1 DEF Store
<1>2. CASE n <= Len(c)
  <2>1. n \in 1 .. Len(c)
    BY <1>2 DEF Tx
  <2>2. [c EXCEPT ![n] = b] \in Seq(Seq(Tx)) /\ Len([c EXCEPT ![n] = b]) = Len(c)
    BY <2>1
  <2>3. Store(c, n, b) = [c EXCEPT ![n] = b]
    BY <2>1 DEF Store
  <2> QED
    BY <2>2, <2>3
<1> QED
  BY <1>1, <1>2 DEF Tx

\* Spawning keeps the job, the backlog and the timer well formed.
LEMMA SpawnType ==
    ASSUME BacklogType, ExecutorsType,
           NEW e \in ExecJob, e.st # "none" => e.on \in DOMAIN executors,
           NEW m, NEW t \in Timer, Spawn(e, m, t)
    PROVE  /\ exec' \in ExecJob /\ (exec'.st # "none" => exec'.on \in DOMAIN executors)
           /\ queued' \in Seq(Tx) /\ timer' \in Timer
<1>1. CASE MaySpawn(e, m)
  <2>1. exec' = [st |-> "spawned", on |-> current, todo |-> queued,
                 results |-> {}, full |-> FALSE]
    BY <1>1 DEF Spawn, NoExec
  <2>2. current \in Nat /\ current \in DOMAIN executors
    BY DEF current, ExecutorsType
  <2>3. queued \in Seq(Tx)
    BY DEF BacklogType
  <2>4. exec' \in ExecJob
    BY <2>1, <2>2, <2>3 DEF ExecJob
  <2>5. queued' \in Seq(Tx) /\ timer' \in Timer
    BY <1>1 DEF Spawn, Timer
  <2> QED
    BY <2>1, <2>2, <2>4, <2>5
<1>2. CASE ~MaySpawn(e, m)
  BY <1>2 DEF Spawn, BacklogType
<1> QED
  BY <1>1, <1>2

-----------------------------------------------------------------------------
(* What each actor leaves alone.                                            *)

\* The execution job touches its executor and wakes the task.
LEMMA ExecutionFrame ==
    Execution => UNCHANGED <<poolVars, producerVars, mining, blockVars, task, forceVars>>
<1> DEFINE Frame == UNCHANGED <<poolVars, producerVars, mining, blockVars, task,
                                forceVars>>
<1>1. ExecStart => Frame
  BY DEF ExecStart, taskVars
<1>2. ExecSuccess => Frame
  BY DEF ExecSuccess, taskVars
<1>3. ExecFailure => Frame
  BY DEF ExecFailure, taskVars
<1>4. ExecEnd => Frame
  BY DEF ExecEnd
<1> HIDE DEF Frame
<1>5. Execution => Frame
  BY <1>1, <1>2, <1>3, <1>4 DEF Execution
<1> QED
  BY <1>5 DEF Frame

\* The mining job stores a block under the permit and wakes the task.
LEMMA MiningFrame ==
    Mining => UNCHANGED <<poolVars, producerVars, exec, validator, task, forceVars>>
BY DEF Mining, MineLock, MineBlock, blockVars, taskVars

\* force_mine does not touch the jobs, the pool or the backlog.
LEMMA ForceStepsFrame ==
    ForceSteps => UNCHANGED <<poolVars, producerVars, exec, mining, taskVars>>
BY DEF ForceSteps, ForceStart, ForceLock, ForceMine

\* Leaving the loop keeps the job and the backlog well formed.
LEMMA LoopLeavesType ==
    ASSUME BacklogType, ExecType, TaskType, LoopLeaves
    PROVE  /\ exec' \in ExecJob /\ (exec'.st # "none" => exec'.on \in DOMAIN executors)
           /\ queued' \in Seq(Tx) /\ woken' \in BOOLEAN
<1>1. exec.todo \in Seq(Tx)
  BY DEF ExecType, ExecJob
<1>2. NoExec \in ExecJob /\ NoExec.st = "none"
  BY DEF NoExec, ExecJob
<1>3. queued' \in Seq(Tx)
  BY <1>1 DEF LoopLeaves, BacklogType
<1>4. exec' \in ExecJob /\ (exec'.st # "none" => exec'.on \in DOMAIN executors)
  BY <1>2 DEF LoopLeaves, ExecType
<1>5. woken' \in BOOLEAN
  BY DEF LoopLeaves
<1> QED
  BY <1>3, <1>4, <1>5

-----------------------------------------------------------------------------
(* The types, one lemma for each group of variables.                        *)

\* The producer starts in a state of its type.
LEMMA InitType == Init => TypeInv
<1> SUFFICES ASSUME Init PROVE TypeInv
    OBVIOUS
<1>1. NewExecutor(<<>>) \in Executor /\ NewExecutor(<<>>).number = 1
  BY DEF NewExecutor, NextNumber, Executor, Tx
<1>2. PoolType
  BY DEF Init, PoolType
<1>3. BacklogType
  <2>1. full \in BOOLEAN
    BY DEF Init
  <2>2. /\ queued \in Seq(Tx) /\ timer \in Timer
        /\ notified \in SUBSET Tx
    BY DEF Init, Timer
  <2> QED
    BY <2>1, <2>2 DEF BacklogType
<1>4. ExecutorsType
  BY <1>1 DEF Init, ExecutorsType
<1>5. ExecType
  BY DEF Init, ExecType, NoExec, ExecJob
<1>6. MiningType
  BY DEF Init, MiningType, NoMining, MineJob
<1>7. BlockType
  BY DEF Init, BlockType
<1>8. NumberType
  BY <1>1 DEF Init, NumberType
<1>9. TaskType
  BY DEF Init, TaskType
<1>10. ForceType
  BY DEF Init, ForceType
<1> QED
  BY <1>2, <1>3, <1>4, <1>5, <1>6, <1>7, <1>8, <1>9, <1>10 DEF TypeInv

\* Transactions come into the pool with their numbers and leave it with a
\* block.
LEMMA PoolStep == TypeInv /\ [Next]_vars => PoolType'
<1> SUFFICES ASSUME TypeInv, [Next]_vars PROVE PoolType'
    OBVIOUS
<1>0. PoolType /\ MiningType
  BY DEF TypeInv
<1>1. CASE Accept
  BY <1>0, <1>1 DEF Accept, PoolType, Tx
<1>2. CASE Queue
  BY <1>0, <1>2 DEF Queue, PoolType
<1>3. CASE PollMined
  BY <1>0, <1>3 DEF PollMined, RemoveMined, PoolType, MiningType, MineJob
<1>4. CASE UNCHANGED poolVars
  BY <1>0, <1>4 DEF PoolType, poolVars
<1>5. ASSUME Tick \/ Wake \/ PollNext \/ LoopExecuted \/ LoopFailed \/
              PollPending \/ PollLost \/ Sleep
       PROVE  UNCHANGED poolVars
  BY <1>5
     DEF Tick, Wake, PollNext, LoopExecuted, LoopFailed, PollPending, PollLost,
         Sleep
<1>6. CASE UNCHANGED vars
  BY <1>6, <1>4 DEF vars
<1> QED
  BY <1>1, <1>2, <1>3, <1>4, <1>5, <1>6, ExecutionFrame, MiningFrame,
     ForceStepsFrame
     DEF Next, TaskStep

\* The backlog takes what comes in and what is left over, and the timer runs.
LEMMA BacklogStep == TypeInv /\ [Next]_vars => BacklogType'
<1> SUFFICES ASSUME TypeInv, [Next]_vars PROVE BacklogType'
    OBVIOUS
<1>0. BacklogType /\ PoolType /\ ExecutorsType /\ ExecType /\ TaskType
  BY DEF TypeInv
<1>1. CASE PollNext
  <2> DEFINE closes == mining.st = "none" /\ (timer = "ready" \/ full)
             m == IF closes
                  THEN [NoMining EXCEPT !.st = "spawned", !.on = current]
                  ELSE mining
             t == CASE closes /\ BlockTime -> "none"
                    [] ~closes /\ timer = "ready" -> "running"
                    [] OTHER -> timer
  <2>1. Spawn(exec, m, t) /\ full' = (full /\ ~closes) /\ notified' = notified
    BY <1>1 DEF PollNext
  <2>2. t \in Timer
    BY <1>0 DEF BacklogType, Timer
  <2> HIDE DEF closes, m, t
  <2>3. queued' \in Seq(Tx) /\ timer' \in Timer
    BY <1>0, <2>1, <2>2, SpawnType DEF ExecType
  <2>4. full' \in BOOLEAN
    BY <2>1
  <2>5. notified' \in SUBSET Tx
    BY <1>0, <2>1 DEF BacklogType
  <2> QED
    BY <2>3, <2>4, <2>5 DEF BacklogType
<1>2. CASE LoopExecuted
  <2>1. NoExec \in ExecJob /\ NoExec.st = "none"
    BY DEF NoExec, ExecJob
  <2>2. timer \in Timer
    BY <1>0 DEF BacklogType
  <2>3. queued' \in Seq(Tx) /\ timer' \in Timer
    BY <1>0, <1>2, <2>1, <2>2, SpawnType DEF LoopExecuted
  <2>4. notified' \in SUBSET Tx
    BY <1>0, <1>2 DEF LoopExecuted, Announced, BacklogType, ExecType, ExecJob
  <2>5. full' \in BOOLEAN
    BY <1>0, <1>2 DEF LoopExecuted, BacklogType
  <2> QED
    BY <2>3, <2>4, <2>5 DEF BacklogType
<1>3. CASE PollPending
  BY <1>0, <1>3, LoopLeavesType DEF PollPending, BacklogType
<1>4. CASE PollMined
  BY <1>0, <1>4, LoopLeavesType DEF PollMined, BacklogType
<1>5. CASE PollLost
  BY <1>0, <1>5, LoopLeavesType DEF PollLost, BacklogType
<1>6. CASE Queue
  BY <1>0, <1>6 DEF Queue, BacklogType, PoolType
<1>7. CASE Tick
  BY <1>0, <1>7 DEF Tick, BacklogType, Timer
<1>8. CASE UNCHANGED producerVars
  BY <1>0, <1>8 DEF BacklogType, producerVars
<1>9. ASSUME Accept \/ Wake \/ LoopFailed \/ Sleep
       PROVE  UNCHANGED producerVars
  BY <1>9
     DEF Accept, Wake, LoopFailed, Sleep
<1>10. CASE UNCHANGED vars
  BY <1>10, <1>8 DEF vars
<1> QED
  BY <1>1, <1>2, <1>3, <1>4, <1>5, <1>6, <1>7, <1>8, <1>9, <1>10,
     ExecutionFrame, MiningFrame, ForceStepsFrame
     DEF Next, TaskStep

\* Storing the block of an executor gives a chain that is not shorter.
LEMMA StoredChain ==
    ASSUME ExecutorsType, BlockType, NumberType, NEW g \in DOMAIN executors
    PROVE  /\ Store(chain, executors[g].number, executors[g].txs) \in Seq(Seq(Tx))
           /\ Len(Store(chain, executors[g].number, executors[g].txs)) >= Len(chain)
<1>0. executors[g] \in Executor
  BY DEF ExecutorsType
<1>1. executors[g].number \in Tx /\ executors[g].txs \in Seq(Tx)
  BY <1>0 DEF Executor
<1>2. chain \in Seq(Seq(Tx)) /\ executors[g].number <= Len(chain) + 1
  BY DEF BlockType, NumberType
<1> QED
  BY <1>1, <1>2, StoreType

\* The number of an executor's block is a number.
LEMMA NumberNat ==
    ASSUME ExecutorsType PROVE \A h \in DOMAIN executors : executors[h].number \in Nat
<1> SUFFICES ASSUME NEW h \in DOMAIN executors PROVE executors[h].number \in Nat
    OBVIOUS
<1>1. executors[h] \in Executor
  BY DEF ExecutorsType
<1> QED
  BY <1>1 DEF Executor, Tx

\* Executors are only ever added.
Grows == Len(executors') >= Len(executors)

\* Executors stay well formed, and none disappears.
LEMMA ExecutorsStep == TypeInv /\ [Next]_vars => ExecutorsType' /\ Grows
<1> SUFFICES ASSUME TypeInv, [Next]_vars PROVE ExecutorsType' /\ Grows
    OBVIOUS
<1>0. ExecutorsType /\ ExecType /\ MiningType /\ BlockType /\ NumberType
  BY DEF TypeInv
<1>1. CASE ExecSuccess
  <2>1. exec.on \in DOMAIN executors /\ Head(exec.todo) \in Tx
    BY <1>0, <1>1 DEF ExecSuccess, ExecType, ExecJob
  <2>2. executors' = [executors EXCEPT ![exec.on] = Executed(@, Head(exec.todo))]
    BY <1>1 DEF ExecSuccess
  <2> QED
    BY <1>0, <2>1, <2>2, ExecutedType DEF ExecutorsType, Grows
<1>2. CASE MineBlock
  <2>1. mining.on \in DOMAIN executors
    BY <1>0, <1>2 DEF MineBlock, MiningType
  <2> QED
    BY <1>0, <1>2, <2>1, TakenType DEF MineBlock, ExecutorsType, Grows
<1>3. CASE PollMined
  BY <1>0, <1>3, NewExecutorType DEF PollMined, OpenBlock, ExecutorsType, BlockType, Grows
<1>4. CASE ForceMine
  <2>1. current \in DOMAIN executors
    BY <1>0 DEF current, ExecutorsType
  <2>2. Taken(current) \in Seq(Executor) /\ Len(Taken(current)) = Len(executors)
    BY <1>0, <2>1, TakenType
  <2>3. CASE executors' = Taken(current)
    BY <1>0, <2>2, <2>3 DEF ExecutorsType, Grows
  <2>4. CASE /\ chain' = Store(chain, executors[current].number, executors[current].txs)
             /\ OpenBlock(Taken(current), chain')
    <3>1. chain' \in Seq(Seq(Tx))
      BY <1>0, <2>1, <2>4, StoredChain
    <3> QED
      BY <1>0, <2>2, <2>4, <3>1, NewExecutorType DEF OpenBlock, ExecutorsType, Grows
  <2> QED
    BY <1>4, <2>3, <2>4 DEF ForceMine
<1>5. CASE UNCHANGED executors
  BY <1>0, <1>5 DEF Grows, ExecutorsType
<1>6. ASSUME Accept \/ ExecStart \/ ExecFailure \/ ExecEnd \/ MineLock \/ Tick
              \/ Wake \/ PollNext \/ LoopExecuted \/ LoopFailed \/ PollPending
              \/ PollLost \/ Queue \/ Sleep \/ ForceStart \/ ForceLock
       PROVE  UNCHANGED executors
  BY <1>6
     DEF Accept, ExecStart, ExecFailure, ExecEnd, MineLock, Tick, Wake,
         PollNext, LoopExecuted, LoopFailed, PollPending, PollLost, Queue,
         Sleep, ForceStart, ForceLock
<1>7. CASE UNCHANGED vars
  BY <1>7, <1>5 DEF vars
<1> QED
  BY <1>1, <1>2, <1>3, <1>4, <1>5, <1>6, <1>7
     DEF Next, TaskStep, Execution, Mining, ForceSteps

\* The execution job stays well formed and refers to an executor.
LEMMA ExecStep == TypeInv /\ [Next]_vars => ExecType'
<1> SUFFICES ASSUME TypeInv, [Next]_vars PROVE ExecType'
    OBVIOUS
<1>0. BacklogType /\ ExecutorsType /\ ExecType /\ TaskType
  BY DEF TypeInv
<1>1. CASE ExecStart
  BY <1>0, <1>1 DEF ExecStart, ExecType, ExecJob
<1>2. CASE ExecSuccess
  <2>1. /\ exec.on \in DOMAIN executors
        /\ Head(exec.todo) \in Tx /\ Tail(exec.todo) \in Seq(Tx)
    BY <1>0, <1>2 DEF ExecSuccess, ExecType, ExecJob
  <2>2. exec' \in ExecJob /\ exec'.on = exec.on
    BY <1>0, <1>2, <2>1 DEF ExecSuccess, ExecType, ExecJob
  <2>3. DOMAIN executors' = DOMAIN executors
    BY <1>2 DEF ExecSuccess
  <2> QED
    BY <2>1, <2>2, <2>3 DEF ExecType
<1>3. CASE ExecFailure
  <2>1. Tail(exec.todo) \in Seq(Tx)
    BY <1>0, <1>3 DEF ExecFailure, ExecType, ExecJob
  <2> QED
    BY <1>0, <1>3, <2>1 DEF ExecFailure, ExecType, ExecJob
<1>4. CASE ExecEnd
  BY <1>0, <1>4 DEF ExecEnd, ExecType, ExecJob
<1>5. CASE PollNext
  <2> DEFINE closes == mining.st = "none" /\ (timer = "ready" \/ full)
             m == IF closes
                  THEN [NoMining EXCEPT !.st = "spawned", !.on = current]
                  ELSE mining
             t == CASE closes /\ BlockTime -> "none"
                    [] ~closes /\ timer = "ready" -> "running"
                    [] OTHER -> timer
  <2>1. Spawn(exec, m, t) /\ executors' = executors
    BY <1>5 DEF PollNext
  <2>2. t \in Timer
    BY <1>0 DEF BacklogType, Timer
  <2> HIDE DEF closes, m, t
  <2> QED
    BY <1>0, <2>1, <2>2, SpawnType DEF ExecType
<1>6. CASE LoopExecuted
  <2>1. NoExec \in ExecJob /\ NoExec.st = "none"
    BY DEF NoExec, ExecJob
  <2>2. timer \in Timer
    BY <1>0 DEF BacklogType
  <2> QED
    BY <1>0, <1>6, <2>1, <2>2, SpawnType DEF LoopExecuted, ExecType
<1>7. CASE LoopFailed
  BY <1>7 DEF LoopFailed, ExecType, ExecJob, NoExec
<1>8. CASE PollPending
  BY <1>0, <1>8, LoopLeavesType DEF PollPending, ExecType
<1>9. CASE PollMined
  <2>1. /\ exec' \in ExecJob
        /\ exec'.st # "none" => exec'.on \in DOMAIN executors
    BY <1>0, <1>9, LoopLeavesType DEF PollMined
  <2>2. DOMAIN executors \subseteq DOMAIN executors'
    BY <1>0, <1>9, ExecutorsStep DEF PollMined, ExecutorsType, Grows
  <2> QED
    BY <2>1, <2>2 DEF ExecType
<1>10. CASE PollLost
  BY <1>0, <1>10, LoopLeavesType DEF PollLost, ExecType
<1>11. CASE MineBlock
  <2>1. DOMAIN executors \subseteq DOMAIN executors'
    BY <1>0, ExecutorsStep DEF ExecutorsType, Grows
  <2> QED
    BY <1>0, <1>11, <2>1 DEF MineBlock, ExecType
<1>12. CASE ForceMine
  <2>1. DOMAIN executors \subseteq DOMAIN executors'
    BY <1>0, ExecutorsStep DEF ExecutorsType, Grows
  <2> QED
    BY <1>0, <1>12, <2>1 DEF ForceMine, ExecType
<1>13. CASE UNCHANGED <<exec, executors>>
  BY <1>0, <1>13 DEF ExecType
<1>14. ASSUME Accept \/ MineLock \/ Tick \/ Wake \/ Queue \/ Sleep \/
              ForceStart \/ ForceLock
       PROVE  UNCHANGED <<exec, executors>>
  BY <1>14
     DEF Accept, MineLock, Tick, Wake, Queue, Sleep, ForceStart, ForceLock
<1>15. CASE UNCHANGED vars
  BY <1>15, <1>13 DEF vars
<1> QED
  BY <1>1, <1>2, <1>3, <1>4, <1>5, <1>6, <1>7, <1>8, <1>9, <1>10, <1>11, <1>12,
     <1>13, <1>14, <1>15
     DEF Next, TaskStep, Execution, Mining, ForceSteps

\* The mining job stays well formed and refers to an executor.
LEMMA MiningStep == TypeInv /\ [Next]_vars => MiningType'
<1> SUFFICES ASSUME TypeInv, [Next]_vars PROVE MiningType'
    OBVIOUS
<1>0. ExecutorsType /\ MiningType
  BY DEF TypeInv
<1>1. CASE MineLock
  BY <1>0, <1>1 DEF MineLock, MiningType, MineJob
<1>2. CASE MineBlock
  <2>1. mining.on \in DOMAIN executors
    BY <1>0, <1>2 DEF MineBlock, MiningType
  <2>2. Elems(executors[mining.on].txs) \in SUBSET Tx
    <3>1. executors[mining.on] \in Executor
      BY <1>0, <2>1 DEF ExecutorsType
    <3> QED
      BY <3>1, ElemsType DEF Executor
  <2>3. mining' \in MineJob /\ mining'.on = mining.on
    BY <1>0, <1>2, <2>2 DEF MineBlock, MiningType, MineJob
  <2>4. DOMAIN executors \subseteq DOMAIN executors'
    BY <1>0, ExecutorsStep DEF ExecutorsType, Grows
  <2> QED
    BY <2>1, <2>3, <2>4 DEF MiningType
<1>3. CASE PollNext
  <2>1. CASE mining' = mining
    BY <1>0, <1>3, <2>1 DEF PollNext, MiningType
  <2>2. CASE mining' = [NoMining EXCEPT !.st = "spawned", !.on = current]
    <3>1. mining' = [st |-> "spawned", on |-> current, ok |-> TRUE, txs |-> {}]
      BY <2>2 DEF NoMining
    <3>2. current \in Nat /\ current \in DOMAIN executors
      BY <1>0 DEF current, ExecutorsType
    <3>3. executors' = executors
      BY <1>3 DEF PollNext
    <3> QED
      BY <3>1, <3>2, <3>3 DEF MiningType, MineJob
  <2> QED
    BY <1>3, <2>1, <2>2 DEF PollNext
<1>4. CASE PollMined
  BY <1>4 DEF PollMined, MiningType, MineJob, NoMining
<1>5. CASE PollLost
  BY <1>5 DEF PollLost, MiningType, MineJob, NoMining
<1>6. CASE ExecSuccess
  <2>1. DOMAIN executors \subseteq DOMAIN executors'
    BY <1>0, ExecutorsStep DEF ExecutorsType, Grows
  <2> QED
    BY <1>0, <1>6, <2>1 DEF ExecSuccess, MiningType
<1>7. CASE ForceMine
  <2>1. DOMAIN executors \subseteq DOMAIN executors'
    BY <1>0, ExecutorsStep DEF ExecutorsType, Grows
  <2> QED
    BY <1>0, <1>7, <2>1 DEF ForceMine, MiningType
<1>8. CASE UNCHANGED <<mining, executors>>
  BY <1>0, <1>8 DEF MiningType
<1>9. ASSUME Accept \/ ExecStart \/ ExecFailure \/ ExecEnd \/ Tick \/ Wake \/
              LoopExecuted \/ LoopFailed \/ PollPending \/ Queue \/ Sleep \/
              ForceStart \/ ForceLock
       PROVE  UNCHANGED <<mining, executors>>
  BY <1>9
     DEF Accept, ExecStart, ExecFailure, ExecEnd, Tick, Wake, LoopExecuted,
         LoopFailed, PollPending, Queue, Sleep, ForceStart, ForceLock
<1>10. CASE UNCHANGED vars
  BY <1>10, <1>8 DEF vars
<1> QED
  BY <1>1, <1>2, <1>3, <1>4, <1>5, <1>6, <1>7, <1>8, <1>9, <1>10
     DEF Next, TaskStep, Execution, Mining, ForceSteps

\* The permit, the validator and the chain keep their types.
LEMMA BlockStep == TypeInv /\ [Next]_vars => BlockType'
<1> SUFFICES ASSUME TypeInv, [Next]_vars PROVE BlockType'
    OBVIOUS
<1>0. ExecutorsType /\ MiningType /\ BlockType /\ NumberType
  BY DEF TypeInv
<1>1. CASE ExecSuccess
  <2>1. DOMAIN executors \subseteq DOMAIN executors'
    BY <1>0, ExecutorsStep DEF ExecutorsType, Grows
  <2> QED
    BY <1>0, <1>1, <2>1 DEF ExecSuccess, blockVars, BlockType
<1>2. CASE MineLock
  BY <1>0, <1>2 DEF MineLock, BlockType
<1>3. CASE MineBlock
  <2>1. DOMAIN executors \subseteq DOMAIN executors'
    BY <1>0, ExecutorsStep DEF ExecutorsType, Grows
  <2>2. mining.on \in DOMAIN executors
    BY <1>0, <1>3 DEF MineBlock, MiningType
  <2>3. chain' \in Seq(Seq(Tx))
    BY <1>0, <1>3, <2>2, StoredChain DEF MineBlock, BlockType
  <2> QED
    BY <1>0, <1>3, <2>1, <2>3 DEF MineBlock, BlockType
<1>4. CASE PollMined
  BY <1>0, <1>4 DEF PollMined, OpenBlock, ExecutorsType, BlockType
<1>5. CASE ForceLock
  BY <1>0, <1>5 DEF ForceLock, BlockType
<1>6. CASE ForceMine
  <2>1. DOMAIN executors \subseteq DOMAIN executors'
    BY <1>0, ExecutorsStep DEF ExecutorsType, Grows
  <2>2. current \in DOMAIN executors
    BY <1>0 DEF current, ExecutorsType
  <2>3. CASE /\ \/ UNCHANGED chain
                \/ chain' = Store(chain, executors[current].number, executors[current].txs)
             /\ UNCHANGED <<permit, validator>>
    <3>1. chain' \in Seq(Seq(Tx))
      BY <1>0, <2>2, <2>3, StoredChain DEF BlockType
    <3> QED
      BY <1>0, <2>1, <2>3, <3>1 DEF BlockType
  <2>4. CASE /\ chain' = Store(chain, executors[current].number, executors[current].txs)
             /\ OpenBlock(Taken(current), chain')
    <3>1. chain' \in Seq(Seq(Tx))
      BY <1>0, <2>2, <2>4, StoredChain
    <3>2. Taken(current) \in Seq(Executor)
      BY <1>0, <2>2, TakenType
    <3> QED
      BY <2>4, <3>1, <3>2 DEF OpenBlock, BlockType
  <2> QED
    BY <1>6, <2>3, <2>4 DEF ForceMine
<1>7. CASE UNCHANGED <<executors, blockVars>>
  BY <1>0, <1>7 DEF BlockType, blockVars
<1>8. ASSUME Accept \/ ExecStart \/ ExecFailure \/ ExecEnd \/ Tick \/ Wake \/
              PollNext \/ LoopExecuted \/ LoopFailed \/ PollPending \/ PollLost
              \/ Queue \/ Sleep \/ ForceStart
       PROVE  UNCHANGED <<executors, blockVars>>
  BY <1>8
     DEF Accept, ExecStart, ExecFailure, ExecEnd, Tick, Wake, PollNext,
         LoopExecuted, LoopFailed, PollPending, PollLost, Queue, Sleep,
         ForceStart
<1>9. CASE UNCHANGED vars
  BY <1>9, <1>7 DEF vars
<1> QED
  BY <1>1, <1>2, <1>3, <1>4, <1>5, <1>6, <1>7, <1>8, <1>9
     DEF Next, TaskStep, Execution, Mining, ForceSteps

\* An executor stays for a block of the chain or for the next one.
LEMMA NumberStep == TypeInv /\ [Next]_vars => NumberType'
<1> SUFFICES ASSUME TypeInv, [Next]_vars PROVE NumberType'
    OBVIOUS
<1>0. ExecutorsType /\ ExecType /\ MiningType /\ BlockType /\ NumberType
  BY DEF TypeInv
<1>1. CASE ExecSuccess
  <2>1. exec.on \in DOMAIN executors /\ Head(exec.todo) \in Tx
    BY <1>0, <1>1 DEF ExecSuccess, ExecType, ExecJob
  <2>2. /\ executors' = [executors EXCEPT ![exec.on] = Executed(@, Head(exec.todo))]
        /\ chain' = chain
    BY <1>1 DEF ExecSuccess, blockVars
  <2>3. /\ DOMAIN executors' = DOMAIN executors
        /\ \A h \in DOMAIN executors : executors'[h].number = executors[h].number
    BY <1>0, <2>1, <2>2, ExecutedType DEF ExecutorsType
  <2> QED
    BY <1>0, <2>2, <2>3 DEF NumberType
<1>2. CASE MineBlock
  <2>1. mining.on \in DOMAIN executors
    BY <1>0, <1>2 DEF MineBlock, MiningType
  <2>2. Len(chain') >= Len(chain) /\ Len(chain') \in Nat /\ Len(chain) \in Nat
    BY <1>0, <1>2, <2>1, StoredChain DEF MineBlock, BlockType
  <2>3. /\ DOMAIN executors' = DOMAIN executors
        /\ \A h \in DOMAIN executors : executors'[h].number = executors[h].number
    BY <1>0, <1>2, <2>1, TakenType DEF MineBlock, ExecutorsType
  <2>4. \A h \in DOMAIN executors : executors[h].number \in Nat
    BY <1>0, NumberNat
  <2> QED
    BY <1>0, <2>2, <2>3, <2>4 DEF NumberType
<1>3. CASE PollMined
  <2>1. executors' = Append(executors, NewExecutor(chain)) /\ chain' = chain
    BY <1>3 DEF PollMined, OpenBlock
  <2>2. NewExecutor(chain) \in Executor /\ NewExecutor(chain).number = Len(chain) + 1
    BY <1>0, NewExecutorType DEF BlockType
  <2> QED
    BY <1>0, <2>1, <2>2 DEF NumberType, ExecutorsType, BlockType
<1>4. CASE ForceMine
  <2>1. current \in DOMAIN executors
    BY <1>0 DEF current, ExecutorsType
  <2>2. \A h \in DOMAIN executors : executors[h].number \in Nat
    BY <1>0, NumberNat
  <2>3. /\ Taken(current) \in Seq(Executor)
        /\ DOMAIN Taken(current) = DOMAIN executors
        /\ \A h \in DOMAIN executors : Taken(current)[h].number = executors[h].number
    BY <1>0, <2>1, TakenType DEF ExecutorsType
  <2>4. CASE /\ executors' = Taken(current)
             /\ \/ UNCHANGED chain
                \/ chain' = Store(chain, executors[current].number, executors[current].txs)
    <3>1. Len(chain') \in Nat /\ Len(chain) \in Nat /\ Len(chain') >= Len(chain)
      BY <1>0, <2>1, <2>4, StoredChain DEF BlockType
    <3> QED
      BY <1>0, <2>2, <2>3, <2>4, <3>1 DEF NumberType
  <2>5. CASE /\ chain' = Store(chain, executors[current].number, executors[current].txs)
             /\ OpenBlock(Taken(current), chain')
    <3>1. chain' \in Seq(Seq(Tx)) /\ Len(chain') >= Len(chain)
      BY <1>0, <2>1, <2>5, StoredChain
    <3>2. Len(chain') \in Nat /\ Len(chain) \in Nat
      BY <1>0, <3>1 DEF BlockType
    <3>3. \A h \in DOMAIN executors : Taken(current)[h].number <= Len(chain') + 1
      BY <1>0, <2>2, <2>3, <3>1, <3>2 DEF NumberType
    <3>4. NewExecutor(chain').number = Len(chain') + 1
      BY <3>1, NewExecutorType
    <3>5. executors' = Append(Taken(current), NewExecutor(chain'))
      BY <2>5 DEF OpenBlock
    <3> QED
      BY <2>3, <3>2, <3>3, <3>4, <3>5 DEF NumberType
  <2> QED
    BY <1>4, <2>4, <2>5 DEF ForceMine
<1>5. CASE UNCHANGED <<executors, chain>>
  BY <1>0, <1>5 DEF NumberType
<1>6. ASSUME Accept \/ ExecStart \/ ExecFailure \/ ExecEnd \/ MineLock \/ Tick
              \/ Wake \/ PollNext \/ LoopExecuted \/ LoopFailed \/ PollPending
              \/ PollLost \/ Queue \/ Sleep \/ ForceStart \/ ForceLock
       PROVE  UNCHANGED <<executors, chain>>
  BY <1>6
     DEF blockVars, Accept, ExecStart, ExecFailure, ExecEnd, MineLock, Tick,
         Wake, PollNext, LoopExecuted, LoopFailed, PollPending, PollLost,
         Queue, Sleep, ForceStart, ForceLock
<1>7. CASE UNCHANGED vars
  BY <1>7, <1>5 DEF vars, blockVars
<1> QED
  BY <1>1, <1>2, <1>3, <1>4, <1>5, <1>6, <1>7
     DEF Next, TaskStep, Execution, Mining, ForceSteps, blockVars

\* The task, its wake-ups and its wakers keep their types.
LEMMA TaskTypeStep == TypeInv /\ [Next]_vars => TaskType'
<1> SUFFICES ASSUME TypeInv, [Next]_vars PROVE TaskType'
    OBVIOUS
<1>0. BacklogType /\ ExecType /\ TaskType
  BY DEF TypeInv
<1>1. CASE Accept
  <2>1. woken' \in BOOLEAN
    BY <1>0, <1>1 DEF Accept, TaskType
  <2>2. /\ task' \in {"asleep", "poll", "loop", "miner", "dead"}
        /\ wakers' \subseteq {"exec", "mining", "timer"}
    BY <1>0, <1>1 DEF Accept, TaskType
  <2> QED
    BY <2>1, <2>2 DEF TaskType
<1>2. CASE ExecEnd
  <2>1. woken' \in BOOLEAN
    BY <1>0, <1>2 DEF ExecEnd, Wakes, TaskType
  <2>2. /\ task' \in {"asleep", "poll", "loop", "miner", "dead"}
        /\ wakers' \subseteq {"exec", "mining", "timer"}
    BY <1>0, <1>2 DEF ExecEnd, TaskType
  <2> QED
    BY <2>1, <2>2 DEF TaskType
<1>3. CASE MineBlock
  <2>1. woken' \in BOOLEAN
    BY <1>0, <1>3 DEF MineBlock, Wakes, TaskType
  <2>2. /\ task' \in {"asleep", "poll", "loop", "miner", "dead"}
        /\ wakers' \subseteq {"exec", "mining", "timer"}
    BY <1>0, <1>3 DEF MineBlock, TaskType
  <2> QED
    BY <2>1, <2>2 DEF TaskType
<1>4. CASE Tick
  <2>1. woken' \in BOOLEAN
    BY <1>0, <1>4 DEF Tick, Wakes, TaskType
  <2>2. /\ task' \in {"asleep", "poll", "loop", "miner", "dead"}
        /\ wakers' \subseteq {"exec", "mining", "timer"}
    BY <1>0, <1>4 DEF Tick, TaskType
  <2> QED
    BY <2>1, <2>2 DEF TaskType
<1>5. CASE Wake
  <2>1. woken' \in BOOLEAN
    BY <1>0, <1>5 DEF Wake, TaskType
  <2>2. /\ task' \in {"asleep", "poll", "loop", "miner", "dead"}
        /\ wakers' \subseteq {"exec", "mining", "timer"}
    BY <1>0, <1>5 DEF Wake, TaskType
  <2> QED
    BY <2>1, <2>2 DEF TaskType
<1>6. CASE PollNext
  <2>1. woken' \in BOOLEAN
    BY <1>0, <1>6 DEF PollNext, TaskType
  <2>2. /\ task' \in {"asleep", "poll", "loop", "miner", "dead"}
        /\ wakers' \subseteq {"exec", "mining", "timer"}
    BY <1>0, <1>6 DEF PollNext, TaskType
  <2> QED
    BY <2>1, <2>2 DEF TaskType
<1>7. CASE LoopFailed
  <2>1. woken' \in BOOLEAN
    BY <1>0, <1>7 DEF LoopFailed, TaskType
  <2>2. /\ task' \in {"asleep", "poll", "loop", "miner", "dead"}
        /\ wakers' \subseteq {"exec", "mining", "timer"}
    BY <1>0, <1>7 DEF LoopFailed, TaskType
  <2> QED
    BY <2>1, <2>2 DEF TaskType
<1>8. CASE PollPending
  <2>1. woken' \in BOOLEAN
    BY <1>0, <1>8, LoopLeavesType DEF PollPending
  <2>2. /\ task' \in {"asleep", "poll", "loop", "miner", "dead"}
        /\ wakers' \subseteq {"exec", "mining", "timer"}
    BY <1>0, <1>8 DEF PollPending, TaskType
  <2> QED
    BY <2>1, <2>2 DEF TaskType
<1>9. CASE PollMined
  <2>1. woken' \in BOOLEAN
    BY <1>0, <1>9, LoopLeavesType DEF PollMined
  <2>2. /\ task' \in {"asleep", "poll", "loop", "miner", "dead"}
        /\ wakers' \subseteq {"exec", "mining", "timer"}
    BY <1>0, <1>9 DEF PollMined, TaskType, Continue
  <2> QED
    BY <2>1, <2>2 DEF TaskType
<1>10. CASE PollLost
  <2>1. woken' \in BOOLEAN
    BY <1>0, <1>10, LoopLeavesType DEF PollLost
  <2>2. /\ task' \in {"asleep", "poll", "loop", "miner", "dead"}
        /\ wakers' \subseteq {"exec", "mining", "timer"}
    BY <1>0, <1>10 DEF PollLost, TaskType
  <2> QED
    BY <2>1, <2>2 DEF TaskType
<1>11. CASE Queue
  <2>1. woken' \in BOOLEAN
    BY <1>0, <1>11 DEF Queue, TaskType
  <2>2. /\ task' \in {"asleep", "poll", "loop", "miner", "dead"}
        /\ wakers' \subseteq {"exec", "mining", "timer"}
    BY <1>0, <1>11 DEF Queue, TaskType
  <2> QED
    BY <2>1, <2>2 DEF TaskType
<1>12. CASE Sleep
  <2>1. woken' \in BOOLEAN
    BY <1>0, <1>12 DEF Sleep, TaskType
  <2>2. /\ task' \in {"asleep", "poll", "loop", "miner", "dead"}
        /\ wakers' \subseteq {"exec", "mining", "timer"}
    BY <1>0, <1>12 DEF Sleep, TaskType
  <2> QED
    BY <2>1, <2>2 DEF TaskType
<1>13. CASE UNCHANGED taskVars
  BY <1>0, <1>13 DEF TaskType, taskVars
<1>14. ASSUME ExecStart \/ ExecSuccess \/ ExecFailure \/ MineLock \/
              LoopExecuted
       PROVE  UNCHANGED taskVars
  BY <1>14
     DEF ExecStart, ExecSuccess, ExecFailure, MineLock, LoopExecuted
<1>15. CASE UNCHANGED vars
  BY <1>15, <1>13 DEF vars
<1> QED
  BY <1>1, <1>2, <1>3, <1>4, <1>5, <1>6, <1>7, <1>8, <1>9, <1>10, <1>11, <1>12,
     <1>13, <1>14, <1>15, ForceStepsFrame
     DEF Next, TaskStep, Execution, Mining

\* force_mine and the number of its calls keep their types.
LEMMA ForceTypeStep == TypeInv /\ [Next]_vars => ForceType'
<1> SUFFICES ASSUME TypeInv, [Next]_vars PROVE ForceType'
    OBVIOUS
<1>0. ForceType
  BY DEF TypeInv
<1>1. CASE ForceStart
  BY <1>0, <1>1 DEF ForceStart, ForceType
<1>2. CASE ForceLock
  BY <1>0, <1>2 DEF ForceLock, ForceType
<1>3. CASE ForceMine
  BY <1>0, <1>3 DEF ForceMine, ForceType
<1>4. CASE UNCHANGED forceVars
  BY <1>0, <1>4 DEF ForceType, forceVars
<1>5. ASSUME Accept \/ Tick \/ Wake \/ PollNext \/ LoopExecuted \/ LoopFailed
              \/ PollPending \/ PollMined \/ PollLost \/ Queue \/ Sleep
       PROVE  UNCHANGED forceVars
  BY <1>5
     DEF Accept, Tick, Wake, PollNext, LoopExecuted, LoopFailed, PollPending,
         PollMined, PollLost, Queue, Sleep
<1>6. CASE UNCHANGED vars
  BY <1>6, <1>4 DEF vars
<1> QED
  BY <1>1, <1>2, <1>3, <1>4, <1>5, <1>6, ExecutionFrame, MiningFrame
     DEF Next, TaskStep, ForceSteps

\* Every variable keeps its type, jobs refer to executors that exist, and an
\* executor is for a block of the chain or for the one after its tip, so that
\* storing its block is an append or the overwriting of a stored one.
THEOREM TypeCorrect == Spec => []TypeInv
<1>1. TypeInv /\ [Next]_vars => TypeInv'
  BY PoolStep, BacklogStep, ExecutorsStep, ExecStep, MiningStep, BlockStep,
     NumberStep, TaskTypeStep, ForceTypeStep DEF TypeInv
<1> QED
  BY InitType, <1>1, PTL DEF Spec

-----------------------------------------------------------------------------
(* The permit and the validator.                                            *)

\* The permit is taken by the mining job before it stores a block and until the
\* next block is open, and by force_mine for the time it mines.
LEMMA PermitStep == TypeInv /\ PermitHeld /\ [Next]_vars => PermitHeld'
<1> SUFFICES ASSUME TypeInv, PermitHeld, [Next]_vars PROVE PermitHeld'
    OBVIOUS
<1>0. MiningType
  BY DEF TypeInv
<1>1. CASE MineLock
  BY <1>0, <1>1 DEF MineLock, PermitHeld, MiningType, MineJob, forceVars
<1>2. CASE MineBlock
  BY <1>0, <1>2 DEF MineBlock, PermitHeld, MiningType, MineJob, forceVars
<1>3. CASE PollNext
  <2>1. mining' = mining \/ mining'.st = "spawned"
    BY <1>3 DEF PollNext, NoMining
  <2> QED
    BY <1>0, <1>3, <2>1 DEF PollNext, blockVars, forceVars, PermitHeld
<1>4. CASE PollMined
  BY <1>0, <1>4 DEF PollMined, OpenBlock, NoMining, forceVars, PermitHeld
<1>5. CASE PollLost
  BY <1>0, <1>5 DEF PollLost, NoMining, blockVars, forceVars, PermitHeld
<1>6. CASE ForceStart
  BY <1>0, <1>6 DEF ForceStart, blockVars, PermitHeld
<1>7. CASE ForceLock
  BY <1>0, <1>7 DEF ForceLock, PermitHeld
<1>8. CASE ForceMine
  BY <1>0, <1>8 DEF ForceMine, OpenBlock, blockVars, PermitHeld
<1>9. CASE UNCHANGED <<mining, permit, force>>
  BY <1>0, <1>9 DEF PermitHeld
<1>10. ASSUME Accept \/ ExecStart \/ ExecSuccess \/ ExecFailure \/ ExecEnd \/
              Tick \/ Wake \/ LoopExecuted \/ LoopFailed \/ PollPending \/
              Queue \/ Sleep
       PROVE  UNCHANGED <<mining, permit, force>>
  BY <1>10
     DEF blockVars, forceVars, Accept, ExecStart, ExecSuccess, ExecFailure,
         ExecEnd, Tick, Wake, LoopExecuted, LoopFailed, PollPending, Queue,
         Sleep
<1>11. CASE UNCHANGED vars
  BY <1>11, <1>9 DEF vars, blockVars, forceVars
<1> QED
  BY <1>1, <1>2, <1>3, <1>4, <1>5, <1>6, <1>7, <1>8, <1>9, <1>10, <1>11
     DEF Next, TaskStep, Execution, Mining, ForceSteps, blockVars, forceVars

\* The executor that is opened on the chain is the one the validator is given.
LEMMA OpenedInSync ==
    ASSUME NEW es \in Seq(Executor), NEW c \in Seq(Seq(Tx))
    PROVE  LET opened == Append(es, NewExecutor(c))
           IN  /\ Len(opened) = Len(es) + 1
               /\ opened[Len(es) + 1].number = Len(c) + 1
               /\ ~opened[Len(es) + 1].taken
<1>1. Append(es, NewExecutor(c))[Len(es) + 1] = NewExecutor(c)
  BY NewExecutorType
<1> QED
  BY <1>1, NewExecutorType

\* Every step keeps the validator on the open block while the permit is free.
LEMMA ValidatorStep == TypeInv /\ PermitHeld /\ ValidatorInSync /\ [Next]_vars => ValidatorInSync'
<1> SUFFICES ASSUME TypeInv, PermitHeld, ValidatorInSync, [Next]_vars PROVE ValidatorInSync'
    OBVIOUS
<1>0. ExecutorsType /\ ExecType /\ MiningType /\ BlockType /\ NumberType
  BY DEF TypeInv
<1>1. CASE ExecSuccess
  <2>1. exec.on \in DOMAIN executors /\ Head(exec.todo) \in Tx
    BY <1>0, <1>1 DEF ExecSuccess, ExecType, ExecJob
  <2>2. /\ executors' = [executors EXCEPT ![exec.on] = Executed(@, Head(exec.todo))]
        /\ UNCHANGED <<permit, validator, chain>>
    BY <1>1 DEF ExecSuccess, blockVars
  <2>3. /\ Len(executors') = Len(executors)
        /\ \A h \in DOMAIN executors : /\ executors'[h].number = executors[h].number
                                       /\ executors'[h].taken = executors[h].taken
    BY <1>0, <2>1, <2>2, ExecutedType
  <2> QED
    BY <1>0, <2>2, <2>3 DEF ValidatorInSync, BlockType, current
<1>2. CASE MineLock
  BY <1>2 DEF MineLock, ValidatorInSync
<1>3. CASE MineBlock
  BY <1>3 DEF MineBlock, ValidatorInSync, PermitHeld
<1>4. CASE PollMined
  <2>1. chain \in Seq(Seq(Tx)) /\ executors \in Seq(Executor)
    BY <1>0 DEF BlockType, ExecutorsType
  <2>2. /\ executors' = Append(executors, NewExecutor(chain))
        /\ validator' = Len(executors) + 1 /\ chain' = chain
    BY <1>4 DEF PollMined, OpenBlock
  <2> QED
    BY <2>1, <2>2, OpenedInSync DEF ValidatorInSync, current
<1>5. CASE ForceLock
  BY <1>5 DEF ForceLock, ValidatorInSync
<1>6. CASE ForceMine
  <2>1. current \in DOMAIN executors
    BY <1>0 DEF current, ExecutorsType
  <2>2. CASE UNCHANGED <<permit, validator>>
    BY <1>6, <2>2 DEF ForceMine, ValidatorInSync, PermitHeld
  <2>3. CASE /\ chain' = Store(chain, executors[current].number, executors[current].txs)
             /\ OpenBlock(Taken(current), chain')
    <3>1. chain' \in Seq(Seq(Tx)) /\ Taken(current) \in Seq(Executor)
      BY <1>0, <2>1, <2>3, StoredChain, TakenType
    <3>2. /\ executors' = Append(Taken(current), NewExecutor(chain'))
          /\ validator' = Len(Taken(current)) + 1
      BY <2>3 DEF OpenBlock
    <3> QED
      BY <3>1, <3>2, OpenedInSync DEF ValidatorInSync, current
  <2> QED
    BY <1>6, <2>2, <2>3 DEF ForceMine
<1>7. CASE UNCHANGED <<executors, permit, validator, chain>>
  BY <1>0, <1>7 DEF ValidatorInSync, current
<1>8. ASSUME Accept \/ ExecStart \/ ExecFailure \/ ExecEnd \/ Tick \/ Wake \/
              PollNext \/ LoopExecuted \/ LoopFailed \/ PollPending \/ PollLost
              \/ Queue \/ Sleep \/ ForceStart
       PROVE  UNCHANGED <<executors, permit, validator, chain>>
  BY <1>8
     DEF blockVars, Accept, ExecStart, ExecFailure, ExecEnd, Tick, Wake,
         PollNext, LoopExecuted, LoopFailed, PollPending, PollLost, Queue,
         Sleep, ForceStart
<1>9. CASE UNCHANGED vars
  BY <1>9, <1>7 DEF vars, blockVars
<1> QED
  BY <1>1, <1>2, <1>3, <1>4, <1>5, <1>6, <1>7, <1>8, <1>9
     DEF Next, TaskStep, Execution, Mining, ForceSteps, blockVars

\* Whenever validate can get the permit, the validator reads the executor that
\* runs the next transactions, which is open and for the block after the last
\* stored one. The invariant is inductive together with TypeInv and PermitHeld:
\* a block is stored only under the permit, and whoever gives the permit back
\* has opened the next block and updated the validator in the same step.
THEOREM ValidatorAlwaysInSync == Spec => []ValidatorInSync
<1>1. Init => PermitHeld /\ ValidatorInSync
  BY DEF Init, PermitHeld, ValidatorInSync, NoMining, NewExecutor, NextNumber, current
<1> QED
  BY <1>1, TypeCorrect, PermitStep, ValidatorStep, PTL DEF Spec

\* The permit is never held by two, nor given back while a block is mined.
THEOREM PermitAlwaysHeld == Spec => []PermitHeld
<1>1. Init => PermitHeld
  BY DEF Init, PermitHeld, NoMining
<1> QED
  BY <1>1, TypeCorrect, PermitStep, PTL DEF Spec

-----------------------------------------------------------------------------
(* The order of the transactions, from the pool to the chain.               *)

\* Everything in S was accepted before everything in T.
Precede(S, T) == \A x \in S : \A y \in T : x < y

\* What waits is in the order of acceptance, from the execution job back to the
\* pool's stream.
LineInv ==
    /\ L!Increasing(incoming) /\ L!Increasing(queued) /\ L!Increasing(exec.todo)
    /\ Precede(Elems(exec.todo), Elems(queued) \union Elems(incoming))
    /\ Precede(Elems(queued), Elems(incoming))
    /\ Waiting \subseteq 1 .. accepted
    /\ accepted <= MaxTxs

\* No executor has used more of its block than the transactions before what waits.
UsedInv ==
    \A g \in DOMAIN executors :
        /\ executors[g].used <= accepted
        /\ \A x \in Waiting : executors[g].used < x

\* The open block and the chain hold accepted transactions, in order, before all
\* that waits; and while its output has not been taken the open block is the one
\* after the tip and follows the whole chain.
OpenInv ==
    LET open == executors[current]
    IN  /\ L!Increasing(open.txs)
        /\ Elems(open.txs) \subseteq 1 .. accepted
        /\ Precede(Elems(open.txs), Waiting)
        /\ ~open.taken => /\ Precede(Mined, Elems(open.txs))
                          /\ open.number = Len(chain) + 1
ChainInv == Mined \subseteq 1 .. accepted /\ Precede(Mined, Waiting)

\* Without force_mine only the mining job closes blocks, the current one each
\* time, and before the task has opened the next one there is no other job.
JobCloses ==
    /\ MaxForce[BlockTime] = 0 /\ force = "idle"
    /\ mining.st # "none" => mining.on = current
    /\ mining.st \in {"spawned", "locked"} => ~executors[current].taken
    /\ mining.st = "none" /\ task # "dead" => ~executors[current].taken

\* Without an interval, and with blocks that never fill up, only force_mine does.
ForceCloses ==
    /\ timer = "off" /\ MaxTxs <= BlockCap[FALSE]
    /\ mining.st = "none" /\ ~full /\ ~exec.full
    /\ force = "mining" => ~executors[current].taken

OneCloses == JobCloses \/ ForceCloses

\* force_mine is not used in a mode in which a mining job may run.
OneCloser ==
    \A mode \in BlockTimes : MaxForce[mode] = 0 \/ (~mode /\ MaxTxs <= BlockCap[mode])

OrderInv == LineInv /\ UsedInv /\ OpenInv /\ ChainInv /\ OneCloses

\* What a sequence holds, and in which order, after it was appended to, joined
\* with another one, or lost its head.
LEMMA ElemsAppend ==
    ASSUME NEW S, NEW s \in Seq(S), NEW e \in S
    PROVE  Elems(Append(s, e)) = Elems(s) \union {e}
<1>1. /\ DOMAIN Append(s, e) = 1 .. Len(s) + 1 /\ DOMAIN s = 1 .. Len(s)
      /\ Len(s) \in Nat
  OBVIOUS
<1>2. \A i \in 1 .. Len(s) : Append(s, e)[i] = s[i]
  OBVIOUS
<1>3. Append(s, e)[Len(s) + 1] = e
  OBVIOUS
<1> QED
  BY <1>1, <1>2, <1>3 DEF Elems

\* The elements of two sequences joined.
LEMMA ElemsConcat ==
    ASSUME NEW S, NEW s \in Seq(S), NEW t \in Seq(S)
    PROVE  Elems(s \o t) = Elems(s) \union Elems(t)
<1>1. /\ DOMAIN (s \o t) = 1 .. Len(s) + Len(t) /\ DOMAIN s = 1 .. Len(s)
      /\ DOMAIN t = 1 .. Len(t) /\ Len(s) \in Nat /\ Len(t) \in Nat
  OBVIOUS
<1>2. \A i \in 1 .. Len(s) : (s \o t)[i] = s[i]
  OBVIOUS
<1>3. \A i \in 1 .. Len(t) : (s \o t)[Len(s) + i] = t[i]
  OBVIOUS
<1>4. \A i \in Len(s) + 1 .. Len(s) + Len(t) : (s \o t)[i] = t[i - Len(s)]
  OBVIOUS
<1>5. Elems(s \o t) \subseteq Elems(s) \union Elems(t)
  <2> SUFFICES ASSUME NEW i \in 1 .. Len(s) + Len(t)
               PROVE  (s \o t)[i] \in Elems(s) \union Elems(t)
    BY <1>1 DEF Elems
  <2>1. CASE i <= Len(s)
    BY <1>1, <1>2, <2>1 DEF Elems
  <2>2. CASE i > Len(s)
    BY <1>1, <1>4, <2>2 DEF Elems
  <2> QED
    BY <1>1, <2>1, <2>2
<1>6. Elems(s) \subseteq Elems(s \o t)
  BY <1>1, <1>2 DEF Elems
<1>7. Elems(t) \subseteq Elems(s \o t)
  <2> SUFFICES ASSUME NEW i \in 1 .. Len(t) PROVE t[i] \in Elems(s \o t)
    BY <1>1 DEF Elems
  <2>1. Len(s) + i \in 1 .. Len(s) + Len(t)
    BY <1>1
  <2> QED
    BY <1>1, <1>3, <2>1 DEF Elems
<1> QED
  BY <1>5, <1>6, <1>7

\* The head of a sequence is one of its elements, and its tail adds none.
LEMMA ElemsTail ==
    ASSUME NEW S, NEW s \in Seq(S), s # <<>>
    PROVE  Head(s) \in Elems(s) /\ Elems(Tail(s)) \subseteq Elems(s)
<1>1. /\ Len(s) \in Nat \ {0} /\ DOMAIN s = 1 .. Len(s)
      /\ DOMAIN Tail(s) = 1 .. Len(s) - 1 /\ Head(s) = s[1]
  OBVIOUS
<1>2. \A i \in 1 .. Len(s) - 1 : Tail(s)[i] = s[i + 1]
  OBVIOUS
<1> QED
  BY <1>1, <1>2 DEF Elems

\* The same for the order of a sequence.
LEMMA IncreasingEmpty == L!Increasing(<<>>) /\ Elems(<<>>) = {}
BY DEF L!Increasing, Elems

\* A later transaction appended keeps a sequence in the order of acceptance.
LEMMA IncreasingAppend ==
    ASSUME NEW s \in Seq(Tx), NEW e \in Tx, L!Increasing(s),
           Precede(Elems(s), {e})
    PROVE  L!Increasing(Append(s, e))
<1>1. /\ DOMAIN Append(s, e) = 1 .. Len(s) + 1 /\ DOMAIN s = 1 .. Len(s)
      /\ Len(s) \in Nat
  OBVIOUS
<1>2. \A i \in 1 .. Len(s) : Append(s, e)[i] = s[i] /\ s[i] < e
  BY <1>1 DEF Precede, Elems
<1>3. Append(s, e)[Len(s) + 1] = e
  OBVIOUS
<1> QED
  BY <1>1, <1>2, <1>3 DEF L!Increasing

\* Two sequences in order, the first before the second, are in order when joined.
LEMMA IncreasingConcat ==
    ASSUME NEW s \in Seq(Tx), NEW t \in Seq(Tx), L!Increasing(s),
           L!Increasing(t), Precede(Elems(s), Elems(t))
    PROVE  L!Increasing(s \o t)
<1>1. /\ DOMAIN (s \o t) = 1 .. Len(s) + Len(t) /\ DOMAIN s = 1 .. Len(s)
      /\ DOMAIN t = 1 .. Len(t) /\ Len(s) \in Nat /\ Len(t) \in Nat
  OBVIOUS
<1>2. \A i \in 1 .. Len(s) : (s \o t)[i] = s[i]
  OBVIOUS
<1>3. \A i \in Len(s) + 1 .. Len(s) + Len(t) :
          (s \o t)[i] = t[i - Len(s)] /\ i - Len(s) \in 1 .. Len(t)
  OBVIOUS
<1>4. \A i \in 1 .. Len(s), j \in 1 .. Len(t) : s[i] < t[j]
  BY <1>1 DEF Precede, Elems
<1> SUFFICES ASSUME NEW i \in 1 .. Len(s) + Len(t),
                    NEW j \in 1 .. Len(s) + Len(t), i < j
             PROVE  (s \o t)[i] < (s \o t)[j]
  BY <1>1 DEF L!Increasing
<1>5. CASE j <= Len(s)
  BY <1>1, <1>2, <1>5 DEF L!Increasing
<1>6. CASE i > Len(s)
  <2>1. i \in Len(s) + 1 .. Len(s) + Len(t) /\ j \in Len(s) + 1 .. Len(s) + Len(t)
    BY <1>1, <1>6
  <2>2. /\ i - Len(s) \in DOMAIN t /\ j - Len(s) \in DOMAIN t
        /\ i - Len(s) < j - Len(s)
    BY <1>1, <1>3, <2>1
  <2>3. t[i - Len(s)] < t[j - Len(s)]
    BY <2>2 DEF L!Increasing
  <2> QED
    BY <1>3, <2>1, <2>3
<1>7. CASE i <= Len(s) /\ j > Len(s)
  BY <1>1, <1>2, <1>3, <1>4, <1>7
<1> QED
  BY <1>1, <1>5, <1>6, <1>7

\* Without its head, which is before the rest, a sequence is still in order.
LEMMA IncreasingTail ==
    ASSUME NEW s \in Seq(Tx), s # <<>>, L!Increasing(s)
    PROVE  /\ L!Increasing(Tail(s))
           /\ Precede({Head(s)}, Elems(Tail(s)))
<1>1. /\ Len(s) \in Nat \ {0} /\ DOMAIN s = 1 .. Len(s)
      /\ DOMAIN Tail(s) = 1 .. Len(s) - 1 /\ Head(s) = s[1]
  OBVIOUS
<1>2. \A i \in 1 .. Len(s) - 1 : Tail(s)[i] = s[i + 1]
  OBVIOUS
<1>3. \A i, j \in 1 .. Len(s) : i < j => s[i] < s[j]
  BY <1>1 DEF L!Increasing
<1>4. L!Increasing(Tail(s))
  BY <1>1, <1>2, <1>3 DEF L!Increasing
<1>5. Precede({Head(s)}, Elems(Tail(s)))
  BY <1>1, <1>2, <1>3 DEF Precede, Elems
<1> QED
  BY <1>4, <1>5

\* A step accepts at most one transaction, and nothing else comes to wait.
Moved ==
    /\ accepted' = accepted \/ accepted' = accepted + 1
    /\ Waiting' \subseteq Waiting \union (accepted + 1 .. accepted')

\* A job that is given the backlog takes the place of the backlog in the line.
LEMMA SpawnLine ==
    ASSUME PoolType, BacklogType, LineInv, NEW e, e = exec \/ e = NoExec,
           NEW m, NEW t, Spawn(e, m, t), UNCHANGED <<accepted, incoming>>
    PROVE  LineInv' /\ Moved
<1>1. CASE MaySpawn(e, m)
  <2>1. exec'.todo = queued /\ queued' = <<>>
    BY <1>1 DEF Spawn, NoExec
  <2>2. Elems(exec'.todo) = Elems(queued) /\ Elems(queued') = {}
    BY <2>1, IncreasingEmpty
  <2>3. L!Increasing(queued') /\ L!Increasing(exec'.todo) /\ L!Increasing(incoming')
    BY <2>1, IncreasingEmpty DEF LineInv
  <2>4. Waiting' = Elems(queued) \union Elems(incoming)
    BY <2>2 DEF Waiting
  <2>5. Waiting' \subseteq Waiting
    BY <2>4 DEF Waiting
  <2>6. Precede(Elems(exec'.todo), Elems(queued') \union Elems(incoming'))
    BY <2>2 DEF LineInv
  <2>7. Precede(Elems(queued'), Elems(incoming'))
    BY <2>2 DEF Precede
  <2> QED
    BY <2>3, <2>5, <2>6, <2>7 DEF LineInv, Moved
<1>2. CASE ~MaySpawn(e, m) /\ e = exec
  <2>1. UNCHANGED <<exec, queued>>
    BY <1>2 DEF Spawn
  <2> QED
    BY <2>1 DEF LineInv, Moved, Waiting
<1>3. CASE ~MaySpawn(e, m) /\ e = NoExec
  <2>1. exec'.todo = <<>> /\ queued' = queued
    BY <1>3 DEF Spawn, NoExec
  <2>2. Elems(exec'.todo) = {} /\ L!Increasing(exec'.todo)
    BY <2>1, IncreasingEmpty
  <2>3. Waiting' \subseteq Waiting
    BY <2>1, <2>2 DEF Waiting
  <2>4. Precede(Elems(exec'.todo), Elems(queued') \union Elems(incoming'))
    BY <2>2 DEF Precede
  <2> QED
    BY <2>1, <2>2, <2>3, <2>4 DEF LineInv, Moved
<1> QED
  BY <1>1, <1>2, <1>3

\* What a full block leaves over goes back in front of the backlog.
LEMMA LeavesLine ==
    ASSUME PoolType, BacklogType, ExecType, LineInv, LoopLeaves,
           UNCHANGED <<accepted, incoming>>
    PROVE  LineInv' /\ Moved
<1>0. exec.todo \in Seq(Tx) /\ queued \in Seq(Tx)
  BY DEF ExecType, ExecJob, BacklogType
<1>1. CASE LeftOver
  <2>1. exec'.todo = <<>> /\ queued' = exec.todo \o queued
    BY <1>1 DEF LoopLeaves, NoExec
  <2>2. Elems(exec'.todo) = {} /\ L!Increasing(exec'.todo)
    BY <2>1, IncreasingEmpty
  <2>3. Elems(queued') = Elems(exec.todo) \union Elems(queued)
    BY <1>0, <2>1, ElemsConcat
  <2>4. Precede(Elems(exec.todo), Elems(queued))
    BY DEF LineInv, Precede
  <2>5. L!Increasing(queued')
    BY <1>0, <2>1, <2>4, IncreasingConcat DEF LineInv
  <2>6. Waiting' = Waiting
    BY <2>2, <2>3 DEF Waiting
  <2>7. Precede(Elems(exec'.todo), Elems(queued') \union Elems(incoming'))
    BY <2>2 DEF Precede
  <2>8. Precede(Elems(queued'), Elems(incoming'))
    BY <2>3 DEF LineInv, Precede
  <2> QED
    BY <2>2, <2>5, <2>6, <2>7, <2>8 DEF LineInv, Moved
<1>2. CASE ~LeftOver
  <2>1. UNCHANGED <<exec, queued>>
    BY <1>2 DEF LoopLeaves
  <2> QED
    BY <2>1 DEF LineInv, Moved, Waiting
<1> QED
  BY <1>1, <1>2

\* The execution job takes the head of what it was given.
LEMMA HeadLeavesLine ==
    ASSUME PoolType, ExecType, LineInv, exec.todo # <<>>,
           exec'.todo = Tail(exec.todo), UNCHANGED <<accepted, incoming, queued>>
    PROVE  /\ LineInv' /\ Moved /\ Waiting' \subseteq Waiting
           /\ Head(exec.todo) \in Waiting /\ Precede({Head(exec.todo)}, Waiting')
<1>0. exec.todo \in Seq(Tx)
  BY DEF ExecType, ExecJob
<1>1. /\ Head(exec.todo) \in Elems(exec.todo)
      /\ Elems(exec'.todo) \subseteq Elems(exec.todo)
  BY <1>0, ElemsTail
<1>2. L!Increasing(exec'.todo) /\ Precede({Head(exec.todo)}, Elems(exec'.todo))
  BY <1>0, IncreasingTail DEF LineInv
<1>3. Waiting' \subseteq Waiting /\ Head(exec.todo) \in Waiting
  BY <1>1 DEF Waiting
<1>4. Precede({Head(exec.todo)}, Elems(queued) \union Elems(incoming))
  BY <1>1 DEF LineInv, Precede
<1>5. Precede({Head(exec.todo)}, Waiting')
  BY <1>2, <1>4 DEF Waiting, Precede
<1>6. Precede(Elems(exec'.todo), Elems(queued') \union Elems(incoming'))
  BY <1>1 DEF LineInv, Precede
<1>7. LineInv'
  BY <1>2, <1>3, <1>6 DEF LineInv
<1> QED
  BY <1>3, <1>5, <1>7 DEF Moved

\* Every step keeps the line in order.
LEMMA LineStep == TypeInv /\ LineInv /\ [Next]_vars => LineInv' /\ Moved
<1> SUFFICES ASSUME TypeInv, LineInv, [Next]_vars PROVE LineInv' /\ Moved
    OBVIOUS
<1>0. PoolType /\ BacklogType /\ ExecType
  BY DEF TypeInv
<1>1. CASE Accept
  <2>1. /\ accepted' = accepted + 1 /\ accepted < MaxTxs
        /\ incoming' = Append(incoming, accepted + 1)
        /\ UNCHANGED <<queued, exec>>
    BY <1>1 DEF Accept, producerVars
  <2>2. incoming \in Seq(Tx) /\ accepted \in Nat /\ accepted + 1 \in Tx
    BY <1>0 DEF PoolType, Tx
  <2>3. Elems(incoming') = Elems(incoming) \union {accepted + 1}
    BY <2>1, <2>2, ElemsAppend
  <2>4. Precede(Waiting, {accepted + 1})
    BY <2>2 DEF LineInv, Precede
  <2>5. Precede(Elems(incoming), {accepted + 1})
    BY <2>4 DEF Waiting, Precede
  <2>6. L!Increasing(incoming')
    BY <2>1, <2>2, <2>5, IncreasingAppend DEF LineInv
  <2>7. Waiting' = Waiting \union {accepted + 1}
    BY <2>1, <2>3 DEF Waiting
  <2>8. Waiting' \subseteq 1 .. accepted' /\ accepted' <= MaxTxs
    BY <2>1, <2>2, <2>7, MaxTxsAssumption DEF LineInv
  <2>9. Precede(Elems(exec'.todo), Elems(queued') \union Elems(incoming'))
    BY <2>1, <2>3, <2>4 DEF LineInv, Precede, Waiting
  <2>10. Precede(Elems(queued'), Elems(incoming'))
    BY <2>1, <2>3, <2>4 DEF LineInv, Precede, Waiting
  <2>11. LineInv'
    BY <2>1, <2>6, <2>8, <2>9, <2>10 DEF LineInv
  <2> QED
    BY <2>1, <2>2, <2>7, <2>11 DEF Moved
<1>2. CASE ExecSuccess \/ ExecFailure
  <2>1. /\ exec.todo # <<>> /\ exec'.todo = Tail(exec.todo)
        /\ UNCHANGED <<accepted, incoming, queued>>
    BY <1>0, <1>2 DEF ExecSuccess, ExecFailure, poolVars, producerVars, ExecType, ExecJob
  <2> QED
    BY <1>0, <2>1, HeadLeavesLine
<1>3. CASE ExecStart \/ ExecEnd
  <2>1. exec'.todo = exec.todo /\ UNCHANGED <<accepted, incoming, queued>>
    BY <1>0, <1>3 DEF ExecStart, ExecEnd, poolVars, producerVars, ExecType, ExecJob
  <2> QED
    BY <2>1 DEF LineInv, Moved, Waiting
<1>4. CASE PollNext
  <2>1. PICK m, t : Spawn(exec, m, t)
    BY <1>4 DEF PollNext
  <2>2. UNCHANGED <<accepted, incoming>>
    BY <1>4 DEF PollNext, poolVars
  <2> QED
    BY <1>0, <2>1, <2>2, SpawnLine
<1>5. CASE LoopExecuted
  <2>1. Spawn(NoExec, mining, timer) /\ UNCHANGED <<accepted, incoming>>
    BY <1>5 DEF LoopExecuted, poolVars
  <2> QED
    BY <1>0, <2>1, SpawnLine
<1>6. CASE LoopFailed
  <2>1. exec'.todo = <<>> /\ UNCHANGED <<accepted, incoming, queued>>
    BY <1>6 DEF LoopFailed, NoExec, poolVars, producerVars
  <2>2. Elems(exec'.todo) = {} /\ L!Increasing(exec'.todo)
    BY <2>1, IncreasingEmpty
  <2>3. Waiting' \subseteq Waiting
    BY <2>1, <2>2 DEF Waiting
  <2>4. Precede(Elems(exec'.todo), Elems(queued') \union Elems(incoming'))
    BY <2>2 DEF Precede
  <2> QED
    BY <2>1, <2>2, <2>3, <2>4 DEF LineInv, Moved
<1>7. CASE PollPending \/ PollMined \/ PollLost
  <2>1. LoopLeaves /\ UNCHANGED <<accepted, incoming>>
    BY <1>7 DEF PollPending, PollMined, PollLost, poolVars
  <2> QED
    BY <1>0, <2>1, LeavesLine
<1>8. CASE Queue
  <2>1. /\ queued' = queued \o incoming /\ incoming' = <<>>
        /\ UNCHANGED <<accepted, exec>>
    BY <1>8 DEF Queue
  <2>2. queued \in Seq(Tx) /\ incoming \in Seq(Tx)
    BY <1>0 DEF PoolType, BacklogType
  <2>3. Elems(queued') = Elems(queued) \union Elems(incoming)
    BY <2>1, <2>2, ElemsConcat
  <2>4. L!Increasing(queued')
    BY <2>1, <2>2, IncreasingConcat DEF LineInv
  <2>5. L!Increasing(incoming') /\ Elems(incoming') = {}
    BY <2>1, IncreasingEmpty
  <2>6. Waiting' = Waiting
    BY <2>1, <2>3, <2>5 DEF Waiting
  <2>7. Precede(Elems(exec'.todo), Elems(queued') \union Elems(incoming'))
    BY <2>1, <2>3, <2>5 DEF LineInv, Precede
  <2>8. Precede(Elems(queued'), Elems(incoming'))
    BY <2>5 DEF Precede
  <2> QED
    BY <2>1, <2>4, <2>5, <2>6, <2>7, <2>8 DEF LineInv, Moved
<1>9. CASE UNCHANGED <<accepted, incoming, queued, exec>>
  BY <1>9 DEF LineInv, Moved, Waiting
<1>10. ASSUME Mining \/ Tick \/ Wake \/ Sleep \/ ForceSteps
       PROVE  UNCHANGED <<accepted, incoming, queued, exec>>
  BY <1>10, MiningFrame, ForceStepsFrame
     DEF Tick, Wake, Sleep, poolVars, producerVars
<1>11. CASE UNCHANGED vars
  BY <1>11, <1>9 DEF vars, poolVars, producerVars
<1> QED
  BY <1>1, <1>2, <1>3, <1>4, <1>5, <1>6, <1>7, <1>8, <1>9, <1>10, <1>11
     DEF Next, Execution, TaskStep

\* The executors after the output of one was taken, and after one has executed x.
LEMMA TakenFields ==
    ASSUME ExecutorsType, NEW g \in DOMAIN executors
    PROVE  /\ DOMAIN Taken(g) = DOMAIN executors /\ Len(Taken(g)) = Len(executors)
           /\ Taken(g)[g].txs = <<>> /\ Taken(g)[g].taken
           /\ \A h \in DOMAIN executors : Taken(g)[h].used = executors[h].used
           /\ \A h \in DOMAIN executors : h # g => Taken(g)[h] = executors[h]
<1> DEFINE e == [number |-> executors[g].number, txs |-> <<>>,
               used |-> executors[g].used, taken |-> TRUE]
<1>1. e.txs = <<>> /\ e.taken /\ e.used = executors[g].used
  OBVIOUS
<1>2. Taken(g) = [executors EXCEPT ![g] = e]
  BY DEF Taken
<1> HIDE DEF e
<1>3. /\ DOMAIN Taken(g) = DOMAIN executors /\ Len(Taken(g)) = Len(executors)
      /\ Taken(g)[g] = e
      /\ \A h \in DOMAIN executors : h # g => Taken(g)[h] = executors[h]
  <2>1. e \in Executor
    BY TakenType, <1>2 DEF ExecutorsType
  <2> QED
    BY <1>2, <2>1 DEF ExecutorsType
<1> QED
  BY <1>1, <1>3

\* What executing a transaction changes in its executor, and leaves alone in all.
LEMMA ExecutedFields ==
    ASSUME ExecutorsType, NEW g \in DOMAIN executors, NEW x \in Tx
    PROVE  LET es == [executors EXCEPT ![g] = Executed(@, x)]
           IN  /\ DOMAIN es = DOMAIN executors /\ Len(es) = Len(executors)
               /\ es[g].txs = Append(executors[g].txs, x)
               /\ es[g].used = executors[g].used + 1
               /\ es[g].number = executors[g].number
               /\ es[g].taken = executors[g].taken
               /\ \A h \in DOMAIN executors : h # g => es[h] = executors[h]
<1> DEFINE e == Executed(executors[g], x)
<1>1. executors[g] \in Executor
  BY DEF ExecutorsType
<1>2. /\ e.txs = Append(executors[g].txs, x) /\ e.used = executors[g].used + 1
      /\ e.number = executors[g].number /\ e.taken = executors[g].taken
  BY <1>1 DEF Executed, Executor
<1> HIDE DEF e
<1>3. LET es == [executors EXCEPT ![g] = e]
      IN  /\ DOMAIN es = DOMAIN executors /\ Len(es) = Len(executors)
          /\ es[g] = e
          /\ \A h \in DOMAIN executors : h # g => es[h] = executors[h]
  BY DEF ExecutorsType
<1>4. [executors EXCEPT ![g] = Executed(@, x)] = [executors EXCEPT ![g] = e]
  BY DEF e
<1> QED
  BY <1>2, <1>3, <1>4

\* The fields of an executor have their types.
LEMMA ExecutorFields ==
    ASSUME ExecutorsType, NEW g \in DOMAIN executors
    PROVE  /\ executors[g].used \in Nat /\ executors[g].txs \in Seq(Tx)
           /\ executors[g].number \in Tx /\ executors[g].taken \in BOOLEAN
<1>1. executors[g] \in Executor
  BY DEF ExecutorsType
<1> QED
  BY <1>1 DEF Executor

\* An executor that uses no more than before, or nothing, stays before what waits.
LEMMA UsedKept ==
    ASSUME TypeInv, PoolType', LineInv, UsedInv, Moved, LineInv',
           \A g \in DOMAIN executors' :
               \/ executors'[g].used = 0
               \/ g \in DOMAIN executors /\ executors'[g].used = executors[g].used
    PROVE  UsedInv'
<1>1. accepted \in Nat /\ accepted' \in Nat /\ accepted' >= accepted
  BY DEF TypeInv, PoolType, Moved
<1> SUFFICES ASSUME NEW g \in DOMAIN executors'
             PROVE  /\ executors'[g].used <= accepted'
                    /\ \A x \in Waiting' : executors'[g].used < x
  BY DEF UsedInv
<1>2. \A x \in Waiting' : x \in 1 .. accepted'
  BY DEF LineInv
<1>3. CASE executors'[g].used = 0
  BY <1>1, <1>2, <1>3
<1>4. CASE g \in DOMAIN executors /\ executors'[g].used = executors[g].used
  <2>1. executors[g].used \in Nat /\ executors[g].used <= accepted
    BY <1>4, ExecutorFields DEF TypeInv, UsedInv
  <2>2. \A x \in Waiting' : x \in Waiting \/ x \in accepted + 1 .. accepted'
    BY DEF Moved
  <2>3. \A x \in Waiting' : executors[g].used < x
    BY <1>1, <1>4, <2>1, <2>2 DEF UsedInv
  <2> QED
    BY <1>1, <1>4, <2>1, <2>3
<1> QED
  BY <1>3, <1>4

\* Every step keeps what an executor has used before what waits.
LEMMA UsedStep ==
    TypeInv /\ LineInv /\ UsedInv /\ [Next]_vars => UsedInv'
<1> SUFFICES ASSUME TypeInv, LineInv, UsedInv, [Next]_vars PROVE UsedInv'
    OBVIOUS
<1>0. ExecutorsType /\ ExecType /\ MiningType /\ BlockType /\ PoolType /\ NumberType
  BY DEF TypeInv
<1>a. LineInv' /\ Moved /\ PoolType'
  BY LineStep, PoolStep
<1>1. CASE ExecSuccess
  <2> DEFINE x == Head(exec.todo)
  <2>1. exec.on \in DOMAIN executors /\ x \in Tx
    BY <1>0, <1>1 DEF ExecSuccess, ExecType, ExecJob
  <2>2. /\ executors' = [executors EXCEPT ![exec.on] = Executed(@, x)]
        /\ exec.todo # <<>> /\ exec'.todo = Tail(exec.todo)
        /\ UNCHANGED <<accepted, incoming, queued>>
    BY <1>0, <1>1 DEF ExecSuccess, ExecType, ExecJob, poolVars, producerVars
  <2>3. /\ Waiting' \subseteq Waiting /\ x \in Waiting /\ Precede({x}, Waiting')
    BY <1>0, <2>2, HeadLeavesLine
  <2>4. /\ DOMAIN executors' = DOMAIN executors
        /\ executors'[exec.on].used = executors[exec.on].used + 1
        /\ \A h \in DOMAIN executors : h # exec.on => executors'[h] = executors[h]
    BY <1>0, <2>1, <2>2, ExecutedFields
  <2>5. \A h \in DOMAIN executors : executors[h].used \in Nat
    BY <1>0, ExecutorFields
  <2>6. x \in 1 .. accepted /\ accepted \in Nat /\ \A y \in Waiting' : y \in 1 .. accepted
    BY <1>0, <2>3 DEF LineInv, PoolType
  <2> HIDE DEF x
  <2> SUFFICES ASSUME NEW g \in DOMAIN executors
               PROVE  /\ executors'[g].used <= accepted'
                      /\ \A y \in Waiting' : executors'[g].used < y
    BY <2>4 DEF UsedInv
  <2>7. CASE g = exec.on
    <3>1. executors[g].used < x
      BY <2>3 DEF UsedInv
    <3>2. \A y \in Waiting' : x < y
      BY <2>3 DEF Precede
    <3> QED
      BY <2>2, <2>4, <2>5, <2>6, <2>7, <3>1, <3>2
  <2>8. CASE g # exec.on
    BY <2>2, <2>3, <2>4, <2>8 DEF UsedInv
  <2> QED
    BY <2>7, <2>8
<1>2. CASE MineBlock
  <2>1. mining.on \in DOMAIN executors /\ executors' = Taken(mining.on)
    BY <1>0, <1>2 DEF MineBlock, MiningType
  <2> QED
    BY <1>0, <1>a, <2>1, TakenFields, UsedKept
<1>3. CASE PollMined
  <2>1. executors' = Append(executors, NewExecutor(chain))
    BY <1>3 DEF PollMined, OpenBlock
  <2>2. NewExecutor(chain).used = 0 /\ NewExecutor(chain) \in Executor
    BY <1>0, NewExecutorType DEF NewExecutor, BlockType
  <2>3. \A g \in DOMAIN executors' :
            \/ executors'[g].used = 0
            \/ g \in DOMAIN executors /\ executors'[g].used = executors[g].used
    BY <1>0, <2>1, <2>2 DEF ExecutorsType
  <2> QED
    BY <1>a, <2>3, UsedKept
<1>4. CASE ForceMine
  <2>1. current \in DOMAIN executors
    BY <1>0 DEF current, ExecutorsType
  <2>2. /\ DOMAIN Taken(current) = DOMAIN executors
        /\ \A h \in DOMAIN executors : Taken(current)[h].used = executors[h].used
    BY <1>0, <2>1, TakenFields
  <2>3. Taken(current) \in Seq(Executor)
    BY <1>0, <2>1, TakenType
  <2>4. CASE executors' = Taken(current)
    BY <1>a, <2>2, <2>4, UsedKept
  <2>5. CASE /\ chain' = Store(chain, executors[current].number, executors[current].txs)
             /\ OpenBlock(Taken(current), chain')
    <3>1. chain' \in Seq(Seq(Tx))
      BY <1>0, <2>1, <2>5, StoredChain
    <3>2. NewExecutor(chain').used = 0 /\ NewExecutor(chain') \in Executor
      BY <3>1, NewExecutorType DEF NewExecutor
    <3>3. executors' = Append(Taken(current), NewExecutor(chain'))
      BY <2>5 DEF OpenBlock
    <3>4. \A g \in DOMAIN executors' :
              \/ executors'[g].used = 0
              \/ g \in DOMAIN executors /\ executors'[g].used = executors[g].used
      BY <2>2, <2>3, <3>2, <3>3
    <3> QED
      BY <1>a, <3>4, UsedKept
  <2> QED
    BY <1>4, <2>4, <2>5 DEF ForceMine
<1>5. CASE UNCHANGED executors
  BY <1>a, <1>5, UsedKept
<1>6. ASSUME Accept \/ ExecStart \/ ExecFailure \/ ExecEnd \/ MineLock \/ Tick
              \/ Wake \/ PollNext \/ LoopExecuted \/ LoopFailed \/ PollPending
              \/ PollLost \/ Queue \/ Sleep \/ ForceStart \/ ForceLock
       PROVE  UNCHANGED executors
  BY <1>6
     DEF Accept, ExecStart, ExecFailure, ExecEnd, MineLock, Tick, Wake,
         PollNext, LoopExecuted, LoopFailed, PollPending, PollLost, Queue,
         Sleep, ForceStart, ForceLock
<1>7. CASE UNCHANGED vars
  BY <1>7, <1>5 DEF vars
<1> QED
  BY <1>1, <1>2, <1>3, <1>4, <1>5, <1>6, <1>7
     DEF Next, TaskStep, Execution, Mining, ForceSteps

\* A block after the tip adds its transactions to those of the chain.
LEMMA MinedAppend ==
    ASSUME BlockType, NEW b \in Seq(Tx), chain' = Append(chain, b)
    PROVE  Mined' = Mined \union Elems(b)
<1>1. chain \in Seq(Seq(Tx))
  BY DEF BlockType
<1>2. /\ DOMAIN chain' = 1 .. Len(chain) + 1 /\ DOMAIN chain = 1 .. Len(chain)
      /\ Len(chain) \in Nat
  BY <1>1
<1>3. \A n \in 1 .. Len(chain) : chain'[n] = chain[n]
  BY <1>1
<1>4. chain'[Len(chain) + 1] = b
  BY <1>1
<1>5. Mined' = UNION {Elems(chain'[n]) : n \in 1 .. Len(chain) + 1}
  BY <1>2 DEF Mined, Elems
<1>6. Mined = UNION {Elems(chain[n]) : n \in 1 .. Len(chain)}
  BY <1>2 DEF Mined
<1> QED
  BY <1>2, <1>3, <1>4, <1>5, <1>6

\* The open block, while nobody has taken it.
Closing == ~executors[current].taken

\* What do_mine stores is the block after the tip, with the transactions of the
\* open block.
LEMMA ClosingAppends ==
    ASSUME TypeInv, OpenInv, Closing
    PROVE  Store(chain, executors[current].number, executors[current].txs)
               = Append(chain, executors[current].txs)
<1>1. executors[current].number = Len(chain) + 1
  BY DEF OpenInv, Closing
<1>2. Len(chain) \in Nat
  BY DEF TypeInv, BlockType
<1> QED
  BY <1>1, <1>2 DEF Store

\* A set before all that waited, and of accepted transactions, is before all that
\* waits after a step.
LEMMA StillBefore ==
    ASSUME TypeInv, PoolType', Moved, NEW S, S \subseteq 1 .. accepted, Precede(S, Waiting)
    PROVE  S \subseteq 1 .. accepted' /\ Precede(S, Waiting')
<1>1. accepted \in Nat /\ accepted' \in Nat /\ accepted' >= accepted
  BY DEF TypeInv, PoolType, Moved
<1>2. \A y \in Waiting' : y \in Waiting \/ y \in accepted + 1 .. accepted'
  BY DEF Moved
<1>3. \A x \in S : x \in 1 .. accepted
  OBVIOUS
<1>4. \A x \in S : \A y \in accepted + 1 .. accepted' : x < y
  BY <1>1, <1>3
<1> QED
  BY <1>1, <1>2, <1>3, <1>4 DEF Precede

\* A step that touches neither the open block nor the chain keeps their order.
LEMMA OpenKept ==
    ASSUME TypeInv, PoolType', Moved, OpenInv, ChainInv, UNCHANGED chain,
           executors'[Len(executors')] = executors[current]
    PROVE  OpenInv' /\ ChainInv'
<1>1. /\ Elems(executors[current].txs) \subseteq 1 .. accepted'
      /\ Precede(Elems(executors[current].txs), Waiting')
  BY StillBefore DEF OpenInv
<1>2. Mined \subseteq 1 .. accepted' /\ Precede(Mined, Waiting')
  BY StillBefore DEF ChainInv
<1>3. Mined' = Mined /\ executors'[current'] = executors[current]
  BY DEF Mined, current
<1> QED
  BY <1>1, <1>2, <1>3 DEF OpenInv, ChainInv

\* A step that opens the block after the tip keeps their order.
LEMMA OpenFresh ==
    ASSUME TypeInv, PoolType', ChainInv', executors'[Len(executors')].txs = <<>>,
           \/ executors'[Len(executors')].taken
           \/ executors'[Len(executors')].number = Len(chain') + 1
    PROVE  OpenInv'
<1>1. /\ Elems(executors'[Len(executors')].txs) = {}
      /\ L!Increasing(executors'[Len(executors')].txs)
  BY IncreasingEmpty
<1> QED
  BY <1>1 DEF OpenInv, current, Precede

\* Storing the open block keeps the chain in order.
LEMMA ChainStores ==
    ASSUME TypeInv, PoolType', Moved, OpenInv, ChainInv, Closing,
           chain' = Store(chain, executors[current].number, executors[current].txs)
    PROVE  ChainInv'
<1>1. current \in DOMAIN executors
  BY DEF current, TypeInv, ExecutorsType
<1>2. executors[current].txs \in Seq(Tx)
  BY <1>1, ExecutorFields DEF TypeInv
<1>3. Mined' = Mined \union Elems(executors[current].txs)
  BY <1>2, ClosingAppends, MinedAppend DEF TypeInv
<1>4. Mined \subseteq 1 .. accepted' /\ Precede(Mined, Waiting')
  BY StillBefore DEF ChainInv
<1>5. /\ Elems(executors[current].txs) \subseteq 1 .. accepted'
      /\ Precede(Elems(executors[current].txs), Waiting')
  BY StillBefore DEF OpenInv
<1> QED
  BY <1>3, <1>4, <1>5 DEF ChainInv, Precede

\* Every step keeps the open block and the chain in order.
LEMMA OpenStep ==
    TypeInv /\ OrderInv /\ [Next]_vars => OpenInv' /\ ChainInv'
<1> SUFFICES ASSUME TypeInv, OrderInv, [Next]_vars PROVE OpenInv' /\ ChainInv'
    OBVIOUS
<1>0. ExecutorsType /\ ExecType /\ MiningType /\ BlockType /\ PoolType /\ NumberType
  BY DEF TypeInv
<1>a. LineInv' /\ Moved /\ PoolType' /\ OpenInv /\ ChainInv /\ LineInv
  BY LineStep, PoolStep DEF OrderInv
<1>b. current \in DOMAIN executors
  BY <1>0 DEF current, ExecutorsType
<1>1. CASE ExecSuccess
  <2> DEFINE x == Head(exec.todo)
  <2>1. exec.on \in DOMAIN executors /\ x \in Tx
    BY <1>0, <1>1 DEF ExecSuccess, ExecType, ExecJob
  <2>2. /\ executors' = [executors EXCEPT ![exec.on] = Executed(@, x)]
        /\ exec.todo # <<>> /\ exec'.todo = Tail(exec.todo)
        /\ UNCHANGED <<accepted, incoming, queued, chain>>
    BY <1>0, <1>1 DEF ExecSuccess, ExecType, ExecJob, poolVars, producerVars, blockVars
  <2>3. /\ Waiting' \subseteq Waiting /\ x \in Waiting /\ Precede({x}, Waiting')
    BY <1>0, <1>a, <2>2, HeadLeavesLine
  <2>4. /\ Len(executors') = Len(executors)
        /\ executors'[exec.on].txs = Append(executors[exec.on].txs, x)
        /\ executors'[exec.on].number = executors[exec.on].number
        /\ executors'[exec.on].taken = executors[exec.on].taken
        /\ \A h \in DOMAIN executors : h # exec.on => executors'[h] = executors[h]
    BY <1>0, <2>1, <2>2, ExecutedFields
  <2> HIDE DEF x
  <2>5. CASE exec.on # current
    <3>1. executors'[Len(executors')] = executors[current]
      BY <1>b, <2>4, <2>5 DEF current
    <3> QED
      BY <1>a, <2>2, <3>1, OpenKept
  <2>6. CASE exec.on = current
    <3> DEFINE old == executors[current].txs
    <3>1. old \in Seq(Tx)
      BY <1>0, <1>b, ExecutorFields
    <3>2. /\ executors'[current'].txs = Append(old, x) /\ current' = current
          /\ executors'[current'].number = executors[current].number
          /\ executors'[current'].taken = executors[current].taken
      BY <2>4, <2>6 DEF current
    <3>3. Elems(executors'[current'].txs) = Elems(old) \union {x}
      BY <2>1, <3>1, <3>2, ElemsAppend
    <3>4. Precede(Elems(old), {x}) /\ L!Increasing(old)
      BY <1>a, <2>3 DEF OpenInv, Precede
    <3>5. L!Increasing(executors'[current'].txs)
      BY <2>1, <3>1, <3>2, <3>4, IncreasingAppend
    <3>6. x \in 1 .. accepted
      BY <1>a, <2>3 DEF LineInv
    <3>7. Elems(executors'[current'].txs) \subseteq 1 .. accepted'
      BY <1>a, <2>2, <3>3, <3>6 DEF OpenInv
    <3>8. Precede(Elems(executors'[current'].txs), Waiting')
      BY <1>a, <2>3, <3>3 DEF OpenInv, Precede
    <3>9. Mined' = Mined /\ chain' = chain
      BY <2>2 DEF Mined
    <3>10. Precede(Mined, {x})
      BY <1>a, <2>3 DEF ChainInv, Precede
    <3>11. ~executors'[current'].taken =>
               /\ Precede(Mined', Elems(executors'[current'].txs))
               /\ executors'[current'].number = Len(chain') + 1
      BY <1>a, <3>2, <3>3, <3>9, <3>10 DEF OpenInv, Precede
    <3>12. ChainInv'
      BY <1>a, <2>2, <2>3, <3>9 DEF ChainInv, Precede
    <3> QED
      BY <3>5, <3>7, <3>8, <3>11, <3>12 DEF OpenInv
  <2> QED
    BY <2>5, <2>6
<1>2. CASE MineBlock
  <2>1. /\ mining.on = current /\ Closing
    BY <1>2 DEF MineBlock, OrderInv, OneCloses, JobCloses, ForceCloses, Closing
  <2>2. executors' = Taken(current)
    BY <1>2, <2>1 DEF MineBlock
  <2>3. executors'[Len(executors')].txs = <<>> /\ executors'[Len(executors')].taken
    BY <1>0, <1>b, <2>2, TakenFields DEF current
  <2>4. \/ chain' = chain
        \/ chain' = Store(chain, executors[current].number, executors[current].txs)
    BY <1>2, <2>1 DEF MineBlock
  <2>5. CASE chain' = chain
    <3>1. Mined' = Mined
      BY <2>5 DEF Mined
    <3>2. ChainInv'
      BY <1>a, <3>1, StillBefore DEF ChainInv
    <3> QED
      BY <1>a, <2>3, <3>2, OpenFresh
  <2>6. CASE chain' = Store(chain, executors[current].number, executors[current].txs)
    <3>1. ChainInv'
      BY <1>a, <2>1, <2>6, ChainStores
    <3> QED
      BY <1>a, <2>3, <3>1, OpenFresh
  <2> QED
    BY <2>4, <2>5, <2>6
<1>3. CASE PollMined
  <2>1. executors' = Append(executors, NewExecutor(chain)) /\ chain' = chain
    BY <1>3 DEF PollMined, OpenBlock
  <2>2. /\ NewExecutor(chain) \in Executor /\ NewExecutor(chain).txs = <<>>
        /\ NewExecutor(chain).number = Len(chain) + 1
    BY <1>0, NewExecutorType DEF NewExecutor, BlockType
  <2>3. executors'[Len(executors')] = NewExecutor(chain)
    BY <1>0, <2>1, <2>2 DEF ExecutorsType
  <2>4. Mined' = Mined
    BY <2>1 DEF Mined
  <2>5. ChainInv'
    BY <1>a, <2>4, StillBefore DEF ChainInv
  <2> QED
    BY <1>a, <2>1, <2>2, <2>3, <2>5, OpenFresh
<1>4. CASE ForceMine
  <2>1. Closing
    BY <1>4 DEF ForceMine, OrderInv, OneCloses, JobCloses, ForceCloses, Closing
  <2>2. Taken(current) \in Seq(Executor) /\ Len(Taken(current)) = Len(executors)
    BY <1>0, <1>b, TakenType
  <2>3. /\ Taken(current)[Len(executors)].txs = <<>>
        /\ Taken(current)[Len(executors)].taken
    BY <1>0, <1>b, TakenFields DEF current
  <2>4. CASE executors' = Taken(current) /\ chain' = chain
    <3>1. Mined' = Mined
      BY <2>4 DEF Mined
    <3>2. ChainInv'
      BY <1>a, <3>1, StillBefore DEF ChainInv
    <3> QED
      BY <1>a, <2>2, <2>3, <2>4, <3>2, OpenFresh
  <2>5. CASE /\ executors' = Taken(current)
             /\ chain' = Store(chain, executors[current].number, executors[current].txs)
    <3>1. ChainInv'
      BY <1>a, <2>1, <2>5, ChainStores
    <3> QED
      BY <1>a, <2>2, <2>3, <2>5, <3>1, OpenFresh
  <2>6. CASE /\ chain' = Store(chain, executors[current].number, executors[current].txs)
             /\ OpenBlock(Taken(current), chain')
    <3>1. ChainInv'
      BY <1>a, <2>1, <2>6, ChainStores
    <3>2. chain' \in Seq(Seq(Tx))
      BY <1>0, <1>b, <2>6, StoredChain
    <3>3. /\ NewExecutor(chain') \in Executor /\ NewExecutor(chain').txs = <<>>
          /\ NewExecutor(chain').number = Len(chain') + 1
      BY <3>2, NewExecutorType DEF NewExecutor
    <3>4. executors' = Append(Taken(current), NewExecutor(chain'))
      BY <2>6 DEF OpenBlock
    <3>5. executors'[Len(executors')] = NewExecutor(chain')
      BY <2>2, <3>3, <3>4
    <3> QED
      BY <1>a, <3>1, <3>3, <3>5, OpenFresh
  <2> QED
    BY <1>4, <2>4, <2>5, <2>6 DEF ForceMine
<1>5. CASE UNCHANGED <<executors, chain>>
  BY <1>a, <1>5, OpenKept DEF current
<1>6. ASSUME Accept \/ ExecStart \/ ExecFailure \/ ExecEnd \/ MineLock \/ Tick
              \/ Wake \/ PollNext \/ LoopExecuted \/ LoopFailed \/ PollPending
              \/ PollLost \/ Queue \/ Sleep \/ ForceStart \/ ForceLock
       PROVE  UNCHANGED <<executors, chain>>
  BY <1>6
     DEF blockVars, Accept, ExecStart, ExecFailure, ExecEnd, MineLock, Tick,
         Wake, PollNext, LoopExecuted, LoopFailed, PollPending, PollLost,
         Queue, Sleep, ForceStart, ForceLock
<1>7. CASE UNCHANGED vars
  BY <1>7, <1>5 DEF vars, blockVars
<1> QED
  BY <1>1, <1>2, <1>3, <1>4, <1>5, <1>6, <1>7
     DEF Next, TaskStep, Execution, Mining, ForceSteps

\* The mode of the producer never changes.
LEMMA ModeFixed == [Next]_vars => BlockTime' = BlockTime
<1> SUFFICES ASSUME [Next]_vars PROVE BlockTime' = BlockTime
    OBVIOUS
<1>1. CASE Tick
  BY <1>1 DEF Tick, BlockTime
<1>2. CASE PollNext
  <2> DEFINE closes == mining.st = "none" /\ (timer = "ready" \/ full)
             m == IF closes
                  THEN [NoMining EXCEPT !.st = "spawned", !.on = current]
                  ELSE mining
             t == CASE closes /\ BlockTime -> "none"
                    [] ~closes /\ timer = "ready" -> "running"
                    [] OTHER -> timer
  <2>1. Spawn(exec, m, t)
    BY <1>2 DEF PollNext
  <2>2. (t = "off") <=> (timer = "off")
    BY DEF BlockTime
  <2> HIDE DEF m, t, closes
  <2> QED
    BY <2>1, <2>2 DEF Spawn, BlockTime
<1>3. CASE LoopExecuted
  BY <1>3 DEF LoopExecuted, Spawn, BlockTime
<1>4. CASE UNCHANGED timer
  BY <1>4 DEF BlockTime
<1>5. ASSUME Accept \/ Wake \/ LoopFailed \/ PollPending \/ PollMined \/ PollLost
              \/ Queue \/ Sleep
       PROVE  UNCHANGED timer
  BY <1>5
     DEF Accept, Wake, LoopFailed, PollPending, PollMined, PollLost, Queue, Sleep,
         producerVars
<1>6. CASE UNCHANGED vars
  BY <1>6, <1>4 DEF vars, producerVars
<1> QED
  BY <1>1, <1>2, <1>3, <1>4, <1>5, <1>6, ExecutionFrame, MiningFrame, ForceStepsFrame
     DEF Next, TaskStep, producerVars

\* Without force_mine, only the mining job closes blocks.
LEMMA JobClosesStep == TypeInv /\ JobCloses /\ [Next]_vars => JobCloses'
<1> SUFFICES ASSUME TypeInv, JobCloses, [Next]_vars PROVE JobCloses'
    OBVIOUS
<1>0. ExecutorsType /\ ExecType /\ MiningType /\ BlockType /\ ForceType
  BY DEF TypeInv
<1>a. MaxForce[BlockTime'] = 0
  BY ModeFixed DEF JobCloses
<1>b. current \in DOMAIN executors
  BY <1>0 DEF current, ExecutorsType
<1>1. CASE ExecSuccess
  <2>1. exec.on \in DOMAIN executors /\ Head(exec.todo) \in Tx
    BY <1>0, <1>1 DEF ExecSuccess, ExecType, ExecJob
  <2>2. /\ executors' = [executors EXCEPT ![exec.on] = Executed(@, Head(exec.todo))]
        /\ UNCHANGED <<mining, task, force>>
    BY <1>1 DEF ExecSuccess, taskVars, forceVars
  <2>3. /\ Len(executors') = Len(executors)
        /\ \A h \in DOMAIN executors : executors'[h].taken = executors[h].taken
    BY <1>0, <2>1, <2>2, ExecutedType
  <2>4. current' = current /\ executors'[current'].taken = executors[current].taken
    BY <1>b, <2>3 DEF current
  <2> QED
    BY <1>a, <2>2, <2>4 DEF JobCloses
<1>2. CASE MineLock
  <2>1. /\ mining.st = "spawned" /\ mining'.st = "locked" /\ mining'.on = mining.on
        /\ UNCHANGED <<executors, force>>
    BY <1>0, <1>2 DEF MineLock, forceVars, MiningType, MineJob
  <2> QED
    BY <1>a, <2>1 DEF JobCloses, current
<1>3. CASE MineBlock
  <2>1. /\ mining'.st \in {"done", "failed"} /\ mining'.on = mining.on
        /\ mining.st = "locked" /\ executors' = Taken(mining.on) /\ UNCHANGED force
    BY <1>0, <1>3 DEF MineBlock, forceVars, MiningType, MineJob
  <2>2. Len(executors') = Len(executors) /\ mining.on = current
    BY <1>0, <1>b, <2>1, TakenType DEF JobCloses
  <2> QED
    BY <1>a, <2>1, <2>2 DEF JobCloses, current
<1>4. CASE PollNext
  <2>1. mining' = mining \/ (/\ mining' = [NoMining EXCEPT !.st = "spawned", !.on = current]
                             /\ mining.st = "none")
    BY <1>4 DEF PollNext
  <2>2. task = "poll" /\ task' = "loop" /\ UNCHANGED <<executors, force>>
    BY <1>4 DEF PollNext, forceVars
  <2>3. CASE mining' = mining
    BY <1>a, <2>2, <2>3 DEF JobCloses, current
  <2>4. CASE /\ mining' = [NoMining EXCEPT !.st = "spawned", !.on = current]
             /\ mining.st = "none"
    <3>1. mining'.st = "spawned" /\ mining'.on = current
      BY <2>4 DEF NoMining
    <3> QED
      BY <1>a, <2>2, <2>4, <3>1 DEF JobCloses, current
  <2> QED
    BY <2>1, <2>3, <2>4
<1>5. CASE PollMined
  <2>1. /\ executors' = Append(executors, NewExecutor(chain))
        /\ mining'.st = "none" /\ UNCHANGED force
    BY <1>5 DEF PollMined, OpenBlock, NoMining, forceVars
  <2>2. ~executors'[Len(executors')].taken
    BY <1>0, <2>1, OpenedInSync DEF ExecutorsType, BlockType
  <2> QED
    BY <1>a, <2>1, <2>2 DEF JobCloses, current
<1>6. CASE PollLost
  <2>1. mining'.st = "none" /\ task' = "dead" /\ UNCHANGED <<executors, force>>
    BY <1>6 DEF PollLost, NoMining, forceVars
  <2> QED
    BY <1>a, <2>1 DEF JobCloses
<1>7. CASE ForceSteps
  <2>1. MaxForce[BlockTime] = 0 /\ force = "idle" /\ forced \in Nat
    BY <1>0 DEF JobCloses, ForceType
  <2> QED
    BY <1>7, <2>1 DEF ForceSteps, ForceStart, ForceLock, ForceMine
<1>8. CASE UNCHANGED <<executors, mining, force>> /\ (task' # "dead" => task # "dead")
  BY <1>8, <1>a DEF JobCloses, current
<1>9. ASSUME Accept \/ ExecStart \/ ExecFailure \/ ExecEnd \/ Tick \/ Wake \/ LoopExecuted
              \/ LoopFailed \/ PollPending \/ Queue \/ Sleep
       PROVE  UNCHANGED <<executors, mining, force>> /\ (task' # "dead" => task # "dead")
  BY <1>9
     DEF Accept, ExecStart, ExecFailure, ExecEnd, Tick, Wake, LoopExecuted, LoopFailed,
         PollPending, LoopLeaves, Queue, Sleep, taskVars, forceVars
<1>10. CASE UNCHANGED vars
  BY <1>10, <1>8 DEF vars, taskVars, forceVars
<1> QED
  BY <1>1, <1>2, <1>3, <1>4, <1>5, <1>6, <1>7, <1>8, <1>9, <1>10
     DEF Next, TaskStep, Execution, Mining

\* On demand, and with blocks that do not fill up, only force_mine closes blocks:
\* no execution ends on a full block, so no mining job is ever spawned.
LEMMA ForceClosesStep ==
    TypeInv /\ ValidatorInSync /\ LineInv /\ UsedInv /\ ForceCloses /\ [Next]_vars
        => ForceCloses'
<1> SUFFICES ASSUME TypeInv, ValidatorInSync, LineInv, UsedInv, ForceCloses, [Next]_vars
             PROVE ForceCloses'
    OBVIOUS
<1>0. ExecutorsType /\ ExecType /\ MiningType /\ BlockType /\ PoolType
  BY DEF TypeInv
<1>a. timer' = "off" /\ MaxTxs <= BlockCap[FALSE]
  BY ModeFixed DEF ForceCloses, BlockTime
<1>c. BlockTime = FALSE
  BY DEF ForceCloses, BlockTime
<1>d. ~NoExec.full
  BY DEF NoExec
<1>b. current \in DOMAIN executors
  BY <1>0 DEF current, ExecutorsType
<1>1. CASE ExecSuccess
  <2>1. exec.on \in DOMAIN executors /\ Head(exec.todo) \in Tx
    BY <1>0, <1>1 DEF ExecSuccess, ExecType, ExecJob
  <2>2. /\ executors' = [executors EXCEPT ![exec.on] = Executed(@, Head(exec.todo))]
        /\ exec'.full = exec.full /\ UNCHANGED <<mining, full, force>>
    BY <1>0, <1>1 DEF ExecSuccess, producerVars, forceVars, ExecType, ExecJob
  <2>3. /\ Len(executors') = Len(executors)
        /\ \A h \in DOMAIN executors : executors'[h].taken = executors[h].taken
    BY <1>0, <2>1, <2>2, ExecutedType
  <2>4. executors'[current'].taken = executors[current].taken
    BY <1>b, <2>3 DEF current
  <2> QED
    BY <1>a, <2>2, <2>4 DEF ForceCloses
<1>2. CASE ExecEnd
  <2>1. UNCHANGED <<executors, mining, full, force>>
    BY <1>2 DEF ExecEnd, producerVars, forceVars
  <2>2. ASSUME exec.st = "running", exec.todo # <<>> PROVE ~BlockFull(executors[exec.on])
    <3>1. exec.on \in DOMAIN executors /\ exec.todo \in Seq(Tx)
      BY <1>0, <2>2 DEF ExecType, ExecJob
    <3>2. Head(exec.todo) \in Waiting
      BY <2>2, <3>1, ElemsTail DEF Waiting
    <3>3. executors[exec.on].used < Head(exec.todo)
      BY <3>1, <3>2 DEF UsedInv
    <3>4. Head(exec.todo) \in 1 .. accepted /\ accepted \in Nat /\ accepted <= MaxTxs
      BY <1>0, <3>2 DEF LineInv, PoolType
    <3>5. executors[exec.on].used \in Nat
      BY <1>0, <3>1, ExecutorFields
    <3>6. BlockCap[BlockTime] \in Nat /\ MaxTxs <= BlockCap[BlockTime] /\ MaxTxs \in Nat
      BY <1>a, <1>c, BlockCapAssumption, MaxTxsAssumption
    <3> QED
      BY <3>3, <3>4, <3>5, <3>6 DEF BlockFull
  <2>3. exec'.full = exec.full
    BY <1>0, <1>2, <2>2 DEF ExecEnd, ExecType, ExecJob
  <2> QED
    BY <1>a, <2>1, <2>3 DEF ForceCloses, current
<1>3. CASE PollNext
  <2>1. ~(mining.st = "none" /\ (timer = "ready" \/ full))
    BY DEF ForceCloses
  <2>2. mining' = mining /\ full' = FALSE /\ UNCHANGED <<executors, force>>
    BY <1>3, <2>1 DEF PollNext, forceVars, ForceCloses
  <2>3. exec' = exec \/ ~exec'.full
    BY <1>3 DEF PollNext, Spawn, NoExec
  <2> QED
    BY <1>a, <2>2, <2>3 DEF ForceCloses, current
<1>4. CASE LoopExecuted
  <2>1. ~exec'.full
    <3>1. Spawn(NoExec, mining, timer)
      BY <1>4 DEF LoopExecuted
    <3>2. CASE MaySpawn(NoExec, mining)
      BY <3>1, <3>2 DEF Spawn, NoExec
    <3>3. CASE ~MaySpawn(NoExec, mining)
      BY <1>d, <3>1, <3>3 DEF Spawn
    <3> QED
      BY <3>2, <3>3
  <2>2. UNCHANGED <<executors, mining, full, force>>
    BY <1>4 DEF LoopExecuted, forceVars
  <2> QED
    BY <1>a, <2>1, <2>2 DEF ForceCloses, current
<1>5. CASE PollPending
  <2>1. ~LeftOver
    BY DEF ForceCloses, LeftOver
  <2>2. exec' = exec /\ full' = full /\ UNCHANGED <<executors, mining, force>>
    BY <1>0, <1>5, <2>1 DEF PollPending, LoopLeaves, forceVars, ForceCloses, TypeInv,
       BacklogType
  <2> QED
    BY <1>a, <2>2 DEF ForceCloses, current
<1>6. CASE ForceLock
  <2>1. permit = "free" /\ UNCHANGED <<executors, mining, full, exec>>
    BY <1>6 DEF ForceLock, producerVars
  <2>2. ~executors[current].taken
    BY <2>1 DEF ValidatorInSync
  <2> QED
    BY <1>a, <2>1, <2>2 DEF ForceCloses, current
<1>7. CASE ForceMine \/ ForceStart
  <2>1. force' # "mining" /\ UNCHANGED <<mining, full, exec>>
    BY <1>7 DEF ForceMine, ForceStart, producerVars
  <2> QED
    BY <1>a, <2>1 DEF ForceCloses
<1>8. CASE UNCHANGED <<executors, mining, full, force>> /\ (exec' = NoExec \/ exec'.full = exec.full)
  <2>1. ~exec'.full
    BY <1>8, <1>d DEF ForceCloses
  <2> QED
    BY <1>8, <1>a, <2>1 DEF ForceCloses, current
<1>9. ASSUME Accept \/ ExecStart \/ ExecFailure \/ Tick \/ Wake \/ LoopFailed
              \/ Queue \/ Sleep
       PROVE  /\ UNCHANGED <<executors, mining, full, force>>
              /\ exec' = NoExec \/ exec'.full = exec.full
  BY <1>0, <1>9
     DEF Accept, ExecStart, ExecFailure, Tick, Wake, LoopFailed, Queue, Sleep,
         producerVars, forceVars, ExecType, ExecJob
<1>10. ~MineLock /\ ~MineBlock /\ ~PollMined /\ ~PollLost
  BY DEF ForceCloses, MineLock, MineBlock, PollMined, PollLost
<1>11. CASE UNCHANGED vars
  BY <1>11, <1>8 DEF vars, producerVars, forceVars
<1> QED
  BY <1>1, <1>2, <1>3, <1>4, <1>5, <1>6, <1>7, <1>8, <1>9, <1>10, <1>11
     DEF Next, TaskStep, Execution, Mining, ForceSteps

\* The producer starts with nothing accepted and with one closer.
LEMMA InitOrder == OneCloser /\ Init => OrderInv
<1> SUFFICES ASSUME OneCloser, Init PROVE OrderInv
    OBVIOUS
<1>1. /\ incoming = <<>> /\ queued = <<>> /\ exec.todo = <<>> /\ accepted = 0
      /\ chain = <<>> /\ executors = <<NewExecutor(<<>>)>>
  BY DEF Init, NoExec
<1>2. Waiting = {}
  BY <1>1, IncreasingEmpty DEF Waiting
<1>3. LineInv
  BY <1>1, <1>2, IncreasingEmpty, MaxTxsAssumption DEF LineInv, Precede
<1>4. /\ current = 1 /\ executors[1].txs = <<>> /\ executors[1].number = 1
      /\ ~executors[1].taken /\ executors[1].used = 0
  BY <1>1 DEF current, NewExecutor, NextNumber
<1>5. UsedInv
  BY <1>1, <1>2, <1>4 DEF UsedInv
<1>6. Mined = {}
  BY <1>1 DEF Mined
<1>7. OpenInv
  BY <1>1, <1>2, <1>4, <1>6, IncreasingEmpty DEF OpenInv, Precede
<1>8. ChainInv
  BY <1>2, <1>6 DEF ChainInv, Precede
<1>9. OneCloses
  <2>1. /\ force = "idle" /\ mining.st = "none" /\ full = FALSE /\ exec.full = FALSE
    BY DEF Init, NoMining, NoExec
  <2>2. PICK mode \in BlockTimes : timer = IF mode THEN "none" ELSE "off"
    BY DEF Init
  <2>3. CASE mode
    <3>1. BlockTime /\ MaxForce[TRUE] = 0
      BY <2>2, <2>3 DEF BlockTime, OneCloser
    <3> QED
      BY <1>4, <2>1, <3>1 DEF OneCloses, JobCloses, BlockTime
  <2>4. CASE ~mode
    <3>1. ~BlockTime /\ timer = "off" /\ mode = FALSE
      BY <2>2, <2>4, ModeAssumption DEF BlockTime
    <3>2. MaxForce[FALSE] = 0 \/ MaxTxs <= BlockCap[FALSE]
      BY <3>1 DEF OneCloser
    <3>3. BlockTime = FALSE
      BY <3>1 DEF BlockTime
    <3> QED
      BY <1>4, <2>1, <3>1, <3>2, <3>3 DEF OneCloses, JobCloses, ForceCloses
  <2> QED
    BY <2>3, <2>4
<1> QED
  BY <1>3, <1>5, <1>7, <1>8, <1>9 DEF OrderInv

\* With one closer of blocks, transactions go through the pool's stream, the
\* backlog, the job, the open block and the chain in the order of their
\* acceptance, and what a job or force_mine closes is the block after the tip.
THEOREM OrderKept == ASSUME OneCloser PROVE Spec => []OrderInv
<1>1. TypeInv /\ ValidatorInSync /\ OrderInv /\ [Next]_vars => OrderInv'
  BY LineStep, UsedStep, OpenStep, JobClosesStep, ForceClosesStep DEF OrderInv, OneCloses
<1> QED
  BY <1>1, InitOrder, TypeCorrect, ValidatorAlwaysInSync, PTL DEF Spec

\* A block that is stored is a block of the ledger: after the tip, of accepted
\* transactions in their order, and behind everything in the chain.
LEMMA StoreMines ==
    ASSUME TypeInv, OrderInv, Closing, UNCHANGED accepted,
           chain' = Store(chain, executors[current].number, executors[current].txs)
    PROVE  L!Mine
<1> DEFINE b == executors[current].txs
<1>1. current \in DOMAIN executors
  BY DEF current, TypeInv, ExecutorsType
<1>2. b \in Seq(Tx) /\ chain \in Seq(Seq(Tx))
  BY <1>1, ExecutorFields DEF TypeInv, BlockType
<1>3. chain' = Append(chain, b)
  BY ClosingAppends DEF OrderInv
<1>4. /\ Elems(b) \subseteq 1 .. accepted /\ L!Increasing(b) /\ Precede(Mined, Elems(b))
  BY DEF OrderInv, OpenInv, Closing
<1> HIDE DEF b
<1>5. Len(chain') = Len(chain) + 1 /\ chain'[Len(chain')] = b
  BY <1>2, <1>3
<1>6. \A i \in DOMAIN b : b[i] \in 1 .. accepted
  BY <1>4 DEF Elems
<1>7. L!Follows(b, chain)
  BY <1>4 DEF L!Follows, Precede, Mined, Elems
<1> QED
  BY <1>3, <1>4, <1>5, <1>6, <1>7 DEF L!Mine, L!IsBlock

\* The interval producer, with an interval or on demand, implements the promise
\* of every mining mode, also when jobs fail: the chain grows by one block at a
\* time, and holds accepted transactions in their order, none of them twice.
\* The hypothesis is needed: force_mine does not look at ongoing_mining, and may
\* store and open a block while the mining job has taken another one.
THEOREM IntervalImplementsLedger == ASSUME OneCloser PROVE Spec => ImplementsLedger
<1>1. Init => L!Init
  BY DEF Init, L!Init
<1>2. TypeInv /\ OrderInv /\ [Next]_vars => [L!Next]_(L!vars)
  <2> SUFFICES ASSUME TypeInv, OrderInv, [Next]_vars
               PROVE  [L!Next]_(L!vars)
    OBVIOUS
  <2>1. CASE Accept
    BY <2>1 DEF Accept, L!Next, L!Accept, blockVars
  <2>2. CASE UNCHANGED <<accepted, chain>>
    BY <2>2 DEF L!vars
  <2>3. CASE MineBlock
    <3>1. mining.on = current /\ Closing /\ UNCHANGED accepted
      BY <2>3 DEF MineBlock, OrderInv, OneCloses, JobCloses, ForceCloses, Closing, poolVars
    <3>2. \/ chain' = chain
          \/ chain' = Store(chain, executors[current].number, executors[current].txs)
      BY <2>3, <3>1 DEF MineBlock
    <3> QED
      BY <2>2, <3>1, <3>2, StoreMines DEF L!Next
  <2>4. CASE ForceMine
    <3>1. Closing /\ UNCHANGED accepted
      BY <2>4 DEF ForceMine, OrderInv, OneCloses, JobCloses, ForceCloses, Closing, poolVars
    <3>2. \/ chain' = chain
          \/ chain' = Store(chain, executors[current].number, executors[current].txs)
      BY <2>4 DEF ForceMine
    <3> QED
      BY <2>2, <3>1, <3>2, StoreMines DEF L!Next
  <2>5. ASSUME MineLock \/ Tick \/ TaskStep \/ ForceStart \/ ForceLock
        PROVE  UNCHANGED <<accepted, chain>>
    BY <2>5
       DEF MineLock, Tick, TaskStep, Wake, PollNext, LoopExecuted, LoopFailed,
           PollPending, PollMined, PollLost, Queue, Sleep, ForceStart, ForceLock,
           poolVars, blockVars
  <2>6. CASE UNCHANGED vars
    BY <2>2, <2>6 DEF vars, poolVars, blockVars
  <2> QED
    BY <2>1, <2>2, <2>3, <2>4, <2>5, <2>6, ExecutionFrame
       DEF Next, Mining, ForceSteps, poolVars, blockVars
<1> QED
  BY <1>1, <1>2, TypeCorrect, OrderKept, PTL DEF Spec, ImplementsLedger, L!Spec
=============================================================================
