--------------------------- MODULE InstantProducer --------------------------
(***************************************************************************)
(* Katana's InstantBlockProducer, driven by BlockProductionTask: as soon   *)
(* as there are transactions, one blocking job executes them on the latest *)
(* state, stores the block and points the pool's validator at it. The job  *)
(* holds the validator's permit to its end. The dev API's force_mine runs  *)
(* the same job on an RPC thread, under the producer's write lock, unless  *)
(* one is running.                                                         *)
(*                                                                         *)
(* Transactions are numbered in the order in which the pool accepts them.  *)
(* A database read that follows the storing of a block is taken to work.   *)
(***************************************************************************)
EXTENDS Integers, Sequences

CONSTANTS
    MaxTxs,      \* bound: transactions accepted by the pool
    BlockCap,    \* successful transactions that fill a block
    MaxForce,    \* bound: calls of force_mine (0: the dev API is off)
    JobsMayFail  \* may the job return an error or panic?

ASSUME InstantMaxAssumption == MaxTxs \in Nat /\ MaxForce \in Nat
ASSUME InstantCapAssumption == BlockCap \in Nat \ {0}
ASSUME InstantModeAssumption == JobsMayFail \in BOOLEAN

VARIABLES
    accepted,   \* how many transactions the validator has accepted
    incoming,   \* accepted ones the task has not taken from the pool's stream
    pool,       \* the transactions in the pool
    queued,     \* the backlog, flattened: it is only ever taken as a whole
    job,        \* block_mining, or the call of do_mine in force_mine
    permit,     \* is the validator's permit free?
    validator,  \* the number of the block whose state the validator reads
    chain,      \* the stored blocks after genesis, by block number
    notified,   \* transactions handed to notify_listener
    forced,     \* how many times force_mine has been called
    dead        \* the block production task has returned an error

poolVars == <<accepted, incoming, pool>>
vars == <<poolVars, queued, job, permit, validator, chain, notified, forced,
          dead>>

\* `by` is who runs do_mine, `todo` what is to be executed, `block` what has
\* been executed successfully.
NoJob == [st |-> "none", by |-> "task", todo |-> <<>>, block |-> <<>>]
Elems(s) == {s[i] : i \in DOMAIN s}

Init ==
    /\ accepted = 0 /\ incoming = <<>> /\ pool = {}
    /\ queued = <<>> /\ job = NoJob
    /\ permit = TRUE /\ validator = 0 /\ chain = <<>>
    /\ notified = {} /\ forced = 0 /\ dead = FALSE

\* force_mine holds the producer's write lock while its job runs.
Unlocked == job.st = "none" \/ job.by = "task"

-----------------------------------------------------------------------------
\* RPC thread, add_transaction: validate takes the permit and gives it back.
Accept ==
    /\ permit
    /\ accepted < MaxTxs
    /\ accepted' = accepted + 1
    /\ incoming' = Append(incoming, accepted + 1)
    /\ pool' = pool \union {accepted + 1}
    /\ UNCHANGED <<queued, job, permit, validator, chain, notified, forced, dead>>

\* BlockProductionTask::poll: the miner drains the pool's stream into queue().
Queue ==
    /\ ~dead /\ Unlocked
    /\ incoming # <<>>
    /\ queued' = queued \o incoming
    /\ incoming' = <<>>
    /\ UNCHANGED <<accepted, pool, job, permit, validator, chain, notified,
                   forced, dead>>

-----------------------------------------------------------------------------
(* do_mine.                                                                 *)

JobLock ==
    /\ job.st = "spawned" /\ permit
    /\ permit' = FALSE
    /\ job' = [job EXCEPT !.st = "running"]
    /\ UNCHANGED <<poolVars, queued, validator, chain, notified, forced, dead>>

JobFull == Len(job.block) >= BlockCap

\* execute_block goes through the transactions in order.
JobExecute ==
    /\ job.st = "running" /\ job.todo # <<>>
    /\ \/ /\ ~JobFull
          /\ job' = [job EXCEPT !.todo = Tail(@),
                                !.block = Append(@, Head(job.todo))]
       \/ job' = [job EXCEPT !.todo = Tail(@)]
    /\ UNCHANGED <<poolVars, queued, permit, validator, chain, notified, forced,
                   dead>>

\* TxValidator::update with the state of the block that is being stored.
UpdateNothing == UNCHANGED validator
UpdateValidator == validator' = Len(chain) + 1

\* The block is stored on top of the latest one and the validator updated.
\* execute_block says nothing of the transactions after a limit is exhausted.
JobStore ==
    /\ job.st = "running"
    /\ job.todo = <<>> \/ JobFull
    /\ chain' = Append(chain, job.block)
    /\ UpdateValidator
    /\ permit' = TRUE
    /\ job' = IF job.by = "force" THEN NoJob ELSE [job EXCEPT !.st = "done"]
    /\ UNCHANGED <<poolVars, queued, notified, forced, dead>>

\* do_mine returns an error or panics; force_mine ignores it.
JobFailure ==
    /\ JobsMayFail
    /\ job.st = "running"
    /\ permit' = TRUE
    /\ job' = IF job.by = "force" THEN NoJob ELSE [job EXCEPT !.st = "failed"]
    /\ UNCHANGED <<poolVars, queued, validator, chain, notified, forced, dead>>

-----------------------------------------------------------------------------
(* poll_next of the producer, with what BlockProductionTask::poll does with *)
(* the block it returns.                                                    *)

PollSpawnClone ==
    /\ ~dead /\ Unlocked
    /\ queued # <<>> /\ job.st = "none"
    /\ job' = [NoJob EXCEPT !.st = "spawned", !.todo = queued]
    /\ UNCHANGED <<poolVars, queued, permit, validator, chain, notified, forced,
                   dead>>
PollSpawn ==
    /\ ~dead /\ Unlocked
    /\ queued # <<>> /\ job.st = "none"
    /\ job' = [NoJob EXCEPT !.st = "spawned", !.todo = queued]
    /\ queued' = <<>>
    /\ UNCHANGED <<poolVars, permit, validator, chain, notified, forced, dead>>

\* notify_listener: what the listeners have been told, whether or not a
\* channel had room.
Announced == notified \union Elems(job.block)

\* The listeners are told, and the task removes the block's transactions.
SettleSilently ==
    /\ pool' = pool \ Elems(job.block)
    /\ job' = NoJob
    /\ UNCHANGED notified
SettleKeepsJob ==
    /\ notified' = Announced
    /\ pool' = pool \ Elems(job.block)
    /\ UNCHANGED job
Settle ==
    /\ notified' = Announced
    /\ pool' = pool \ Elems(job.block)
    /\ job' = NoJob

PollMined ==
    /\ ~dead
    /\ job.st = "done"
    /\ Settle
    /\ UNCHANGED <<accepted, incoming, queued, permit, validator, chain, forced,
                   dead>>

PollFailed ==
    /\ ~dead
    /\ job.st = "failed"
    /\ dead' = TRUE
    /\ job' = NoJob
    /\ UNCHANGED <<poolVars, queued, permit, validator, chain, notified, forced>>

\* force_mine: mines the backlog, empty or not, if no block is being mined.
ForceMine ==
    /\ forced < MaxForce /\ job.st = "none"
    /\ forced' = forced + 1
    /\ job' = [NoJob EXCEPT !.st = "spawned", !.by = "force", !.todo = queued]
    /\ queued' = <<>>
    /\ UNCHANGED <<poolVars, permit, validator, chain, notified, dead>>

-----------------------------------------------------------------------------
Job == JobLock \/ JobExecute \/ JobStore \/ JobFailure
Poll == PollSpawn \/ PollMined \/ PollFailed

Next == Accept \/ Queue \/ Job \/ Poll \/ ForceMine

Spec == Init /\ [][Next]_vars

\* The runtime polls the task and the blocking pool runs its job.
Fairness ==
    WF_vars(Queue) /\ WF_vars(Poll) /\ WF_vars(Job)

FairSpec == Spec /\ Fairness

-----------------------------------------------------------------------------
(* Properties.                                                              *)

Tx == Nat \ {0}
Mined == UNION {Elems(chain[n]) : n \in DOMAIN chain}

JobRecord == [st: {"none", "spawned", "running", "done", "failed"},
              by: {"task", "force"}, todo: Seq(Tx), block: Seq(Tx)]

PoolType ==
    /\ accepted \in Nat /\ incoming \in Seq(Tx) /\ pool \in SUBSET Tx
    /\ queued \in Seq(Tx) /\ notified \in SUBSET Tx
JobType == job \in JobRecord
PermitType == permit \in BOOLEAN /\ (job.st = "running" <=> ~permit)
ChainType == validator \in Nat /\ chain \in Seq(Seq(Tx))
CallType == forced \in Nat /\ dead \in BOOLEAN

\* Every variable keeps its type, and the job of do_mine has the permit exactly
\* while it runs: it neither leaks nor loses the validator's lock.
TypeInv == PoolType /\ JobType /\ PermitType /\ ChainType /\ CallType

\* "the validator needs to always be built against the state of the block
\* producer": whenever validate can get the permit, the validator reads the
\* state of the latest block, also after a block mined by force_mine.
ValidatorAtTip == permit => validator = Len(chain)

\* Outside of a job, the transactions the listeners were told of are exactly
\* those that have left the pool, and all of them are in a block.
PoolMatchesNotified ==
    /\ notified = (1 .. accepted) \ pool
    /\ notified \subseteq Mined

\* Every accepted transaction is eventually given to a job, unless an error has
\* ended the block production task.
EventuallyTaken ==
    \A x \in 1 .. MaxTxs :
        x \in Elems(incoming) \union Elems(queued) ~>
            (x \notin Elems(incoming) \union Elems(queued) \/ dead)

\* The producer implements the promise of every mining mode.
L == INSTANCE Ledger WITH accepted <- accepted, chain <- chain
ImplementsLedger == L!Spec
=============================================================================
