----------------------------- MODULE Messaging -----------------------------
(***************************************************************************)
(* The messaging service of katana: a stream that, on every tick of its    *)
(* interval, gathers the messages of the next blocks of the settlement     *)
(* chain and offers each of them to the pool as an L1 handler transaction. *)
(* A poll runs to its end once the task is woken; it is woken only by what *)
(* has its waker: the interval, when the last look at it found no tick, or *)
(* the request of the settlement node that is in flight.  The module holds *)
(* the service's state and steps; Node runs them as a task.                *)
(***************************************************************************)
EXTENDS Integers, Sequences, SequencesExt

CONSTANTS
    Modes,       \* the messengers to consider: Ethereum, Starknet
    FromBlock,   \* from_block of the MessagingConfig
    MaxBlocks,   \* max_block, 200 in the code
    Height,      \* bound: the last block of the settlement chain
    Sent,        \* block -> the sequence of messages [contract, nonce] it emits
    Contracts,   \* the L2 contracts the messages go to
    MaxFailures  \* bound: how many requests fail

ASSUME MessagingAssumption ==
    /\ Modes \subseteq {"Ethereum", "Starknet"}
    /\ FromBlock \in Nat /\ MaxBlocks \in Nat /\ Height \in Nat /\ MaxFailures \in Nat
    /\ Sent \in [0..Height -> Seq([contract : Contracts, nonce : Nat])]

VARIABLES
    mode,        \* the MessengerMode of the configuration
    latest,      \* the latest block of the settlement chain
    due,         \* the deadline of the interval has passed
    armed,       \* the interval holds the waker of the task
    woken,       \* the task is scheduled to be polled
    gather,      \* msg_gather_fut
    answer,      \* what the settlement node answered, not yet polled
    from,        \* gather_from_block
    offered,     \* the messages given to add_transaction
    rejected,    \* those the pool turned down, a result nobody reads
    poolNonces,  \* pool_nonces of the validator, for the contracts
    failures

msgVars == <<mode, latest, due, armed, woken, gather, answer, from, offered, rejected,
             poolNonces, failures>>

NoGather == [step |-> "none"]
Idle == gather = NoGather
NoAnswer == [kind |-> "none"]

\* MessagingService::new: nothing is polled before the task's first poll.
NewService ==
    /\ due' = FALSE /\ armed' = FALSE /\ woken' = TRUE
    /\ gather' = NoGather /\ answer' = NoAnswer
    /\ from' = FromBlock
    /\ offered' = <<>> /\ rejected' = {}
    /\ poolNonces' = [c \in Contracts |-> 0]

MsgInit ==
    /\ mode \in Modes
    /\ latest = 0 /\ failures = 0
    /\ due = FALSE /\ armed = FALSE /\ woken = FALSE
    /\ gather = NoGather /\ answer = NoAnswer
    /\ from = FromBlock
    /\ offered = <<>> /\ rejected = {}
    /\ poolNonces = [c \in Contracts |-> 0]

-----------------------------------------------------------------------------
(* The settlement chain and the timer *)

Grow ==
    /\ latest < Height
    /\ latest' = latest + 1
    /\ UNCHANGED <<mode, due, armed, woken, gather, answer, from, offered, rejected, poolNonces, failures>>

TimerFires ==
    /\ ~due
    /\ due' = TRUE
    /\ woken' = (woken \/ armed)
    /\ armed' = FALSE
    /\ UNCHANGED <<mode, latest, gather, answer, from, offered, rejected, poolNonces, failures>>

\* The request in flight makes progress (a connection, a part of the body) or is
\* answered; each wakes the task.
Progress ==
    /\ ~Idle /\ answer = NoAnswer /\ ~woken
    /\ woken' = TRUE
    /\ UNCHANGED <<mode, latest, due, armed, gather, answer, from, offered, rejected, poolNonces, failures>>

Answered ==
    /\ ~Idle /\ answer = NoAnswer
    /\ answer' = [kind |-> "ok", latest |-> latest]
    /\ woken' = TRUE
    /\ UNCHANGED <<mode, latest, due, armed, gather, from, offered, rejected, poolNonces, failures>>

Failed ==
    /\ ~Idle /\ answer = NoAnswer
    /\ failures < MaxFailures
    /\ failures' = failures + 1
    /\ answer' = [kind |-> "err"]
    /\ woken' = TRUE
    /\ UNCHANGED <<mode, latest, due, armed, gather, from, offered, rejected, poolNonces>>

-----------------------------------------------------------------------------
(* gather_messages *)

\* The last block of the range to fetch.
ToBlock(start, chainLatest) ==
    IF start + MaxBlocks + 1 < chainLatest THEN start + MaxBlocks ELSE chainLatest

\* fetch_logs, fetch_events and the conversion to transactions: the messages of the
\* blocks that exist, in their order.
Messages(start, until) ==
    FlattenSeq([i \in 1..(until - start + 1) |->
        IF start + i - 1 \in DOMAIN Sent THEN Sent[start + i - 1] ELSE <<>>])

\* add_transaction of one message: an L1 handler with a nonce beyond the validator's
\* is dependent and turned down, any other is valid and counted.
Admit(pool, message) ==
    IF message.nonce > pool.nonces[message.contract]
    THEN [pool EXCEPT !.rejected = @ \cup {message}]
    ELSE [pool EXCEPT !.nonces[message.contract] = @ + 1]

AddTransactions(messages) ==
    LET pool == FoldLeft(Admit, [nonces |-> poolNonces, rejected |-> rejected], messages)
    IN  /\ offered' = offered \o messages
        /\ rejected' = pool.rejected
        /\ poolNonces' = pool.nonces

-----------------------------------------------------------------------------
(* poll_next, as MessagingTask::poll calls it *)

\* Plausible bug: a look at the interval that finds no tick leaves no waker.
PollTickUnregistered ==
    /\ due' = FALSE
    /\ armed' = armed

\* interval.poll_tick: a tick is taken and leaves no waker, no tick leaves the waker.
PollTick ==
    /\ due' = FALSE
    /\ armed' = ~due

\* A tick with nothing in flight: the gathering starts and asks for the block number.
PollStart ==
    /\ woken /\ Idle /\ due
    /\ woken' = FALSE
    /\ PollTick
    /\ gather' = [step |-> "number", from |-> from]
    /\ UNCHANGED <<mode, latest, answer, from, offered, rejected, poolNonces, failures>>

\* Nothing to do: no tick, or a request in flight that is not answered.
PollPending ==
    /\ woken
    /\ IF Idle THEN ~due ELSE answer = NoAnswer
    /\ woken' = FALSE
    /\ PollTick
    /\ UNCHANGED <<mode, latest, gather, answer, from, offered, rejected, poolNonces, failures>>

HasAnswer(step, kind) == woken /\ gather.step = step /\ answer.kind = kind

\* The chain has no block from the cursor on: the Starknet messenger is done.
NothingToFetch == mode = "Starknet" /\ gather.from > answer.latest

\* The block number is known: the range is fixed and its logs are asked for.
PollNumber ==
    /\ HasAnswer("number", "ok") /\ ~NothingToFetch
    /\ woken' = FALSE /\ answer' = NoAnswer
    /\ PollTick
    /\ gather' = [step |-> "logs", from |-> gather.from, to |-> ToBlock(gather.from, answer.latest)]
    /\ UNCHANGED <<mode, latest, from, offered, rejected, poolNonces, failures>>

\* The gathering is over with lastBlock; MessagingTask polls again at once, which
\* finds no tick and leaves the waker with the interval.
Ready(lastBlock) ==
    /\ woken' = FALSE /\ answer' = NoAnswer
    /\ due' = FALSE /\ armed' = TRUE
    /\ gather' = NoGather
    /\ from' = lastBlock + 1

PollNothing ==
    /\ HasAnswer("number", "ok") /\ NothingToFetch
    /\ Ready(answer.latest)
    /\ UNCHANGED <<mode, latest, offered, rejected, poolNonces, failures>>

PollLogs ==
    /\ HasAnswer("logs", "ok")
    /\ AddTransactions(Messages(gather.from, gather.to))
    /\ Ready(gather.to)
    /\ UNCHANGED <<mode, latest, failures>>

Panics == HasAnswer("logs", "err") /\ mode = "Starknet"

\* Plausible bug: the cursor moves on although nothing was gathered.
PollErrSkips ==
    /\ woken /\ answer.kind = "err" /\ ~Panics
    /\ woken' = FALSE /\ answer' = NoAnswer
    /\ PollTick
    /\ gather' = NoGather
    /\ from' = latest + 1
    /\ UNCHANGED <<mode, latest, offered, rejected, poolNonces, failures>>

\* An error is logged; the future is gone and the cursor stays.
PollErr ==
    /\ woken /\ answer.kind = "err" /\ ~Panics
    /\ woken' = FALSE /\ answer' = NoAnswer
    /\ PollTick
    /\ gather' = NoGather
    /\ UNCHANGED <<mode, latest, from, offered, rejected, poolNonces, failures>>

Poll == PollStart \/ PollPending \/ PollNumber \/ PollNothing \/ PollLogs \/ PollErr

\* Nothing holds the waker of the task: it is never polled again.
Asleep == ~woken /\ ~armed /\ Idle
=============================================================================
