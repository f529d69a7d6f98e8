------------------------------- MODULE TxPool -------------------------------
(***************************************************************************)
(* Katana's transaction pool: Pool::add_transaction as it runs on several  *)
(* RPC threads at once, the stateful validator with its pool nonces, the   *)
(* FiFo ordering, the PendingTransactions stream the block production      *)
(* task consumes, and remove_transactions.                                 *)
(*                                                                         *)
(* add_transaction takes one lock after the other and holds none of them   *)
(* across two steps, so each step is an action of the calling thread.      *)
(* What the executor does with a yielded transaction is reduced to the     *)
(* strict nonce check that decides whether it can be executed.             *)
(***************************************************************************)
EXTENDS Integers, Sequences, FiniteSets

CONSTANTS
    Txs,            \* the transactions (a transaction is its hash)
    Senders,        \* the account and contract addresses
    SenderOf,       \* [Txs -> Senders]
    NonceOf,        \* [Txs -> Nat]
    KindOf,         \* [Txs -> Kinds]
    ClassOf,        \* the class hash a declare transaction declares
    Undeployed,     \* the accounts that have no contract at first
    NoTx,           \* no transaction: what an idle thread is adding
    RpcThreads,     \* the threads that may call add_transaction
    ListenerCap,    \* capacity of the listener's channel (0: no listener)
    ExecutionMayFail, \* may execution fail for another reason than the nonce
    MaxSubmissions  \* bound: how often each transaction is submitted

Kinds == {"invoke", "declare", "deploy", "l1handler"}

ASSUME SenderAssumption == SenderOf \in [Txs -> Senders]
ASSUME NonceAssumption  == NonceOf \in [Txs -> Nat]
ASSUME KindAssumption   == KindOf \in [Txs -> Kinds] /\ DOMAIN ClassOf = Txs
ASSUME DeployAssumption == Undeployed \subseteq Senders
ASSUME NoTxAssumption   == NoTx \notin Txs
ASSUME BoundAssumption  == ListenerCap \in Nat /\ MaxSubmissions \in Nat

VARIABLES
    pc,           \* where each RPC thread is in add_transaction
    cur,          \* the PendingTx each RPC thread is adding
    nonceCtr,     \* FiFo::nonce, the next priority
    transactions, \* Inner::transactions, the BTreeSet
    poolNonces,   \* Inner::pool_nonces of the validator; Absent if no entry
    stateNonces,  \* the nonces of the state the validator reads
    declared,     \* the class hashes declared in that state
    listener,     \* the channel of the one listener: [open, queue]
    phase,        \* of the stream: absent, subscribed or live
    all,          \* PendingTransactions::all, what is left of the snapshot
    channel,      \* the unbounded channel of the stream's subscription
    txs,          \* Subscription::txs, the BTreeSet of drained transactions
    yielded,      \* what the stream has yielded, in order
    executed,     \* how many of the yielded transactions have been executed
    succeeded,    \* the transactions that were executed successfully
    submitted,    \* how often each transaction has been submitted
    acked,        \* the entries whose add_transaction has returned Ok
    started,      \* for each thread, acked when its current call started
    precedes      \* pairs <<a, b>>: b's call started after a's had returned

threadVars == <<pc, cur, submitted, started>>
validatorVars == <<poolNonces, stateNonces, declared>>
streamVars == <<phase, all, channel, txs, yielded>>
consumerVars == <<executed, succeeded>>
ghostVars == <<acked, precedes>>
vars == <<threadVars, nonceCtr, transactions, validatorVars, listener,
          streamVars, consumerVars, ghostVars>>

Absent == -1

(***************************************************************************)
(* A PendingTx is a transaction with its priority. Entries are compared by *)
(* priority alone (Ord for PendingTx), and pop_first takes the smallest.   *)
(***************************************************************************)
PendingTx == [tx: Txs, priority: Nat]
NoEntry == [tx |-> NoTx, priority |-> Absent]
Elems(s) == {s[i] : i \in DOMAIN s}
LastOf(S) == CHOOSE e \in S : \A f \in S : e.priority >= f.priority
First(S) == CHOOSE e \in S : \A f \in S : e.priority <= f.priority

Init ==
    /\ pc = [t \in RpcThreads |-> "idle"]
    /\ cur = [t \in RpcThreads |-> NoEntry]
    /\ nonceCtr = 0
    /\ transactions = {}
    /\ poolNonces = [s \in Senders |-> Absent]
    /\ stateNonces = [s \in Senders |-> 0]
    /\ declared = {}
    /\ listener = [open |-> ListenerCap > 0, queue |-> <<>>]
    /\ phase = "absent"
    /\ all = {} /\ channel = <<>> /\ txs = {} /\ yielded = <<>>
    /\ executed = 0 /\ succeeded = {}
    /\ submitted = [x \in Txs |-> 0]
    /\ acked = {}
    /\ started = [t \in RpcThreads |-> {}]
    /\ precedes = {}

-----------------------------------------------------------------------------
(* The validator. validate holds the permit and the validator's mutex from  *)
(* beginning to end, so a call of it is one step.                           *)

\* The nonce the validator compares with; also what pool_nonce returns.
CurrentNonce(s) ==
    IF poolNonces[s] # Absent THEN poolNonces[s] ELSE stateNonces[s]

\* A deploy_account gives the account its contract and its first nonce.
Deployed(s) == s \notin Undeployed \/ stateNonces[s] > 0

\* The __validate__ entry point of an invoke is not run while its account is
\* still to be deployed.
SkipValidate(x) ==
    /\ KindOf[x] \notin {"deploy", "declare"}
    /\ NonceOf[x] = 1 /\ CurrentNonce(SenderOf[x]) = 0

\* Blockifier's perform_validations: a deploy_account is executed, with the
\* strict nonce check; any other account transaction only has to have a nonce
\* that is not below the state's, and a contract that has __validate__; an L1
\* handler is not validated at all.
PassesValidation(x) ==
    CASE KindOf[x] = "l1handler" -> TRUE
      [] KindOf[x] = "deploy"    -> NonceOf[x] = stateNonces[SenderOf[x]]
      [] OTHER -> /\ NonceOf[x] >= stateNonces[SenderOf[x]]
                  /\ Deployed(SenderOf[x]) \/ SkipValidate(x)

ClassDeclared(x) == KindOf[x] = "declare" /\ ClassOf[x] \in declared
DependentOffByOne(x) == NonceOf[x] > CurrentNonce(SenderOf[x]) + 1
Dependent(x) == NonceOf[x] > CurrentNonce(SenderOf[x])

\* Every call of add_transaction starts by being validated.
Submit(x) ==
    /\ submitted[x] < MaxSubmissions
    /\ submitted' = [submitted EXCEPT ![x] = @ + 1]

\* For a valid transaction the pool nonce moves to the one after the current
\* nonce, whatever the nonce of the transaction is.
SameNonce(x) == CurrentNonce(SenderOf[x])
UpdatedNonce(x) == CurrentNonce(SenderOf[x]) + 1

ValidateValid(t, x) ==
    /\ pc[t] = "idle"
    /\ ~ClassDeclared(x) /\ ~Dependent(x) /\ PassesValidation(x)
    /\ Submit(x)
    /\ poolNonces' = [poolNonces EXCEPT ![SenderOf[x]] = UpdatedNonce(x)]
    /\ pc' = [pc EXCEPT ![t] = "validated"]
    /\ cur' = [cur EXCEPT ![t] = [tx |-> x, priority |-> Absent]]
    /\ started' = [started EXCEPT ![t] = acked]
    /\ UNCHANGED <<nonceCtr, transactions, stateNonces, declared, listener,
                   streamVars, consumerVars, ghostVars>>

\* Invalid, Dependent or an internal error: add_transaction returns the error
\* and nothing is kept. The __validate__ entry point and the fee checks may
\* also reject an account transaction whose nonce is right.
ValidateRejected(t, x) ==
    /\ pc[t] = "idle"
    /\ \/ ClassDeclared(x)
       \/ Dependent(x)
       \/ ~PassesValidation(x)
       \/ KindOf[x] # "l1handler"
    /\ Submit(x)
    /\ UNCHANGED <<pc, cur, started, nonceCtr, transactions, validatorVars,
                   listener, streamVars, consumerVars, ghostVars>>

-----------------------------------------------------------------------------
(* The rest of add_transaction, for a valid transaction.                    *)

\* FiFo::priority: an atomic fetch_add, outside of every lock.
AssignPriority(t) ==
    /\ pc[t] = "validated"
    /\ nonceCtr' = nonceCtr + 1
    /\ cur' = [cur EXCEPT ![t].priority = nonceCtr]
    /\ pc' = [pc EXCEPT ![t] = "prioritised"]
    /\ UNCHANGED <<submitted, started, transactions, validatorVars, listener,
                   streamVars, consumerVars, ghostVars>>

Inserted(e) == transactions \union {e}

Insert(t) ==
    /\ pc[t] = "prioritised"
    /\ transactions' = Inserted(cur[t])
    /\ pc' = [pc EXCEPT ![t] = "inserted"]
    /\ UNCHANGED <<cur, submitted, started, nonceCtr, validatorVars, listener,
                   streamVars, consumerVars, ghostVars>>

\* try_send to the listener: lost when the channel is full or closed.
NotifyListener(t) ==
    /\ pc[t] = "inserted"
    /\ listener' =
         IF listener.open /\ Len(listener.queue) < ListenerCap
         THEN [listener EXCEPT !.queue = Append(@, cur[t].tx)]
         ELSE listener
    /\ pc' = [pc EXCEPT ![t] = "notifying"]
    /\ UNCHANGED <<cur, submitted, started, nonceCtr, transactions,
                   validatorVars, streamVars, consumerVars, ghostVars>>

\* send to the subscription, then return Ok(hash).
NotifySubscribers(t) ==
    /\ pc[t] = "notifying"
    /\ channel' = IF phase = "absent" THEN channel ELSE Append(channel, cur[t])
    /\ pc' = [pc EXCEPT ![t] = "idle"]
    /\ acked' = acked \union {cur[t]}
    /\ precedes' = precedes \union {<<a, cur[t]>> : a \in started[t]}
    /\ UNCHANGED <<cur, submitted, started, nonceCtr, transactions,
                   validatorVars, listener, phase, all, txs, yielded,
                   consumerVars>>

-----------------------------------------------------------------------------
(* pending_transactions, called by the sequencing stage, and the stream.    *)

Subscribe ==
    /\ phase = "absent"
    /\ phase' = "subscribed"
    /\ UNCHANGED <<threadVars, nonceCtr, transactions, validatorVars, listener,
                   all, channel, txs, yielded, consumerVars, ghostVars>>

SnapshotEmpty ==
    /\ phase = "subscribed"
    /\ phase' = "live"
    /\ UNCHANGED <<threadVars, nonceCtr, transactions, validatorVars, listener,
                   all, channel, txs, yielded, consumerVars, ghostVars>>
Snapshot ==
    /\ phase = "subscribed"
    /\ phase' = "live"
    /\ all' = transactions
    /\ UNCHANGED <<threadVars, nonceCtr, transactions, validatorVars, listener,
                   channel, txs, yielded, consumerVars, ghostVars>>

\* PendingTransactions::poll_next while the snapshot is not exhausted.
YieldFromSnapshot ==
    /\ phase = "live" /\ all # {}
    /\ yielded' = Append(yielded, First(all))
    /\ all' = all \ {First(all)}
    /\ UNCHANGED <<threadVars, nonceCtr, transactions, validatorVars, listener,
                   phase, channel, txs, consumerVars, ghostVars>>

\* Subscription::poll_next: the channel is drained into the set only when the
\* set is empty.
NeverDrained == txs
Drained == IF txs # {} THEN txs ELSE Elems(channel)

YieldFromSubscription ==
    /\ phase = "live" /\ all = {}
    /\ Drained # {}
    /\ yielded' = Append(yielded, First(Drained))
    /\ txs' = Drained \ {First(Drained)}
    /\ channel' = IF txs # {} THEN channel ELSE <<>>
    /\ UNCHANGED <<threadVars, nonceCtr, transactions, validatorVars, listener,
                   phase, all, consumerVars, ghostVars>>

-----------------------------------------------------------------------------
(* The consumers of the pool.                                               *)

\* The executor's strict nonce check; an L1 handler has none. A class cannot
\* be declared twice, and an account has to be there.
Executable(x) ==
    \/ KindOf[x] = "l1handler"
    \/ /\ NonceOf[x] = stateNonces[SenderOf[x]] /\ ~ClassDeclared(x)
       /\ KindOf[x] = "deploy" \/ Deployed(SenderOf[x])

\* The block producer executes what it was given, in order, on the state the
\* validator reads.
ExecuteSuccess ==
    /\ executed < Len(yielded)
    /\ LET x == yielded[executed + 1].tx
       IN  /\ Executable(x)
           /\ succeeded' = succeeded \union {x}
           /\ stateNonces' =
                IF KindOf[x] = "l1handler" THEN stateNonces
                ELSE [stateNonces EXCEPT ![SenderOf[x]] = @ + 1]
           /\ declared' = IF KindOf[x] = "declare"
                          THEN declared \union {ClassOf[x]} ELSE declared
    /\ executed' = executed + 1
    /\ UNCHANGED <<threadVars, nonceCtr, transactions, poolNonces, listener,
                   streamVars, ghostVars>>

\* ExecutionResult::Failed: the transaction leaves no trace but stays in the
\* pool.
ExecuteFailed ==
    /\ executed < Len(yielded)
    /\ ExecutionMayFail \/ ~Executable(yielded[executed + 1].tx)
    /\ executed' = executed + 1
    /\ UNCHANGED <<threadVars, nonceCtr, transactions, validatorVars, listener,
                   streamVars, succeeded, ghostVars>>

\* A block has been mined: its transactions are those that succeeded.
RemoveTransactions ==
    /\ \E e \in transactions : e.tx \in succeeded
    /\ transactions' = {e \in transactions : e.tx \notin succeeded}
    /\ UNCHANGED <<threadVars, nonceCtr, validatorVars, listener, streamVars,
                   consumerVars, ghostVars>>

ListenerRecv ==
    /\ listener.open /\ listener.queue # <<>>
    /\ listener' = [listener EXCEPT !.queue = Tail(@)]
    /\ UNCHANGED <<threadVars, nonceCtr, transactions, validatorVars,
                   streamVars, consumerVars, ghostVars>>

\* The receiver is dropped; the next try_send finds the channel closed.
ListenerClosed ==
    /\ listener.open
    /\ listener' = [open |-> FALSE, queue |-> <<>>]
    /\ UNCHANGED <<threadVars, nonceCtr, transactions, validatorVars,
                   streamVars, consumerVars, ghostVars>>

-----------------------------------------------------------------------------
AddTransaction(t) ==
    \/ \E x \in Txs : ValidateValid(t, x) \/ ValidateRejected(t, x)
    \/ AssignPriority(t)
    \/ Insert(t)
    \/ NotifyListener(t)
    \/ NotifySubscribers(t)

PollStream == YieldFromSnapshot \/ YieldFromSubscription

Next ==
    \/ \E t \in RpcThreads : AddTransaction(t)
    \/ Subscribe
    \/ Snapshot
    \/ PollStream
    \/ ExecuteSuccess
    \/ ExecuteFailed
    \/ RemoveTransactions
    \/ ListenerRecv
    \/ ListenerClosed

Spec == Init /\ [][Next]_vars

\* A thread inside add_transaction is not suspended for ever, the sequencing
\* stage starts, and the block production task keeps polling its stream.
Fairness ==
    /\ \A t \in RpcThreads : WF_vars(AssignPriority(t) \/ Insert(t)
                                       \/ NotifyListener(t) \/ NotifySubscribers(t))
    /\ WF_vars(Subscribe) /\ WF_vars(Snapshot)
    /\ WF_vars(PollStream)
    /\ WF_vars(ExecuteSuccess \/ ExecuteFailed)

FairSpec == Spec /\ Fairness

-----------------------------------------------------------------------------
(* Properties.                                                              *)

ThreadType ==
    /\ pc \in [RpcThreads -> {"idle", "validated", "prioritised", "inserted",
                               "notifying"}]
    /\ cur \in [RpcThreads -> [tx: Txs \union {NoTx}, priority: Nat \union {Absent}]]
    /\ \A t \in RpcThreads : /\ pc[t] # "idle" => cur[t].tx \in Txs
                             /\ pc[t] \notin {"idle", "validated"} => cur[t] \in PendingTx
    /\ submitted \in [Txs -> Nat]
PoolType == nonceCtr \in Nat /\ transactions \in SUBSET PendingTx /\ acked \in SUBSET PendingTx
NonceType ==
    poolNonces \in [Senders -> Nat \union {Absent}] /\ stateNonces \in [Senders -> Nat]
StreamType ==
    /\ phase \in {"absent", "subscribed", "live"}
    /\ all \in SUBSET PendingTx /\ txs \in SUBSET PendingTx
    /\ channel \in Seq(PendingTx) /\ yielded \in Seq(PendingTx)
    /\ executed \in 0 .. Len(yielded)

\* Threads, pool, nonces and stream keep their types; in particular a PendingTx
\* that has been inserted, snapshotted, sent or yielded carries a priority
\* that FiFo has given out (pool.rs, add_transaction).
TypeInv == ThreadType /\ PoolType /\ NonceType /\ StreamType

\* Until the stream is live nothing leaves the pool: it holds every transaction
\* whose add_transaction has returned Ok, and those that a thread has inserted
\* and has still to announce, so that the snapshot does not miss one.
HeldUntilLive ==
    /\ phase = "absent" => channel = <<>>
    /\ phase # "live" =>
          /\ all = {} /\ txs = {} /\ yielded = <<>> /\ succeeded = {}
          /\ acked \subseteq transactions
          /\ \A t \in RpcThreads :
                pc[t] \in {"inserted", "notifying"} => cur[t] \in transactions

\* No accepted transaction escapes the block producer: once the stream is
\* live, every transaction whose add_transaction has returned Ok is in the
\* stream's snapshot, its channel or its set, or has been yielded. It rests on
\* pending_transactions subscribing before it copies the pool.
NoLostTx ==
    phase = "live" =>
        acked \subseteq all \union Elems(channel) \union txs \union Elems(yielded)

\* Whoever waits for add_transaction to return before sending the next
\* transaction has them executed in that order: if b's call started after a's
\* call had returned, the stream never yields b before a.
AcknowledgedOrder ==
    \A p \in precedes : \A i \in DOMAIN yielded :
        yielded[i] = p[2] => \E j \in 1 .. i - 1 : yielded[j] = p[1]

\* The pool's nonce of an account never falls behind the nonce in the state,
\* so that a transaction with the state's nonce is never taken for a dependent
\* one. pool_nonces is not reset by TxValidator::update.
PoolNonceAhead ==
    \A s \in Senders : poolNonces[s] # Absent => poolNonces[s] >= stateNonces[s]

\* "yields pending transactions - transactions that can be executed": the
\* first time the block producer gets to execute an accepted transaction, the
\* nonce is the account's.
FirstDeliveryExecutable ==
    executed < Len(yielded) =>
        LET e == yielded[executed + 1]
        IN  \/ \E i \in 1 .. executed : yielded[i] = e
            \/ Executable(e.tx)

\* Every accepted transaction is eventually yielded to the block producer.
EventuallyYielded ==
    \A x \in Txs : \A n \in 0 .. MaxSubmissions * Cardinality(Txs) :
        LET e == [tx |-> x, priority |-> n]
        IN  e \in acked ~> e \in Elems(yielded)

=============================================================================
