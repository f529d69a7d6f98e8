------------------------------ MODULE Indexer -------------------------------
(***************************************************************************)
(* Torii: the engine that fetches the events of the indexed contracts from *)
(* a node, range of blocks by range of blocks and then from the pending    *)
(* block, and the executor that writes them to the database.  The executor *)
(* keeps one open database transaction.  The engine commits it once the    *)
(* events and the cursors of what it fetched are in it, and rolls it back  *)
(* when processing fails; the relay server, which writes the messages of   *)
(* its peers through the same executor, commits it whenever one arrives.   *)
(*                                                                         *)
(* The queries reach the executor through a first-in first-out channel,    *)
(* and the engine awaits its answer to the flush, the commit and the       *)
(* rollback, so a query is modelled where it is sent.  The node is katana  *)
(* (EventQuery) that mines instantly or at an interval, or a node whose    *)
(* range of events ends with its latest block and with no token.           *)
(***************************************************************************)
EXTENDS EventQuery, FiniteSets

CONSTANTS
    Contracts,     \* the indexed contracts
    Parallel,      \* those whose events are processed as parallel tasks
    Tokens,        \* those whose events move balances
    Shapes,        \* the events a transaction may have
    Configs,       \* [node, pendingBlocks, transactions, page, relay]
    WorldBlock,    \* world_block
    BlocksChunk,   \* blocks_chunk_size
    MaxBlocks,     \* bound: the height of the chain
    MaxTxs,        \* bound: transactions ever executed
    MaxFailures,   \* bound: requests and transactions that fail
    MaxCrashes,    \* bound: how often torii ends
    MaxMessages    \* bound: messages the relay accepts

ASSUME IndexerAssumption ==
    /\ IsFiniteSet(Contracts) /\ Contracts # {}
    /\ Parallel \subseteq Contracts /\ Tokens \subseteq Contracts
    /\ \A s \in Shapes : s \in Seq(ToSet(s))
    /\ WorldBlock \in Nat /\ BlocksChunk \in Nat \ {0} /\ MaxBlocks \in Nat
    /\ MaxTxs \in Nat /\ MaxFailures \in Nat /\ MaxCrashes \in Nat /\ MaxMessages \in Nat
    /\ \A c \in Configs : c.node \in {"instant", "interval", "other"} /\ c.page \in Nat \ {0}

VARIABLES
    config,      \* how torii was started, and against which node
    db,          \* what is committed: [head, pendingTx, contractTx, events, balances]
    open,        \* the transaction of the executor, as the database it makes
    queue,       \* publish_queue
    published,   \* what the broker has sent
    cache,       \* erc_cache: the events whose balances are not written yet
    tasks,       \* tasks of the task manager
    pc,          \* where the engine is
    order,       \* the contracts as the engine's map iterates over them
    range,       \* locals of fetch_range: [latest, from, to, requests, next, events]
    todo,        \* transactions still to be processed
    last,        \* last_pending_block_tx of process_pending, None for a range
    touched,     \* cursor_map: contract -> its last transaction
    txs, failed, crashes, messages   \* how many there were

engineVars == <<pc, order, range, todo, last, touched, tasks>>
writeVars == <<open, queue, cache>>
storeVars == <<db, published>>
countVars == <<txs, failed, crashes, messages>>
vars == <<chainVars, config, storeVars, writeVars, engineVars, countVars>>

NoRange ==
    [latest |-> 0, from |-> 0, to |-> 0, requests |-> <<>>, next |-> <<>>, events |-> <<>>]
NoDb ==
    [head |-> None, pendingTx |-> None, contractTx |-> [c \in Contracts |-> None],
     events |-> <<>>, balances |-> <<>>]

Init ==
    /\ chain = <<<<>>>> /\ pending = <<>>
    /\ config \in Configs
    /\ db = NoDb /\ open = NoDb /\ queue = <<>> /\ published = <<>> /\ cache = <<>>
    /\ tasks = <<>> /\ pc = "loop" /\ order \in SetToSeqs(Contracts) /\ range = NoRange /\ todo = <<>>
    /\ last = None /\ touched = <<>>
    /\ txs = 0 /\ failed = 0 /\ crashes = 0 /\ messages = 0

-----------------------------------------------------------------------------
(* The node *)

Mined(block) ==
    [i \in DOMAIN Receipts(block) |->
        [hash |-> Receipts(block)[i].hash, events |-> Receipts(block)[i].events]]

(* A transaction is executed: mined at once, or into the pending block,    *)
(* where it may also fail.                                                 *)
ExecuteTx ==
    /\ txs < MaxTxs /\ txs' = txs + 1
    /\ \E shape \in Shapes :
          IF config.node = "instant"
          THEN /\ Latest < MaxBlocks
               /\ chain' = Append(chain, <<[hash |-> txs + 1, events |-> shape]>>)
               /\ UNCHANGED pending
          ELSE /\ \E ok \in (IF config.node = "interval" THEN BOOLEAN ELSE {TRUE}) :
                     pending' = Append(pending, [hash |-> txs + 1, events |-> shape, ok |-> ok])
               /\ UNCHANGED chain
    /\ UNCHANGED <<config, storeVars, writeVars, engineVars, failed, crashes, messages>>

(* The pending block is mined, its failed transactions left out. *)
MineBlock ==
    /\ config.node # "instant" /\ Latest < MaxBlocks
    /\ chain' = Append(chain, Mined(pending)) /\ pending' = <<>>
    /\ UNCHANGED <<config, storeVars, writeVars, engineVars, countVars>>

(* A node that is not katana: the token is how many events were returned,  *)
(* and the last page has none.                                             *)
OtherPage(from, contract, chunk, token) ==
    LET all == MinedEvents(from, Latest, contract)
        done == IF token = None THEN 0 ELSE Value(token)
        end == Smaller(done + chunk, Len(all))
    IN  [buffer |-> SubSeq(all, done + 1, end),
         cursor |-> IF end < Len(all) THEN {end} ELSE None]

EventsPage(from, contract, token) ==
    IF config.node = "other" THEN OtherPage(from, contract, config.page, token)
    ELSE EventsUpToPending(from, contract, config.page, token, config.node = "interval")

-----------------------------------------------------------------------------
(* fetch_data *)

From == IF db.head = None THEN WorldBlock ELSE Value(db.head)

(* The cursors are read and the latest block is asked for: there are       *)
(* blocks to fetch ...                                                     *)
FetchRange ==
    /\ pc = "loop" /\ From < Latest
    /\ pc' = "pages"
    /\ range' = [latest |-> Latest,
                 from |-> IF From = 0 THEN 0 ELSE From + 1,
                 to |-> Smaller(Latest, From + BlocksChunk),
                 requests |-> [i \in DOMAIN order |-> [contract |-> order[i], token |-> None]],
                 next |-> <<>>,
                 events |-> <<>>]
    /\ UNCHANGED <<chainVars, config, storeVars, writeVars, order, todo, last, touched, tasks, countVars>>

(* ... or only the pending block is left. *)
FetchLatest ==
    /\ pc = "loop" /\ From >= Latest /\ config.pendingBlocks
    /\ pc' = "pending" /\ range' = [NoRange EXCEPT !.latest = Latest, !.to = Latest]
    /\ UNCHANGED <<chainVars, config, storeVars, writeVars, order, todo, last, touched, tasks, countVars>>

(* The pending block, unless another one was mined since, or the node has  *)
(* none.  The transactions up to the cursor are skipped.                   *)
AfterTx(block, cursor) ==
    IF cursor = None THEN block
    ELSE LET at == {i \in DOMAIN block : block[i].hash \in cursor}
         IN  IF at = {} THEN <<>> ELSE SubSeq(block, Value(at) + 1, Len(block))

AllEvents(tx, block) ==
    [hash |-> tx.hash, block |-> block,
     events |-> Where([i \in DOMAIN tx.events |->
                    [block |-> block, tx |-> tx.hash, at |-> i, from |-> tx.events[i]]],
                    LAMBDA e : e.from \in Contracts)]

FetchPending ==
    /\ pc = "pending"
    /\ IF config.node = "instant" \/ Latest # range.latest
       THEN /\ pc' = "loop" /\ UNCHANGED <<todo, last>>
       ELSE /\ pc' = "process"
            /\ LET receipts == AfterTx(Receipts(pending), db.pendingTx)
               IN  /\ todo' = [i \in DOMAIN receipts |-> AllEvents(receipts[i], range.latest + 1)]
                   /\ last' = IF receipts = <<>> THEN db.pendingTx ELSE {receipts[Len(receipts)].hash}
    /\ touched' = <<>>
    /\ UNCHANGED <<chainVars, config, storeVars, writeVars, order, range, tasks, countVars>>

-----------------------------------------------------------------------------
(* fetch_events_recursive: the requests of a batch, one per contract *)

Page == EventsPage(range.from, Head(range.requests).contract, Head(range.requests).token)

(* Plausible bug: Kept, with no regard to the cursor of the contract. *)
KeptAll(events, cursor) == Where(events, LAMBDA e : e.block <= range.to)

(* The events of the page up to the target block, after the last           *)
(* transaction of the pending block that was processed.                    *)
Kept(events, cursor) ==
    LET upTo == Where(events, LAMBDA e : e.block <= range.to)
        at == {i \in DOMAIN upTo : upTo[i].tx \in cursor}
        seen == CHOOSE i \in at : \A j \in at : i <= j
    IN  CASE cursor = None -> upTo
          [] cursor # None /\ at = {} -> <<>>
          [] OTHER -> Where(SubSeq(upTo, seen, Len(upTo)), LAMBDA e : e.tx \notin cursor)

(* A page is followed by the next one while its last event is of an older  *)
(* block than the target; that of an empty page counts as block 0.         *)
LastBlock(events) == IF events = <<>> THEN 0 ELSE events[Len(events)].block
Continues(page) == page.cursor # None /\ LastBlock(page.buffer) < range.to

(* The page of the next request of the batch is added to the events, and   *)
(* asks for the page after it in the next batch.                           *)
FetchPage ==
    /\ pc = "pages"
    /\ \E page \in {Page} :
          LET c == Head(range.requests).contract
              next == range.next \o
                  IF Continues(page) THEN <<[contract |-> c, token |-> page.cursor]>> ELSE <<>>
              batchDone == Tail(range.requests) = <<>>
          IN  /\ \A i \in DOMAIN page.buffer : page.buffer[i].block # NoBlock
              /\ range' = [range EXCEPT
                     !.events = @ \o Kept(page.buffer, db.contractTx[c]),
                     !.requests = IF batchDone THEN next ELSE Tail(@),
                     !.next = IF batchDone THEN <<>> ELSE next]
              /\ pc' = IF batchDone /\ next = <<>> THEN "blocks" ELSE "pages"
    /\ UNCHANGED <<chainVars, config, storeVars, writeVars, order, todo, last, touched, tasks, countVars>>

(* The transactions of the events, in the order they are met ... *)
Met(events) ==
    Fold(LAMBDA acc, e : IF Contains(acc, e.tx) THEN acc ELSE Append(acc, e.tx), <<>>, events)

(* ... each with its events. *)
OfTx(events, hash) == Where(events, LAMBDA e : e.tx = hash)
Grouped(events, block) ==
    [j \in DOMAIN Met(events) |->
        [hash |-> Met(events)[j], block |-> block, events |-> OfTx(events, Met(events)[j])]]

(* The transactions of the events, block by block. *)
InBlock(events, n) == Where(events, LAMBDA e : e.block = n)
TxsOf(events) ==
    FlattenSeq([k \in 1..(range.to + 1) |-> Grouped(InBlock(events, k - 1), k - 1)])

(* The transactions and the timestamps of the blocks are fetched. *)
FetchBlocks ==
    /\ pc = "blocks" /\ pc' = "process"
    /\ todo' = TxsOf(range.events) /\ last' = None /\ touched' = <<>>
    /\ UNCHANGED <<chainVars, config, storeVars, writeVars, order, range, tasks, countVars>>

(* A request fails: the loop starts over after a delay. *)
FetchFails ==
    /\ pc \in {"pages", "blocks", "pending"} /\ failed < MaxFailures
    /\ failed' = failed + 1 /\ pc' = "loop"
    /\ UNCHANGED <<chainVars, config, storeVars, writeVars, order, range, todo, last, touched, tasks, txs, crashes, messages>>

-----------------------------------------------------------------------------
(* process_range and process_pending *)

Write(store, events) == [store EXCEPT !.events = @ \o events]
Moves(events) == Where(events, LAMBDA e : e.from \in Tokens)
Emitters(tx) == {tx.events[i].from : i \in DOMAIN tx.events}

(* The events of a transaction: written, or left to the task manager. *)
ProcessEvents(tx) ==
    LET now == Where(tx.events, LAMBDA e : e.from \notin Parallel)
    IN  /\ tasks' = tasks \o Where(tx.events, LAMBDA e : e.from \in Parallel)
        /\ open' = Write(open, now)
        /\ queue' = queue \o now
        /\ cache' = cache \o Moves(now)

ProcessTransaction ==
    /\ pc = "process" /\ todo # <<>>
    /\ ProcessEvents(Head(todo))
    /\ todo' = Tail(todo)
    /\ touched' = [c \in Emitters(Head(todo)) \cup DOMAIN touched |->
                      IF c \in Emitters(Head(todo)) THEN Head(todo).hash ELSE touched[c]]
    /\ UNCHANGED <<chainVars, config, storeVars, pc, order, range, last, countVars>>

(* The class that the calls of a transaction are decoded with cannot be    *)
(* fetched: what is written is rolled back and the loop starts over.  The  *)
(* balances in the cache and the tasks of the task manager stay.           *)
ProcessFails ==
    LET tx == Head(todo)
        now == Where(tx.events, LAMBDA e : e.from \notin Parallel)
    IN  /\ pc = "process" /\ todo # <<>> /\ config.transactions /\ tx.events # <<>>
        /\ failed < MaxFailures /\ failed' = failed + 1
        /\ open' = db /\ queue' = <<>>
        /\ cache' = cache \o Moves(now)
        /\ tasks' = tasks \o Where(tx.events, LAMBDA e : e.from \in Parallel)
        /\ pc' = "loop"
        /\ UNCHANGED <<chainVars, config, storeVars, order, range, todo, last, touched, txs, crashes, messages>>

(* handle_query_message, UpdateCursors: a contract that had no event keeps *)
(* its cursor.                                                             *)
UpdateCursors(store, head, pendingTx) ==
    [head |-> {head}, pendingTx |-> pendingTx,
     contractTx |-> [c \in Contracts |->
         IF c \notin DOMAIN touched THEN store.contractTx[c]
         ELSE IF pendingTx = None THEN None ELSE {touched[c]}],
     events |-> store.events, balances |-> store.balances]

(* Plausible bug: the head is the latest block, whatever the target of the range was. *)
ProcessTasksLatest ==
    /\ pc = "process" /\ todo = <<>>
    /\ open' = UpdateCursors(Write(open, tasks), range.latest, last)
    /\ queue' = queue \o tasks
    /\ cache' = cache \o Moves(tasks)
    /\ tasks' = <<>>
    /\ pc' = "commit"
    /\ UNCHANGED <<chainVars, config, storeVars, order, range, todo, last, touched, countVars>>

(* process_tasks, then update_cursors: the head becomes the target of the  *)
(* range, or stays at the latest block when that was the pending block.    *)
ProcessTasks ==
    /\ pc = "process" /\ todo = <<>>
    /\ open' = UpdateCursors(Write(open, tasks), range.to, last)
    /\ queue' = queue \o tasks
    /\ cache' = cache \o Moves(tasks)
    /\ tasks' = <<>>
    /\ pc' = "commit"
    /\ UNCHANGED <<chainVars, config, storeVars, order, range, todo, last, touched, countVars>>

-----------------------------------------------------------------------------
(* The executor *)

(* Plausible bug: what is published is not taken from the queue. *)
ExecuteKeepsQueue(store) ==
    /\ db' = store /\ open' = store
    /\ published' = published \o queue /\ queue' = queue

(* QueryType::Execute: the transaction is committed, what waited for it is *)
(* published, and a new one is opened.                                     *)
Execute(store) ==
    /\ db' = store /\ open' = store
    /\ published' = published \o queue /\ queue' = <<>>

(* Plausible bug: the balances are written to the transaction that follows. *)
CommitBeforeDiff ==
    /\ pc = "commit" /\ pc' = "loop"
    /\ db' = open /\ open' = [open EXCEPT !.balances = @ \o cache]
    /\ published' = published \o queue /\ queue' = <<>>
    /\ cache' = <<>>
    /\ UNCHANGED <<chainVars, config, order, range, todo, last, touched, tasks, countVars>>

(* The engine flushes, writes the balances of the cache and commits. *)
Commit ==
    /\ pc = "commit" /\ pc' = "loop"
    /\ Execute([open EXCEPT !.balances = @ \o cache])
    /\ cache' = <<>>
    /\ UNCHANGED <<chainVars, config, order, range, todo, last, touched, tasks, countVars>>

(* The relay has verified a message of a peer: it is written, and the      *)
(* transaction is committed with whatever the engine has written so far.   *)
RelayMessage ==
    /\ config.relay /\ pc # "down" /\ messages < MaxMessages /\ messages' = messages + 1
    /\ Execute(open)
    /\ UNCHANGED <<chainVars, config, cache, engineVars, txs, failed, crashes>>

-----------------------------------------------------------------------------
(* The end of the process *)

Lost ==
    /\ pc' = "down"
    /\ open' = db /\ queue' = <<>> /\ cache' = <<>> /\ tasks' = <<>>
    /\ UNCHANGED <<chainVars, config, storeVars, order, range, todo, last, touched, txs, failed, messages>>

Crash == pc # "down" /\ crashes < MaxCrashes /\ crashes' = crashes + 1 /\ Lost

(* An event of the pending block has no block number to unwrap: the engine *)
(* panics, and the process ends with it.                                   *)
Panics ==
    /\ pc = "pages"
    /\ \E page \in {Page} : \E i \in DOMAIN page.buffer : page.buffer[i].block = NoBlock
    /\ crashes' = crashes
    /\ Lost

Restart ==
    /\ pc = "down" /\ pc' = "loop"
    /\ order' \in SetToSeqs(Contracts)
    /\ UNCHANGED <<chainVars, config, storeVars, writeVars, range, todo, last, touched, tasks, countVars>>

Engine ==
    \/ FetchRange \/ FetchLatest \/ FetchPending \/ FetchPage \/ FetchBlocks
    \/ ProcessTransaction \/ ProcessTasks \/ Commit \/ Panics \/ Restart

Next ==
    \/ ExecuteTx \/ MineBlock \/ Engine
    \/ FetchFails \/ ProcessFails \/ RelayMessage \/ Crash

Spec == Init /\ [][Next]_vars

-----------------------------------------------------------------------------
(* Properties *)

Events == [block : 0..MaxBlocks + 1, tx : 1..MaxTxs, at : Nat \ {0}, from : Contracts]
Dbs ==
    [head : SUBSET (0..MaxBlocks), pendingTx : SUBSET (1..MaxTxs),
     contractTx : [Contracts -> SUBSET (1..MaxTxs)], events : Seq(Events), balances : Seq(Events)]

(* The cursors, the events in the database, the queues and the locals of   *)
(* the engine have their types: the head is never beyond the chain, and    *)
(* nothing that belongs to no block gets past the fetch.                   *)
TypeInv ==
    /\ db \in Dbs /\ open \in Dbs
    /\ {queue, published, cache, tasks, range.events} \subseteq Seq(Events)
    /\ pc \in {"loop", "pages", "blocks", "pending", "process", "commit", "down"}
    /\ range.to \in 0..MaxBlocks /\ range.latest \in 0..MaxBlocks
    /\ \A i \in DOMAIN todo : todo[i].events \in Seq(Events)

Of(events, c) == Where(events, LAMBDA e : e.from = c)

(* A reader who asks for the pages of contract c from block from on, and   *)
(* stops when there is no token, gets exactly the events of c there.       *)
PagesAddUp(c, chunk, from) ==
    LET all == MinedEvents(from, Latest, c)
        read == ReadPages(from, Latest, c, chunk, Len(all) + 1)
    IN  read.token = None /\ read.events = all

(* The pages katana returns for a range of mined blocks are together the   *)
(* events of the contract in the range, none twice and none left out,      *)
(* whatever the size of a page and wherever it ends in a transaction with  *)
(* events of other contracts; all but the last one have an event at least, *)
(* so a reader is done after as many pages as there are events, and one.   *)
(* (The chain is the same whatever torii does: it is enough to look at it  *)
(* before torii has begun.)                                                *)
PagesExact ==
    pc = "loop" /\ db.head = None /\ failed + crashes + messages = 0 =>
      \A c \in Contracts, chunk \in 1..3, from \in 0..Latest : PagesAddUp(c, chunk, from)

(* No event is written twice, and those of a contract are written in the   *)
(* order of the blocks, and of the transaction: over the change from the   *)
(* pending block to the mined one, a failed request and a crash at any     *)
(* point.  It takes that the relay does not commit half of what the engine *)
(* writes, and for contracts whose events are tasks that no transaction    *)
(* failed to be processed.  The transactions of one block are not in order *)
(* where several contracts are indexed.                                    *)
Before(e, f) == e.block < f.block \/ (e.block = f.block /\ (e.tx = f.tx => e.at < f.at))
AppliedOnce ==
    messages = 0 =>
        \A c \in Contracts : (c \in Parallel => ~config.transactions) =>
            LET own == Of(db.events, c)
            IN  \A i, j \in DOMAIN own : i < j => Before(own[i], own[j])

(* The first block whose events are fetched: that of the world is not,     *)
(* unless it is the first of the chain.                                    *)
FirstFetched == IF WorldBlock = 0 THEN 0 ELSE WorldBlock + 1

(* The events of the indexed contracts in the blocks up to n are committed. *)
CommittedUpTo(n) ==
    \A k \in (FirstFetched + 1)..(n + 1) :
        \A j \in DOMAIN chain[k] : \A i \in DOMAIN chain[k][j].events :
            chain[k][j].events[i] \in Contracts =>
                \E e \in DOMAIN db.events : db.events[e].tx = chain[k][j].hash /\ db.events[e].at = i

(* A page holds whatever range is asked for. *)
RangesFitPages == \A c \in Contracts : Len(MinedEvents(0, Latest, c)) <= config.page

(* What is committed of the mined blocks up to the head is complete:       *)
(* without the pending blocks, and with pages that hold a whole range.     *)
(* The variables have their types.                                         *)
HeadCovers ==
    /\ TypeInv
    /\ ~config.pendingBlocks /\ RangesFitPages => \A head \in db.head : CommittedUpTo(head)

(* A subscriber is only told of what is committed, and of all of it in     *)
(* order: nothing of a transaction that is rolled back or lost.            *)
PublishedCommitted == published = db.events

(* The balances count every transfer that is committed, once: unless a     *)
(* rollback left transfers in the cache, or the relay committed them ahead *)
(* of their balances.                                                      *)
BalancesMatch ==
    messages = 0 /\ ~config.transactions => db.balances = Moves(db.events)

(* HeadCovers for every way to start torii, as the engine has it that it   *)
(* fetches pages until it has seen all events up to the target block.      *)
AllSeenUpToHead == \A head \in db.head : CommittedUpTo(head)
=============================================================================
