---------------------------- MODULE SyncPipeline ----------------------------
(***************************************************************************)
(* The staged sync of a full katana node: the watcher that polls the feeder*)
(* gateway for the tip, the pipeline that runs the stages Blocks and       *)
(* Classes chunk by chunk up to the tip, and the database they write to    *)
(* (DbProvider).  Every write is a database transaction of its own, and so *)
(* is every checkpoint, and the node may stop between any two of them: by  *)
(* a crash, or because an error of the gateway ends one of the two critical*)
(* tasks, which shuts the node down.  What was committed stays.            *)
(***************************************************************************)
EXTENDS DbProvider, FiniteSets

CONSTANTS
    Height,      \* bound: the last block the gateway will have
    Chain,       \* the blocks of the gateway: number -> block
    ChunkSize,   \* chunk_size of the pipeline
    BatchSize,   \* download_batch_size of the stages
    MaxStops     \* bound: how often the node stops

Numbers == 0..Height

ASSUME SyncAssumption ==
    /\ Height \in Nat /\ DOMAIN Chain = Numbers
    /\ \A n \in Numbers : Chain[n].number = n
    /\ ChunkSize \in Nat \ {0} /\ BatchSize \in Nat \ {0} /\ MaxStops \in Nat

\* What the chain of the gateway guarantees: a transaction has a receipt and a hash of
\* its own, and a class is declared once.
ASSUME ChainAssumption ==
    /\ \A n \in Numbers :
           /\ Chain[n].txs \in Seq(Nat) /\ Chain[n].receipts \in Seq(Nat)
           /\ Len(Chain[n].receipts) = Len(Chain[n].txs)
           /\ \A i, j \in DOMAIN Chain[n].txs : Chain[n].txs[i] = Chain[n].txs[j] => i = j
           /\ Chain[n].declared \cap Chain[n].deprecated = {}
           /\ \A field \in {"storage", "nonces", "deployed"} :
                  \A x \in DOMAIN Chain[n][field] : Chain[n][field][x] \in Nat
    /\ \A m, n \in Numbers : m # n =>
           /\ \A i \in DOMAIN Chain[m].txs, j \in DOMAIN Chain[n].txs : Chain[m].txs[i] # Chain[n].txs[j]
           /\ (Chain[m].declared \cup Chain[m].deprecated)
                  \cap (Chain[n].declared \cup Chain[n].deprecated) = {}

VARIABLES
    latest,     \* the latest block of the gateway
    prevTip,    \* prev_tip of the watcher
    watched,    \* the watch channel: [value: an Option, changed]
    checkpoint, \* StageCheckpoints, None read as 0
    pc,         \* where the pipeline is
    tip, chunkTip, to, stage,   \* locals of run and run_once_until
    toStore,    \* downloaded blocks still to be inserted
    toSet,      \* downloaded classes still to be set
    stops

gatewayVars == <<latest, prevTip, watched>>
pipelineVars == <<pc, tip, chunkTip, to, stage, toStore, toSet>>
vars == <<dbVars, gatewayVars, checkpoint, pipelineVars, stops>>

Stages == <<"Blocks", "Classes">>
Id == Stages[stage]

Least(a, b) == IF a < b THEN a ELSE b

Init ==
    /\ DbInit
    /\ latest = 0 /\ prevTip = 0
    /\ watched = [value |-> {}, changed |-> FALSE]
    /\ checkpoint = [id \in {"Blocks", "Classes"} |-> 0]
    /\ pc = "loop" /\ tip = 0 /\ chunkTip = ChunkSize /\ to = 0 /\ stage = 1
    /\ toStore = <<>> /\ toSet = {}
    /\ stops = 0

-----------------------------------------------------------------------------
(* The gateway and the tip watcher *)

Grow ==
    /\ latest + 1 \in Numbers
    /\ latest' = latest + 1
    /\ UNCHANGED <<dbVars, prevTip, watched, checkpoint, pipelineVars, stops>>

\* One round of the watcher that sees a new tip; any other round changes nothing.
SetTip ==
    /\ pc # "stopped"
    /\ prevTip # latest
    /\ prevTip' = latest
    /\ watched' = [value |-> {latest}, changed |-> TRUE]
    /\ UNCHANGED <<dbVars, latest, checkpoint, pipelineVars, stops>>

-----------------------------------------------------------------------------
(* Pipeline::run *)

BorrowTip ==
    /\ pc = "loop"
    /\ watched' = [watched EXCEPT !.changed = FALSE]
    /\ IF watched.value = {}
       THEN pc' = "wait" /\ UNCHANGED tip
       ELSE pc' = "chunk" /\ tip' = CHOOSE n \in watched.value : TRUE
    /\ UNCHANGED <<dbVars, latest, prevTip, checkpoint, chunkTip, to, stage, toStore, toSet, stops>>

StartChunk ==
    /\ pc = "chunk"
    /\ to' = Least(chunkTip, tip)
    /\ stage' = 1
    /\ pc' = "stage"
    /\ UNCHANGED <<dbVars, gatewayVars, checkpoint, tip, chunkTip, toStore, toSet, stops>>

\* Plausible bug: the chunk stays where it is.
ChunkDoneInPlace(last) ==
    IF last >= tip
    THEN pc' = "wait" /\ UNCHANGED chunkTip
    ELSE pc' = "chunk" /\ UNCHANGED chunkTip

\* run_once_until has returned the last block processed.
ChunkDone(last) ==
    IF last >= tip
    THEN pc' = "wait" /\ UNCHANGED chunkTip
    ELSE pc' = "chunk" /\ chunkTip' = Least(last + ChunkSize, tip)

AwaitTip ==
    /\ pc = "wait" /\ watched.changed
    /\ watched' = [watched EXCEPT !.changed = FALSE]
    /\ pc' = "loop"
    /\ UNCHANGED <<dbVars, latest, prevTip, checkpoint, tip, chunkTip, to, stage, toStore, toSet, stops>>

-----------------------------------------------------------------------------
(* Pipeline::run_once_until and the stages *)

\* The stage is over, with last the block run_once_until returns after the last one.
NextStage(last) ==
    IF stage = Len(Stages)
    THEN ChunkDone(last) /\ UNCHANGED stage
    ELSE pc' = "stage" /\ stage' = stage + 1 /\ UNCHANGED chunkTip

MustSkip == checkpoint[Id] >= to

Skip ==
    /\ pc = "stage" /\ MustSkip
    /\ NextStage(checkpoint[Id])
    /\ UNCHANGED <<dbVars, gatewayVars, checkpoint, tip, to, toStore, toSet, stops>>

From == checkpoint[Id] + 1

\* The batches [start, end] that cover from..until, by their start.
BatchStarts(from, until) == {n \in from..until : (n - from) % BatchSize = 0}

BatchEnd(start, until) == Least(start + BatchSize - 1, until)

\* The numbers of the batches in the order they are fetched.  Nothing is stored
\* before the last batch has arrived.
Downloaded(from, until) ==
    LET fetched == UNION {s..BatchEnd(s, until) : s \in BatchStarts(from, until)}
    IN  [i \in 1..Cardinality(fetched) |->
            CHOOSE n \in fetched : Cardinality({m \in fetched : m < n}) = i - 1]

\* extract_block_data: a block as the provider is given it, without the artifacts
\* of its classes.
Extracted(from, until) ==
    [i \in DOMAIN Downloaded(from, until) |-> Chain[Downloaded(from, until)[i]]]

\* Plausible bug: the checkpoint is written before the blocks are.
ExecuteBlocksEarly ==
    /\ pc = "stage" /\ ~MustSkip /\ Id = "Blocks"
    /\ toStore' = Extracted(From, to)
    /\ checkpoint' = [checkpoint EXCEPT ![Id] = to]
    /\ pc' = "store"
    /\ UNCHANGED <<dbVars, gatewayVars, tip, chunkTip, to, stage, toSet, stops>>

ExecuteBlocks ==
    /\ pc = "stage" /\ ~MustSkip /\ Id = "Blocks"
    /\ toStore' = Extracted(From, to)
    /\ pc' = "store"
    /\ UNCHANGED <<dbVars, gatewayVars, checkpoint, tip, chunkTip, to, stage, toSet, stops>>

StoreBlock ==
    /\ pc = "store" /\ toStore # <<>>
    /\ InsertBlock(Head(toStore))
    /\ toStore' = Tail(toStore)
    /\ UNCHANGED <<gatewayVars, checkpoint, pc, tip, chunkTip, to, stage, toSet, stops>>

\* The artifacts of all the blocks are downloaded before the first is stored.
ExecuteClasses ==
    /\ pc = "stage" /\ ~MustSkip /\ Id = "Classes"
    /\ toSet' = UNION {DeclaredClasses(n) : n \in From..to}
    /\ pc' = "store"
    /\ UNCHANGED <<dbVars, gatewayVars, checkpoint, tip, chunkTip, to, stage, toStore, stops>>

StoreClass ==
    /\ pc = "store"
    /\ \E h \in toSet :
           /\ SetClass(h)
           /\ toSet' = toSet \ {h}
    /\ UNCHANGED <<gatewayVars, checkpoint, pc, tip, chunkTip, to, stage, toStore, stops>>

SetCheckpoint ==
    /\ pc = "store" /\ toStore = <<>> /\ toSet = {}
    /\ checkpoint' = [checkpoint EXCEPT ![Id] = to]
    /\ NextStage(to)
    /\ UNCHANGED <<dbVars, gatewayVars, tip, to, toStore, toSet, stops>>

-----------------------------------------------------------------------------
(* Stop and start *)

Stop ==
    /\ pc # "stopped" /\ stops < MaxStops
    /\ pc' = "stopped" /\ stops' = stops + 1
    /\ tip' = 0 /\ chunkTip' = ChunkSize /\ to' = 0 /\ stage' = 1
    /\ toStore' = <<>> /\ toSet' = {}
    /\ prevTip' = 0 /\ watched' = [value |-> {}, changed |-> FALSE]
    /\ UNCHANGED <<dbVars, latest, checkpoint>>

Start ==
    /\ pc = "stopped"
    /\ pc' = "loop"
    /\ UNCHANGED <<dbVars, gatewayVars, checkpoint, tip, chunkTip, to, stage, toStore, toSet, stops>>

Pipeline ==
    \/ BorrowTip \/ StartChunk \/ AwaitTip
    \/ Skip \/ ExecuteBlocks \/ StoreBlock \/ ExecuteClasses \/ StoreClass \/ SetCheckpoint

Next == Grow \/ SetTip \/ Pipeline \/ Stop \/ Start

Spec == Init /\ [][Next]_vars

FairSpec == Spec /\ WF_vars(Pipeline) /\ WF_vars(SetTip) /\ WF_vars(Start)

-----------------------------------------------------------------------------
(* What the chain of the gateway says, blocks 1 to n.  The pipeline starts    *)
(* from the block after the default checkpoint 0, so block 0 is never fetched.*)

\* The blocks up to n that write x.
Writers(n, x, field) == {m \in 1..n : x \in DOMAIN Chain[m][field]}

\* The value the last of them writes, zero if there is none.
Expected(n, x, field) ==
    LET writers == Writers(n, x, field)
    IN  IF writers = {} THEN 0
        ELSE Chain[CHOOSE m \in writers : \A k \in writers : k <= m][field][x]

Written(field) == UNION {DOMAIN Chain[n][field] : n \in Numbers}

ExpectedRows(n, field) == Entries(n, Chain[n][field])

-----------------------------------------------------------------------------
(* Properties *)

\* The gateway, the watcher, the checkpoints and the locals of the pipeline have
\* their types: no block beyond the chain is asked for, downloaded or stored.
TypeInv ==
    /\ latest \in Numbers /\ prevTip \in Numbers
    /\ watched \in [value : {{}} \cup {{n} : n \in Numbers}, changed : BOOLEAN]
    /\ checkpoint \in [{"Blocks", "Classes"} -> Numbers]
    /\ pc \in {"loop", "chunk", "stage", "store", "wait", "stopped"}
    /\ tip \in Numbers /\ to \in Numbers /\ stage \in DOMAIN Stages
    /\ chunkTip \in Numbers \cup {ChunkSize}
    /\ \A i \in DOMAIN toStore : toStore[i].number \in Numbers
    /\ DOMAIN blocks \subseteq Numbers
    /\ stops \in 0..MaxStops

\* The classes with a compiled class hash that the chain declares up to n.
DeclaredUpTo(n) == UNION {Chain[m].declared : m \in 1..n}

\* What a checkpoint promises holds whenever the node stops: the blocks up to
\* the one of Blocks are in the database, and the state at a block up to the
\* one of Classes, which never overtakes the other, has the artifacts of the
\* classes declared by then, and of no class declared later unless it is the
\* latest state. The variables have their types.
CheckpointsHonest ==
    /\ TypeInv
    /\ 1..checkpoint["Blocks"] \subseteq DOMAIN blocks
    /\ checkpoint["Classes"] <= checkpoint["Blocks"]
    /\ \A n \in 1..checkpoint["Classes"], h \in DeclaredUpTo(Height) :
           /\ h \in DeclaredUpTo(n) => ClassAt(n, h) = {h}
           /\ h \notin DeclaredUpTo(n) /\ n < LatestNumber => ClassAt(n, h) = {}

\* A block that is inserted again after a stop gets new transaction numbers;
\* its body, the receipts, the block of a transaction and the state update are
\* still those of the chain, for every block the database has.
BodiesExact ==
    \A n \in DOMAIN blocks :
        /\ TransactionsByBlock(n) = Chain[n].txs
        /\ ReceiptsByBlock(n) = Chain[n].receipts
        /\ \A i \in DOMAIN Chain[n].txs :
               /\ BlockOfTransaction(Chain[n].txs[i]) = {n}
               /\ ReceiptByHash(Chain[n].txs[i]) = {Chain[n].receipts[i]}
        /\ StateUpdate(n) =
               [storage |-> ExpectedRows(n, "storage"), nonces |-> ExpectedRows(n, "nonces"),
                deployed |-> ExpectedRows(n, "deployed"),
                declared |-> Chain[n].declared, deprecated |-> Chain[n].deprecated]

\* The state at a block is the one the chain gives it, while later blocks are
\* inserted and while blocks are inserted again: always for a block below the
\* latest, whose state is read from the histories, and for the latest one,
\* whose state is read from the plain tables, once its checkpoint is written.
StateExact ==
    \A n \in DOMAIN blocks :
        n < LatestNumber \/ n <= checkpoint["Blocks"] =>
            /\ \A x \in Written("storage") : OrZero(StorageAt(n, x)) = Expected(n, x, "storage")
            /\ \A c \in Written("nonces") : OrZero(NonceAt(n, c)) = Expected(n, c, "nonces")
            /\ \A c \in Written("deployed") :
                   Writers(n, c, "replaced") = {} =>
                       OrZero(ClassHashAt(n, c)) = Expected(n, c, "deployed")

\* The node catches up with the chain, however often it stopped on the way.
CatchesUp == <>[](checkpoint["Blocks"] = latest /\ checkpoint["Classes"] = latest)
=============================================================================
