----------------------------- MODULE DbProvider -----------------------------
(***************************************************************************)
(* The storage provider of katana over its database: the tables a block is *)
(* written to, the transaction that writes one                             *)
(* (insert_block_with_states_and_receipts), and what the read methods of   *)
(* the provider and of its latest and historical state providers answer.   *)
(*                                                                         *)
(* Tables that are always written together under one key are one function  *)
(* here: blocks stands for BlockHashes, Headers, BlockStatusses and        *)
(* BlockBodyIndices, txs for Transactions, TxHashes, TxBlocks and Receipts *)
(* (row i is transaction number i - 1).  The change histories are dupsort  *)
(* tables, sets of entries here.  An Option is a set of at most one        *)
(* element.  Hashes, addresses and values are naturals, the felt zero is 0.*)
(***************************************************************************)
EXTENDS Naturals, Sequences

VARIABLES
    blocks,          \* number -> [hash, offset, count]
    txs,             \* the rows by transaction number
    txNumbers,       \* TxNumbers: hash -> transaction number
    contractStorage, \* ContractStorage: <<contract, key>> -> value
    contractInfo,    \* ContractInfo: contract -> [class, nonce]
    storageSet,      \* StorageChangeSet: <<contract, key>> -> block numbers
    nonceSet,        \* ContractInfoChangeSet.nonce_change_list
    classSet,        \* ContractInfoChangeSet.class_change_list
    storageHistory,  \* StorageChangeHistory: [block, of, value] entries
    nonceHistory,    \* NonceChangeHistory
    classHistory,    \* ClassChangeHistory
    declaredAt,      \* ClassDeclarationBlock: class -> number
    declarations,    \* ClassDeclarations: <<number, class>> entries
    compiledHashes,  \* keys of CompiledClassHashes
    artifacts        \* keys of Classes

bodyVars == <<blocks, txs, txNumbers>>
stateVars == <<contractStorage, contractInfo, storageSet, nonceSet, classSet,
               storageHistory, nonceHistory, classHistory>>
classVars == <<declaredAt, declarations, compiledHashes, artifacts>>
dbVars == <<bodyVars, stateVars, classVars>>

Empty == [x \in {} |-> 0]

\* A fresh database.
DbInit ==
    /\ blocks = Empty /\ txs = <<>> /\ txNumbers = Empty
    /\ contractStorage = Empty /\ contractInfo = Empty
    /\ storageSet = Empty /\ nonceSet = Empty /\ classSet = Empty
    /\ storageHistory = {} /\ nonceHistory = {} /\ classHistory = {}
    /\ declaredAt = Empty /\ declarations = {}
    /\ compiledHashes = {} /\ artifacts = {}

-----------------------------------------------------------------------------
(* Writing *)

\* put: the rows of g replace those of f.
Upsert(f, g) ==
    [x \in DOMAIN f \cup DOMAIN g |-> IF x \in DOMAIN g THEN g[x] ELSE f[x]]

GetOr(f, x, default) == IF x \in DOMAIN f THEN f[x] ELSE default

\* The block list of every key in keys gets n.
Changed(lists, keys, n) ==
    Upsert(lists, [x \in keys |-> GetOr(lists, x, {}) \cup {n}])

Entries(n, changes) ==
    {[block |-> n, of |-> x, value |-> changes[x]] : x \in DOMAIN changes}

NoInfo == [class |-> 0, nonce |-> 0]

\* The rows of ContractInfo after the deployed contracts and then the nonces.
UpdatedInfo(b) ==
    Upsert(contractInfo,
           [c \in DOMAIN b.deployed \cup DOMAIN b.nonces |->
                LET old == GetOr(contractInfo, c, NoInfo)
                IN  [class |-> GetOr(b.deployed, c, old.class),
                     nonce |-> GetOr(b.nonces, c, old.nonce)]])

\* Plausible bug: the offset after the last transaction of the latest block.
TxOffsetOfLatest ==
    LET numbers == DOMAIN blocks
        last == CHOOSE n \in numbers : \A m \in numbers : m <= n
    IN  IF numbers = {} THEN 0 ELSE blocks[last].offset + blocks[last].count

\* The number the first transaction of the next block gets: the entries of
\* the Transactions table, whichever block they belong to.
TxOffset == Len(txs)

InsertBody(b) ==
    /\ blocks' = Upsert(blocks, [n \in {b.number} |->
           [hash |-> b.hash, offset |-> TxOffset, count |-> Len(b.txs)]])
    /\ txs' = txs \o [i \in 1..Len(b.txs) |->
           [hash |-> b.txs[i], block |-> b.number, receipt |-> b.receipts[i]]]
    /\ txNumbers' = Upsert(txNumbers,
           [h \in {b.txs[i] : i \in 1..Len(b.txs)} |->
                TxOffset + (CHOOSE i \in 1..Len(b.txs) : b.txs[i] = h) - 1])

InsertState(b) ==
    /\ contractStorage' = Upsert(contractStorage, b.storage)
    /\ storageSet' = Changed(storageSet, DOMAIN b.storage, b.number)
    /\ storageHistory' = storageHistory \cup Entries(b.number, b.storage)
    /\ contractInfo' = UpdatedInfo(b)
    /\ classSet' = Changed(classSet, DOMAIN b.deployed, b.number)
    /\ classHistory' = classHistory \cup Entries(b.number, b.deployed)
    /\ nonceSet' = Changed(nonceSet, DOMAIN b.nonces, b.number)
    /\ nonceHistory' = nonceHistory \cup Entries(b.number, b.nonces)

InsertClasses(b) ==
    /\ compiledHashes' = compiledHashes \cup b.declared
    /\ declaredAt' = Upsert(declaredAt, [h \in b.declared \cup b.deprecated |-> b.number])
    /\ declarations' = declarations \cup ({b.number} \X (b.declared \cup b.deprecated))
    /\ artifacts' = artifacts \cup b.classes

\* One database transaction, all of it or nothing.
InsertBlock(b) == InsertBody(b) /\ InsertState(b) /\ InsertClasses(b)

\* set_class, a transaction of its own.
SetClass(h) ==
    /\ artifacts' = artifacts \cup {h}
    /\ UNCHANGED <<bodyVars, stateVars, declaredAt, declarations, compiledHashes>>

-----------------------------------------------------------------------------
(* Reading *)

LatestNumber == CHOOSE n \in DOMAIN blocks : \A m \in DOMAIN blocks : m <= n

\* Range::from(StoredBlockBodyIndices): the rows of a block's transactions.
BodyRows(n) == SubSeq(txs, blocks[n].offset + 1, blocks[n].offset + blocks[n].count)

TransactionsByBlock(n) == [i \in 1..blocks[n].count |-> BodyRows(n)[i].hash]

ReceiptsByBlock(n) == [i \in 1..blocks[n].count |-> BodyRows(n)[i].receipt]

\* transaction_block_num_and_hash; None when the hash is not known.
BlockOfTransaction(h) ==
    {txs[txNumbers[x] + 1].block : x \in {h} \cap DOMAIN txNumbers}

\* transaction_by_hash and receipt_by_hash.
ReceiptByHash(h) ==
    {txs[txNumbers[x] + 1].receipt : x \in {h} \cap DOMAIN txNumbers}

\* Plausible bug: the rank counts the numbers below n only.
RecentChangeBefore(n, list) ==
    {m \in list : m < n /\ \A k \in list : k < n => k <= m}

\* The most recent number of the list that is not after n: rank, then select.
RecentChange(n, list) ==
    {m \in list : m <= n /\ \A k \in list : k <= n => k <= m}

\* seek_by_key_subkey at the most recent change, the least of the entries.
HistoricalValue(n, x, lists, history) ==
    LET found == {e \in history : e.of = x /\ e.block \in RecentChange(n, GetOr(lists, x, {}))}
    IN  {e.value : e \in {f \in found : \A g \in found : f.value <= g.value}}

LatestValue(f, x) == {f[y] : y \in {x} \cap DOMAIN f}

\* historical(n) is the latest state provider when n is the latest number.
StorageAt(n, x) ==
    IF n = LatestNumber THEN LatestValue(contractStorage, x)
                        ELSE HistoricalValue(n, x, storageSet, storageHistory)

NonceAt(n, c) ==
    IF n = LatestNumber THEN {info.nonce : info \in LatestValue(contractInfo, c)}
                        ELSE HistoricalValue(n, c, nonceSet, nonceHistory)

ClassHashAt(n, c) ==
    IF n = LatestNumber THEN {info.class : info \in LatestValue(contractInfo, c)}
                        ELSE HistoricalValue(n, c, classSet, classHistory)

\* is_class_declared_before_block, then the Classes table.
ClassAt(n, h) ==
    artifacts \cap (IF n = LatestNumber THEN {h}
                    ELSE {x \in {h} \cap DOMAIN declaredAt : declaredAt[x] <= n})

\* state_update: the entries of the histories under the number.
StateUpdate(n) ==
    [storage   |-> {e \in storageHistory : e.block = n},
     nonces    |-> {e \in nonceHistory : e.block = n},
     deployed  |-> {e \in classHistory : e.block = n},
     declared  |-> {d[2] : d \in {e \in declarations : e[1] = n}} \cap compiledHashes,
     deprecated |-> {d[2] : d \in {e \in declarations : e[1] = n}} \ compiledHashes]

\* declared_classes: the declared classes of a block that have a compiled class
\* hash, which the deprecated ones do not.
DeclaredClasses(n) == StateUpdate(n).declared

\* unwrap_or_default
OrZero(option) == IF option = {} THEN 0 ELSE CHOOSE v \in option : TRUE
=============================================================================
