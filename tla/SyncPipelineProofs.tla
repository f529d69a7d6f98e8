------------------------- MODULE SyncPipelineProofs -------------------------
(***************************************************************************)
(* The database of a syncing node is the chain of the gateway: what the    *)
(* checkpoints promise, the bodies of the blocks and the state at every    *)
(* block, for any chain, any size of chunks and batches and any number of  *)
(* stops, in the middle of the stages too.                                 *)
(***************************************************************************)
EXTENDS SyncPipeline, TLAPS, WellFoundedInduction, FiniteSetTheorems, SequenceTheorems

-----------------------------------------------------------------------------
(* The inductive invariant *)

\* The last block in the database.
Top == CHOOSE k \in Nat : DOMAIN blocks = 1..k

Storing == pc = "store" /\ stage = 1

\* The last block of the chain that was inserted in this pass of the stage Blocks, or
\* before the last checkpoint. After a stop there are later ones in the database.
Pos == IF Storing THEN to - Len(toStore) ELSE checkpoint["Blocks"]

ControlType ==
    /\ latest \in Numbers /\ prevTip \in Numbers
    /\ watched \in [value : {{}} \cup {{n} : n \in Numbers}, changed : BOOLEAN]
    /\ checkpoint \in [{"Blocks", "Classes"} -> Numbers]
    /\ pc \in {"loop", "chunk", "stage", "store", "wait", "stopped"}
    /\ tip \in Numbers /\ to \in Numbers /\ stage \in {1, 2}
    /\ chunkTip \in Numbers \cup {ChunkSize}
    /\ stops \in 0..MaxStops

\* The blocks of the chain from the one after p up to n.
Segment(p, n) == [i \in 1..(n - p) |-> Chain[p + i]]

\* What the pipeline has downloaded, and how the stages follow each other.
StagesInv ==
    /\ checkpoint["Classes"] <= checkpoint["Blocks"]
    /\ pc = "store" => checkpoint[Id] < to
    /\ stage = 2 /\ pc \in {"stage", "store"} => to <= checkpoint["Blocks"]
    /\ ~Storing => toStore = <<>>
    /\ Storing => \E p \in checkpoint["Blocks"]..to : toStore = Segment(p, to)
    /\ ~(pc = "store" /\ stage = 2) => toSet = {}

PrefixInv == Top \in Numbers /\ DOMAIN blocks = 1..Top /\ Pos <= Top

Rows == [hash : Nat, block : Numbers, receipt : Nat]
Row(n, i) == [hash |-> Chain[n].txs[i], block |-> n, receipt |-> Chain[n].receipts[i]]

\* The rows of the blocks up to k, at the place their indices say and at the one the
\* hash of the transaction leads to.
BodyInv(k) ==
    /\ txs \in Seq(Rows)
    /\ \A n \in 1..k :
           /\ blocks[n].count = Len(Chain[n].txs)
           /\ blocks[n].offset \in Nat /\ blocks[n].offset + blocks[n].count <= Len(txs)
           /\ \A i \in 1..Len(Chain[n].txs) :
                  /\ txs[blocks[n].offset + i] = Row(n, i)
                  /\ Chain[n].txs[i] \in DOMAIN txNumbers
                  /\ txNumbers[Chain[n].txs[i]] \in 0..(Len(txs) - 1)
                  /\ txs[txNumbers[Chain[n].txs[i]] + 1] = Row(n, i)

\* The histories of the blocks up to k.
ListsInv(lists, history, field, k) ==
    /\ \A x \in Written(field) : GetOr(lists, x, {}) = Writers(k, x, field)
    /\ history = UNION {ExpectedRows(n, field) : n \in 1..k}

HistoryInv(k) ==
    /\ ListsInv(storageSet, storageHistory, "storage", k)
    /\ ListsInv(nonceSet, nonceHistory, "nonces", k)
    /\ ListsInv(classSet, classHistory, "deployed", k)

Declares(n) == Chain[n].declared \cup Chain[n].deprecated

\* The declarations of the blocks up to k.
ClassInv(k) ==
    /\ declarations = UNION {{n} \X Declares(n) : n \in 1..k}
    /\ compiledHashes = DeclaredUpTo(k)
    /\ \A n \in 1..k : \A h \in Declares(n) : h \in DOMAIN declaredAt /\ declaredAt[h] = n
    /\ \A h \in DOMAIN declaredAt : \E n \in 1..k : h \in Declares(n)

\* The artifacts a checkpoint of Classes promises, and those it is about to.
ArtifactsInv ==
    /\ \A n \in 1..checkpoint["Classes"] : Chain[n].declared \subseteq artifacts
    /\ stage = 2 /\ pc = "store" =>
           \A n \in 1..to : Chain[n].declared \subseteq artifacts \cup toSet

\* A plain table has the value at block p of what no block in the database after p
\* writes, when the database has the blocks up to k.
Latest(k, p, x, field, value) ==
    Writers(k, x, field) = Writers(p, x, field) => value = Expected(p, x, field)

PlainInv(k, p) ==
    /\ \A x \in Written("storage") : Latest(k, p, x, "storage", GetOr(contractStorage, x, 0))
    /\ \A c \in Written("nonces") : Latest(k, p, c, "nonces", GetOr(contractInfo, c, NoInfo).nonce)
    /\ \A c \in Written("deployed") : Latest(k, p, c, "deployed", GetOr(contractInfo, c, NoInfo).class)

TablesInv(k) == BodyInv(k) /\ HistoryInv(k) /\ ClassInv(k)
SyncInv ==
    /\ ControlType /\ StagesInv /\ PrefixInv
    /\ TablesInv(Top) /\ ArtifactsInv /\ PlainInv(Top, Pos)

-----------------------------------------------------------------------------
(* Numbers: the greatest of some, and the batches of a download *)

\* A nonempty set of naturals has a least element.
LEMMA LeastElement ==
    ASSUME NEW T \in SUBSET Nat, T # {}
    PROVE  \E x \in T : \A y \in T : x <= y
<1> DEFINE R == OpToRel(<,Nat)
<1>1. IsWellFoundedOn(R, Nat)
  BY NatLessThanWellFounded
<1>2. \A x, y \in Nat : x < y => <<x, y>> \in R
  BY DEF OpToRel
<1> HIDE DEF R
<1>3. PICK x \in T : \A y \in T : ~(<<y, x>> \in R)
  BY <1>1, WFMin
<1>4. ASSUME NEW y \in T PROVE x <= y
  <2>1. x \in Nat /\ y \in Nat
    OBVIOUS
  <2>2. ~(y < x)
    BY <1>2, <1>3, <2>1
  <2> QED
    BY <2>1, <2>2
<1> QED
  BY <1>3, <1>4

\* A nonempty set of naturals up to n has a greatest element.
LEMMA GreatestElement ==
    ASSUME NEW n \in Nat, NEW T \in SUBSET (1..n), T # {}
    PROVE  \E m \in T : \A k \in T : k <= m
<1> DEFINE bounds == {b \in Nat : \A k \in T : k <= b}
<1>1. n \in bounds /\ bounds \in SUBSET Nat
  OBVIOUS
<1>2. PICK m \in bounds : \A b \in bounds : m <= b
  BY <1>1, LeastElement
<1>3. m \in T
  <2> SUFFICES ASSUME m \notin T PROVE FALSE
    OBVIOUS
  <2>1. m \in Nat /\ \A k \in T : k \in Nat /\ k < m
    BY <1>2
  <2>2. m - 1 \in bounds
    <3>1. PICK k \in T : k \in 1..n
      OBVIOUS
    <3> QED
      BY <2>1, <3>1
  <2> QED
    BY <1>2, <2>1, <2>2
<1> QED
  BY <1>2, <1>3

\* Division with remainder.
LEMMA DivMod ==
    ASSUME NEW a \in Nat, NEW b \in Nat \ {0}
    PROVE  a = ((a \div b) * b) + (a % b) /\ a % b \in 0..(b - 1) /\ a \div b \in Int
OBVIOUS

\* The only multiple of b between -b and b is 0.
LEMMA SmallMultiple ==
    ASSUME NEW b \in Nat \ {0}, NEW d \in Int, d * b > -b, d * b < b
    PROVE  d = 0
<1>1. CASE d >= 1
  <2>1. (d - 1) * b >= 0
    BY <1>1
  <2>2. d * b = ((d - 1) * b) + b
    OBVIOUS
  <2> QED
    BY <2>1, <2>2
<1>2. CASE d <= -1
  <2>1. (d + 1) * b <= 0
    BY <1>2
  <2>2. d * b = ((d + 1) * b) - b
    OBVIOUS
  <2> QED
    BY <2>1, <2>2
<1> QED
  BY <1>1, <1>2

\* One batch later the remainder is the same.
LEMMA NextBatch ==
    ASSUME NEW a \in Nat, NEW b \in Nat \ {0}, a % b = 0
    PROVE  (a + b) % b = 0
<1> DEFINE q == a \div b
           r == (a + b) \div b
           m == (a + b) % b
<1>1. q \in Int /\ a = q * b
  BY DivMod
<1>2. r \in Int /\ a + b = (r * b) + m /\ m \in 0..(b - 1)
  BY DivMod
<1> HIDE DEF q, r, m
<1>3. (r - q - 1) * b = (r * b) - (q * b) - b
  BY <1>1, <1>2
<1>4. (r - q - 1) * b = 0 - m
  BY <1>1, <1>2, <1>3
<1>5. r - q - 1 = 0
  <2>1. (r - q - 1) * b > -b /\ (r - q - 1) * b < b /\ r - q - 1 \in Int
    BY <1>1, <1>2, <1>4
  <2> HIDE <1>4
  <2> QED
    BY ONLY <2>1, SmallMultiple, b \in Nat \ {0}
<1>6. m = 0
  BY <1>2, <1>4, <1>5
<1> QED
  BY <1>6 DEF m

\* Every number of a range is in the batch that starts at or last before it.
LEMMA BatchesCover ==
    ASSUME NEW from \in Nat, NEW until \in Nat
    PROVE  UNION {s..BatchEnd(s, until) : s \in BatchStarts(from, until)} = from..until
<1> DEFINE In(n) == \E s \in from..n : (s - from) % BatchSize = 0 /\ n <= s + BatchSize - 1
           missed == {n \in Nat : from <= n /\ n <= until /\ ~In(n)}
<1>1. BatchSize \in Nat \ {0}
  BY SyncAssumption
<1>2. missed = {}
  <2> SUFFICES ASSUME missed # {} PROVE FALSE
    OBVIOUS
  <2>1. missed \in SUBSET Nat
    OBVIOUS
  <2>2. PICK n \in missed : \A m \in missed : n <= m
    BY <2>1, LeastElement
  <2>3. n \in Nat /\ from <= n /\ n <= until /\ ~In(n)
    BY <2>2
  <2>4. n # from
    <3>1. (from - from) % BatchSize = 0
      BY <1>1
    <3> QED
      BY <1>1, <2>3, <3>1
  <2>5. n - 1 \in Nat /\ n - 1 \notin missed
    BY <2>2, <2>3, <2>4
  <2>6. PICK s \in from..(n - 1) : (s - from) % BatchSize = 0 /\ n - 1 <= s + BatchSize - 1
    BY <2>3, <2>4, <2>5
  <2>7. n = s + BatchSize
    BY <1>1, <2>3, <2>6
  <2>8. ((s - from) + BatchSize) % BatchSize = 0
    <3>1. s - from \in Nat
      BY <2>6
    <3> HIDE DEF missed
    <3> QED
      BY <1>1, <2>6, <3>1, NextBatch
  <2>9. (n - from) % BatchSize = 0
    <3>1. n - from = (s - from) + BatchSize
      BY <1>1, <2>6, <2>7
    <3> QED
      BY <2>8, <3>1
  <2>10. n \in from..n /\ n <= n + BatchSize - 1
    BY <1>1, <2>3
  <2> QED
    BY <2>3, <2>9, <2>10
<1>3. ASSUME NEW n \in from..until
      PROVE  \E s \in BatchStarts(from, until) : n \in s..BatchEnd(s, until)
  <2>1. In(n)
    BY <1>2
  <2>2. PICK s \in from..n : (s - from) % BatchSize = 0 /\ n <= s + BatchSize - 1
    BY <2>1
  <2>3. s \in BatchStarts(from, until)
    BY <2>2 DEF BatchStarts
  <2>4. n \in s..BatchEnd(s, until)
    BY <1>1, <2>2 DEF BatchEnd, Least
  <2> QED
    BY <2>3, <2>4
<1>4. ASSUME NEW s \in BatchStarts(from, until), NEW n \in s..BatchEnd(s, until)
      PROVE  n \in from..until
  BY <1>1 DEF BatchStarts, BatchEnd, Least
<1> QED
  BY <1>3, <1>4

\* Nothing that is asked for is left out or fetched twice, and it comes in order,
\* whether or not the size of a batch divides the range.
LEMMA ExtractedSegment ==
    ASSUME NEW p \in Nat, NEW n \in Nat, p <= n
    PROVE  Extracted(p + 1, n) = Segment(p, n)
<1> DEFINE fetched == UNION {s..BatchEnd(s, n) : s \in BatchStarts(p + 1, n)}
<1>1. fetched = (p + 1)..n
  BY BatchesCover
<1>2. Cardinality(fetched) = n - p
  <2>1. Cardinality((p + 1)..n) = IF p + 1 > n THEN 0 ELSE n - (p + 1) + 1
    BY FS_Interval
  <2> HIDE DEF fetched
  <2> QED
    BY <1>1, <2>1
<1>3. ASSUME NEW i \in 1..(n - p)
      PROVE  (CHOOSE m \in fetched : Cardinality({l \in fetched : l < m}) = i - 1) = p + i
  <2>1. ASSUME NEW m \in fetched PROVE Cardinality({l \in fetched : l < m}) = m - p - 1
    <3>1. m \in (p + 1)..n
      BY <1>1
    <3>2. {l \in fetched : l < m} = (p + 1)..(m - 1)
      BY <1>1, <3>1
    <3>3. Cardinality((p + 1)..(m - 1)) = IF p + 1 > m - 1 THEN 0 ELSE (m - 1) - (p + 1) + 1
      BY <3>1, FS_Interval
    <3>4. Cardinality((p + 1)..(m - 1)) = m - p - 1
      BY <3>1, <3>3
    <3> QED
      BY ONLY <3>2, <3>4
  <2>2. p + i \in fetched
    BY <1>1
  <2>3. \A m \in fetched : Cardinality({l \in fetched : l < m}) = i - 1 <=> m = p + i
    BY <1>1, <2>1
  <2> HIDE DEF fetched
  <2> QED
    BY <2>2, <2>3
<1>4. Downloaded(p + 1, n) = [i \in 1..(n - p) |-> p + i]
  <2>1. Downloaded(p + 1, n) =
           [i \in 1..Cardinality(fetched) |->
               CHOOSE m \in fetched : Cardinality({l \in fetched : l < m}) = i - 1]
    BY DEF Downloaded
  <2> HIDE DEF fetched
  <2> QED
    BY <1>2, <1>3, <2>1
<1> QED
  BY <1>4 DEF Extracted, Segment

-----------------------------------------------------------------------------
(* What inserting a block does to the tables *)

Larger(a, b) == IF a < b THEN b ELSE a

\* Block p + 1 is inserted in a database that has the blocks up to k, p of them in
\* this pass. There are m then.
Inserts(k, p, m) ==
    /\ k \in Numbers /\ p \in 0..k /\ p + 1 \in Numbers
    /\ m = Larger(k, p + 1)

\* The numbers then: those before and the new one.
LEMMA InsertNumbers ==
    ASSUME NEW k, NEW p, NEW m, Inserts(k, p, m)
    PROVE  /\ m \in Numbers /\ k \in Nat /\ p \in Nat /\ m \in Nat /\ p + 1 <= m /\ k <= m /\ p <= k
           /\ 1..m = (1..k) \cup {p + 1} /\ 1..m \subseteq Numbers
           /\ Height \in Nat /\ Chain[p + 1].number = p + 1
<1>1. Height \in Nat
  BY SyncAssumption
<1>2. Chain[p + 1].number = p + 1
  BY SyncAssumption DEF Inserts
<1> QED
  BY <1>1, <1>2 DEF Inserts, Larger, Numbers

\* The transactions of a block are a sequence, and so are the receipts.
LEMMA BlockTxs ==
    ASSUME NEW n \in Numbers
    PROVE  /\ Chain[n].txs \in Seq(Nat) /\ Chain[n].receipts \in Seq(Nat)
           /\ DOMAIN Chain[n].txs = 1..Len(Chain[n].txs) /\ Len(Chain[n].txs) \in Nat
           /\ DOMAIN Chain[n].receipts = 1..Len(Chain[n].txs)
           /\ \A i \in 1..Len(Chain[n].txs) : Chain[n].txs[i] \in Nat /\ Chain[n].receipts[i] \in Nat
<1>1. /\ Chain[n].txs \in Seq(Nat) /\ Chain[n].receipts \in Seq(Nat)
      /\ Len(Chain[n].receipts) = Len(Chain[n].txs)
  BY ChainAssumption
<1> QED
  BY <1>1, LenProperties, ElementOfSeq

\* A function on 1..n is a sequence of length n.
LEMMA FunctionSeq ==
    ASSUME NEW S, NEW n \in Nat, NEW f \in [1..n -> S]
    PROVE  f \in Seq(S) /\ Len(f) = n
OBVIOUS

\* Where the elements of a concatenation come from.
LEMMA Joined ==
    ASSUME NEW S, NEW s \in Seq(S), NEW t \in Seq(S)
    PROVE  /\ s \o t \in Seq(S) /\ Len(s \o t) = Len(s) + Len(t)
           /\ \A i \in 1..Len(s) : (s \o t)[i] = s[i]
           /\ \A i \in 1..Len(t) : (s \o t)[Len(s) + i] = t[i]
OBVIOUS

\* The indices and the rows of the other blocks stay, those of the new one are at the
\* end, whether or not the block was inserted before.
LEMMA BodyStep ==
    ASSUME NEW k, NEW p, NEW m, Inserts(k, p, m),
           DOMAIN blocks = 1..k, BodyInv(k), InsertBody(Chain[p + 1])
    PROVE  DOMAIN blocks' = 1..m /\ BodyInv(m)'
<1> DEFINE b == Chain[p + 1]
           new == [i \in 1..Len(b.txs) |->
                      [hash |-> b.txs[i], block |-> b.number, receipt |-> b.receipts[i]]]
           hashes == {b.txs[i] : i \in 1..Len(b.txs)}
<1>1. /\ m \in Numbers /\ k \in Nat /\ p \in Nat /\ m \in Nat /\ p + 1 \in Numbers
      /\ 1..m = (1..k) \cup {p + 1} /\ 1..m \subseteq Numbers /\ b.number = p + 1
  BY InsertNumbers DEF Inserts
<1>2. /\ b.txs \in Seq(Nat) /\ b.receipts \in Seq(Nat) /\ Len(b.receipts) = Len(b.txs)
      /\ DOMAIN b.txs = 1..Len(b.txs) /\ Len(b.txs) \in Nat
      /\ \A i, j \in 1..Len(b.txs) : b.txs[i] = b.txs[j] => i = j
  <2>1. DOMAIN b.txs = 1..Len(b.txs) /\ Len(b.txs) \in Nat
    BY <1>1, BlockTxs
  <2>2. \A i, j \in DOMAIN b.txs : b.txs[i] = b.txs[j] => i = j
    BY <1>1, ChainAssumption
  <2>3. b.txs \in Seq(Nat) /\ b.receipts \in Seq(Nat) /\ Len(b.receipts) = Len(b.txs)
    BY <1>1, ChainAssumption
  <2> QED
    BY <2>1, <2>2, <2>3
<1>3. \A n \in Numbers : n # p + 1 =>
          \A i \in 1..Len(Chain[n].txs) : Chain[n].txs[i] \notin hashes
  <2> SUFFICES ASSUME NEW n \in Numbers, n # p + 1, NEW i \in 1..Len(Chain[n].txs),
                      NEW j \in 1..Len(b.txs)
               PROVE  Chain[n].txs[i] # b.txs[j]
    OBVIOUS
  <2>1. Chain[n].txs \in Seq(Nat)
    BY ChainAssumption
  <2>2. i \in DOMAIN Chain[n].txs /\ j \in DOMAIN b.txs
    BY <1>2, <2>1
  <2> QED
    BY <1>1, <2>2, ChainAssumption
<1>4. new \in Seq(Rows) /\ Len(new) = Len(b.txs)
      /\ \A i \in 1..Len(b.txs) : new[i] = Row(p + 1, i)
  <2>1. Len(b.txs) \in Nat /\ \A i \in 1..Len(b.txs) : b.txs[i] \in Nat /\ b.receipts[i] \in Nat
    BY <1>1, BlockTxs
  <2>2. \A i \in 1..Len(b.txs) : new[i] = Row(p + 1, i)
    BY <1>1 DEF Row
  <2>3. \A i \in 1..Len(b.txs) : new[i] \in Rows
    BY <1>1, <2>1 DEF Rows
  <2>4. new \in [1..Len(b.txs) -> Rows]
    BY <2>3
  <2> HIDE DEF new
  <2> QED
    BY <2>1, <2>2, <2>4, FunctionSeq
<1>5. txs \in Seq(Rows) /\ txs' = txs \o new /\ Len(txs) \in Nat
  BY DEF BodyInv, InsertBody
<1>6. /\ txs' \in Seq(Rows) /\ Len(txs') = Len(txs) + Len(b.txs) /\ Len(b.txs) \in Nat
      /\ \A i \in 1..Len(txs) : txs'[i] = txs[i]
      /\ \A i \in 1..Len(b.txs) : txs'[Len(txs) + i] = Row(p + 1, i)
  <2> HIDE DEF new
  <2>1. Len(b.txs) \in Nat
    BY <1>2
  <2>2. new \in Seq(Rows) /\ txs \in Seq(Rows)
    BY <1>4, <1>5
  <2>3. /\ txs \o new \in Seq(Rows) /\ Len(txs \o new) = Len(txs) + Len(new)
        /\ \A i \in 1..Len(txs) : (txs \o new)[i] = txs[i]
        /\ \A i \in 1..Len(new) : (txs \o new)[Len(txs) + i] = new[i]
    BY ONLY <2>2, Joined
  <2>4. \A i \in 1..Len(b.txs) : (txs \o new)[Len(txs) + i] = Row(p + 1, i)
    BY ONLY <1>4, <2>3
  <2> QED
    BY ONLY <1>4, <1>5, <2>1, <2>3, <2>4
<1>7. blocks' = [n \in 1..m |-> IF n = p + 1 THEN [hash |-> b.hash, offset |-> Len(txs), count |-> Len(b.txs)]
                                ELSE blocks[n]]
  BY <1>1 DEF InsertBody, Upsert, TxOffset
<1>8. /\ DOMAIN txNumbers' = DOMAIN txNumbers \cup hashes
      /\ \A h \in DOMAIN txNumbers : h \notin hashes => txNumbers'[h] = txNumbers[h]
      /\ \A i \in 1..Len(b.txs) : txNumbers'[b.txs[i]] = Len(txs) + i - 1
  <2>1. \A i \in 1..Len(b.txs) : (CHOOSE j \in 1..Len(b.txs) : b.txs[j] = b.txs[i]) = i
    BY <1>2
  <2>2. txNumbers' = Upsert(txNumbers,
             [h \in hashes |-> Len(txs) + (CHOOSE j \in 1..Len(b.txs) : b.txs[j] = h) - 1])
    BY DEF InsertBody, TxOffset
  <2> HIDE DEF b
  <2> QED
    BY <2>1, <2>2 DEF Upsert
<1> HIDE DEF b, new, hashes
<1>9. ASSUME NEW n \in 1..m, n # p + 1
      PROVE  /\ blocks'[n].count = Len(Chain[n].txs)
             /\ blocks'[n].offset \in Nat /\ blocks'[n].offset + blocks'[n].count <= Len(txs')
             /\ \A i \in 1..Len(Chain[n].txs) :
                    /\ txs'[blocks'[n].offset + i] = Row(n, i)
                    /\ Chain[n].txs[i] \in DOMAIN txNumbers'
                    /\ txNumbers'[Chain[n].txs[i]] \in 0..(Len(txs') - 1)
                    /\ txs'[txNumbers'[Chain[n].txs[i]] + 1] = Row(n, i)
  <2>1. n \in 1..k /\ n \in Numbers
    BY <1>1, <1>9
  <2>2. /\ blocks[n].count = Len(Chain[n].txs)
        /\ blocks[n].offset \in Nat /\ blocks[n].offset + blocks[n].count <= Len(txs)
        /\ \A i \in 1..Len(Chain[n].txs) :
               /\ txs[blocks[n].offset + i] = Row(n, i)
               /\ Chain[n].txs[i] \in DOMAIN txNumbers
               /\ txNumbers[Chain[n].txs[i]] \in 0..(Len(txs) - 1)
               /\ txs[txNumbers[Chain[n].txs[i]] + 1] = Row(n, i)
    BY <2>1 DEF BodyInv
  <2>3. blocks'[n] = blocks[n]
    BY <1>7, <1>9
  <2>4. Len(Chain[n].txs) \in Nat
    BY <2>1, ChainAssumption
  <2>5. blocks'[n].offset + blocks'[n].count <= Len(txs')
    BY <1>5, <1>6, <2>2, <2>3, <2>4
  <2>6. ASSUME NEW i \in 1..Len(Chain[n].txs)
        PROVE  /\ txs'[blocks'[n].offset + i] = Row(n, i)
               /\ Chain[n].txs[i] \in DOMAIN txNumbers'
               /\ txNumbers'[Chain[n].txs[i]] \in 0..(Len(txs') - 1)
               /\ txs'[txNumbers'[Chain[n].txs[i]] + 1] = Row(n, i)
    <3>1. txNumbers'[Chain[n].txs[i]] = txNumbers[Chain[n].txs[i]]
      BY <1>3, <1>8, <1>9, <2>1, <2>2
    <3>2. blocks[n].offset + i \in 1..Len(txs)
      BY <1>5, <2>2, <2>4
    <3>3. txs'[blocks[n].offset + i] = Row(n, i)
      BY <1>6, <2>2, <3>2
    <3>4. Chain[n].txs[i] \in DOMAIN txNumbers'
      BY <1>8, <2>2
    <3>5. PICK t \in 0..(Len(txs) - 1) : t = txNumbers[Chain[n].txs[i]] /\ txs[t + 1] = Row(n, i)
      BY <2>2
    <3>6. t + 1 \in 1..Len(txs) /\ t \in 0..(Len(txs') - 1)
      BY <1>5, <1>6
    <3>7. txs'[t + 1] = Row(n, i)
      BY <1>6, <3>5, <3>6
    <3> QED
      BY <2>3, <3>1, <3>3, <3>4, <3>5, <3>6, <3>7
  <2> QED
    BY <2>2, <2>3, <2>5, <2>6
<1>10. /\ blocks'[p + 1].count = Len(b.txs)
       /\ blocks'[p + 1].offset \in Nat /\ blocks'[p + 1].offset + blocks'[p + 1].count <= Len(txs')
       /\ \A i \in 1..Len(b.txs) :
              /\ txs'[blocks'[p + 1].offset + i] = Row(p + 1, i)
              /\ b.txs[i] \in DOMAIN txNumbers'
              /\ txNumbers'[b.txs[i]] \in 0..(Len(txs') - 1)
              /\ txs'[txNumbers'[b.txs[i]] + 1] = Row(p + 1, i)
  <2>1. p + 1 \in 1..m
    BY <1>1
  <2>2. blocks'[p + 1].count = Len(b.txs) /\ blocks'[p + 1].offset = Len(txs)
    BY <1>7, <2>1
  <2>3. ASSUME NEW i \in 1..Len(b.txs)
        PROVE  /\ txs'[Len(txs) + i] = Row(p + 1, i)
               /\ b.txs[i] \in DOMAIN txNumbers'
               /\ txNumbers'[b.txs[i]] \in 0..(Len(txs') - 1)
               /\ txs'[txNumbers'[b.txs[i]] + 1] = Row(p + 1, i)
    <3>1. txNumbers'[b.txs[i]] = Len(txs) + i - 1
      BY <1>8
    <3>2. Len(txs) + i - 1 + 1 = Len(txs) + i /\ Len(txs) + i - 1 \in 0..(Len(txs') - 1)
      BY <1>5, <1>6
    <3>3. b.txs[i] \in DOMAIN txNumbers'
      BY <1>8 DEF hashes
    <3> QED
      BY <1>6, <3>1, <3>2, <3>3
  <2> QED
    BY <1>5, <1>6, <2>2, <2>3
<1>11. DOMAIN blocks' = 1..m
  BY <1>7
<1> QED
  BY <1>6, <1>9, <1>10, <1>11 DEF BodyInv, b

\* The list of a key gets the new number when the block writes it, the history gets
\* the entries of the block.
LEMMA ListsStep ==
    ASSUME NEW k, NEW p, NEW m, Inserts(k, p, m), NEW field, NEW lists, NEW history,
           ListsInv(lists, history, field, k)
    PROVE  ListsInv(Changed(lists, DOMAIN Chain[p + 1][field], p + 1),
                    history \cup Entries(p + 1, Chain[p + 1][field]), field, m)
<1> DEFINE keys == DOMAIN Chain[p + 1][field]
<1>1. 1..m = (1..k) \cup {p + 1}
  BY InsertNumbers
<1>2. ASSUME NEW x \in Written(field)
      PROVE  GetOr(Changed(lists, keys, p + 1), x, {}) = Writers(m, x, field)
  <2>1. GetOr(Changed(lists, keys, p + 1), x, {})
            = GetOr(lists, x, {}) \cup (IF x \in keys THEN {p + 1} ELSE {})
    BY DEF Changed, Upsert, GetOr
  <2>2. Writers(m, x, field) = Writers(k, x, field) \cup (IF x \in keys THEN {p + 1} ELSE {})
    BY <1>1 DEF Writers
  <2>3. GetOr(lists, x, {}) = Writers(k, x, field)
    BY DEF ListsInv
  <2> QED
    BY <2>1, <2>2, <2>3
<1>3. history \cup Entries(p + 1, Chain[p + 1][field]) = UNION {ExpectedRows(n, field) : n \in 1..m}
  BY <1>1 DEF ListsInv, ExpectedRows
<1> QED
  BY <1>2, <1>3 DEF ListsInv

\* The declarations are those of the blocks in the database: no class has two.
LEMMA ClassStep ==
    ASSUME NEW k, NEW p, NEW m, Inserts(k, p, m), ClassInv(k), InsertClasses(Chain[p + 1])
    PROVE  ClassInv(m)'
<1> DEFINE b == Chain[p + 1]
<1>1. /\ 1..m = (1..k) \cup {p + 1} /\ b.number = p + 1 /\ 1..m \subseteq Numbers
      /\ p + 1 \in Numbers
  BY InsertNumbers DEF Inserts
<1>2. declarations' = declarations \cup ({p + 1} \X Declares(p + 1))
  BY <1>1 DEF InsertClasses, Declares
<1>3. declarations' = UNION {{n} \X Declares(n) : n \in 1..m}
  BY <1>1, <1>2 DEF ClassInv
<1>4. compiledHashes' = DeclaredUpTo(m)
  BY <1>1 DEF ClassInv, InsertClasses, DeclaredUpTo
<1>5. declaredAt' = Upsert(declaredAt, [h \in Declares(p + 1) |-> p + 1])
  BY <1>1 DEF InsertClasses, Declares
<1>6. /\ DOMAIN declaredAt' = DOMAIN declaredAt \cup Declares(p + 1)
      /\ \A h \in Declares(p + 1) : declaredAt'[h] = p + 1
      /\ \A h \in DOMAIN declaredAt : h \notin Declares(p + 1) => declaredAt'[h] = declaredAt[h]
  BY <1>5 DEF Upsert
<1>7. \A n \in 1..m : n # p + 1 => Declares(n) \cap Declares(p + 1) = {}
  BY <1>1, ChainAssumption DEF Declares
<1>8. ASSUME NEW n \in 1..m, NEW h \in Declares(n)
      PROVE  h \in DOMAIN declaredAt' /\ declaredAt'[h] = n
  <2>1. CASE n = p + 1
    BY <1>6, <2>1
  <2>2. CASE n # p + 1
    <3>1. n \in 1..k /\ h \notin Declares(p + 1)
      BY <1>1, <1>7, <2>2
    <3>2. h \in DOMAIN declaredAt /\ declaredAt[h] = n
      BY <3>1 DEF ClassInv
    <3> QED
      BY <1>6, <3>1, <3>2
  <2> QED
    BY <2>1, <2>2
<1>9. \A h \in DOMAIN declaredAt' : \E n \in 1..m : h \in Declares(n)
  BY <1>1, <1>6 DEF ClassInv
<1> QED
  BY <1>3, <1>4, <1>8, <1>9 DEF ClassInv

\* The last writer up to a block is the only one CHOOSE finds.
LEMMA LastWriter ==
    ASSUME NEW n \in Nat, NEW x, NEW field, Writers(n, x, field) # {}
    PROVE  \E m \in Writers(n, x, field) :
               /\ \A l \in Writers(n, x, field) : l <= m
               /\ Expected(n, x, field) = Chain[m][field][x]
<1> DEFINE W == Writers(n, x, field)
<1>1. W \in SUBSET (1..n)
  BY DEF Writers
<1>2. PICK m \in W : \A l \in W : l <= m
  BY <1>1, GreatestElement
<1>3. \A l \in W : (\A j \in W : j <= l) => l = m
  BY <1>1, <1>2
<1>4. Expected(n, x, field) = Chain[CHOOSE l \in W : \A j \in W : j <= l][field][x]
  BY DEF Expected
<1> HIDE DEF W
<1>5. (CHOOSE l \in W : \A j \in W : j <= l) = m
  BY <1>2, <1>3
<1> QED
  BY <1>2, <1>4, <1>5 DEF W

\* The expected value depends on the writers alone.
LEMMA SameWriters ==
    ASSUME NEW n, NEW m, NEW x, NEW field, Writers(n, x, field) = Writers(m, x, field)
    PROVE  Expected(n, x, field) = Expected(m, x, field)
BY DEF Expected

\* What the next block writes is the expected value after it; nothing else changes.
LEMMA NextExpected ==
    ASSUME NEW p \in Nat, NEW x, NEW field
    PROVE  Expected(p + 1, x, field) =
               IF x \in DOMAIN Chain[p + 1][field] THEN Chain[p + 1][field][x] ELSE Expected(p, x, field)
<1>1. Writers(p + 1, x, field) =
          Writers(p, x, field) \cup (IF x \in DOMAIN Chain[p + 1][field] THEN {p + 1} ELSE {})
  BY DEF Writers
<1>2. CASE x \in DOMAIN Chain[p + 1][field]
  <2>1. p + 1 \in Writers(p + 1, x, field) /\ p + 1 \in Nat
        /\ \A l \in Writers(p + 1, x, field) : l \in 1..(p + 1)
    BY <1>2 DEF Writers
  <2>2. PICK m \in Writers(p + 1, x, field) :
               /\ \A l \in Writers(p + 1, x, field) : l <= m
               /\ Expected(p + 1, x, field) = Chain[m][field][x]
    BY <2>1, LastWriter
  <2>3. m = p + 1
    BY <2>1, <2>2
  <2> QED
    BY <1>2, <2>2, <2>3
<1>3. CASE x \notin DOMAIN Chain[p + 1][field]
  BY <1>1, <1>3, SameWriters
<1> QED
  BY <1>2, <1>3

\* An upserted table that was right up to p is right up to p + 1, also for what a later
\* block in the database has written before.
LEMMA LatestStep ==
    ASSUME NEW k, NEW p, NEW m, Inserts(k, p, m), NEW x, NEW field, NEW old, NEW new,
           Latest(k, p, x, field, old),
           new = IF x \in DOMAIN Chain[p + 1][field] THEN Chain[p + 1][field][x] ELSE old
    PROVE  Latest(m, p + 1, x, field, new)
<1> SUFFICES ASSUME Writers(m, x, field) = Writers(p + 1, x, field)
             PROVE  new = Expected(p + 1, x, field)
  BY DEF Latest
<1>1. k \in Nat /\ p \in Nat /\ m \in Nat /\ p <= k /\ 1..m = (1..k) \cup {p + 1}
  BY InsertNumbers
<1>2. CASE x \in DOMAIN Chain[p + 1][field]
  BY <1>1, <1>2, NextExpected
<1>3. CASE x \notin DOMAIN Chain[p + 1][field]
  <2>1. Writers(m, x, field) = Writers(k, x, field) /\ Writers(p + 1, x, field) = Writers(p, x, field)
    BY <1>1, <1>3 DEF Writers
  <2> QED
    BY <1>1, <1>3, <2>1, NextExpected DEF Latest
<1> QED
  BY <1>2, <1>3

\* A stop forgets how far the pass had come: what was right up to p is right up to an
\* earlier block.
LEMMA LatestBack ==
    ASSUME NEW k \in Nat, NEW p \in Nat, NEW q \in Nat, q <= p, p <= k,
           NEW x, NEW field, NEW value, Latest(k, p, x, field, value)
    PROVE  Latest(k, q, x, field, value)
<1> SUFFICES ASSUME Writers(k, x, field) = Writers(q, x, field)
             PROVE  value = Expected(q, x, field)
  BY DEF Latest
<1>1. Writers(k, x, field) = Writers(p, x, field)
  BY DEF Writers
<1>2. Writers(p, x, field) = Writers(q, x, field)
  BY <1>1
<1>3. Expected(p, x, field) = Expected(q, x, field)
  BY ONLY <1>2, SameWriters
<1> QED
  BY <1>1, <1>3 DEF Latest

\* The plain tables follow the pass.
LEMMA PlainStep ==
    ASSUME NEW k, NEW p, NEW m, Inserts(k, p, m), PlainInv(k, p), InsertState(Chain[p + 1])
    PROVE  PlainInv(m, p + 1)'
<1> DEFINE b == Chain[p + 1]
<1>1. ASSUME NEW x \in Written("storage")
      PROVE  Latest(m, p + 1, x, "storage", GetOr(contractStorage', x, 0))
  <2>1. GetOr(contractStorage', x, 0) =
            IF x \in DOMAIN b.storage THEN b.storage[x] ELSE GetOr(contractStorage, x, 0)
    BY DEF InsertState, Upsert, GetOr
  <2>2. Latest(k, p, x, "storage", GetOr(contractStorage, x, 0))
    BY DEF PlainInv
  <2> QED
    BY <2>1, <2>2, LatestStep
<1>2. \A c : GetOr(contractInfo', c, NoInfo) =
            IF c \in DOMAIN b.deployed \cup DOMAIN b.nonces
            THEN [class |-> GetOr(b.deployed, c, GetOr(contractInfo, c, NoInfo).class),
                  nonce |-> GetOr(b.nonces, c, GetOr(contractInfo, c, NoInfo).nonce)]
            ELSE GetOr(contractInfo, c, NoInfo)
  <2>1. contractInfo' = UpdatedInfo(b)
    BY DEF InsertState
  <2> HIDE DEF b
  <2> QED
    BY <2>1 DEF UpdatedInfo, Upsert, GetOr
<1>3. ASSUME NEW c \in Written("nonces")
      PROVE  Latest(m, p + 1, c, "nonces", GetOr(contractInfo', c, NoInfo).nonce)
  <2>1. GetOr(contractInfo', c, NoInfo).nonce =
            IF c \in DOMAIN b.nonces THEN b.nonces[c] ELSE GetOr(contractInfo, c, NoInfo).nonce
    <3> DEFINE old == GetOr(contractInfo, c, NoInfo)
    <3>1. GetOr(contractInfo', c, NoInfo) =
              IF c \in DOMAIN b.deployed \cup DOMAIN b.nonces
              THEN [class |-> GetOr(b.deployed, c, old.class), nonce |-> GetOr(b.nonces, c, old.nonce)]
              ELSE old
      BY <1>2
    <3> HIDE DEF old, b
    <3>2. GetOr(contractInfo', c, NoInfo).nonce =
              IF c \in DOMAIN b.deployed \cup DOMAIN b.nonces THEN GetOr(b.nonces, c, old.nonce) ELSE old.nonce
      BY <3>1
    <3>3. GetOr(b.nonces, c, old.nonce) = IF c \in DOMAIN b.nonces THEN b.nonces[c] ELSE old.nonce
      BY DEF GetOr
    <3>4. GetOr(contractInfo', c, NoInfo).nonce = IF c \in DOMAIN b.nonces THEN b.nonces[c] ELSE old.nonce
      BY <3>2, <3>3
    <3> QED
      BY <3>4 DEF old
  <2>2. Latest(k, p, c, "nonces", GetOr(contractInfo, c, NoInfo).nonce)
    BY DEF PlainInv
  <2> QED
    BY <2>1, <2>2, LatestStep
<1>4. ASSUME NEW c \in Written("deployed")
      PROVE  Latest(m, p + 1, c, "deployed", GetOr(contractInfo', c, NoInfo).class)
  <2>1. GetOr(contractInfo', c, NoInfo).class =
            IF c \in DOMAIN b.deployed THEN b.deployed[c] ELSE GetOr(contractInfo, c, NoInfo).class
    <3> DEFINE old == GetOr(contractInfo, c, NoInfo)
    <3>1. GetOr(contractInfo', c, NoInfo) =
              IF c \in DOMAIN b.deployed \cup DOMAIN b.nonces
              THEN [class |-> GetOr(b.deployed, c, old.class), nonce |-> GetOr(b.nonces, c, old.nonce)]
              ELSE old
      BY <1>2
    <3> HIDE DEF old, b
    <3>2. GetOr(contractInfo', c, NoInfo).class =
              IF c \in DOMAIN b.deployed \cup DOMAIN b.nonces THEN GetOr(b.deployed, c, old.class) ELSE old.class
      BY <3>1
    <3>3. GetOr(b.deployed, c, old.class) = IF c \in DOMAIN b.deployed THEN b.deployed[c] ELSE old.class
      BY DEF GetOr
    <3>4. GetOr(contractInfo', c, NoInfo).class = IF c \in DOMAIN b.deployed THEN b.deployed[c] ELSE old.class
      BY <3>2, <3>3
    <3> QED
      BY <3>4 DEF old
  <2>2. Latest(k, p, c, "deployed", GetOr(contractInfo, c, NoInfo).class)
    BY DEF PlainInv
  <2> QED
    BY <2>1, <2>2, LatestStep
<1> QED
  BY <1>1, <1>3, <1>4 DEF PlainInv

\* Inserting a block, for the first time or again, keeps all tables those of the chain.
LEMMA InsertStep ==
    ASSUME NEW k, NEW p, NEW m, Inserts(k, p, m), DOMAIN blocks = 1..k,
           TablesInv(k), PlainInv(k, p), InsertBlock(Chain[p + 1])
    PROVE  DOMAIN blocks' = 1..m /\ TablesInv(m)' /\ PlainInv(m, p + 1)'
<1> DEFINE b == Chain[p + 1]
<1>1. DOMAIN blocks' = 1..m /\ BodyInv(m)'
  BY BodyStep DEF TablesInv, InsertBlock
<1>2. ClassInv(m)'
  BY ClassStep DEF TablesInv, InsertBlock
<1>3. PlainInv(m, p + 1)'
  BY PlainStep DEF InsertBlock
<1>4. b.number = p + 1
  BY InsertNumbers
<1>5. ListsInv(storageSet', storageHistory', "storage", m)
  BY <1>4, ListsStep DEF TablesInv, HistoryInv, InsertBlock, InsertState
<1>6. ListsInv(nonceSet', nonceHistory', "nonces", m)
  BY <1>4, ListsStep DEF TablesInv, HistoryInv, InsertBlock, InsertState
<1>7. ListsInv(classSet', classHistory', "deployed", m)
  BY <1>4, ListsStep DEF TablesInv, HistoryInv, InsertBlock, InsertState
<1> QED
  BY <1>1, <1>2, <1>3, <1>5, <1>6, <1>7 DEF TablesInv, HistoryInv

-----------------------------------------------------------------------------
(* The control of the pipeline *)

\* The stage that runs.
LEMMA IdCases ==
    /\ stage = 1 => Id = "Blocks"
    /\ stage = 2 => Id = "Classes"
    /\ Len(Stages) = 2
BY DEF Id, Stages

\* The lesser of two numbers is one of them and not beyond either.
LEMMA LeastType ==
    ASSUME NEW a \in Nat, NEW b \in Nat
    PROVE  Least(a, b) \in Nat /\ Least(a, b) <= a /\ Least(a, b) <= b
BY DEF Least

\* After a stage comes the next one, the next chunk or the wait for a tip.
LEMMA NextStageCases ==
    ASSUME ControlType, NEW last \in Numbers, NextStage(last), UNCHANGED tip
    PROVE  /\ pc' \in {"stage", "chunk", "wait"} /\ stage' \in {1, 2}
           /\ chunkTip' \in Numbers \cup {ChunkSize}
           /\ pc' = "stage" => stage = 1 /\ stage' = 2
           /\ pc' # "stage" => stage = 2
<1>1. Height \in Nat /\ ChunkSize \in Nat \ {0}
  BY SyncAssumption
<1>2. CASE stage = 1
  <2>1. pc' = "stage" /\ stage' = stage + 1 /\ UNCHANGED chunkTip
    BY <1>2, IdCases DEF NextStage
  <2> QED
    BY <1>2, <2>1 DEF ControlType
<1>3. CASE stage = 2
  <2>1. ChunkDone(last) /\ UNCHANGED stage
    BY <1>3, IdCases DEF NextStage
  <2>2. Least(last + ChunkSize, tip) \in Numbers
    <3>1. last + ChunkSize \in Nat /\ tip \in Nat /\ tip <= Height
      BY <1>1 DEF ControlType, Numbers
    <3>2. /\ Least(last + ChunkSize, tip) \in Nat /\ Least(last + ChunkSize, tip) <= tip
      BY <3>1, LeastType
    <3> QED
      BY <1>1, <3>1, <3>2 DEF Numbers
  <2> QED
    BY <1>3, <2>1, <2>2 DEF ChunkDone, ControlType
<1> QED
  BY <1>2, <1>3 DEF ControlType

\* The variables of the pipeline, the watcher and the gateway keep their types.
LEMMA ControlStep == ControlType /\ [Next]_vars => ControlType'
<1> SUFFICES ASSUME ControlType, [Next]_vars PROVE ControlType'
  OBVIOUS
<1>0. Height \in Nat /\ ChunkSize \in Nat \ {0} /\ MaxStops \in Nat
  BY SyncAssumption
<1>1. CASE UNCHANGED vars
  BY <1>1 DEF vars, gatewayVars, pipelineVars, ControlType
<1>2. CASE Grow
  BY <1>2 DEF Grow, pipelineVars, ControlType
<1>3. CASE SetTip
  BY <1>3 DEF SetTip, pipelineVars, ControlType
<1>4. CASE BorrowTip
  <2>1. watched' \in [value : {{}} \cup {{n} : n \in Numbers}, changed : BOOLEAN]
    BY <1>4 DEF BorrowTip, ControlType
  <2>2. watched.value # {} => (CHOOSE n \in watched.value : TRUE) \in Numbers
    <3>1. watched.value \in {{}} \cup {{n} : n \in Numbers}
      BY DEF ControlType
    <3> QED
      BY <3>1
  <2>3. tip' \in Numbers /\ pc' \in {"wait", "chunk"}
    BY <1>4, <2>2 DEF BorrowTip, ControlType
  <2> QED
    BY <1>4, <2>1, <2>3 DEF BorrowTip, ControlType
<1>5. CASE StartChunk
  <2>1. chunkTip \in Nat /\ tip \in Nat /\ tip <= Height
    BY <1>0 DEF ControlType, Numbers
  <2>2. Least(chunkTip, tip) \in Numbers
    BY <1>0, <2>1, LeastType DEF Numbers
  <2> QED
    BY <1>5, <2>2 DEF StartChunk, gatewayVars, ControlType
<1>6. CASE AwaitTip
  BY <1>6 DEF AwaitTip, ControlType
<1>7. CASE Skip
  <2>1. checkpoint[Id] \in Numbers
    BY IdCases DEF ControlType
  <2>2. NextStage(checkpoint[Id]) /\ UNCHANGED tip
    BY <1>7 DEF Skip
  <2>3. pc' \in {"stage", "chunk", "wait"} /\ stage' \in {1, 2} /\ chunkTip' \in Numbers \cup {ChunkSize}
    BY <2>1, <2>2, NextStageCases
  <2> QED
    BY <1>7, <2>3 DEF Skip, gatewayVars, ControlType
<1>8. CASE ExecuteBlocks
  BY <1>8 DEF ExecuteBlocks, gatewayVars, ControlType
<1>9. CASE StoreBlock
  BY <1>9 DEF StoreBlock, gatewayVars, ControlType
<1>10. CASE ExecuteClasses
  BY <1>10 DEF ExecuteClasses, gatewayVars, ControlType
<1>11. CASE StoreClass
  BY <1>11 DEF StoreClass, gatewayVars, ControlType
<1>12. CASE SetCheckpoint
  <2>1. NextStage(to) /\ UNCHANGED tip /\ to \in Numbers
    BY <1>12 DEF SetCheckpoint, ControlType
  <2>2. pc' \in {"stage", "chunk", "wait"} /\ stage' \in {1, 2} /\ chunkTip' \in Numbers \cup {ChunkSize}
    BY <2>1, NextStageCases
  <2>3. checkpoint' \in [{"Blocks", "Classes"} -> Numbers]
    BY <1>12, <2>1 DEF SetCheckpoint, ControlType
  <2> QED
    BY <1>12, <2>2, <2>3 DEF SetCheckpoint, gatewayVars, ControlType
<1>13. CASE Stop
  BY <1>0, <1>13 DEF Stop, ControlType, Numbers
<1>14. CASE Start
  BY <1>14 DEF Start, gatewayVars, ControlType
<1> QED
  BY <1>1, <1>2, <1>3, <1>4, <1>5, <1>6, <1>7, <1>8, <1>9, <1>10, <1>11, <1>12, <1>13, <1>14
     DEF Next, Pipeline

\* The blocks after p: how many, the first of them, and the others.
LEMMA SegmentFacts ==
    ASSUME NEW p \in Nat, NEW n \in Nat, p <= n
    PROVE  /\ Len(Segment(p, n)) = n - p
           /\ Segment(p, n) = <<>> <=> p = n
           /\ p < n => Head(Segment(p, n)) = Chain[p + 1] /\ Tail(Segment(p, n)) = Segment(p + 1, n)
<1>1. Segment(p, n) \in Seq({Chain[p + i] : i \in 1..(n - p)}) /\ Len(Segment(p, n)) = n - p
  <2>1. Segment(p, n) \in [1..(n - p) -> {Chain[p + i] : i \in 1..(n - p)}] /\ n - p \in Nat
    BY DEF Segment
  <2> QED
    BY ONLY <2>1, FunctionSeq
<1>2. Segment(p, n) = <<>> <=> p = n
  BY <1>1, EmptySeq
<1>3. ASSUME p < n
      PROVE  Head(Segment(p, n)) = Chain[p + 1] /\ Tail(Segment(p, n)) = Segment(p + 1, n)
  <2>1. Head(Segment(p, n)) = Chain[p + 1]
    BY <1>3 DEF Segment
  <2>2. Tail(Segment(p, n)) = [i \in 1..(n - p - 1) |-> Segment(p, n)[i + 1]]
    <3>1. PICK S : Segment(p, n) \in Seq(S)
      BY <1>1
    <3>2. PICK s : s = Segment(p, n) /\ s \in Seq(S) /\ Len(s) = n - p
      BY <1>1, <3>1
    <3>3. s # <<>> /\ Len(s) \in Nat
      BY <1>3, <3>2, EmptySeq
    <3>4. /\ Tail(s) \in Seq(S) /\ Len(Tail(s)) = Len(s) - 1
          /\ \A i \in 1..Len(Tail(s)) : Tail(s)[i] = s[i + 1]
      BY <3>2, <3>3, HeadTailProperties
    <3>5. Tail(s) = [i \in 1..Len(Tail(s)) |-> Tail(s)[i]]
      <4>1. PICK t \in Seq(S) : t = Tail(s)
        BY <3>4
      <4>2. t = [i \in 1..Len(t) |-> t[i]]
        OBVIOUS
      <4> QED
        BY <4>1, <4>2
    <3>6. Tail(s) = [i \in 1..Len(Tail(s)) |-> s[i + 1]]
      BY ONLY <3>4, <3>5
    <3> QED
      BY <3>2, <3>4, <3>6
  <2>3. \A i \in 1..(n - p - 1) : Segment(p, n)[i + 1] = Chain[(p + 1) + i]
    <3> SUFFICES ASSUME NEW i \in 1..(n - p - 1) PROVE Segment(p, n)[i + 1] = Chain[(p + 1) + i]
      OBVIOUS
    <3>1. i + 1 \in 1..(n - p) /\ p + (i + 1) = (p + 1) + i
      OBVIOUS
    <3> QED
      BY <3>1 DEF Segment
  <2>4. n - (p + 1) = n - p - 1
    OBVIOUS
  <2>5. Segment(p + 1, n) = [i \in 1..(n - p - 1) |-> Chain[(p + 1) + i]]
    BY <2>4 DEF Segment
  <2> QED
    BY <2>1, <2>2, <2>3, <2>5
<1> QED
  BY <1>1, <1>2, <1>3

\* While blocks are stored, they are the ones after Pos.
LEMMA PosStoring ==
    ASSUME ControlType, StagesInv
    PROVE  /\ Pos \in Nat /\ checkpoint["Blocks"] <= Pos
           /\ Storing => Pos <= to /\ toStore = Segment(Pos, to)
           /\ ~Storing => Pos = checkpoint["Blocks"]
<1>1. Height \in Nat /\ checkpoint["Blocks"] \in Nat /\ to \in Nat
  BY SyncAssumption DEF ControlType, Numbers
<1>2. CASE Storing
  <2>1. PICK p \in checkpoint["Blocks"]..to : toStore = Segment(p, to)
    BY <1>2 DEF StagesInv
  <2>2. Pos = p
    <3>1. Len(Segment(p, to)) = to - p /\ p \in Nat
      BY <1>1, SegmentFacts
    <3> QED
      BY <1>1, <1>2, <2>1, <3>1 DEF Pos
  <2> QED
    BY <1>1, <1>2, <2>1, <2>2
<1>3. CASE ~Storing
  BY <1>1, <1>3 DEF Pos
<1> QED
  BY <1>2, <1>3

\* The stages follow each other, and what is left to store is what was downloaded.
LEMMA StagesStep == ControlType /\ StagesInv /\ [Next]_vars => StagesInv'
<1> SUFFICES ASSUME ControlType, StagesInv, [Next]_vars PROVE StagesInv'
  OBVIOUS
<1> USE DEF Storing
<1>0. /\ Height \in Nat /\ to \in Nat /\ checkpoint["Blocks"] \in Nat /\ checkpoint["Classes"] \in Nat
      /\ stage \in {1, 2}
  BY SyncAssumption DEF ControlType, Numbers
<1>1. CASE UNCHANGED vars
  BY <1>1 DEF vars, pipelineVars, StagesInv, Id
<1>2. CASE Grow \/ SetTip
  BY <1>2 DEF Grow, SetTip, pipelineVars, StagesInv, Id
<1>3. CASE BorrowTip \/ AwaitTip \/ Start
  <2>1. /\ UNCHANGED <<checkpoint, to, stage, toStore, toSet>>
        /\ pc # "store" /\ pc' \notin {"store", "stage"}
    BY <1>3 DEF BorrowTip, AwaitTip, Start
  <2> QED
    BY <2>1 DEF StagesInv
<1>4. CASE StartChunk
  BY <1>4 DEF StartChunk, StagesInv
<1>5. CASE Skip
  <2>1. /\ UNCHANGED <<checkpoint, to, toStore, toSet>> /\ pc = "stage"
        /\ checkpoint[Id] >= to
    BY <1>5 DEF Skip, MustSkip
  <2>2. NextStage(checkpoint[Id]) /\ UNCHANGED tip /\ checkpoint[Id] \in Numbers
    BY <1>5, IdCases DEF Skip, ControlType
  <2>3. /\ pc' \in {"stage", "chunk", "wait"} /\ stage' \in {1, 2}
        /\ pc' = "stage" => stage = 1 /\ stage' = 2
    BY <2>2, NextStageCases
  <2>4. pc' = "stage" => to <= checkpoint["Blocks"]
    BY <1>0, <2>1, <2>3, IdCases
  <2> QED
    BY <2>1, <2>3, <2>4 DEF StagesInv
<1>6. CASE ExecuteBlocks
  <2>1. /\ UNCHANGED <<checkpoint, to, stage, toSet>> /\ pc = "stage" /\ pc' = "store"
        /\ ~(checkpoint[Id] >= to) /\ stage = 1 /\ toStore' = Extracted(checkpoint[Id] + 1, to)
    BY <1>0, <1>6, IdCases DEF ExecuteBlocks, MustSkip, From
  <2>2. Id = "Blocks" /\ Id' = "Blocks"
    BY <2>1, IdCases DEF Id
  <2>3. toStore' = Segment(checkpoint["Blocks"], to)
    BY <1>0, <2>1, <2>2, ExtractedSegment
  <2>4. checkpoint["Blocks"] \in checkpoint["Blocks"]..to
    BY <1>0, <2>1, <2>2
  <2> QED
    BY <1>0, <2>1, <2>2, <2>3, <2>4 DEF StagesInv
<1>7. CASE StoreBlock
  <2>1. /\ UNCHANGED <<checkpoint, to, stage, toSet, pc>> /\ pc = "store" /\ toStore # <<>>
        /\ toStore' = Tail(toStore)
    BY <1>7 DEF StoreBlock
  <2>2. Storing
    BY <1>0, <2>1 DEF StagesInv
  <2>3. Pos \in Nat /\ checkpoint["Blocks"] <= Pos /\ Pos <= to /\ toStore = Segment(Pos, to)
    BY <2>2, PosStoring
  <2>4. Pos < to /\ toStore' = Segment(Pos + 1, to)
    <3>1. PICK p \in Nat, n \in Nat : p = Pos /\ n = to
      BY <1>0, <2>3
    <3>2. p <= n /\ Segment(p, n) # <<>> /\ toStore' = Tail(Segment(p, n))
      BY <2>1, <2>3, <3>1
    <3>3. p < n /\ toStore' = Segment(p + 1, n)
      BY ONLY <3>2, SegmentFacts, p \in Nat, n \in Nat
    <3> QED
      BY <3>1, <3>3
  <2>5. Pos + 1 \in checkpoint["Blocks"]..to
    BY <1>0, <2>3, <2>4
  <2>6. \E p \in checkpoint["Blocks"]..to : toStore' = Segment(p, to)
    BY <2>4, <2>5
  <2> QED
    BY <2>1, <2>2, <2>6 DEF StagesInv, Id
<1>8. CASE ExecuteClasses
  <2>1. /\ UNCHANGED <<checkpoint, to, stage, toStore>> /\ pc = "stage" /\ pc' = "store"
        /\ ~(checkpoint[Id] >= to) /\ stage = 2
    BY <1>0, <1>8, IdCases DEF ExecuteClasses, MustSkip
  <2>2. Id = "Classes" /\ Id' = "Classes"
    BY <2>1, IdCases DEF Id
  <2> QED
    BY <1>0, <2>1, <2>2 DEF StagesInv
<1>9. CASE StoreClass
  <2>1. /\ UNCHANGED <<checkpoint, to, stage, toStore, pc>> /\ pc = "store" /\ toSet # {}
    BY <1>9 DEF StoreClass
  <2> QED
    BY <1>0, <2>1 DEF StagesInv, Id
<1>10. CASE SetCheckpoint
  <2>1. /\ UNCHANGED <<to, toStore, toSet>> /\ pc = "store" /\ toStore = <<>> /\ toSet = {}
        /\ checkpoint' = [checkpoint EXCEPT ![Id] = to]
    BY <1>10 DEF SetCheckpoint
  <2>2. NextStage(to) /\ UNCHANGED tip /\ to \in Numbers
    BY <1>10 DEF SetCheckpoint, ControlType
  <2>3. /\ pc' \in {"stage", "chunk", "wait"} /\ stage' \in {1, 2}
        /\ pc' = "stage" => stage = 1 /\ stage' = 2
    BY <2>2, NextStageCases
  <2>4. checkpoint \in [{"Blocks", "Classes"} -> Numbers] /\ checkpoint[Id] < to
    BY <2>1 DEF ControlType, StagesInv
  <2>5. CASE stage = 1
    <3>1. checkpoint'["Blocks"] = to /\ checkpoint'["Classes"] = checkpoint["Classes"]
      BY <2>1, <2>4, <2>5, IdCases
    <3> QED
      BY <1>0, <2>1, <2>3, <2>4, <2>5, <3>1, IdCases DEF StagesInv
  <2>6. CASE stage = 2
    <3>1. checkpoint'["Blocks"] = checkpoint["Blocks"] /\ checkpoint'["Classes"] = to
      BY <2>1, <2>4, <2>6, IdCases
    <3> QED
      BY <1>0, <2>1, <2>3, <2>6, <3>1 DEF StagesInv
  <2> QED
    BY <1>0, <2>5, <2>6
<1>11. CASE Stop
  BY <1>11 DEF Stop, StagesInv
<1> QED
  BY <1>1, <1>2, <1>3, <1>4, <1>5, <1>6, <1>7, <1>8, <1>9, <1>10, <1>11 DEF Next, Pipeline

-----------------------------------------------------------------------------
(* The database *)

\* Top is the number of blocks.
LEMMA TopIs ==
    ASSUME NEW k \in Nat, NEW D, D = 1..k
    PROVE  (CHOOSE l \in Nat : D = 1..l) = k
<1>1. \A l \in Nat : D = 1..l => l = k
  <2> SUFFICES ASSUME NEW l \in Nat, 1..k = 1..l PROVE l = k
    OBVIOUS
  <2>1. \A i \in Nat : (i \in 1..k) <=> (i \in 1..l)
    OBVIOUS
  <2>2. (k = 0 \/ k \in 1..l) /\ (l = 0 \/ l \in 1..k)
    BY <2>1
  <2> QED
    BY <2>1, <2>2
<1> QED
  BY <1>1

\* A step that leaves the tables alone keeps what is known of them, also when the pass
\* is forgotten.
LEMMA TablesKept ==
    ASSUME ControlType, StagesInv, PrefixInv, TablesInv(Top), PlainInv(Top, Pos),
           UNCHANGED <<bodyVars, stateVars, declaredAt, declarations, compiledHashes>>,
           Pos' \in Nat, Pos' <= Pos
    PROVE  PrefixInv' /\ TablesInv(Top)' /\ PlainInv(Top, Pos)'
<1>1. Top' = Top /\ Top \in Nat /\ Pos \in Nat /\ Pos <= Top /\ Height \in Nat
  <2>1. Top' = Top
    BY DEF Top, bodyVars
  <2> QED
    BY <2>1, SyncAssumption, PosStoring DEF PrefixInv, Numbers
<1>2. PrefixInv'
  BY <1>1 DEF PrefixInv, bodyVars
<1>3. TablesInv(Top)'
  BY <1>1 DEF TablesInv, BodyInv, HistoryInv, ClassInv, bodyVars, stateVars
<1>4. UNCHANGED <<contractStorage, contractInfo>>
  BY DEF stateVars
<1>5. PICK q \in Nat : q = Pos' /\ q <= Pos
  OBVIOUS
<1>6. ASSUME NEW x \in Written("storage")
      PROVE  Latest(Top, q, x, "storage", GetOr(contractStorage, x, 0))
  BY <1>1, <1>5, LatestBack DEF PlainInv
<1>7. ASSUME NEW x \in Written("nonces")
      PROVE  Latest(Top, q, x, "nonces", GetOr(contractInfo, x, NoInfo).nonce)
  BY <1>1, <1>5, LatestBack DEF PlainInv
<1>8. ASSUME NEW x \in Written("deployed")
      PROVE  Latest(Top, q, x, "deployed", GetOr(contractInfo, x, NoInfo).class)
  BY <1>1, <1>5, LatestBack DEF PlainInv
<1> QED
  BY <1>1, <1>2, <1>3, <1>4, <1>5, <1>6, <1>7, <1>8 DEF PlainInv

\* The tables follow the chain in every step.
LEMMA TablesStep ==
    ASSUME ControlType, StagesInv, PrefixInv, TablesInv(Top), PlainInv(Top, Pos), [Next]_vars
    PROVE  PrefixInv' /\ TablesInv(Top)' /\ PlainInv(Top, Pos)'
<1>1. /\ Height \in Nat /\ to \in Nat /\ checkpoint["Blocks"] \in Nat /\ stage \in {1, 2}
      /\ Pos \in Nat /\ checkpoint["Blocks"] <= Pos /\ to <= Height
      /\ Top \in Nat /\ Pos <= Top /\ DOMAIN blocks = 1..Top /\ Top \in Numbers
  BY SyncAssumption, PosStoring DEF ControlType, Numbers, PrefixInv
<1>2. CASE StoreBlock
  <2>1. /\ UNCHANGED <<checkpoint, to, stage, pc>> /\ pc = "store" /\ toStore # <<>>
        /\ toStore' = Tail(toStore) /\ InsertBlock(Head(toStore))
    BY <1>2 DEF StoreBlock
  <2>2. Storing /\ Storing'
    BY <1>1, <2>1 DEF StagesInv, Storing
  <2>3. Pos <= to /\ toStore = Segment(Pos, to)
    BY <2>2, PosStoring
  <2>4. /\ Pos < to /\ toStore' = Segment(Pos + 1, to) /\ Head(toStore) = Chain[Pos + 1]
        /\ Len(toStore') = to - (Pos + 1)
    <3>1. PICK p \in Nat, n \in Nat : p = Pos /\ n = to
      BY <1>1
    <3>2. p <= n /\ Segment(p, n) # <<>> /\ toStore' = Tail(Segment(p, n)) /\ toStore = Segment(p, n)
      BY <2>1, <2>3, <3>1
    <3>3. p < n /\ toStore' = Segment(p + 1, n) /\ Head(toStore) = Chain[p + 1]
      <4>1. p < n
        BY ONLY <3>2, SegmentFacts, p \in Nat, n \in Nat
      <4>2. Head(Segment(p, n)) = Chain[p + 1] /\ Tail(Segment(p, n)) = Segment(p + 1, n)
        BY ONLY <3>2, <4>1, SegmentFacts, p \in Nat, n \in Nat
      <4> QED
        BY <3>2, <4>1, <4>2
    <3>4. p + 1 \in Nat /\ p + 1 <= n
      BY <3>3
    <3>5. Len(Segment(p + 1, n)) = n - (p + 1)
      BY ONLY <3>4, SegmentFacts, n \in Nat
    <3> QED
      BY <3>1, <3>3, <3>5
  <2>5. Pos' = Pos + 1
    <3>1. Pos' = to - Len(toStore')
      BY <2>1, <2>2 DEF Pos
    <3> QED
      BY <1>1, <2>4, <3>1
  <2> DEFINE k == Top
             p == Pos
             m == Larger(k, p + 1)
  <2>6. Inserts(k, p, m) /\ DOMAIN blocks = 1..k /\ TablesInv(k) /\ PlainInv(k, p) /\ InsertBlock(Chain[p + 1])
    BY <1>1, <2>1, <2>4 DEF Inserts, Numbers
  <2>7. PICK k0, p0, m0 : k0 = k /\ p0 = p /\ m0 = m
    OBVIOUS
  <2> HIDE DEF k, p, m
  <2>8. /\ Inserts(k0, p0, m0) /\ DOMAIN blocks = 1..k0 /\ TablesInv(k0) /\ PlainInv(k0, p0)
        /\ InsertBlock(Chain[p0 + 1])
    BY <2>6, <2>7
  <2>9. DOMAIN blocks' = 1..m0 /\ TablesInv(m0)' /\ PlainInv(m0, p0 + 1)'
    BY <2>8, InsertStep
  <2>10. m0 \in Numbers /\ m0 \in Nat /\ p0 + 1 <= m0
    BY <2>8, InsertNumbers
  <2>11. Top' = m0
    BY <2>9, <2>10, TopIs DEF Top
  <2>12. Pos' = p0 + 1
    BY <2>5, <2>7 DEF p
  <2>13. PrefixInv'
    BY <2>9, <2>10, <2>11, <2>12 DEF PrefixInv
  <2>14. TablesInv(Top)'
    BY <2>9, <2>11 DEF TablesInv, BodyInv, HistoryInv, ClassInv
  <2>15. PlainInv(Top, Pos)'
    BY <2>9, <2>11, <2>12 DEF PlainInv
  <2> QED
    BY <2>13, <2>14, <2>15
<1>3. CASE ~StoreBlock
  <2>1. UNCHANGED <<bodyVars, stateVars, declaredAt, declarations, compiledHashes>>
    BY <1>3 DEF Next, vars, dbVars, classVars, Grow, SetTip, Pipeline, BorrowTip, StartChunk, AwaitTip,
                Skip, ExecuteBlocks, ExecuteClasses, StoreClass, SetClass, SetCheckpoint, Stop, Start
  <2>2. Pos' \in Nat /\ Pos' <= Pos
    <3>1. CASE ExecuteBlocks
      <4>1. /\ UNCHANGED <<checkpoint, to, stage>> /\ pc = "stage" /\ pc' = "store" /\ stage = 1
            /\ ~(checkpoint[Id] >= to) /\ toStore' = Extracted(checkpoint[Id] + 1, to)
        BY <1>1, <3>1, IdCases DEF ExecuteBlocks, MustSkip, From
      <4>2. Id = "Blocks"
        BY <4>1, IdCases
      <4>3. toStore' = Segment(checkpoint["Blocks"], to) /\ checkpoint["Blocks"] <= to
        <5>1. PICK p \in Nat, n \in Nat : p = checkpoint["Blocks"] /\ n = to
          BY <1>1
        <5>2. p <= n /\ toStore' = Extracted(p + 1, n)
          BY <4>1, <4>2, <5>1
        <5>3. Extracted(p + 1, n) = Segment(p, n)
          BY ONLY <5>2, ExtractedSegment, p \in Nat, n \in Nat
        <5> QED
          BY <5>1, <5>2, <5>3
      <4>4. Len(toStore') = to - checkpoint["Blocks"]
        BY <1>1, <4>3, SegmentFacts
      <4>5. Pos' = checkpoint["Blocks"]
        BY <1>1, <4>1, <4>4 DEF Pos, Storing
      <4> QED
        BY <1>1, <4>5
    <3>2. CASE SetCheckpoint
      <4>1. /\ UNCHANGED to /\ pc = "store" /\ toStore = <<>>
            /\ checkpoint' = [checkpoint EXCEPT ![Id] = to]
            /\ NextStage(to) /\ UNCHANGED tip /\ to \in Numbers
        BY <3>2 DEF SetCheckpoint, ControlType
      <4>2. pc' # "store"
        BY <4>1, NextStageCases
      <4>3. Pos' = checkpoint'["Blocks"]
        BY <4>2 DEF Pos, Storing
      <4>4. CASE stage = 1
        <5>1. checkpoint'["Blocks"] = to
          BY <4>1, <4>4, IdCases DEF ControlType
        <5>2. Pos = to
          <6>1. Len(toStore) = 0
            BY <4>1
          <6> QED
            BY <1>1, <4>1, <4>4, <6>1 DEF Pos, Storing
        <5> QED
          BY <1>1, <4>3, <5>1, <5>2
      <4>5. CASE stage = 2
        <5>1. checkpoint'["Blocks"] = checkpoint["Blocks"]
          BY <4>1, <4>5, IdCases DEF ControlType
        <5> QED
          BY <1>1, <4>3, <5>1
      <4> QED
        BY <1>1, <4>4, <4>5
    <3>3. CASE Grow \/ SetTip \/ UNCHANGED vars
      <4>1. UNCHANGED <<checkpoint, to, stage, toStore, pc>>
        BY <3>3 DEF Grow, SetTip, vars, pipelineVars
      <4> QED
        BY <1>1, <4>1 DEF Pos, Storing
    <3>4. CASE BorrowTip \/ StartChunk \/ AwaitTip \/ Stop \/ Start \/ ExecuteClasses
      <4>1. UNCHANGED checkpoint /\ ~Storing'
        BY <1>1, <3>4, IdCases
           DEF BorrowTip, StartChunk, AwaitTip, Stop, Start, ExecuteClasses, Storing
      <4> QED
        BY <1>1, <4>1 DEF Pos
    <3>5. CASE Skip
      <4>1. UNCHANGED checkpoint /\ NextStage(checkpoint[Id]) /\ UNCHANGED tip /\ checkpoint[Id] \in Numbers
        BY <3>5, IdCases DEF Skip, ControlType
      <4>2. ~Storing'
        BY <4>1, NextStageCases DEF Storing
      <4> QED
        BY <1>1, <4>1, <4>2 DEF Pos
    <3>6. CASE StoreClass
      <4>1. UNCHANGED <<checkpoint, to, stage, toStore, pc>>
        BY <3>6 DEF StoreClass
      <4> QED
        BY <1>1, <4>1 DEF Pos, Storing
    <3> QED
      BY <1>3, <3>1, <3>2, <3>3, <3>4, <3>5, <3>6 DEF Next, Pipeline
  <2> QED
    BY <2>1, <2>2, TablesKept
<1> QED
  BY <1>2, <1>3

\* The classes of a block in the database, by what the tables say of it.
LEMMA ClassesOf ==
    ASSUME NEW k \in Numbers, ClassInv(k), NEW n \in 1..k
    PROVE  /\ DeclaredClasses(n) = Chain[n].declared
           /\ StateUpdate(n).deprecated = Chain[n].deprecated
<1>1. Height \in Nat /\ k \in Nat /\ n \in Numbers /\ \A l \in 1..k : l \in Numbers
  BY SyncAssumption DEF Numbers
<1> DEFINE found == {d[2] : d \in {e \in declarations : e[1] = n}}
<1>2. found = Declares(n)
  <2>1. declarations = UNION {{l} \X Declares(l) : l \in 1..k}
    BY DEF ClassInv
  <2>2. \A h \in Declares(n) : <<n, h>> \in declarations
    BY <2>1
  <2>3. \A e \in declarations : e[1] = n => e[2] \in Declares(n)
    BY <2>1
  <2>4. found \subseteq Declares(n)
    BY <2>3
  <2>5. ASSUME NEW h \in Declares(n) PROVE h \in found
    <3>1. PICK d \in declarations : d[1] = n /\ d[2] = h
      BY <2>2
    <3> QED
      BY <3>1
  <2> QED
    BY <2>4, <2>5
<1>3. Chain[n].declared \subseteq compiledHashes
  BY DEF ClassInv, DeclaredUpTo
<1>4. Chain[n].deprecated \cap compiledHashes = {}
  <2> SUFFICES ASSUME NEW h \in Chain[n].deprecated, NEW l \in 1..k, h \in Chain[l].declared
               PROVE  FALSE
    BY DEF ClassInv, DeclaredUpTo
  <2>1. l = n
    BY <1>1, ChainAssumption
  <2> QED
    BY <1>1, <2>1, ChainAssumption
<1>5. StateUpdate(n).declared = found \cap compiledHashes /\ StateUpdate(n).deprecated = found \ compiledHashes
  BY DEF StateUpdate
<1> HIDE DEF found
<1> QED
  BY <1>1, <1>2, <1>3, <1>4, <1>5, ChainAssumption DEF DeclaredClasses, Declares

\* The artifacts a checkpoint promises are stored before it is.
LEMMA ArtifactsStep ==
    ASSUME ControlType, StagesInv, PrefixInv, ClassInv(Top), ArtifactsInv, [Next]_vars
    PROVE  ArtifactsInv'
<1>1. /\ Height \in Nat /\ to \in Nat /\ checkpoint["Blocks"] \in Nat /\ checkpoint["Classes"] \in Nat
      /\ stage \in {1, 2} /\ Top \in Nat /\ checkpoint["Blocks"] <= Top /\ Top \in Numbers
  <2>1. /\ Height \in Nat /\ to \in Nat /\ checkpoint["Blocks"] \in Nat /\ checkpoint["Classes"] \in Nat
        /\ stage \in {1, 2} /\ Top \in Nat /\ Pos <= Top /\ Top \in Numbers
    BY SyncAssumption DEF ControlType, PrefixInv, Numbers
  <2>2. checkpoint["Blocks"] <= Pos /\ Pos \in Nat
    BY PosStoring
  <2> QED
    BY <2>1, <2>2
<1>2. CASE UNCHANGED <<checkpoint, stage, pc, to, toSet, artifacts>>
  BY <1>2 DEF ArtifactsInv
<1>3. CASE UNCHANGED <<checkpoint, artifacts>> /\ pc' # "store"
  BY <1>3 DEF ArtifactsInv
<1>4. CASE ExecuteBlocks
  BY <1>1, <1>4, IdCases DEF ExecuteBlocks, dbVars, classVars, ArtifactsInv
<1>5. CASE StoreBlock
  <2>1. UNCHANGED <<checkpoint, stage, pc, to, toSet>> /\ artifacts \subseteq artifacts'
    BY <1>5 DEF StoreBlock, InsertBlock, InsertClasses
  <2> QED
    BY <2>1 DEF ArtifactsInv
<1>6. CASE ExecuteClasses
  <2>1. /\ UNCHANGED <<checkpoint, to, stage, artifacts>> /\ pc = "stage" /\ pc' = "store" /\ stage = 2
        /\ toSet' = UNION {DeclaredClasses(n) : n \in (checkpoint["Classes"] + 1)..to}
    BY <1>1, <1>6, IdCases DEF ExecuteClasses, From, dbVars, classVars
  <2>2. to <= Top
    BY <1>1, <2>1 DEF StagesInv
  <2>3. ASSUME NEW n \in 1..to PROVE Chain[n].declared \subseteq artifacts' \cup toSet'
    <3>1. CASE n <= checkpoint["Classes"]
      BY <1>1, <2>1, <3>1 DEF ArtifactsInv
    <3>2. CASE n > checkpoint["Classes"]
      <4>1. n \in (checkpoint["Classes"] + 1)..to /\ n \in 1..Top
        BY <1>1, <2>2, <3>2
      <4>2. DeclaredClasses(n) = Chain[n].declared
        BY <1>1, <4>1, ClassesOf
      <4> QED
        BY <2>1, <4>1, <4>2
    <3> QED
      BY <1>1, <3>1, <3>2
  <2> QED
    BY <2>1, <2>3 DEF ArtifactsInv
<1>7. CASE StoreClass
  <2>1. /\ UNCHANGED <<checkpoint, stage, pc, to>> /\ artifacts \subseteq artifacts'
        /\ artifacts \cup toSet \subseteq artifacts' \cup toSet'
    BY <1>7 DEF StoreClass, SetClass
  <2> QED
    BY <2>1 DEF ArtifactsInv
<1>8. CASE SetCheckpoint
  <2>1. /\ UNCHANGED <<to, artifacts>> /\ pc = "store" /\ toSet = {}
        /\ checkpoint' = [checkpoint EXCEPT ![Id] = to]
        /\ NextStage(to) /\ UNCHANGED tip /\ to \in Numbers
    BY <1>8 DEF SetCheckpoint, dbVars, classVars, ControlType
  <2>2. pc' # "store"
    BY <2>1, NextStageCases
  <2>3. CASE stage = 1
    <3>1. checkpoint'["Classes"] = checkpoint["Classes"]
      BY <2>1, <2>3, IdCases DEF ControlType
    <3> QED
      BY <2>1, <2>2, <3>1 DEF ArtifactsInv
  <2>4. CASE stage = 2
    <3>1. checkpoint'["Classes"] = to
      BY <2>1, <2>4, IdCases DEF ControlType
    <3> QED
      BY <2>1, <2>2, <2>4, <3>1 DEF ArtifactsInv
  <2> QED
    BY <1>1, <2>3, <2>4
<1>9. CASE Skip
  <2>1. UNCHANGED <<checkpoint, artifacts>> /\ NextStage(checkpoint[Id]) /\ UNCHANGED tip
        /\ checkpoint[Id] \in Numbers
    BY <1>9, IdCases DEF Skip, dbVars, classVars, ControlType
  <2>2. pc' # "store"
    BY <2>1, NextStageCases
  <2> QED
    BY <1>3, <2>1, <2>2
<1>10. CASE Grow \/ SetTip \/ UNCHANGED vars
  BY <1>2, <1>10 DEF Grow, SetTip, vars, pipelineVars, dbVars, classVars
<1>11. CASE BorrowTip \/ StartChunk \/ AwaitTip \/ Stop \/ Start
  BY <1>3, <1>11 DEF BorrowTip, StartChunk, AwaitTip, Stop, Start, dbVars, classVars
<1> QED
  BY <1>4, <1>5, <1>6, <1>7, <1>8, <1>9, <1>10, <1>11 DEF Next, Pipeline

-----------------------------------------------------------------------------
(* The theorems *)

\* A fresh database is that of a chain without blocks.
LEMMA SyncInit == Init => SyncInv
<1> SUFFICES ASSUME Init PROVE SyncInv
  OBVIOUS
<1>0. Height \in Nat /\ ChunkSize \in Nat /\ MaxStops \in Nat /\ 0 \in Numbers
  BY SyncAssumption DEF Numbers
<1>1. ControlType
  BY <1>0 DEF Init, ControlType
<1>2. StagesInv
  BY <1>0 DEF Init, StagesInv, Storing
<1>3. DOMAIN blocks = 1..0
  BY DEF Init, DbInit, Empty
<1>4. Top = 0
  BY <1>3, TopIs DEF Top
<1>5. Pos = 0
  BY DEF Init, Pos, Storing
<1>6. PrefixInv
  BY <1>0, <1>3, <1>4, <1>5 DEF PrefixInv
<1>7. 1..0 = {} /\ \A x, field : Writers(0, x, field) = {}
  BY DEF Writers
<1>8. BodyInv(0)
  BY <1>7 DEF Init, DbInit, BodyInv
<1>9. HistoryInv(0)
  BY <1>7 DEF Init, DbInit, HistoryInv, ListsInv, GetOr, Empty
<1>10. ClassInv(0)
  BY <1>7 DEF Init, DbInit, ClassInv, DeclaredUpTo, Empty
<1>11. ArtifactsInv
  BY <1>7 DEF Init, ArtifactsInv
<1>12. PlainInv(0, 0)
  BY <1>7 DEF Init, DbInit, PlainInv, Latest, Expected, GetOr, Empty, NoInfo
<1> QED
  BY <1>1, <1>2, <1>4, <1>5, <1>6, <1>8, <1>9, <1>10, <1>11, <1>12 DEF SyncInv, TablesInv

\* The tables, the checkpoints and the pass of the pipeline stay those of the chain of
\* the gateway, whenever the node stops and wherever it starts again.
THEOREM DatabaseFollowsChain == Spec => []SyncInv
<1>1. SyncInv /\ [Next]_vars => SyncInv'
  BY ControlStep, StagesStep, TablesStep, ArtifactsStep DEF SyncInv, TablesInv
<1> QED
  BY <1>1, SyncInit, PTL DEF Spec

\* The latest block is the last one.
LEMMA LatestIsTop ==
    ASSUME PrefixInv, DOMAIN blocks # {}
    PROVE  LatestNumber = Top /\ Top \in Nat \ {0} /\ Top \in Numbers
<1>1. Height \in Nat /\ Top \in Nat /\ DOMAIN blocks = 1..Top /\ Top \in Numbers
  BY SyncAssumption DEF PrefixInv, Numbers
<1>2. PICK k \in Nat : k = Top
  BY <1>1
<1>3. k # 0 /\ k \in 1..k
  BY <1>1, <1>2
<1>4. (CHOOSE n \in 1..k : \A m \in 1..k : m <= n) = k
  <2>1. \A n \in 1..k : (\A m \in 1..k : m <= n) => n = k
    BY <1>3
  <2> QED
    BY <1>3, <2>1
<1> QED
  BY <1>1, <1>2, <1>3, <1>4 DEF LatestNumber

\* What the chain declares in a block is declared nowhere else.
LEMMA DeclaredOnce ==
    ASSUME NEW m \in Numbers, NEW n \in Numbers, NEW h, h \in Declares(m), h \in Declares(n)
    PROVE  m = n
BY ChainAssumption DEF Declares

\* The checkpoints are kept.
LEMMA InvHonest == SyncInv => CheckpointsHonest
<1> SUFFICES ASSUME SyncInv PROVE CheckpointsHonest
  OBVIOUS
<1>1. /\ Height \in Nat /\ to \in Nat /\ to \in Numbers
      /\ checkpoint["Blocks"] \in Nat /\ checkpoint["Classes"] \in Nat
      /\ checkpoint["Classes"] <= checkpoint["Blocks"]
      /\ Top \in Nat /\ Top \in Numbers /\ DOMAIN blocks = 1..Top /\ Pos <= Top
      /\ \A n \in Nat : n <= Height => n \in Numbers
  BY SyncAssumption DEF SyncInv, ControlType, StagesInv, PrefixInv, Numbers
<1>2. /\ Pos \in Nat /\ checkpoint["Blocks"] <= Pos
      /\ Storing => Pos <= to /\ toStore = Segment(Pos, to)
  BY PosStoring DEF SyncInv
<1>3. TypeInv
  <2>1. DOMAIN Stages = {1, 2}
    BY DEF Stages
  <2>2. ASSUME NEW i \in DOMAIN toStore PROVE toStore[i].number \in Numbers
    <3>1. CASE Storing
      <4>1. i \in 1..(to - Pos) /\ toStore[i] = Chain[Pos + i]
        BY <1>2, <3>1 DEF Segment
      <4>2. Pos + i \in Numbers
        BY <1>1, <1>2, <4>1 DEF Numbers
      <4> QED
        BY <4>1, <4>2, SyncAssumption
    <3>2. CASE ~Storing
      BY <3>2 DEF SyncInv, StagesInv
    <3> QED
      BY <3>1, <3>2
  <2>3. DOMAIN blocks \subseteq Numbers
    BY <1>1 DEF Numbers
  <2> QED
    BY <2>1, <2>2, <2>3 DEF SyncInv, ControlType, TypeInv
<1>4. 1..checkpoint["Blocks"] \subseteq DOMAIN blocks
  BY <1>1, <1>2
<1>5. ASSUME NEW n \in 1..checkpoint["Classes"], NEW h \in DeclaredUpTo(Height)
      PROVE  /\ h \in DeclaredUpTo(n) => ClassAt(n, h) = {h}
             /\ h \notin DeclaredUpTo(n) /\ n < LatestNumber => ClassAt(n, h) = {}
  <2>1. n \in Nat /\ n \in 1..Top /\ n \in Numbers
    BY <1>1, <1>2, <1>5 DEF Numbers
  <2>2. ClassInv(Top)
    BY DEF SyncInv, TablesInv
  <2>3. ASSUME h \in DeclaredUpTo(n) PROVE ClassAt(n, h) = {h}
    <3>1. PICK m \in 1..n : h \in Chain[m].declared
      BY <2>3 DEF DeclaredUpTo
    <3>2. h \in artifacts
      BY <1>1, <2>1, <3>1 DEF SyncInv, ArtifactsInv
    <3>3. m \in 1..Top /\ m <= n
      BY <1>1, <2>1
    <3>4. h \in DOMAIN declaredAt /\ declaredAt[h] <= n
      BY <2>2, <3>1, <3>3 DEF ClassInv, Declares
    <3> QED
      BY <3>2, <3>4 DEF ClassAt
  <2>4. ASSUME h \notin DeclaredUpTo(n), n < LatestNumber PROVE ClassAt(n, h) = {}
    <3>1. PICK m \in 1..Height : h \in Chain[m].declared
      BY DEF DeclaredUpTo
    <3>2. LatestNumber = Top
      BY <1>1, <2>1, LatestIsTop DEF SyncInv
    <3>3. n # LatestNumber
      BY <1>1, <2>1, <2>4, <3>2
    <3>4. ASSUME h \in DOMAIN declaredAt, declaredAt[h] <= n PROVE FALSE
      <4>1. PICK l \in 1..Top : h \in Declares(l)
        BY <2>2, <3>4 DEF ClassInv
      <4>2. declaredAt[h] = l
        BY <2>2, <4>1 DEF ClassInv
      <4>3. l = m
        <5>1. l \in Numbers /\ m \in Numbers
          BY <1>1 DEF Numbers
        <5> QED
          BY <3>1, <4>1, <5>1, DeclaredOnce DEF Declares
      <4>4. m \in 1..n
        BY <2>1, <3>4, <4>2, <4>3
      <4> QED
        BY <2>4, <3>1, <4>4 DEF DeclaredUpTo
    <3> QED
      BY <3>3, <3>4 DEF ClassAt
  <2> QED
    BY <2>3, <2>4
<1> QED
  BY <1>1, <1>3, <1>4, <1>5 DEF CheckpointsHonest

\* What a checkpoint promises is in the database whenever the node stops: a checkpoint
\* is written after the last of the blocks or classes it stands for, and the one of
\* Classes never overtakes the one of Blocks.
THEOREM CheckpointsPromiseStored == Spec => []CheckpointsHonest
BY DatabaseFollowsChain, InvHonest, PTL

\* The bodies are those of the chain.
LEMMA InvBodies == SyncInv => BodiesExact
<1> SUFFICES ASSUME SyncInv, NEW n \in DOMAIN blocks
             PROVE  /\ TransactionsByBlock(n) = Chain[n].txs
                    /\ ReceiptsByBlock(n) = Chain[n].receipts
                    /\ \A i \in DOMAIN Chain[n].txs :
                           /\ BlockOfTransaction(Chain[n].txs[i]) = {n}
                           /\ ReceiptByHash(Chain[n].txs[i]) = {Chain[n].receipts[i]}
                    /\ StateUpdate(n) =
                           [storage |-> ExpectedRows(n, "storage"), nonces |-> ExpectedRows(n, "nonces"),
                            deployed |-> ExpectedRows(n, "deployed"),
                            declared |-> Chain[n].declared, deprecated |-> Chain[n].deprecated]
  BY DEF BodiesExact
<1>1. Height \in Nat /\ Top \in Nat /\ Top \in Numbers /\ n \in 1..Top /\ n \in Numbers
  BY SyncAssumption DEF SyncInv, PrefixInv, Numbers
<1>2. PICK k \in Numbers : k = Top /\ BodyInv(k) /\ HistoryInv(k) /\ ClassInv(k) /\ n \in 1..k
  BY <1>1 DEF SyncInv, TablesInv
<1> DEFINE c == Len(Chain[n].txs)
<1>3. /\ blocks[n].count = c /\ blocks[n].offset \in Nat /\ blocks[n].offset + c <= Len(txs)
      /\ \A i \in 1..c : txs[blocks[n].offset + i] = Row(n, i)
      /\ \A i \in 1..c : /\ Chain[n].txs[i] \in DOMAIN txNumbers
                         /\ txs[txNumbers[Chain[n].txs[i]] + 1] = Row(n, i)
      /\ txs \in Seq(Rows)
  BY <1>2 DEF BodyInv
<1>4. /\ DOMAIN Chain[n].txs = 1..c /\ DOMAIN Chain[n].receipts = 1..c /\ c \in Nat
      /\ Chain[n].txs \in Seq(Nat) /\ Chain[n].receipts \in Seq(Nat)
  BY <1>1, BlockTxs
<1> HIDE DEF c
<1>5. \A i \in 1..c : BodyRows(n)[i] = Row(n, i)
  <2>1. BodyRows(n) = SubSeq(txs, blocks[n].offset + 1, blocks[n].offset + c)
    BY <1>3 DEF BodyRows
  <2>2. PICK o \in Nat : o = blocks[n].offset
    BY <1>3
  <2>3. ASSUME NEW i \in 1..c PROVE SubSeq(txs, o + 1, o + c)[i] = txs[o + i]
    <3>1. \A j \in (o + 1)..(o + c) : txs[j] \in Rows
      <4> SUFFICES ASSUME NEW j \in (o + 1)..(o + c) PROVE txs[j] \in Rows
        OBVIOUS
      <4>1. j \in 1..Len(txs)
        BY <1>3, <1>4, <2>2
      <4> QED
        BY <1>3, <4>1, ElementOfSeq
    <3>2. \A j \in 1..((o + c) - (o + 1) + 1) : SubSeq(txs, o + 1, o + c)[j] = txs[(o + 1) + j - 1]
      BY <1>4, <3>1, SubSeqProperties
    <3>3. (o + c) - (o + 1) + 1 = c /\ (o + 1) + i - 1 = o + i
      BY <1>4
    <3> QED
      BY <3>2, <3>3
  <2> QED
    BY <1>3, <2>1, <2>2, <2>3
<1>6. TransactionsByBlock(n) = Chain[n].txs
  <2>1. TransactionsByBlock(n) = [i \in 1..c |-> Chain[n].txs[i]]
    <3>1. ASSUME NEW i \in 1..c PROVE BodyRows(n)[i].hash = Chain[n].txs[i]
      <4>1. BodyRows(n)[i] = Row(n, i)
        BY <1>5
      <4>2. Row(n, i).hash = Chain[n].txs[i]
        BY DEF Row
      <4> QED
        BY ONLY <4>1, <4>2
    <3>2. TransactionsByBlock(n) = [i \in 1..c |-> BodyRows(n)[i].hash]
      BY <1>3 DEF TransactionsByBlock
    <3> QED
      BY ONLY <3>1, <3>2
  <2> QED
    BY <1>4, <2>1
<1>7. ReceiptsByBlock(n) = Chain[n].receipts
  <2>1. ReceiptsByBlock(n) = [i \in 1..c |-> Chain[n].receipts[i]]
    <3>1. ASSUME NEW i \in 1..c PROVE BodyRows(n)[i].receipt = Chain[n].receipts[i]
      <4>1. BodyRows(n)[i] = Row(n, i)
        BY <1>5
      <4>2. Row(n, i).receipt = Chain[n].receipts[i]
        BY DEF Row
      <4> QED
        BY ONLY <4>1, <4>2
    <3>2. ReceiptsByBlock(n) = [i \in 1..c |-> BodyRows(n)[i].receipt]
      BY <1>3 DEF ReceiptsByBlock
    <3> QED
      BY ONLY <3>1, <3>2
  <2> QED
    BY <1>4, <2>1
<1>8. ASSUME NEW i \in DOMAIN Chain[n].txs
      PROVE  /\ BlockOfTransaction(Chain[n].txs[i]) = {n}
             /\ ReceiptByHash(Chain[n].txs[i]) = {Chain[n].receipts[i]}
  <2>1. PICK h : h = Chain[n].txs[i] /\ h \in DOMAIN txNumbers /\ txs[txNumbers[h] + 1] = Row(n, i)
    BY <1>3, <1>4
  <2>2. txs[txNumbers[h] + 1].block = n /\ txs[txNumbers[h] + 1].receipt = Chain[n].receipts[i]
    BY <2>1 DEF Row
  <2>3. {h} \cap DOMAIN txNumbers = {h}
    BY <2>1
  <2> QED
    BY <2>1, <2>2, <2>3 DEF BlockOfTransaction, ReceiptByHash
<1>9. \A field : \A m \in 1..k : \A e \in ExpectedRows(m, field) : e.block = m
  BY DEF ExpectedRows, Entries
<1>10. ASSUME NEW field, NEW history, history = UNION {ExpectedRows(m, field) : m \in 1..k}
       PROVE  {e \in history : e.block = n} = ExpectedRows(n, field)
  BY <1>2, <1>9, <1>10
<1>11. /\ {e \in storageHistory : e.block = n} = ExpectedRows(n, "storage")
       /\ {e \in nonceHistory : e.block = n} = ExpectedRows(n, "nonces")
       /\ {e \in classHistory : e.block = n} = ExpectedRows(n, "deployed")
  BY <1>2, <1>10 DEF HistoryInv, ListsInv
<1>12. StateUpdate(n).declared = Chain[n].declared /\ StateUpdate(n).deprecated = Chain[n].deprecated
  BY <1>2, ClassesOf DEF DeclaredClasses
<1>13. StateUpdate(n) =
           [storage |-> ExpectedRows(n, "storage"), nonces |-> ExpectedRows(n, "nonces"),
            deployed |-> ExpectedRows(n, "deployed"),
            declared |-> Chain[n].declared, deprecated |-> Chain[n].deprecated]
  BY <1>11, <1>12 DEF StateUpdate
<1> QED
  BY <1>6, <1>7, <1>8, <1>13

\* The body, the receipts, the state update and the lookups by hash of every block in
\* the database are those of the chain, although a block inserted again after a stop
\* leaves its old rows behind and gets new transaction numbers.
THEOREM BodiesStayExact == Spec => []BodiesExact
BY DatabaseFollowsChain, InvBodies, PTL

\* A value read from the histories is the one the last writer wrote.
LEMMA HistoryReads ==
    ASSUME NEW k \in Numbers, NEW n \in 1..k, NEW field \in {"storage", "nonces", "deployed"},
           NEW x \in Written(field), NEW lists, NEW history, ListsInv(lists, history, field, k)
    PROVE  OrZero(HistoricalValue(n, x, lists, history)) = Expected(n, x, field)
<1>1. Height \in Nat /\ k \in Nat /\ n \in Nat /\ k <= Height /\ \A m \in 1..k : m \in Numbers
  BY SyncAssumption DEF Numbers
<1>2. GetOr(lists, x, {}) = Writers(k, x, field) /\ history = UNION {ExpectedRows(m, field) : m \in 1..k}
  BY DEF ListsInv
<1> DEFINE recent == RecentChange(n, GetOr(lists, x, {}))
           found == {e \in history : e.of = x /\ e.block \in recent}
<1>3. recent = {m \in Writers(n, x, field) : \A l \in Writers(n, x, field) : l <= m}
  BY <1>1, <1>2 DEF RecentChange, Writers
<1>4. HistoricalValue(n, x, lists, history) = {e.value : e \in {f \in found : \A g \in found : f.value <= g.value}}
  BY DEF HistoricalValue
<1>5. CASE Writers(n, x, field) = {}
  <2>1. found = {}
    BY <1>3, <1>5
  <2>2. HistoricalValue(n, x, lists, history) = {}
    BY <1>4, <2>1
  <2> QED
    BY <1>5, <2>2 DEF OrZero, Expected
<1>6. CASE Writers(n, x, field) # {}
  <2>1. PICK m \in Writers(n, x, field) :
               /\ \A l \in Writers(n, x, field) : l <= m
               /\ Expected(n, x, field) = Chain[m][field][x]
    BY <1>1, <1>6, LastWriter
  <2>2. m \in 1..n /\ m \in 1..k /\ m \in Numbers /\ x \in DOMAIN Chain[m][field]
        /\ \A l \in Writers(n, x, field) : l \in 1..n
    BY <1>1 DEF Writers
  <2>3. recent = {m}
    BY <1>3, <2>1, <2>2
  <2>4. Chain[m][field][x] \in Nat
    BY <2>2, ChainAssumption
  <2> DEFINE e0 == [block |-> m, of |-> x, value |-> Chain[m][field][x]]
  <2>5. e0 \in history
    BY <1>2, <2>2 DEF ExpectedRows, Entries
  <2>6. \A e \in history : e.of = x /\ e.block = m => e = e0
    <3> SUFFICES ASSUME NEW l \in 1..k, NEW e \in ExpectedRows(l, field), e.of = x, e.block = m
                 PROVE  e = e0
      BY <1>2
    <3>1. PICK y \in DOMAIN Chain[l][field] : e = [block |-> l, of |-> y, value |-> Chain[l][field][y]]
      BY DEF ExpectedRows, Entries
    <3>2. l = m /\ y = x
      BY <3>1
    <3> QED
      BY <3>1, <3>2
  <2>7. found = {e0}
    BY <2>3, <2>5, <2>6
  <2>8. e0.value = Chain[m][field][x]
    OBVIOUS
  <2> HIDE DEF e0, found
  <2>9. HistoricalValue(n, x, lists, history) = {Chain[m][field][x]}
    BY <1>4, <2>4, <2>7, <2>8
  <2> QED
    BY <2>1, <2>9 DEF OrZero
<1> QED
  BY <1>5, <1>6

\* The state at a block is the one of the chain.
LEMMA InvState == SyncInv => StateExact
<1> SUFFICES ASSUME SyncInv, NEW n \in DOMAIN blocks, n < LatestNumber \/ n <= checkpoint["Blocks"]
             PROVE  /\ \A x \in Written("storage") : OrZero(StorageAt(n, x)) = Expected(n, x, "storage")
                    /\ \A c \in Written("nonces") : OrZero(NonceAt(n, c)) = Expected(n, c, "nonces")
                    /\ \A c \in Written("deployed") : OrZero(ClassHashAt(n, c)) = Expected(n, c, "deployed")
  BY DEF StateExact
<1>1. /\ Height \in Nat /\ Top \in Nat /\ Top \in Numbers /\ n \in 1..Top
      /\ checkpoint["Blocks"] \in Nat /\ Pos <= Top
  BY SyncAssumption DEF SyncInv, PrefixInv, ControlType, Numbers
<1>2. LatestNumber = Top
  BY LatestIsTop DEF SyncInv
<1>3. checkpoint["Blocks"] <= Pos /\ Pos \in Nat
  BY PosStoring DEF SyncInv
<1>4. PICK k \in Numbers : k = Top /\ HistoryInv(k) /\ n \in 1..k
  BY <1>1 DEF SyncInv, TablesInv
<1>5. CASE n # Top
  <2>1. n # LatestNumber
    BY <1>2, <1>5
  <2>2. ASSUME NEW x \in Written("storage") PROVE OrZero(StorageAt(n, x)) = Expected(n, x, "storage")
    <3>1. OrZero(HistoricalValue(n, x, storageSet, storageHistory)) = Expected(n, x, "storage")
      BY <1>4, HistoryReads DEF HistoryInv
    <3> QED
      BY <2>1, <3>1 DEF StorageAt
  <2>3. ASSUME NEW c \in Written("nonces") PROVE OrZero(NonceAt(n, c)) = Expected(n, c, "nonces")
    <3>1. OrZero(HistoricalValue(n, c, nonceSet, nonceHistory)) = Expected(n, c, "nonces")
      BY <1>4, HistoryReads DEF HistoryInv
    <3> QED
      BY <2>1, <3>1 DEF NonceAt
  <2>4. ASSUME NEW c \in Written("deployed") PROVE OrZero(ClassHashAt(n, c)) = Expected(n, c, "deployed")
    <3>1. OrZero(HistoricalValue(n, c, classSet, classHistory)) = Expected(n, c, "deployed")
      BY <1>4, HistoryReads DEF HistoryInv
    <3> QED
      BY <2>1, <3>1 DEF ClassHashAt
  <2> QED
    BY <2>2, <2>3, <2>4
<1>6. CASE n = Top
  <2>1. n = LatestNumber /\ Pos = n
    BY <1>1, <1>2, <1>3, <1>6
  <2>2. PlainInv(n, n)
    BY <1>6, <2>1 DEF SyncInv
  <2>3. ASSUME NEW x \in Written("storage") PROVE OrZero(StorageAt(n, x)) = Expected(n, x, "storage")
    <3>1. GetOr(contractStorage, x, 0) = Expected(n, x, "storage")
      BY <2>2 DEF PlainInv, Latest
    <3>2. OrZero(LatestValue(contractStorage, x)) = GetOr(contractStorage, x, 0)
      BY DEF OrZero, LatestValue, GetOr
    <3> QED
      BY <2>1, <3>1, <3>2 DEF StorageAt
  <2>4. ASSUME NEW c \in Written("nonces") PROVE OrZero(NonceAt(n, c)) = Expected(n, c, "nonces")
    <3>1. GetOr(contractInfo, c, NoInfo).nonce = Expected(n, c, "nonces")
      BY <2>2 DEF PlainInv, Latest
    <3>2. OrZero({info.nonce : info \in LatestValue(contractInfo, c)}) = GetOr(contractInfo, c, NoInfo).nonce
      BY DEF OrZero, LatestValue, GetOr, NoInfo
    <3> QED
      BY <2>1, <3>1, <3>2 DEF NonceAt
  <2>5. ASSUME NEW c \in Written("deployed") PROVE OrZero(ClassHashAt(n, c)) = Expected(n, c, "deployed")
    <3>1. GetOr(contractInfo, c, NoInfo).class = Expected(n, c, "deployed")
      BY <2>2 DEF PlainInv, Latest
    <3>2. OrZero({info.class : info \in LatestValue(contractInfo, c)}) = GetOr(contractInfo, c, NoInfo).class
      BY DEF OrZero, LatestValue, GetOr, NoInfo
    <3> QED
      BY <2>1, <3>1, <3>2 DEF ClassHashAt
  <2> QED
    BY <2>3, <2>4, <2>5
<1> QED
  BY <1>5, <1>6

\* The state read at a block is the one the chain gives it, from the histories while
\* later blocks are inserted and earlier ones again, and from the plain tables at the
\* latest block once its checkpoint is written.
THEOREM StateStaysExact == Spec => []StateExact
BY DatabaseFollowsChain, InvState, PTL

=============================================================================
