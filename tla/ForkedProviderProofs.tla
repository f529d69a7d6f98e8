------------------------ MODULE ForkedProviderProofs ------------------------
(***************************************************************************)
(* A read through the provider of a forked network is right: whatever      *)
(* layer answers it, with any number of readers, for any local blocks and  *)
(* any state of the remote node; and nobody who waits for an answer of the *)
(* backend is forgotten.                                                   *)
(***************************************************************************)
EXTENDS ForkedProvider, TLAPS, WellFoundedInduction, SequenceTheorems

-----------------------------------------------------------------------------
(* What the blocks in bs say *)

\* The last of the first n blocks that names x in field, and the value it gives it.
NamedIn(bs, n, x, field) ==
    {i \in 1..n : x \in DOMAIN bs[i][field] /\ \A j \in (i + 1)..n : x \notin DOMAIN bs[j][field]}
ValueIn(bs, n, x, field) == {bs[i][field][x] : i \in NamedIn(bs, n, x, field)}

Field(kind) ==
    CASE kind = "nonce" -> "nonce_updates"
      [] kind = "class_hash" -> "deployed_contracts"
      [] kind = "storage" -> "storage_updates"
      [] kind \in {"class", "compiled"} -> "declared_classes"

\* The value of key in the forked state, an Option.
Forked(key) == IF key.kind = "compiled" THEN Entry(Remote.compiled, key.id) ELSE RemoteValue(key)

\* The value after the first n blocks.
ExpectedIn(bs, n, key) ==
    LET named == NamedIn(bs, n, key.id, Field(key.kind))
    IN  OrZero(IF named = {} THEN Forked(key)
               ELSE IF key.kind = "class" THEN {key.id}
               ELSE ValueIn(bs, n, key.id, Field(key.kind)))

\* A nonce that is hidden by a local class without a local nonce (Replaced).
ReplacedIn(bs, n, key) ==
    /\ key.kind = "nonce"
    /\ key.id \in DOMAIN Remote.nonce
    /\ \E i \in 1..n : key.id \in DOMAIN bs[i].deployed_contracts
    /\ \A i \in 1..n : key.id \notin DOMAIN bs[i].nonce_updates

-----------------------------------------------------------------------------
(* The inductive invariant *)

\* The blocks, what is to come of them and their snapshots are sequences.
BlocksType ==
    /\ blocks \in Seq(Updates) /\ history \in Seq(Updates)
    /\ snapshots \in Seq({snapshots[i] : i \in DOMAIN snapshots}) /\ Len(snapshots) = Len(blocks)
    /\ present \in Seq(Nat) /\ Len(present) <= Len(blocks)
    /\ limit \in MinHistoryLimit..HistoryLimit

\* A layer of the local state is made of the first n blocks.
Layer(db, bs, n) ==
    /\ \A x \in Addresses :
           /\ Entry(db.nonce, x) = ValueIn(bs, n, x, "nonce_updates")
           /\ Entry(db.class_hash, x) = ValueIn(bs, n, x, "deployed_contracts")
           /\ Entry(db.storage, x) = ValueIn(bs, n, x, "storage_updates")
    /\ \A h \in Hashes : Entry(db.compiled, h) = ValueIn(bs, n, h, "declared_classes")

LayersInv ==
    /\ Layer(local, blocks, Len(blocks))
    /\ \A n \in 1..Len(blocks) : Layer(snapshots[n], blocks, n)
    /\ DOMAIN local.compiled = classes
    /\ \A n \in 1..Len(blocks) : DOMAIN snapshots[n].compiled \subseteq classes

\* The entries of f are those of g; a missing storage value is 0.
Fetched(f, g) == \A x \in Addresses : Entry(f, x) # {} => Entry(f, x) = Entry(g, x)
FetchedStorage(f) == \A x \in Addresses : Entry(f, x) # {} => Entry(f, x) = {OrZero(Entry(Remote.storage, x))}

\* What was fetched is the forked state's; no compiled class hash is found.
CacheInv(c) ==
    /\ c = [nonce |-> c.nonce, class_hash |-> c.class_hash, storage |-> c.storage,
            compiled |-> c.compiled, classes |-> c.classes]
    /\ Fetched(c.nonce, Remote.nonce) /\ Fetched(c.class_hash, Remote.class_hash)
    /\ FetchedStorage(c.storage)
    /\ c.classes \subseteq DOMAIN Remote.compiled
    /\ c.compiled \cap Hashes = {}

\* The block a read is about, and whether the forked state answers it.
At(r) == IF r.view = 0 THEN r.since ELSE r.view
ForkAnswers(bs, r) == ExpectedIn(bs, At(r), r.key) = OrZero(Forked(r.key))

\* What a read has returned is the value at its block.
Right(bs, r) ==
    \E n \in IF r.view = 0 THEN r.since..Len(bs) ELSE {r.view} :
        OrZero(r.value) = ExpectedIn(bs, n, r.key) \/ ReplacedIn(bs, n, r.key)

Read(pc, r) == [pc |-> pc, view |-> r.view, key |-> r.key, since |-> r.since]
Known(bs, r) ==
    r.key \in Reads /\ r.since \in 0..Len(bs) /\ r.view \in 0..Len(bs)

\* A reader that got past the local layer may take what the forked state says.
Reader(bs, r) ==
    \/ r = Idle
    \/ /\ r.pc \in {"cache", "send", "recv"} /\ r = Read(r.pc, r)
       /\ Known(bs, r) /\ ForkAnswers(bs, r)
    \/ /\ r.pc = "store"
       /\ r = [pc |-> "store", view |-> r.view, key |-> r.key, since |-> r.since, value |-> r.value]
       /\ Known(bs, r) /\ ForkAnswers(bs, r) /\ r.value = Forked(r.key)
    \/ /\ r.pc = "done"
       /\ r = [pc |-> "done", view |-> r.view, key |-> r.key, since |-> r.since, ok |-> r.ok, value |-> r.value]
       /\ Known(bs, r) /\ r.ok \in BOOLEAN /\ (r.ok => Right(bs, r))

ReadersInv == thread = [t \in Threads |-> thread[t]] /\ \A t \in Threads : Reader(blocks, thread[t])

Requests == [key : Keys, sender : Threads]

\* t waits for the answer to key, and has no other.
Awaits(t, key) ==
    /\ t \in Threads /\ thread[t].pc = "recv" /\ key = RequestKey(thread[t].key) /\ inbox[t] = {}

\* Whoever is in the channel or in the map waits for that key, and is in one of them once.
ChannelInv ==
    /\ incoming \in Seq(Requests) /\ Len(incoming) <= Capacity
    /\ \A i \in DOMAIN incoming :
           /\ Awaits(incoming[i].sender, incoming[i].key)
           /\ \A key \in DOMAIN dedup : incoming[i].sender \notin dedup[key]
MapInv ==
    /\ DOMAIN answers \subseteq pending /\ pending \subseteq DOMAIN dedup
    /\ \A key \in DOMAIN dedup :
           key \in Keys /\ dedup[key] \subseteq Threads /\ \A t \in dedup[key] : Awaits(t, key)
    /\ \A key \in DOMAIN answers : answers[key].ok => answers[key].value = RemoteValue(key)

\* t has an answer, or is in the channel or in the map for key.
Found(t, key) == inbox[t] # {} \/ t \in Senders(key) \/ (key \in DOMAIN dedup /\ t \in dedup[key])

\* An answer is the one to the key of its reader, and none is forgotten.
InboxInv ==
    /\ inbox = [t \in Threads |-> inbox[t]]
    /\ \A t \in Threads :
           /\ inbox[t] # {} =>
                  /\ thread[t].pc = "recv"
                  /\ \A a \in inbox[t] : a.ok => a.value = RemoteValue(RequestKey(thread[t].key))
           /\ thread[t].pc = "recv" => Found(t, RequestKey(thread[t].key))

ForkInv ==
    /\ BlocksType /\ HistoryType /\ LayersInv /\ CacheInv(cache)
    /\ ReadersInv /\ ChannelInv /\ MapInv /\ InboxInv

-----------------------------------------------------------------------------
(* Keys, and the value at a block *)

\* A key is an address or a class hash, by its kind.
LEMMA KeyCases ==
    ASSUME NEW key \in Keys
    PROVE  /\ key.kind \in Kinds /\ key = [kind |-> key.kind, id |-> key.id]
           /\ key.kind \in {"nonce", "class_hash", "storage"} => key.id \in Addresses
           /\ key.kind \in {"class", "compiled"} => key.id \in Hashes
BY DEF Keys, Kinds

\* The keys that are read are keys, and so are the ones that are requested.
LEMMA ReadKeys ==
    ASSUME NEW key \in Reads
    PROVE  key \in Keys /\ RequestKey(key) \in Keys
<1>1. key \in Keys
  BY ForkAssumption
<1>2. CASE key.kind = "compiled"
  <2>1. key = [kind |-> "compiled", id |-> key.id] /\ key.id \in Hashes
    BY <1>1, <1>2, KeyCases
  <2>2. RequestKey(key) = [kind |-> "class", id |-> key.id]
    BY <1>2, <2>1 DEF RequestKey
  <2> QED
    BY <1>1, <2>1, <2>2 DEF Keys
<1>3. CASE key.kind # "compiled"
  BY <1>1, <1>3 DEF RequestKey
<1> QED
  BY <1>2, <1>3

\* The field of a kind.
LEMMA FieldCases ==
    /\ Field("nonce") = "nonce_updates" /\ Field("class_hash") = "deployed_contracts"
    /\ Field("storage") = "storage_updates" /\ Field("class") = "declared_classes"
    /\ Field("compiled") = "declared_classes"
BY DEF Field

\* There is a value where a block names the key.
LEMMA ValueNamed ==
    \A bs, n, x, field : ValueIn(bs, n, x, field) = {} <=> NamedIn(bs, n, x, field) = {}
BY DEF ValueIn

\* Expected is the value of the last block that names the key, or the forked one.
LEMMA ExpectedIs ==
    ASSUME NEW n, NEW key \in Keys
    PROVE  Expected(n, key) = ExpectedIn(blocks, n, key)
<1>1. key.kind \in Kinds
  BY KeyCases
<1>2. \A x, field : Last(n, LAMBDA i : x \in DOMAIN blocks[i][field]) = NamedIn(blocks, n, x, field)
  BY DEF Last, NamedIn
<1>3. CASE key.kind = "nonce"
  BY <1>3, FieldCases DEF Expected, ExpectedIn, Forked, ValueIn, Last, NamedIn
<1>4. CASE key.kind = "class_hash"
  BY <1>4, FieldCases DEF Expected, ExpectedIn, Forked, ValueIn, Last, NamedIn
<1>5. CASE key.kind = "storage"
  BY <1>5, FieldCases DEF Expected, ExpectedIn, Forked, ValueIn, Last, NamedIn
<1>6. CASE key.kind = "class"
  BY <1>6, FieldCases DEF Expected, ExpectedIn, Forked, ValueIn, Last, NamedIn
<1>7. CASE key.kind = "compiled"
  BY <1>7, FieldCases DEF Expected, ExpectedIn, Forked, ValueIn, Last, NamedIn
<1> QED
  BY <1>1, <1>3, <1>4, <1>5, <1>6, <1>7 DEF Kinds

\* A nonempty set of naturals has a least element.
LEMMA LeastElement ==
    ASSUME NEW T \in SUBSET Nat, T # {}
    PROVE  \E x \in T : \A y \in T : x <= y
<1> DEFINE R == OpToRel(<,Nat)
<1>1. IsWellFoundedOn(R, Nat)
  BY NatLessThanWellFounded
<1>2. \A x, y \in Nat : x < y => <<x, y>> \in R
  BY DEF OpToRel
<1> HIDE DEF R
<1>3. PICK x \in T : \A y \in T : ~(<<y, x>> \in R)
  BY <1>1, WFMin
<1>4. ASSUME NEW y \in T PROVE x <= y
  <2>1. x \in Nat /\ y \in Nat
    OBVIOUS
  <2>2. ~(y < x)
    BY <1>2, <1>3, <2>1
  <2> QED
    BY <2>1, <2>2
<1> QED
  BY <1>3, <1>4

\* Where there is no last block that names x, none does.
LEMMA NoneNamed ==
    ASSUME NEW bs, NEW n \in Nat, NEW x, NEW field, NamedIn(bs, n, x, field) = {}
    PROVE  \A i \in 1..n : x \notin DOMAIN bs[i][field]
<1> DEFINE T == {k \in 0..(n - 1) : x \in DOMAIN bs[n - k][field]}
<1> SUFFICES ASSUME NEW i \in 1..n, x \in DOMAIN bs[i][field] PROVE FALSE
  OBVIOUS
<1>1. n - i \in T
  <2>1. n - (n - i) = i /\ n - i \in 0..(n - 1)
    OBVIOUS
  <2> QED
    BY <2>1
<1>2. PICK k \in T : \A l \in T : k <= l
  <2>1. T \in SUBSET Nat
    OBVIOUS
  <2> HIDE DEF T
  <2> QED
    BY <1>1, <2>1, LeastElement
<1>3. k \in 0..(n - 1) /\ x \in DOMAIN bs[n - k][field] /\ n - k \in 1..n
  BY <1>2
<1>4. ASSUME NEW j \in (n - k + 1)..n PROVE x \notin DOMAIN bs[j][field]
  <2>1. n - j \in 0..(n - 1) /\ n - (n - j) = j /\ ~(k <= n - j)
    BY <1>3
  <2> QED
    BY <1>2, <2>1
<1>5. n - k \in NamedIn(bs, n, x, field)
  BY <1>3, <1>4 DEF NamedIn
<1> QED
  BY <1>5

\* The first l blocks of cs are those of bs; u comes after them.
Same(cs, bs, l) == l \in Nat /\ \A i \in 1..l : cs[i] = bs[i]
Grown(cs, bs, l, u) == Same(cs, bs, l) /\ cs[l + 1] = u

\* Appending a block grows the blocks.
LEMMA AppendGrown ==
    ASSUME NEW S, NEW bs \in Seq(S), NEW u \in S
    PROVE  Grown(Append(bs, u), bs, Len(bs), u)
BY DEF Grown, Same

\* The blocks before say what they said.
LEMMA NamedKept ==
    ASSUME NEW bs, NEW cs, NEW l, Same(cs, bs, l), NEW n \in 0..l, NEW x, NEW field
    PROVE  NamedIn(cs, n, x, field) = NamedIn(bs, n, x, field)
<1>1. l \in Nat /\ \A i \in 1..l : cs[i] = bs[i]
  BY DEF Same
<1>2. \A i \in 1..n : cs[i] = bs[i]
  BY <1>1
<1>3. \A i \in 1..n : \A j \in (i + 1)..n : cs[j] = bs[j]
  BY <1>1
<1> QED
  BY <1>2, <1>3 DEF NamedIn

\* So it is with the values.
LEMMA ValueKept ==
    ASSUME NEW bs, NEW cs, NEW l, Same(cs, bs, l), NEW n \in 0..l, NEW x, NEW field
    PROVE  ValueIn(cs, n, x, field) = ValueIn(bs, n, x, field)
<1>1. l \in Nat /\ \A i \in 1..l : cs[i] = bs[i]
  BY DEF Same
<1>2. \A i \in NamedIn(bs, n, x, field) : i \in 1..l /\ cs[i] = bs[i]
  BY <1>1 DEF NamedIn
<1>3. NamedIn(cs, n, x, field) = NamedIn(bs, n, x, field)
  BY NamedKept
<1> QED
  BY <1>2, <1>3 DEF ValueIn

\* One block more gives what it names its value.
LEMMA ValueAdded ==
    ASSUME NEW bs, NEW cs, NEW l, NEW u, Grown(cs, bs, l, u), NEW x, NEW field, x \in DOMAIN u[field]
    PROVE  ValueIn(cs, l + 1, x, field) = {u[field][x]}
<1>1. l \in Nat /\ cs[l + 1] = u
  BY DEF Grown, Same
<1>2. \A i \in 1..(l + 1) : i # l + 1 => l + 1 \in (i + 1)..(l + 1)
  BY <1>1
<1>3. l + 1 \in 1..(l + 1) /\ (l + 1 + 1)..(l + 1) = {}
  BY <1>1
<1>4. NamedIn(cs, l + 1, x, field) = {l + 1}
  BY <1>1, <1>2, <1>3 DEF NamedIn
<1> QED
  BY <1>1, <1>4 DEF ValueIn

\* And leaves the value of what it does not name.
LEMMA ValueUntouched ==
    ASSUME NEW bs, NEW cs, NEW l, NEW u, Grown(cs, bs, l, u), NEW x, NEW field, x \notin DOMAIN u[field]
    PROVE  ValueIn(cs, l + 1, x, field) = ValueIn(bs, l, x, field)
<1>1. l \in Nat /\ cs[l + 1] = u /\ Same(cs, bs, l) /\ \A i \in 1..l : cs[i] = bs[i]
  BY DEF Grown, Same
<1>2. ASSUME NEW i \in NamedIn(cs, l + 1, x, field) PROVE i \in NamedIn(bs, l, x, field)
  <2>1. i \in 1..(l + 1) /\ x \in DOMAIN cs[i][field] /\ \A j \in (i + 1)..(l + 1) : x \notin DOMAIN cs[j][field]
    BY DEF NamedIn
  <2>2. i \in 1..l
    BY <1>1, <2>1
  <2>3. \A j \in (i + 1)..l : j \in (i + 1)..(l + 1) /\ cs[j] = bs[j]
    BY <1>1, <2>2
  <2> QED
    BY <1>1, <2>1, <2>2, <2>3 DEF NamedIn
<1>3. ASSUME NEW i \in NamedIn(bs, l, x, field) PROVE i \in NamedIn(cs, l + 1, x, field)
  <2>1. i \in 1..l /\ x \in DOMAIN bs[i][field] /\ \A j \in (i + 1)..l : x \notin DOMAIN bs[j][field]
    BY DEF NamedIn
  <2>2. ASSUME NEW j \in (i + 1)..(l + 1) PROVE x \notin DOMAIN cs[j][field]
    <3>1. CASE j = l + 1
      BY <1>1, <3>1
    <3>2. CASE j # l + 1
      <4>1. j \in (i + 1)..l /\ j \in 1..l
        BY <1>1, <2>1, <3>2
      <4> QED
        BY <1>1, <2>1, <4>1
    <3> QED
      BY <3>1, <3>2
  <2> QED
    BY <1>1, <2>1, <2>2 DEF NamedIn
<1>4. NamedIn(cs, l + 1, x, field) = NamedIn(bs, l, x, field)
  BY <1>2, <1>3
<1>5. \A i \in NamedIn(bs, l, x, field) : cs[i] = bs[i]
  BY <1>1 DEF NamedIn
<1> QED
  BY <1>4, <1>5 DEF ValueIn

\* What a read is about does not change when a block is added.
LEMMA ExpectedKept ==
    ASSUME NEW bs, NEW cs, NEW l, Same(cs, bs, l), NEW n \in 0..l, NEW key
    PROVE  /\ ExpectedIn(cs, n, key) = ExpectedIn(bs, n, key)
           /\ ReplacedIn(cs, n, key) <=> ReplacedIn(bs, n, key)
<1>1. l \in Nat /\ \A i \in 1..l : cs[i] = bs[i]
  BY DEF Same
<1>2. NamedIn(cs, n, key.id, Field(key.kind)) = NamedIn(bs, n, key.id, Field(key.kind))
  BY NamedKept
<1>3. ValueIn(cs, n, key.id, Field(key.kind)) = ValueIn(bs, n, key.id, Field(key.kind))
  BY ValueKept
<1>4. \A i \in 1..n : cs[i] = bs[i]
  BY <1>1
<1> QED
  BY <1>2, <1>3, <1>4 DEF ExpectedIn, ReplacedIn

\* The map after an insertion.
LEMMA UpsertEntry ==
    ASSUME NEW f, NEW g, NEW x
    PROVE  Entry(Upsert(f, g), x) = IF x \in DOMAIN g THEN {g[x]} ELSE Entry(f, x)
BY DEF Entry, Upsert

\* A layer with the updates of one block more.
LEMMA LayerGrown ==
    ASSUME NEW db, NEW bs, NEW cs, NEW l, NEW u, Grown(cs, bs, l, u), Layer(db, bs, l)
    PROVE  Layer(InsertUpdates(db, u), cs, l + 1)
<1> DEFINE new == InsertUpdates(db, u)
<1>1. /\ new.nonce = Upsert(db.nonce, u.nonce_updates)
      /\ new.class_hash = Upsert(db.class_hash, u.deployed_contracts)
      /\ new.storage = Upsert(db.storage, u.storage_updates)
      /\ new.compiled = Upsert(db.compiled, u.declared_classes)
  BY DEF InsertUpdates
<1> HIDE DEF new
<1>2. ASSUME NEW f, NEW x, NEW field, Entry(f, x) = ValueIn(bs, l, x, field)
      PROVE  Entry(Upsert(f, u[field]), x) = ValueIn(cs, l + 1, x, field)
  <2>1. CASE x \in DOMAIN u[field]
    <3>1. Entry(Upsert(f, u[field]), x) = {u[field][x]}
      BY <2>1, UpsertEntry
    <3>2. ValueIn(cs, l + 1, x, field) = {u[field][x]}
      BY <2>1, ValueAdded
    <3> QED
      BY <3>1, <3>2
  <2>2. CASE x \notin DOMAIN u[field]
    BY <1>2, <2>2, UpsertEntry, ValueUntouched
  <2> QED
    BY <2>1, <2>2
<1>3. ASSUME NEW x \in Addresses
      PROVE  /\ Entry(new.nonce, x) = ValueIn(cs, l + 1, x, "nonce_updates")
             /\ Entry(new.class_hash, x) = ValueIn(cs, l + 1, x, "deployed_contracts")
             /\ Entry(new.storage, x) = ValueIn(cs, l + 1, x, "storage_updates")
  <2>1. /\ Entry(db.nonce, x) = ValueIn(bs, l, x, "nonce_updates")
        /\ Entry(db.class_hash, x) = ValueIn(bs, l, x, "deployed_contracts")
        /\ Entry(db.storage, x) = ValueIn(bs, l, x, "storage_updates")
    BY DEF Layer
  <2>2. Entry(Upsert(db.nonce, u["nonce_updates"]), x) = ValueIn(cs, l + 1, x, "nonce_updates")
    BY <1>2, <2>1
  <2>3. Entry(Upsert(db.class_hash, u["deployed_contracts"]), x) = ValueIn(cs, l + 1, x, "deployed_contracts")
    BY <1>2, <2>1
  <2>4. Entry(Upsert(db.storage, u["storage_updates"]), x) = ValueIn(cs, l + 1, x, "storage_updates")
    BY <1>2, <2>1
  <2> QED
    BY <1>1, <2>2, <2>3, <2>4
<1>4. ASSUME NEW h \in Hashes PROVE Entry(new.compiled, h) = ValueIn(cs, l + 1, h, "declared_classes")
  <2>1. Entry(db.compiled, h) = ValueIn(bs, l, h, "declared_classes")
    BY DEF Layer
  <2>2. Entry(Upsert(db.compiled, u["declared_classes"]), h) = ValueIn(cs, l + 1, h, "declared_classes")
    BY <1>2, <2>1
  <2> QED
    BY <1>1, <2>2
<1> QED
  BY <1>3, <1>4 DEF Layer, new

\* A layer of earlier blocks stays one.
LEMMA LayerKept ==
    ASSUME NEW db, NEW bs, NEW cs, NEW l, Same(cs, bs, l), NEW n \in 0..l, Layer(db, bs, n)
    PROVE  Layer(db, cs, n)
<1>1. ASSUME NEW x, NEW field PROVE ValueIn(cs, n, x, field) = ValueIn(bs, n, x, field)
  BY ValueKept
<1> QED
  BY <1>1 DEF Layer

\* A reader is where it was when a block is added.
LEMMA ReaderKept ==
    ASSUME NEW bs, NEW cs, NEW l, Same(cs, bs, l), NEW r, Reader(bs, r),
           Len(bs) = l, Len(cs) = l + 1
    PROVE  Reader(cs, r)
<1>1. l \in Nat
  BY DEF Same
<1>2. ASSUME Known(bs, r) PROVE Known(cs, r) /\ At(r) \in 0..l
  BY <1>1, <1>2 DEF Known, At
<1>3. ASSUME Known(bs, r), ForkAnswers(bs, r) PROVE ForkAnswers(cs, r)
  BY <1>2, <1>3, ExpectedKept DEF ForkAnswers
<1>4. ASSUME Known(bs, r), Right(bs, r) PROVE Right(cs, r)
  <2>1. PICK n \in IF r.view = 0 THEN r.since..l ELSE {r.view} :
             OrZero(r.value) = ExpectedIn(bs, n, r.key) \/ ReplacedIn(bs, n, r.key)
    BY <1>4 DEF Right
  <2>2. n \in 0..l /\ n \in IF r.view = 0 THEN r.since..(l + 1) ELSE {r.view}
    BY <1>1, <1>4, <2>1 DEF Known
  <2>3. OrZero(r.value) = ExpectedIn(cs, n, r.key) \/ ReplacedIn(cs, n, r.key)
    BY <2>1, <2>2, ExpectedKept
  <2> QED
    BY <2>2, <2>3 DEF Right
<1> QED
  BY <1>2, <1>3, <1>4 DEF Reader

-----------------------------------------------------------------------------
(* The layers of a read *)

\* The value of an Option.
LEMMA OrZeroIs ==
    /\ OrZero({}) = 0
    /\ \A a : OrZero({a}) = a
    /\ \A S : S # {} => OrZero(S) \in S
BY DEF OrZero

\* An entry is the value of the map, if it has one.
LEMMA EntryIs ==
    ASSUME NEW f, NEW x
    PROVE  /\ x \in DOMAIN f => Entry(f, x) = {f[x]}
           /\ x \notin DOMAIN f => Entry(f, x) = {}
BY DEF Entry

\* What a layer has for key: a class counts by its compiled hash.
LayerRead(db, key) ==
    CASE key.kind = "nonce" ->
            IF OrZero(Entry(db.nonce, key.id)) # 0 \/ OrZero(Entry(db.class_hash, key.id)) # 0
            THEN {OrZero(Entry(db.nonce, key.id))} ELSE {}
      [] key.kind = "class_hash" -> NonZero(Entry(db.class_hash, key.id))
      [] key.kind = "storage" -> Entry(db.storage, key.id)
      [] key.kind = "class" -> {key.id} \cap DOMAIN db.compiled
      [] key.kind = "compiled" -> Entry(db.compiled, key.id)

\* A local layer that has the key answers with the value at its block; one that does
\* not leaves the answer to the forked state.
LayerAnswers(db, bs, n, key) ==
    /\ LayerRead(db, key) # {} =>
           OrZero(LayerRead(db, key)) = ExpectedIn(bs, n, key) \/ ReplacedIn(bs, n, key)
    /\ LayerRead(db, key) = {} => ExpectedIn(bs, n, key) = OrZero(Forked(key))

\* The nonces that blocks set and the classes they deploy are not 0.
LEMMA ValuesNonZero ==
    ASSUME NEW bs \in Seq(Updates), NEW n \in 0..Len(bs), NEW x
    PROVE  0 \notin ValueIn(bs, n, x, "nonce_updates") /\ 0 \notin ValueIn(bs, n, x, "deployed_contracts")
<1>1. \A i \in 1..n : bs[i] \in Updates
  OBVIOUS
<1>2. \A u \in Updates :
          /\ \A y \in DOMAIN u["nonce_updates"] : u["nonce_updates"][y] # 0
          /\ \A y \in DOMAIN u["deployed_contracts"] : u["deployed_contracts"][y] # 0
  BY UpdatesAssumption
<1>3. \A field : \A i \in NamedIn(bs, n, x, field) : i \in 1..n /\ x \in DOMAIN bs[i][field]
  BY DEF NamedIn
<1>4. ASSUME 0 \in ValueIn(bs, n, x, "nonce_updates") PROVE FALSE
  <2>1. PICK i \in NamedIn(bs, n, x, "nonce_updates") : 0 = bs[i]["nonce_updates"][x]
    BY <1>4 DEF ValueIn
  <2> QED
    BY <1>1, <1>2, <1>3, <2>1
<1>5. ASSUME 0 \in ValueIn(bs, n, x, "deployed_contracts") PROVE FALSE
  <2>1. PICK i \in NamedIn(bs, n, x, "deployed_contracts") : 0 = bs[i]["deployed_contracts"][x]
    BY <1>5 DEF ValueIn
  <2> QED
    BY <1>1, <1>2, <1>3, <2>1
<1> QED
  BY <1>4, <1>5

\* A nonce is the local one, or hidden by a local class, or the forked one.
LEMMA NonceAnswers ==
    ASSUME NEW bs \in Seq(Updates), NEW n \in 0..Len(bs), NEW db, Layer(db, bs, n),
           NEW key \in Keys, key.kind = "nonce"
    PROVE  LayerAnswers(db, bs, n, key)
<1> DEFINE nonces == ValueIn(bs, n, key.id, "nonce_updates")
           hashes == ValueIn(bs, n, key.id, "deployed_contracts")
<1>1. key.id \in Addresses
  BY KeyCases
<1>2. Entry(db.nonce, key.id) = nonces /\ Entry(db.class_hash, key.id) = hashes
  BY <1>1 DEF Layer
<1>3. 0 \notin nonces /\ 0 \notin hashes
  BY ValuesNonZero
<1>4. ExpectedIn(bs, n, key) = OrZero(IF nonces = {} THEN Entry(Remote.nonce, key.id) ELSE nonces)
  <2>1. Forked(key) = Entry(Remote.nonce, key.id)
    BY DEF Forked, RemoteValue
  <2>2. nonces = {} <=> NamedIn(bs, n, key.id, "nonce_updates") = {}
    BY ValueNamed
  <2> QED
    BY <2>1, <2>2, FieldCases DEF ExpectedIn
<1>5. LayerRead(db, key) = IF OrZero(nonces) # 0 \/ OrZero(hashes) # 0 THEN {OrZero(nonces)} ELSE {}
  BY <1>2 DEF LayerRead
<1>6. nonces # {} => OrZero(nonces) # 0
  BY <1>3, OrZeroIs
<1>7. hashes # {} => \E i \in 1..n : key.id \in DOMAIN bs[i].deployed_contracts
  <2>1. \A i \in NamedIn(bs, n, key.id, "deployed_contracts") : i \in 1..n /\ key.id \in DOMAIN bs[i]["deployed_contracts"]
    BY DEF NamedIn
  <2> QED
    BY <2>1, ValueNamed
<1>8. nonces = {} => \A i \in 1..n : key.id \notin DOMAIN bs[i].nonce_updates
  <2>1. n \in Nat
    OBVIOUS
  <2>2. NamedIn(bs, n, key.id, "nonce_updates") = {} => \A i \in 1..n : key.id \notin DOMAIN bs[i]["nonce_updates"]
    BY <2>1, NoneNamed
  <2> QED
    BY <2>2, ValueNamed
<1>9. Forked(key) = Entry(Remote.nonce, key.id)
  BY DEF Forked, RemoteValue
<1> HIDE DEF nonces, hashes
<1>10. CASE nonces # {}
  BY <1>4, <1>5, <1>6, <1>10, OrZeroIs DEF LayerAnswers
<1>11. CASE nonces = {} /\ OrZero(hashes) = 0
  BY <1>4, <1>5, <1>9, <1>11, OrZeroIs DEF LayerAnswers
<1>12. CASE nonces = {} /\ OrZero(hashes) # 0
  <2>1. hashes # {} /\ LayerRead(db, key) = {0}
    BY <1>5, <1>12, OrZeroIs
  <2>2. CASE key.id \in DOMAIN Remote.nonce
    <3>1. ReplacedIn(bs, n, key)
      BY <1>7, <1>8, <1>12, <2>1, <2>2 DEF ReplacedIn
    <3> QED
      BY <2>1, <3>1 DEF LayerAnswers
  <2>3. CASE key.id \notin DOMAIN Remote.nonce
    BY <1>4, <1>12, <2>1, <2>3, EntryIs, OrZeroIs DEF LayerAnswers
  <2> QED
    BY <2>2, <2>3
<1> QED
  BY <1>10, <1>11, <1>12

\* A layer answers every key.
LEMMA LayerExact ==
    ASSUME NEW bs \in Seq(Updates), NEW n \in 0..Len(bs), NEW db, Layer(db, bs, n), NEW key \in Keys
    PROVE  LayerAnswers(db, bs, n, key)
<1>1. CASE key.kind = "nonce"
  BY <1>1, NonceAnswers
<1>2. CASE key.kind = "class_hash"
  <2> DEFINE S == ValueIn(bs, n, key.id, "deployed_contracts")
  <2>1. LayerRead(db, key) = NonZero(S)
    BY <1>2, KeyCases DEF LayerRead, Layer
  <2>2. NonZero(S) = S
    BY ValuesNonZero DEF NonZero
  <2>3. S = {} <=> NamedIn(bs, n, key.id, "deployed_contracts") = {}
    BY ValueNamed
  <2> QED
    BY <1>2, <2>1, <2>2, <2>3, FieldCases DEF LayerAnswers, ExpectedIn
<1>3. CASE key.kind = "storage"
  <2> DEFINE S == ValueIn(bs, n, key.id, "storage_updates")
  <2>1. LayerRead(db, key) = S
    BY <1>3, KeyCases DEF LayerRead, Layer
  <2>2. S = {} <=> NamedIn(bs, n, key.id, "storage_updates") = {}
    BY ValueNamed
  <2> QED
    BY <1>3, <2>1, <2>2, FieldCases DEF LayerAnswers, ExpectedIn
<1>4. CASE key.kind = "compiled"
  <2> DEFINE S == ValueIn(bs, n, key.id, "declared_classes")
  <2>1. LayerRead(db, key) = S
    BY <1>4, KeyCases DEF LayerRead, Layer
  <2>2. S = {} <=> NamedIn(bs, n, key.id, "declared_classes") = {}
    BY ValueNamed
  <2> QED
    BY <1>4, <2>1, <2>2, FieldCases DEF LayerAnswers, ExpectedIn
<1>5. CASE key.kind = "class"
  <2> DEFINE S == ValueIn(bs, n, key.id, "declared_classes")
  <2>1. key.id \in Hashes /\ Entry(db.compiled, key.id) = S
    BY <1>5, KeyCases DEF Layer
  <2>2. LayerRead(db, key) = IF S = {} THEN {} ELSE {key.id}
    <3>1. LayerRead(db, key) = {key.id} \cap DOMAIN db.compiled
      BY <1>5 DEF LayerRead
    <3>2. S = {} <=> key.id \notin DOMAIN db.compiled
      BY <2>1 DEF Entry
    <3> QED
      BY <3>1, <3>2
  <2>3. S = {} <=> NamedIn(bs, n, key.id, "declared_classes") = {}
    BY ValueNamed
  <2> QED
    BY <1>5, <2>2, <2>3, FieldCases DEF LayerAnswers, ExpectedIn
<1> QED
  BY <1>1, <1>2, <1>3, <1>4, <1>5, KeyCases DEF Kinds

\* What the cache has is the forked state's.
LEMMA CacheExact ==
    ASSUME CacheInv(cache), NEW key \in Keys, CacheRead(key) # {}
    PROVE  OrZero(CacheRead(key)) = OrZero(Forked(key))
<1>1. CASE key.kind = "nonce"
  <2>1. CacheRead(key) = NonZero(Entry(cache.nonce, key.id)) /\ Forked(key) = Entry(Remote.nonce, key.id)
    BY <1>1 DEF CacheRead, Forked, RemoteValue
  <2>2. key.id \in DOMAIN cache.nonce /\ NonZero(Entry(cache.nonce, key.id)) = Entry(cache.nonce, key.id)
    BY <2>1, EntryIs DEF NonZero
  <2>3. Entry(cache.nonce, key.id) = Entry(Remote.nonce, key.id)
    BY <1>1, <2>1, <2>2, KeyCases DEF CacheInv, Fetched
  <2> QED
    BY <2>1, <2>2, <2>3
<1>2. CASE key.kind = "class_hash"
  <2>1. CacheRead(key) = NonZero(Entry(cache.class_hash, key.id)) /\ Forked(key) = Entry(Remote.class_hash, key.id)
    BY <1>2 DEF CacheRead, Forked, RemoteValue
  <2>2. key.id \in DOMAIN cache.class_hash /\ NonZero(Entry(cache.class_hash, key.id)) = Entry(cache.class_hash, key.id)
    BY <2>1, EntryIs DEF NonZero
  <2>3. Entry(cache.class_hash, key.id) = Entry(Remote.class_hash, key.id)
    BY <1>2, <2>1, <2>2, KeyCases DEF CacheInv, Fetched
  <2> QED
    BY <2>1, <2>2, <2>3
<1>3. CASE key.kind = "storage"
  <2>1. CacheRead(key) = Entry(cache.storage, key.id) /\ Forked(key) = Entry(Remote.storage, key.id)
    BY <1>3 DEF CacheRead, Forked, RemoteValue
  <2>2. CacheRead(key) = {OrZero(Entry(Remote.storage, key.id))}
    BY <1>3, <2>1, KeyCases DEF CacheInv, FetchedStorage
  <2> QED
    BY <2>1, <2>2, OrZeroIs
<1>4. CASE key.kind = "class"
  <2>1. CacheRead(key) = {key.id} \cap cache.classes /\ Forked(key) = {key.id} \cap DOMAIN Remote.compiled
    BY <1>4 DEF CacheRead, Forked, RemoteValue
  <2>2. CacheRead(key) = {key.id} /\ Forked(key) = {key.id}
    BY <2>1 DEF CacheInv
  <2> QED
    BY <2>2
<1>5. CASE key.kind = "compiled"
  <2>1. CacheRead(key) = {key.id} \cap cache.compiled /\ key.id \in Hashes
    BY <1>5, KeyCases DEF CacheRead
  <2> QED
    BY <2>1 DEF CacheInv
<1> QED
  BY <1>1, <1>2, <1>3, <1>4, <1>5, KeyCases DEF Kinds

\* What was fetched may be stored.
LEMMA CacheStored ==
    ASSUME CacheInv(cache), NEW key \in Keys, NEW value, value = Forked(key)
    PROVE  CacheInv(CacheWith(key, value))
<1> DEFINE c == CacheWith(key, value)
<1>1. cache = [nonce |-> cache.nonce, class_hash |-> cache.class_hash, storage |-> cache.storage,
               compiled |-> cache.compiled, classes |-> cache.classes]
  BY DEF CacheInv
<1>2. ASSUME NEW f, NEW x PROVE Entry(Put(f, key.id, value), x) = IF x = key.id THEN {OrZero(value)} ELSE Entry(f, x)
  BY UpsertEntry DEF Put
<1>3. ASSUME value # {}, NEW f, value = Entry(f, key.id) PROVE {OrZero(value)} = Entry(f, key.id)
  BY <1>3, EntryIs, OrZeroIs
<1>4. CASE key.kind = "storage"
  <2>1. c = [nonce |-> cache.nonce, class_hash |-> cache.class_hash, storage |-> Put(cache.storage, key.id, value),
             compiled |-> cache.compiled, classes |-> cache.classes]
    BY <1>1, <1>4 DEF CacheWith
  <2>2. value = Entry(Remote.storage, key.id)
    BY <1>4 DEF Forked, RemoteValue
  <2> HIDE DEF c
  <2>3. FetchedStorage(Put(cache.storage, key.id, value))
    BY <1>2, <2>2 DEF FetchedStorage, CacheInv
  <2>4. CacheInv(c)
    BY <2>1, <2>3 DEF CacheInv
  <2> QED
    BY <2>4 DEF c
<1>5. CASE key.kind # "storage" /\ value = {}
  BY <1>5 DEF CacheWith
<1>6. CASE key.kind = "nonce" /\ value # {}
  <2>1. c = [nonce |-> Put(cache.nonce, key.id, value), class_hash |-> cache.class_hash, storage |-> cache.storage,
             compiled |-> cache.compiled, classes |-> cache.classes]
    BY <1>1, <1>6 DEF CacheWith
  <2>2. {OrZero(value)} = Entry(Remote.nonce, key.id)
    <3>1. value = Entry(Remote.nonce, key.id)
      BY <1>6 DEF Forked, RemoteValue
    <3> QED
      BY <1>3, <1>6, <3>1
  <2> HIDE DEF c
  <2>3. Fetched(Put(cache.nonce, key.id, value), Remote.nonce)
    BY <1>2, <2>2 DEF Fetched, CacheInv
  <2>4. CacheInv(c)
    BY <2>1, <2>3 DEF CacheInv
  <2> QED
    BY <2>4 DEF c
<1>7. CASE key.kind = "class_hash" /\ value # {}
  <2>1. c = [nonce |-> cache.nonce, class_hash |-> Put(cache.class_hash, key.id, value), storage |-> cache.storage,
             compiled |-> cache.compiled, classes |-> cache.classes]
    BY <1>1, <1>7 DEF CacheWith
  <2>2. {OrZero(value)} = Entry(Remote.class_hash, key.id)
    <3>1. value = Entry(Remote.class_hash, key.id)
      BY <1>7 DEF Forked, RemoteValue
    <3> QED
      BY <1>3, <1>7, <3>1
  <2> HIDE DEF c
  <2>3. Fetched(Put(cache.class_hash, key.id, value), Remote.class_hash)
    BY <1>2, <2>2 DEF Fetched, CacheInv
  <2>4. CacheInv(c)
    BY <2>1, <2>3 DEF CacheInv
  <2> QED
    BY <2>4 DEF c
<1>8. CASE key.kind = "class" /\ value # {}
  <2>1. c = [nonce |-> cache.nonce, class_hash |-> cache.class_hash, storage |-> cache.storage,
             compiled |-> cache.compiled, classes |-> cache.classes \cup value]
    BY <1>1, <1>8 DEF CacheWith
  <2>2. value \subseteq DOMAIN Remote.compiled
    BY <1>8 DEF Forked, RemoteValue
  <2> HIDE DEF c
  <2>3. CacheInv(c)
    BY <2>1, <2>2 DEF CacheInv
  <2> QED
    BY <2>3 DEF c
<1>9. CASE key.kind = "compiled" /\ value # {}
  <2>1. c = [nonce |-> cache.nonce, class_hash |-> cache.class_hash, storage |-> cache.storage,
             compiled |-> cache.compiled \cup value, classes |-> cache.classes]
    BY <1>1, <1>9 DEF CacheWith
  <2>2. value \cap Hashes = {}
    <3>1. value = Entry(Remote.compiled, key.id)
      BY <1>9 DEF Forked
    <3> QED
      BY <3>1, UpdatesAssumption DEF Entry
  <2> HIDE DEF c
  <2>3. CacheInv(c)
    BY <2>1, <2>2 DEF CacheInv
  <2> QED
    BY <2>3 DEF c
<1> QED
  BY <1>4, <1>5, <1>6, <1>7, <1>8, <1>9, KeyCases DEF Kinds

-----------------------------------------------------------------------------
(* Blocks *)

\* A sequence is one over its own elements.
LEMMA OverOwn ==
    ASSUME NEW S, NEW s \in Seq(S)
    PROVE  s \in Seq({s[i] : i \in DOMAIN s})
<1>1. s = [i \in 1..Len(s) |-> s[i]] /\ Len(s) \in Nat /\ DOMAIN s = 1..Len(s)
  OBVIOUS
<1> DEFINE T == {s[i] : i \in DOMAIN s}
<1>2. \A i \in 1..Len(s) : s[i] \in T
  BY <1>1
<1> HIDE DEF T
<1>3. [i \in 1..Len(s) |-> s[i]] \in Seq(T)
  BY <1>1, <1>2, IsASeq
<1> QED
  BY <1>1, <1>3 DEF T

\* The history keeps the latest blocks when one is added.
LEMMA HistoryStep ==
    ASSUME BlocksType, HistoryType, InsertBlock
    PROVE  /\ HistoryType' /\ present' \in Seq(Nat) /\ Len(present') <= Len(blocks) + 1
           /\ limit' \in MinHistoryLimit..HistoryLimit
<1>1. PICK p \in Nat : p = Len(present)
  BY DEF BlocksType
<1>2. PICK L \in Nat : L = Len(blocks)
  BY DEF BlocksType
<1>3. PICK max : max = limit'
  OBVIOUS
<1>4. PICK lo : lo = IF p >= max THEN p - max + 2 ELSE 1
  OBVIOUS
<1>5. MinHistoryLimit \in Nat \ {0} /\ HistoryLimit \in Nat
  BY ForkAssumption
<1>6. /\ limit \in MinHistoryLimit..HistoryLimit /\ p <= limit /\ p <= L
      /\ p >= (IF L < MinHistoryLimit THEN L ELSE MinHistoryLimit)
      /\ \A i \in 1..p : present[i] = L - p + i
  <2>1. present \in Seq(Nat) /\ limit \in MinHistoryLimit..HistoryLimit /\ p <= L
    BY <1>1, <1>2 DEF BlocksType
  <2>2. DOMAIN present = 1..p
    BY <1>1, <2>1
  <2>3. /\ p <= limit /\ p >= (IF L < MinHistoryLimit THEN L ELSE MinHistoryLimit)
        /\ \A i \in DOMAIN present : present[i] = L - p + i
    BY <1>1, <1>2 DEF HistoryType
  <2> QED
    BY <2>1, <2>2, <2>3
<1>7. max = IF p >= limit /\ limit > MinHistoryLimit THEN limit - 1 ELSE limit
  BY <1>1, <1>3 DEF InsertBlock
<1>8. max \in MinHistoryLimit..HistoryLimit /\ max >= 1
  BY <1>5, <1>6, <1>7
<1>9. /\ lo \in 1..(p + 1)
      /\ p + 2 - lo <= max /\ p + 2 - lo <= L + 1
      /\ p + 2 - lo >= (IF L + 1 < MinHistoryLimit THEN L + 1 ELSE MinHistoryLimit)
  BY <1>4, <1>5, <1>6, <1>7, <1>8
<1> DEFINE kept == SubSeq(present, lo, p)
<1>10. present \in Seq(Nat)
  BY DEF BlocksType
<1>11. /\ kept \in Seq(Nat) /\ Len(kept) = p + 1 - lo
       /\ \A i \in 1..(p + 1 - lo) : kept[i] = present[lo + i - 1]
  <2>1. \A i \in lo..p : present[i] \in Nat
    BY <1>1, <1>9, <1>10
  <2> QED
    BY <1>9, <1>10, <2>1, SubSeqProperties, <1>1
<1>12. present' = Append(kept, L + 1)
  BY <1>1, <1>2, <1>3, <1>4 DEF InsertBlock, EnforceLimits
<1> HIDE DEF kept
<1>13. PICK m \in Nat : m = p + 1 - lo
  BY <1>9
<1>14. present' \in Seq(Nat) /\ Len(present') = m + 1 /\ present'[m + 1] = L + 1
       /\ \A i \in 1..m : present'[i] = kept[i]
  BY <1>11, <1>12, <1>13
<1>15. ASSUME NEW i \in 1..(m + 1) PROVE present'[i] = L + 1 - (m + 1) + i
  <2>1. CASE i = m + 1
    BY <1>14, <2>1
  <2>2. CASE i # m + 1
    <3>1. i \in 1..m /\ lo + i - 1 \in 1..p
      BY <1>9, <1>13, <2>2
    <3>2. present'[i] = L - p + (lo + i - 1)
      BY <1>6, <1>11, <1>13, <1>14, <3>1
    <3> QED
      BY <1>9, <1>13, <3>2
  <2> QED
    BY <2>1, <2>2
<1>16. Len(blocks') = L + 1
  BY <1>2 DEF InsertBlock, BlocksType
<1>17. DOMAIN present' = 1..(m + 1)
  BY <1>14
<1> QED
  BY <1>2, <1>3, <1>8, <1>9, <1>13, <1>14, <1>15, <1>16, <1>17 DEF HistoryType

\* A block is added to the blocks, to the local layer and to the snapshots.
LEMMA InsertStep ==
    ASSUME BlocksType, HistoryType, LayersInv, InsertBlock
    PROVE  /\ BlocksType' /\ LayersInv' /\ Same(blocks', blocks, Len(blocks))
           /\ Len(blocks') = Len(blocks) + 1
<1> DEFINE u == Head(history)
<1>1. u \in Updates /\ Tail(history) \in Seq(Updates)
  BY DEF BlocksType, InsertBlock
<1>2. PICK l \in Nat : l = Len(blocks)
  BY DEF BlocksType
<1>3. blocks' = Append(blocks, u) /\ local' = InsertUpdates(local, u)
      /\ classes' = classes \cup DOMAIN u.declared_classes /\ snapshots' = Append(snapshots, local')
      /\ history' = Tail(history)
  BY DEF InsertBlock
<1> HIDE DEF u
<1>4. Grown(blocks', blocks, l, u) /\ blocks' \in Seq(Updates) /\ Len(blocks') = l + 1
  BY <1>1, <1>2, <1>3, AppendGrown DEF BlocksType
<1>5. Same(blocks', blocks, l)
  BY <1>4 DEF Grown
<1>6. /\ snapshots' \in Seq({snapshots'[i] : i \in DOMAIN snapshots'}) /\ Len(snapshots') = l + 1
      /\ snapshots'[l + 1] = local' /\ \A i \in 1..l : snapshots'[i] = snapshots[i]
  <2> DEFINE S == {snapshots[i] : i \in DOMAIN snapshots} \cup {local'}
  <2>1. snapshots \in Seq(S) /\ local' \in S /\ Len(snapshots) = l
    <3>1. snapshots \in Seq({snapshots[i] : i \in DOMAIN snapshots}) /\ Len(snapshots) = l
      BY <1>2 DEF BlocksType
    <3> QED
      BY <3>1
  <2> HIDE DEF S
  <2>2. /\ snapshots' \in Seq(S) /\ Len(snapshots') = l + 1
        /\ snapshots'[l + 1] = local' /\ \A i \in 1..l : snapshots'[i] = snapshots[i]
    BY <1>3, <2>1
  <2> QED
    BY <2>2, OverOwn
<1>7. BlocksType'
  BY <1>1, <1>2, <1>3, <1>4, <1>6, HistoryStep DEF BlocksType
<1>8. Layer(local', blocks', l + 1)
  BY <1>2, <1>3, <1>4, LayerGrown DEF LayersInv
<1>9. ASSUME NEW n \in 1..(l + 1) PROVE Layer(snapshots'[n], blocks', n)
  <2>1. CASE n = l + 1
    BY <1>6, <1>8, <2>1
  <2>2. CASE n # l + 1
    <3>1. n \in 1..l /\ n \in 0..l
      BY <2>2
    <3>2. Layer(snapshots[n], blocks, n)
      BY <1>2, <3>1 DEF LayersInv
    <3>3. Layer(snapshots[n], blocks', n)
      BY <1>5, <3>1, <3>2, LayerKept
    <3> QED
      BY <1>6, <3>1, <3>3
  <2> QED
    BY <2>1, <2>2
<1>10. DOMAIN local'.compiled = classes'
  BY <1>3 DEF LayersInv, InsertUpdates, Upsert
<1>11. ASSUME NEW n \in 1..(l + 1) PROVE DOMAIN snapshots'[n].compiled \subseteq classes'
  <2>1. CASE n = l + 1
    BY <1>6, <1>10, <2>1
  <2>2. CASE n # l + 1
    <3>1. n \in 1..l
      BY <2>2
    <3> QED
      BY <1>2, <1>3, <1>6, <3>1 DEF LayersInv
  <2> QED
    BY <2>1, <2>2
<1> QED
  BY <1>2, <1>4, <1>5, <1>7, <1>8, <1>9, <1>10, <1>11 DEF LayersInv

-----------------------------------------------------------------------------
(* Readers *)

\* One reader takes a step.
LEMMA ReadersStep ==
    ASSUME ReadersInv, NEW t \in Threads, NEW r, thread' = [thread EXCEPT ![t] = r],
           blocks' = blocks, Reader(blocks, r)
    PROVE  /\ ReadersInv' /\ thread'[t] = r
           /\ \A s \in Threads : s # t => thread'[s] = thread[s]
<1>1. thread = [s \in Threads |-> thread[s]]
  BY DEF ReadersInv
<1>2. thread' = [s \in Threads |-> IF s = t THEN r ELSE thread[s]]
  BY <1>1
<1>3. thread'[t] = r /\ \A s \in Threads : s # t => thread'[s] = thread[s]
  BY <1>2
<1>4. \A s \in Threads : Reader(blocks', thread'[s])
  BY <1>3 DEF ReadersInv
<1> QED
  BY <1>2, <1>3, <1>4 DEF ReadersInv

\* A read that found nothing yet, and one that is done.
LEMMA MakeReader ==
    ASSUME NEW bs, NEW r, Known(bs, r)
    PROVE  /\ \A pc \in {"cache", "send", "recv"} : ForkAnswers(bs, r) => Reader(bs, Read(pc, r))
           /\ \A value : ForkAnswers(bs, r) /\ value = Forked(r.key) =>
                  Reader(bs, [pc |-> "store", view |-> r.view, key |-> r.key, since |-> r.since, value |-> value])
           /\ \A ok, value :
                  LET d == [pc |-> "done", view |-> r.view, key |-> r.key, since |-> r.since,
                            ok |-> ok, value |-> value]
                  IN  ok \in BOOLEAN /\ (ok => Right(bs, d)) => Reader(bs, d)
<1>1. ASSUME NEW pc \in {"cache", "send", "recv"}, ForkAnswers(bs, r) PROVE Reader(bs, Read(pc, r))
  BY <1>1 DEF Reader, Read, Known, ForkAnswers, At
<1>2. ASSUME NEW value, ForkAnswers(bs, r), value = Forked(r.key)
      PROVE  Reader(bs, [pc |-> "store", view |-> r.view, key |-> r.key, since |-> r.since, value |-> value])
  BY <1>2 DEF Reader, Known, ForkAnswers, At
<1>3. ASSUME NEW ok \in BOOLEAN, NEW value, NEW d,
             d = [pc |-> "done", view |-> r.view, key |-> r.key, since |-> r.since, ok |-> ok, value |-> value],
             ok => Right(bs, d)
      PROVE  Reader(bs, d)
  BY <1>3 DEF Reader, Known
<1> QED
  BY <1>1, <1>2, <1>3

\* A read that takes what the forked state says is right.
LEMMA ForkRight ==
    ASSUME NEW bs, NEW r, Len(bs) \in Nat, Known(bs, r), ForkAnswers(bs, r), NEW d, d.view = r.view, d.key = r.key,
           d.since = r.since, OrZero(d.value) = OrZero(Forked(r.key))
    PROVE  Right(bs, d)
<1>1. At(r) \in IF d.view = 0 THEN d.since..Len(bs) ELSE {d.view}
  BY DEF Known, At
<1> QED
  BY <1>1 DEF Right, ForkAnswers

-----------------------------------------------------------------------------
(* Who waits *)

WaitInv == ChannelInv /\ MapInv /\ InboxInv

\* A step that neither begins nor ends a wait leaves who waits known.
LEMMA WaitKept ==
    ASSUME WaitInv, UNCHANGED <<incoming, dedup, pending, answers, inbox>>,
           \A t \in Threads :
               /\ thread'[t].pc = "recv" <=> thread[t].pc = "recv"
               /\ thread[t].pc = "recv" => thread'[t].key = thread[t].key
    PROVE  WaitInv'
<1>1. \A t, key : Awaits(t, key) => Awaits(t, key)'
  BY DEF Awaits, RequestKey
<1>2. ChannelInv'
  BY <1>1 DEF WaitInv, ChannelInv
<1>3. MapInv'
  BY <1>1 DEF WaitInv, MapInv
<1>4. \A key : Senders(key)' = Senders(key)
  BY DEF Senders
<1>5. InboxInv'
  <2>1. inbox' = [t \in Threads |-> inbox'[t]]
    BY DEF WaitInv, InboxInv
  <2>2. ASSUME NEW t \in Threads, inbox'[t] # {}
        PROVE  /\ thread'[t].pc = "recv"
               /\ \A a \in inbox'[t] : a.ok => a.value = RemoteValue(RequestKey(thread'[t].key))
    BY <2>2 DEF WaitInv, InboxInv
  <2>3. ASSUME NEW t \in Threads, thread'[t].pc = "recv"
        PROVE  Found(t, RequestKey(thread[t].key))'
    <3>1. Found(t, RequestKey(thread[t].key)) /\ thread'[t].key = thread[t].key
      BY <2>3 DEF WaitInv, InboxInv
    <3> QED
      BY <1>4, <3>1 DEF Found
  <2> QED
    BY <2>1, <2>2, <2>3 DEF InboxInv
<1> QED
  BY <1>2, <1>3, <1>5 DEF WaitInv

\* A request that was sent waits in the channel.
LEMMA WaitSend ==
    ASSUME WaitInv, NEW t \in Threads, thread[t].pc = "send", thread'[t].pc = "recv",
           thread'[t].key = thread[t].key, RequestKey(thread[t].key) \in Keys,
           \A s \in Threads : s # t => thread'[s] = thread[s],
           RoomInChannel, incoming' = Append(incoming, [key |-> RequestKey(thread[t].key), sender |-> t]),
           UNCHANGED <<dedup, pending, answers, inbox>>
    PROVE  WaitInv'
<1>0. PICK request : request = [key |-> RequestKey(thread[t].key), sender |-> t]
  OBVIOUS
<1>1. request \in Requests /\ incoming \in Seq(Requests) /\ request.key = RequestKey(thread[t].key) /\ request.sender = t
  BY <1>0 DEF Requests, WaitInv, ChannelInv
<1>2. PICK l \in Nat : l = Len(incoming)
  BY <1>1
<1>3. /\ incoming' \in Seq(Requests) /\ Len(incoming') = l + 1 /\ DOMAIN incoming' = 1..(l + 1)
      /\ DOMAIN incoming = 1..l
      /\ incoming'[l + 1] = request /\ \A i \in 1..l : incoming'[i] = incoming[i]
  BY <1>0, <1>1, <1>2
<1>4. inbox[t] = {}
  BY DEF WaitInv, InboxInv
<1>5. \A s, key : Awaits(s, key) => s # t /\ Awaits(s, key)'
  BY DEF Awaits, RequestKey
<1>6. Awaits(t, request.key)'
  BY <1>1, <1>4 DEF Awaits, RequestKey
<1>7. \A key \in DOMAIN dedup : t \notin dedup[key]
  BY <1>5 DEF WaitInv, MapInv
<1>8. ChannelInv'
  <2>1. Len(incoming') <= Capacity
    <3>1. l < Capacity /\ Capacity \in Nat
      BY <1>2, ForkAssumption DEF RoomInChannel
    <3> QED
      BY <1>3, <3>1
  <2>2. ASSUME NEW i \in DOMAIN incoming'
        PROVE  /\ Awaits(incoming[i].sender, incoming[i].key)'
               /\ \A key \in DOMAIN dedup' : incoming'[i].sender \notin dedup'[key]
    <3>1. CASE i = l + 1
      BY <1>1, <1>3, <1>6, <1>7, <3>1
    <3>2. CASE i # l + 1
      <4>1. i \in DOMAIN incoming /\ incoming'[i] = incoming[i]
        BY <1>3, <2>2, <3>2
      <4>2. Awaits(incoming[i].sender, incoming[i].key) /\ \A key \in DOMAIN dedup : incoming[i].sender \notin dedup[key]
        BY <4>1 DEF WaitInv, ChannelInv
      <4> QED
        BY <1>5, <4>1, <4>2
    <3> QED
      BY <3>1, <3>2
  <2> QED
    BY <1>3, <2>1, <2>2 DEF ChannelInv
<1>9. MapInv'
  BY <1>5 DEF WaitInv, MapInv
<1>10. InboxInv'
  <2>1. inbox' = [s \in Threads |-> inbox'[s]]
    BY DEF WaitInv, InboxInv
  <2>2. ASSUME NEW s \in Threads, inbox'[s] # {}
        PROVE  /\ thread'[s].pc = "recv"
               /\ \A a \in inbox'[s] : a.ok => a.value = RemoteValue(RequestKey(thread'[s].key))
    BY <2>2 DEF WaitInv, InboxInv
  <2>3. ASSUME NEW s \in Threads, thread'[s].pc = "recv"
        PROVE  Found(s, RequestKey(thread[s].key))'
    <3>1. CASE s = t
      <4>1. l + 1 \in DOMAIN incoming' /\ incoming'[l + 1].key = RequestKey(thread'[t].key) /\ incoming'[l + 1].sender = t
        BY <1>1, <1>3 DEF RequestKey
      <4> QED
        BY <3>1, <4>1 DEF Senders, Found
    <3>2. CASE s # t
      <4>1. \A key : s \in Senders(key) => s \in Senders(key)'
        BY <1>3 DEF Senders
      <4> QED
        BY <2>3, <3>2, <4>1 DEF WaitInv, InboxInv, Found
    <3> QED
      BY <3>1, <3>2
  <2> QED
    BY <2>1, <2>2, <2>3 DEF InboxInv
<1> QED
  BY <1>8, <1>9, <1>10 DEF WaitInv

\* Who has its response waits no longer, and is nowhere else.
LEMMA WaitReceive ==
    ASSUME WaitInv, NEW t \in Threads, inbox[t] # {}, thread'[t].pc # "recv",
           \A s \in Threads : s # t => thread'[s] = thread[s],
           inbox' = [inbox EXCEPT ![t] = {}], UNCHANGED <<incoming, dedup, pending, answers>>
    PROVE  WaitInv'
<1>1. inbox = [s \in Threads |-> inbox[s]]
  BY DEF WaitInv, InboxInv
<1>2. inbox' = [s \in Threads |-> IF s = t THEN {} ELSE inbox[s]]
  BY <1>1
<1>3. inbox'[t] = {} /\ \A s \in Threads : s # t => inbox'[s] = inbox[s]
  BY <1>2
<1>4. \A s, key : Awaits(s, key) => Awaits(s, key)'
  BY <1>3 DEF Awaits, RequestKey
<1>5. ChannelInv'
  BY <1>4 DEF WaitInv, ChannelInv
<1>6. MapInv'
  BY <1>4 DEF WaitInv, MapInv
<1>7. \A key : Senders(key)' = Senders(key)
  BY DEF Senders
<1>8. InboxInv'
  <2>1. inbox' = [s \in Threads |-> inbox'[s]]
    BY <1>2
  <2>2. ASSUME NEW s \in Threads, inbox'[s] # {}
        PROVE  /\ thread'[s].pc = "recv"
               /\ \A a \in inbox'[s] : a.ok => a.value = RemoteValue(RequestKey(thread'[s].key))
    BY <1>3, <2>2 DEF WaitInv, InboxInv
  <2>3. ASSUME NEW s \in Threads, thread'[s].pc = "recv"
        PROVE  Found(s, RequestKey(thread[s].key))'
    <3>1. s # t /\ thread'[s] = thread[s] /\ inbox'[s] = inbox[s]
      BY <1>3, <2>3
    <3> QED
      BY <1>7, <2>3, <3>1 DEF WaitInv, InboxInv, Found
  <2> QED
    BY <2>1, <2>2, <2>3 DEF InboxInv
<1> QED
  BY <1>5, <1>6, <1>8 DEF WaitInv

\* An answer of the remote node, or its failure.
LEMMA WaitAnswer ==
    ASSUME WaitInv, NEW key \in Unanswered, NEW a, a.ok => a.value = RemoteValue(key),
           answers' = Upsert(answers, [k \in {key} |-> a]),
           UNCHANGED <<incoming, dedup, pending, inbox, thread>>
    PROVE  WaitInv'
<1>1. \A t, k : Awaits(t, k) => Awaits(t, k)'
  BY DEF Awaits, RequestKey
<1>2. ChannelInv'
  BY <1>1 DEF WaitInv, ChannelInv
<1>3. DOMAIN answers' = DOMAIN answers \cup {key}
  BY DEF Upsert
<1>4. answers'[key] = a /\ \A k \in DOMAIN answers : k # key => answers'[k] = answers[k]
  BY DEF Upsert
<1>5. key \in pending
  BY DEF Unanswered
<1>6. MapInv'
  BY <1>1, <1>3, <1>4, <1>5 DEF WaitInv, MapInv
<1>7. InboxInv'
  BY DEF WaitInv, InboxInv, Senders, Found
<1> QED
  BY <1>2, <1>6, <1>7 DEF WaitInv

\* A poll sends the answers to who waits for them and takes in the requests.
LEMMA WaitPoll ==
    ASSUME WaitInv, PollBackend
    PROVE  WaitInv'
<1> DEFINE kept == UnansweredDedup
<1>1. /\ DOMAIN kept = DOMAIN dedup \ DOMAIN answers
      /\ \A key \in DOMAIN kept : kept[key] = dedup[key]
  BY DEF UnansweredDedup
<1>2. /\ inbox' = [t \in Threads |->
              inbox[t] \cup {answers[key] : key \in {k \in DOMAIN answers : t \in dedup[k]}}]
      /\ DOMAIN answers' = {} /\ incoming' = <<>> /\ thread' = thread
      /\ DOMAIN dedup' = DOMAIN kept \cup Requested
      /\ \A key \in DOMAIN dedup' : dedup'[key] = (UNION Entry(kept, key)) \cup Senders(key)
      /\ pending' = (pending \ DOMAIN answers) \cup (Requested \ DOMAIN kept)
  BY DEF PollBackend, Empty, Waiters
<1> HIDE DEF kept
<1>3. \A key, s : s \in UNION Entry(kept, key) <=> key \in DOMAIN kept /\ s \in dedup[key]
  BY <1>1 DEF Entry
<1>4. \A key : \A s \in Senders(key) : Awaits(s, key) /\ \A k \in DOMAIN dedup : s \notin dedup[k]
  BY DEF Senders, WaitInv, ChannelInv
<1>5. \A key \in DOMAIN dedup : key \in Keys /\ \A s \in dedup[key] : Awaits(s, key)
  BY DEF WaitInv, MapInv
<1>6. \A key \in Requested : key \in Keys
  <2>1. incoming \in Seq(Requests)
    BY DEF WaitInv, ChannelInv
  <2>2. \A i \in DOMAIN incoming : incoming[i] \in Requests
    BY <2>1
  <2>3. \A i \in DOMAIN incoming : incoming[i].key \in Keys
    BY <2>2 DEF Requests
  <2> QED
    BY <2>3 DEF Requested
<1>7. \A key : \A s \in Senders(key) : key \in Requested
  BY DEF Senders, Requested
<1>8. DOMAIN answers \subseteq DOMAIN dedup
  BY DEF WaitInv, MapInv
<1>9. ASSUME NEW key, NEW s, Awaits(s, key), \A k \in DOMAIN answers : s \notin dedup[k]
      PROVE  Awaits(s, key)'
  <2>1. s \in Threads /\ inbox[s] = {}
    BY <1>9 DEF Awaits
  <2>2. inbox'[s] = {}
    BY <1>2, <1>9, <2>1
  <2> QED
    BY <1>2, <1>9, <2>2 DEF Awaits, RequestKey
<1>10. ASSUME NEW key \in DOMAIN kept, NEW s \in dedup[key] PROVE Awaits(s, key)'
  <2>1. Awaits(s, key)
    BY <1>1, <1>5, <1>10
  <2>2. ASSUME NEW k \in DOMAIN answers, s \in dedup[k] PROVE FALSE
    <3>1. Awaits(s, k)
      BY <1>5, <1>8, <2>2
    <3>2. k = key
      BY <2>1, <3>1 DEF Awaits
    <3> QED
      BY <1>1, <1>10, <2>2, <3>2
  <2> QED
    BY <1>9, <2>1, <2>2
<1>11. ASSUME NEW key, NEW s \in Senders(key) PROVE Awaits(s, key)'
  BY <1>4, <1>8, <1>9, <1>11
<1>12. ChannelInv'
  <2>1. incoming' \in Seq(Requests) /\ Len(incoming') = 0 /\ DOMAIN incoming' = {}
    BY <1>2
  <2> QED
    BY <2>1, ForkAssumption DEF ChannelInv
<1>13. MapInv'
  <2>1. DOMAIN answers' \subseteq pending' /\ pending' \subseteq DOMAIN dedup'
    <3>1. pending \subseteq DOMAIN dedup
      BY DEF WaitInv, MapInv
    <3> QED
      BY <1>1, <1>2, <3>1
  <2>2. ASSUME NEW key \in DOMAIN dedup'
        PROVE  key \in Keys /\ dedup'[key] \subseteq Threads /\ \A s \in dedup'[key] : Awaits(s, key)'
    <3>1. key \in Keys
      BY <1>1, <1>2, <1>5, <1>6
    <3>2. ASSUME NEW s \in dedup'[key] PROVE Awaits(s, key)' /\ s \in Threads
      <4>1. (key \in DOMAIN kept /\ s \in dedup[key]) \/ s \in Senders(key)
        <5>1. dedup'[key] = (UNION Entry(kept, key)) \cup Senders(key)
          BY <1>2, <2>2
        <5> QED
          BY <1>3, <3>2, <5>1
      <4>2. Awaits(s, key)'
        BY <1>10, <1>11, <4>1
      <4> QED
        BY <4>2 DEF Awaits
    <3> QED
      BY <3>1, <3>2
  <2>3. \A key \in DOMAIN answers' : answers'[key].ok => answers'[key].value = RemoteValue(key)
    BY <1>2
  <2> QED
    BY <2>1, <2>2, <2>3 DEF MapInv
<1>14. InboxInv'
  <2>1. inbox' = [s \in Threads |-> inbox'[s]]
    BY <1>2
  <2>2. ASSUME NEW s \in Threads, NEW a \in inbox'[s]
        PROVE  /\ thread'[s].pc = "recv"
               /\ a.ok => a.value = RemoteValue(RequestKey(thread'[s].key))
    <3>1. CASE a \in inbox[s]
      BY <1>2, <3>1 DEF WaitInv, InboxInv
    <3>2. CASE a \notin inbox[s]
      <4>1. PICK k \in DOMAIN answers : s \in dedup[k] /\ a = answers[k]
        BY <1>2, <2>2, <3>2
      <4>2. Awaits(s, k) /\ (a.ok => a.value = RemoteValue(k))
        BY <1>5, <1>8, <4>1 DEF WaitInv, MapInv
      <4> QED
        BY <1>2, <4>2 DEF Awaits
    <3> QED
      BY <3>1, <3>2
  <2>3. ASSUME NEW s \in Threads, thread'[s].pc = "recv"
        PROVE  Found(s, RequestKey(thread[s].key))'
    <3>1. PICK k : k = RequestKey(thread[s].key)
      OBVIOUS
    <3>2. k = RequestKey(thread'[s].key)
      BY <1>2, <3>1
    <3>3. inbox[s] # {} \/ s \in Senders(k) \/ (k \in DOMAIN dedup /\ s \in dedup[k])
      BY <1>2, <2>3, <3>1 DEF WaitInv, InboxInv, Found
    <3>4. inbox'[s] # {} \/ (k \in DOMAIN dedup' /\ s \in dedup'[k])
      <4>1. CASE inbox[s] # {}
        BY <1>2, <4>1
      <4>2. CASE s \in Senders(k)
        <5>1. k \in DOMAIN dedup'
          BY <1>2, <1>7, <4>2
        <5>2. dedup'[k] = (UNION Entry(kept, k)) \cup Senders(k)
          BY <1>2, <5>1
        <5> QED
          BY <4>2, <5>1, <5>2
      <4>3. CASE k \in DOMAIN dedup /\ s \in dedup[k] /\ k \in DOMAIN answers
        <5>1. answers[k] \in inbox'[s]
          BY <1>2, <4>3
        <5> QED
          BY <5>1
      <4>4. CASE k \in DOMAIN dedup /\ s \in dedup[k] /\ k \notin DOMAIN answers
        <5>1. k \in DOMAIN kept /\ k \in DOMAIN dedup'
          BY <1>1, <1>2, <4>4
        <5>2. dedup'[k] = (UNION Entry(kept, k)) \cup Senders(k) /\ s \in UNION Entry(kept, k)
          BY <1>2, <1>3, <4>4, <5>1
        <5> QED
          BY <5>1, <5>2
      <4> QED
        BY <3>3, <4>1, <4>2, <4>3, <4>4
    <3> QED
      BY <3>2, <3>4 DEF Found
  <2> QED
    BY <2>1, <2>2, <2>3 DEF InboxInv
<1> QED
  BY <1>12, <1>13, <1>14 DEF WaitInv

-----------------------------------------------------------------------------
(* The invariant is inductive *)

\* The state of the blocks.
StateInv == BlocksType /\ HistoryType /\ LayersInv

\* It does not change where the blocks do not.
LEMMA StateKept ==
    ASSUME StateInv, UNCHANGED stateVars
    PROVE  StateInv'
BY DEF StateInv, BlocksType, HistoryType, LayersInv, stateVars

\* A reader that is past the local layer: the blocks are known and it is about one of them.
LEMMA ReaderIs ==
    ASSUME NEW bs, NEW r, Reader(bs, r)
    PROVE  /\ r.pc \in {"cache", "send", "recv"} => Known(bs, r) /\ ForkAnswers(bs, r) /\ r = Read(r.pc, r)
           /\ r.pc = "store" => Known(bs, r) /\ ForkAnswers(bs, r) /\ r.value = Forked(r.key)
BY DEF Reader, Idle

\* The forked network without a local block.
LEMMA InitStep ==
    ASSUME Init
    PROVE  ForkInv
<1>1. \A x, field : NamedIn(blocks, 0, x, field) = {}
  BY DEF NamedIn
<1>2. \A x, field : ValueIn(blocks, 0, x, field) = {}
  BY <1>1, ValueNamed
<1>3. \A x : Entry(Empty, x) = {}
  BY DEF Entry, Empty
<1>4. blocks = <<>> /\ snapshots = <<>> /\ present = <<>> /\ history \in Histories /\ limit = HistoryLimit
  BY DEF Init
<1>5. Len(blocks) = 0 /\ Len(snapshots) = 0 /\ Len(present) = 0 /\ DOMAIN present = {}
  BY <1>4
<1>6. BlocksType
  <2>1. blocks \in Seq(Updates) /\ present \in Seq(Nat) /\ snapshots \in Seq({snapshots[i] : i \in DOMAIN snapshots})
    BY <1>4
  <2>2. history \in Seq(Updates) /\ limit \in MinHistoryLimit..HistoryLimit
    BY <1>4, UpdatesAssumption, ForkAssumption
  <2> QED
    BY <1>5, <2>1, <2>2 DEF BlocksType
<1>7. HistoryType
  <2>1. MinHistoryLimit \in Nat \ {0} /\ HistoryLimit \in Nat
    BY ForkAssumption
  <2> QED
    BY <1>4, <1>5, <2>1 DEF HistoryType
<1>8. LayersInv
  <2>1. local = NewStateDb /\ classes = {}
    BY DEF Init
  <2>2. Layer(local, blocks, 0) /\ DOMAIN local.compiled = {}
    BY <1>2, <1>3, <2>1 DEF Layer, NewStateDb, Empty
  <2> QED
    BY <1>5, <2>1, <2>2 DEF LayersInv
<1>9. CacheInv(cache)
  <2>1. cache = [nonce |-> Empty, class_hash |-> Empty, storage |-> Empty, compiled |-> {}, classes |-> {}]
    BY DEF Init
  <2> QED
    BY <1>3, <2>1 DEF CacheInv, Fetched, FetchedStorage
<1>10. ReadersInv
  BY DEF Init, ReadersInv, Reader
<1>11. thread = [t \in Threads |-> Idle] /\ inbox = [t \in Threads |-> {}] /\ incoming = <<>>
       /\ DOMAIN dedup = {} /\ DOMAIN answers = {} /\ pending = {}
  BY DEF Init, Empty
<1>12. ChannelInv
  <2>1. incoming \in Seq(Requests) /\ Len(incoming) = 0 /\ DOMAIN incoming = {}
    BY <1>11
  <2> QED
    BY <2>1, ForkAssumption DEF ChannelInv
<1>13. MapInv
  BY <1>11 DEF MapInv
<1>14. InboxInv
  BY <1>11 DEF InboxInv, Idle
<1> QED
  BY <1>6, <1>7, <1>8, <1>9, <1>10, <1>12, <1>13, <1>14 DEF ForkInv

\* A block is inserted while others read.
LEMMA InsertBlockStep ==
    ASSUME ForkInv, InsertBlock
    PROVE  ForkInv'
<1>1. BlocksType /\ HistoryType /\ LayersInv /\ CacheInv(cache) /\ ReadersInv /\ WaitInv
  BY DEF ForkInv, WaitInv
<1>2. /\ BlocksType' /\ LayersInv' /\ Same(blocks', blocks, Len(blocks)) /\ Len(blocks') = Len(blocks) + 1
  BY <1>1, InsertStep
<1>3. HistoryType'
  BY <1>1, HistoryStep
<1>4. UNCHANGED <<incoming, dedup, pending, answers, inbox, cache, thread>>
  BY DEF InsertBlock, backendVars
<1>5. WaitInv'
  BY <1>1, <1>4, WaitKept
<1>6. ReadersInv'
  <2>1. \A t \in Threads : Reader(blocks, thread[t])
    BY <1>1 DEF ReadersInv
  <2>2. ASSUME NEW t \in Threads PROVE Reader(blocks', thread[t])
    BY <1>2, <2>1, ReaderKept
  <2> QED
    BY <1>1, <1>4, <2>2 DEF ReadersInv
<1> QED
  BY <1>1, <1>2, <1>3, <1>4, <1>5, <1>6 DEF ForkInv, WaitInv

\* The local layer of the view a read takes answers it, or leaves it to the forked state.
LEMMA ViewAnswers ==
    ASSUME StateInv, NEW view \in Views, NEW key \in Reads, NEW hit,
           hit = IF view = 0 THEN LocalRead(local, key) ELSE SnapshotRead(view, key)
    PROVE  LET n == IF view = 0 THEN Len(blocks) ELSE view
           IN  /\ view \in 0..Len(blocks)
               /\ hit # {} => OrZero(hit) = ExpectedIn(blocks, n, key) \/ ReplacedIn(blocks, n, key)
               /\ hit = {} => ExpectedIn(blocks, n, key) = OrZero(Forked(key))
<1>1. PICK l \in Nat : l = Len(blocks)
  BY DEF StateInv, BlocksType
<1>2. view \in 0..l
  <2>1. CASE view = 0
    BY <2>1
  <2>2. CASE view # 0
    <3>1. PICK i \in DOMAIN present : view = present[i]
      BY <2>2 DEF Views
    <3>2. PICK p \in Nat : p = Len(present)
      BY DEF StateInv, BlocksType
    <3>3. i \in 1..p /\ p <= l
      BY <1>1, <3>2 DEF StateInv, BlocksType
    <3>4. view = l - p + i
      BY <1>1, <3>1, <3>2 DEF StateInv, HistoryType
    <3> QED
      BY <3>3, <3>4
  <2> QED
    BY <2>1, <2>2
<1>3. key \in Keys /\ blocks \in Seq(Updates)
  BY ReadKeys DEF StateInv, BlocksType
<1>4. CASE view = 0
  <2>1. hit = LayerRead(local, key)
    <3>1. DOMAIN local.compiled = classes
      BY DEF StateInv, LayersInv
    <3> QED
      BY <1>4, <3>1 DEF LocalRead, LayerRead
  <2>2. LayerAnswers(local, blocks, l, key)
    BY <1>1, <1>3, LayerExact DEF StateInv, LayersInv
  <2> QED
    BY <1>1, <1>2, <1>4, <2>1, <2>2 DEF LayerAnswers
<1>5. CASE view # 0
  <2>1. view \in 1..l
    BY <1>2, <1>5
  <2>2. DOMAIN snapshots[view].compiled \subseteq classes /\ Layer(snapshots[view], blocks, view)
    BY <1>1, <2>1 DEF StateInv, LayersInv
  <2>3. hit = LayerRead(snapshots[view], key)
    BY <1>3, <1>5, <2>2, KeyCases DEF SnapshotRead, LocalRead, LayerRead, Kinds
  <2>4. LayerAnswers(snapshots[view], blocks, view, key)
    BY <1>1, <1>2, <1>3, <2>2, LayerExact
  <2> QED
    BY <1>1, <1>2, <1>5, <2>3, <2>4 DEF LayerAnswers
<1> QED
  BY <1>4, <1>5

\* A read looks at the local layer.
LEMMA ReadLocalStep ==
    ASSUME ForkInv, NEW t \in Threads, ReadLocal(t)
    PROVE  ForkInv'
<1>1. StateInv /\ CacheInv(cache) /\ ReadersInv /\ WaitInv
  BY DEF ForkInv, WaitInv, StateInv
<1>2. PICK view \in Views, key \in Reads :
          LET hit == IF view = 0 THEN LocalRead(local, key) ELSE SnapshotRead(view, key)
          IN  thread' = [thread EXCEPT ![t] =
                  IF hit # {}
                  THEN [pc |-> "done", view |-> view, key |-> key, since |-> Len(blocks),
                        ok |-> TRUE, value |-> hit]
                  ELSE [pc |-> "cache", view |-> view, key |-> key, since |-> Len(blocks)]]
  BY DEF ReadLocal
<1>3. PICK hit : hit = IF view = 0 THEN LocalRead(local, key) ELSE SnapshotRead(view, key)
  OBVIOUS
<1>4. PICK q : q = [pc |-> "cache", view |-> view, key |-> key, since |-> Len(blocks)]
  OBVIOUS
<1>5. PICK d : d = [pc |-> "done", view |-> view, key |-> key, since |-> Len(blocks), ok |-> TRUE, value |-> hit]
  OBVIOUS
<1>6. PICK r : r = IF hit # {} THEN d ELSE q
  OBVIOUS
<1>7. thread' = [thread EXCEPT ![t] = r]
  BY <1>2, <1>3, <1>4, <1>5, <1>6
<1>8. /\ view \in 0..Len(blocks)
      /\ hit # {} => OrZero(hit) = ExpectedIn(blocks, IF view = 0 THEN Len(blocks) ELSE view, key)
                     \/ ReplacedIn(blocks, IF view = 0 THEN Len(blocks) ELSE view, key)
      /\ hit = {} => ExpectedIn(blocks, IF view = 0 THEN Len(blocks) ELSE view, key) = OrZero(Forked(key))
  BY <1>1, <1>3, ViewAnswers
<1>9. Len(blocks) \in Nat
  BY <1>1 DEF StateInv, BlocksType
<1>10. Known(blocks, q) /\ Known(blocks, d)
  BY <1>4, <1>5, <1>8, <1>9 DEF Known
<1>11. Reader(blocks, r)
  <2>1. CASE hit = {}
    <3>1. ForkAnswers(blocks, q)
      BY <1>4, <1>8, <2>1 DEF ForkAnswers, At
    <3>2. Read("cache", q) = q
      BY <1>4 DEF Read
    <3>3. Reader(blocks, q)
      BY <1>10, <3>1, <3>2, MakeReader
    <3> QED
      BY <1>6, <2>1, <3>3
  <2>2. CASE hit # {}
    <3>1. Right(blocks, d)
      BY <1>5, <1>8, <1>9, <2>2 DEF Right
    <3>2. Reader(blocks, d)
      BY <1>5, <1>10, <3>1 DEF Reader
    <3> QED
      BY <1>6, <2>2, <3>2
  <2> QED
    BY <2>1, <2>2
<1>12. UNCHANGED <<stateVars, cache, incoming, dedup, pending, answers, inbox>> /\ blocks' = blocks /\ thread[t] = Idle
  BY DEF ReadLocal, backendVars, stateVars
<1>13. ReadersInv' /\ thread'[t] = r /\ \A s \in Threads : s # t => thread'[s] = thread[s]
  BY <1>1, <1>7, <1>11, <1>12, ReadersStep
<1>14. r.pc # "recv" /\ thread[t].pc # "recv"
  BY <1>4, <1>5, <1>6, <1>12 DEF Idle
<1>15. WaitInv'
  BY <1>1, <1>12, <1>13, <1>14, WaitKept
<1>16. StateInv'
  BY <1>1, <1>12, StateKept
<1> QED
  BY <1>1, <1>12, <1>13, <1>15, <1>16 DEF ForkInv, WaitInv, StateInv

\* A read looks at the cache.
LEMMA ReadCacheStep ==
    ASSUME ForkInv, NEW t \in Threads, ReadCache(t)
    PROVE  ForkInv'
<1>1. StateInv /\ CacheInv(cache) /\ ReadersInv /\ WaitInv
  BY DEF ForkInv, WaitInv, StateInv
<1>2. PICK r : r = thread[t]
  OBVIOUS
<1>3. r.pc = "cache" /\ Known(blocks, r) /\ ForkAnswers(blocks, r) /\ r = Read(r.pc, r)
  BY <1>1, <1>2, ReaderIs DEF ReadCache, ReadersInv
<1>4. Len(blocks) \in Nat /\ r.key \in Keys
  BY <1>1, <1>3, ReadKeys DEF StateInv, BlocksType, Known
<1>5. PICK hit : hit = CacheRead(r.key)
  OBVIOUS
<1>6. PICK d : d = [pc |-> "done", view |-> r.view, key |-> r.key, since |-> r.since, ok |-> TRUE, value |-> hit]
  OBVIOUS
<1>7. thread' = [thread EXCEPT ![t] = IF hit # {} THEN d ELSE Read("send", r)]
  <2>1. thread = [s \in Threads |-> thread[s]]
    BY <1>1 DEF ReadersInv
  <2>2. CASE hit # {}
    BY <1>2, <1>5, <1>6, <2>1, <2>2 DEF ReadCache, Return
  <2>3. CASE hit = {}
    <3>1. [r EXCEPT !.pc = "send"] = Read("send", r)
      BY <1>3 DEF Read
    <3> QED
      BY <1>2, <1>5, <2>1, <2>3, <3>1 DEF ReadCache, Go
  <2> QED
    BY <2>2, <2>3
<1>8. PICK q : q = IF hit # {} THEN d ELSE Read("send", r)
  OBVIOUS
<1>9. Reader(blocks, q)
  <2>1. CASE hit = {}
    BY <1>3, <1>8, <2>1, MakeReader
  <2>2. CASE hit # {}
    <3>1. OrZero(d.value) = OrZero(Forked(r.key))
      BY <1>1, <1>4, <1>5, <1>6, <2>2, CacheExact
    <3>2. Right(blocks, d)
      BY <1>3, <1>4, <1>6, <3>1, ForkRight
    <3>3. Reader(blocks, d)
      BY <1>3, <1>6, <3>2 DEF Reader, Known
    <3> QED
      BY <1>8, <2>2, <3>3
  <2> QED
    BY <2>1, <2>2
<1>10. UNCHANGED <<stateVars, cache, incoming, dedup, pending, answers, inbox>> /\ blocks' = blocks
  BY DEF ReadCache, backendVars, stateVars
<1>11. ReadersInv' /\ thread'[t] = q /\ \A s \in Threads : s # t => thread'[s] = thread[s]
  BY <1>1, <1>7, <1>8, <1>9, <1>10, ReadersStep
<1>12. q.pc # "recv" /\ thread[t].pc # "recv"
  BY <1>2, <1>3, <1>6, <1>8 DEF Read
<1>13. WaitInv'
  BY <1>1, <1>10, <1>11, <1>12, WaitKept
<1>14. StateInv'
  BY <1>1, <1>10, StateKept
<1> QED
  BY <1>1, <1>10, <1>11, <1>13, <1>14 DEF ForkInv, WaitInv, StateInv

\* A request is sent, or the channel is full.
LEMMA SendStep ==
    ASSUME ForkInv, NEW t \in Threads, Send(t)
    PROVE  ForkInv'
<1>1. StateInv /\ CacheInv(cache) /\ ReadersInv /\ WaitInv
  BY DEF ForkInv, WaitInv, StateInv
<1>2. PICK r : r = thread[t]
  OBVIOUS
<1>3. r.pc = "send" /\ Known(blocks, r) /\ ForkAnswers(blocks, r) /\ r = Read(r.pc, r)
  BY <1>1, <1>2, ReaderIs DEF Send, ReadersInv
<1>4. RequestKey(r.key) \in Keys
  BY <1>3, ReadKeys DEF Known
<1>5. UNCHANGED <<stateVars, cache, dedup, pending, answers, inbox>> /\ blocks' = blocks
  BY DEF Send, stateVars
<1>6. StateInv'
  BY <1>1, <1>5, StateKept
<1>7. thread = [s \in Threads |-> thread[s]]
  BY <1>1 DEF ReadersInv
<1>8. CASE RoomInChannel
  <2>1. PICK q : q = Read("recv", r)
    OBVIOUS
  <2>2. thread' = [thread EXCEPT ![t] = q]
    <3>1. [r EXCEPT !.pc = "recv"] = q
      BY <1>3, <2>1 DEF Read
    <3> QED
      BY <1>2, <1>7, <1>8, <3>1 DEF Send, Go
  <2>3. Reader(blocks, q) /\ q.pc = "recv" /\ q.key = r.key
    BY <1>3, <2>1, MakeReader DEF Read
  <2>4. ReadersInv' /\ thread'[t] = q /\ \A s \in Threads : s # t => thread'[s] = thread[s]
    BY <1>1, <1>5, <2>2, <2>3, ReadersStep
  <2>5. incoming' = Append(incoming, [key |-> RequestKey(thread[t].key), sender |-> t])
    BY <1>8 DEF Send
  <2>6. WaitInv'
    BY <1>1, <1>2, <1>3, <1>4, <1>5, <1>8, <2>3, <2>4, <2>5, WaitSend
  <2> QED
    BY <1>1, <1>5, <1>6, <2>4, <2>6 DEF ForkInv, WaitInv, StateInv
<1>9. CASE ~RoomInChannel
  <2>1. PICK d : d = [pc |-> "done", view |-> r.view, key |-> r.key, since |-> r.since, ok |-> FALSE, value |-> {}]
    OBVIOUS
  <2>2. thread' = [thread EXCEPT ![t] = d] /\ incoming' = incoming
    BY <1>2, <1>7, <1>9, <2>1 DEF Send, Return
  <2>3. Reader(blocks, d) /\ d.pc = "done"
    BY <1>3, <2>1 DEF Reader, Known
  <2>4. ReadersInv' /\ thread'[t] = d /\ \A s \in Threads : s # t => thread'[s] = thread[s]
    BY <1>1, <1>5, <2>2, <2>3, ReadersStep
  <2>5. WaitInv'
    BY <1>1, <1>2, <1>3, <1>5, <2>2, <2>3, <2>4, WaitKept
  <2> QED
    BY <1>1, <1>5, <1>6, <2>4, <2>5 DEF ForkInv, WaitInv, StateInv
<1> QED
  BY <1>8, <1>9

\* A response arrives.
LEMMA ReceiveStep ==
    ASSUME ForkInv, NEW t \in Threads, Receive(t)
    PROVE  ForkInv'
<1>1. StateInv /\ CacheInv(cache) /\ ReadersInv /\ WaitInv
  BY DEF ForkInv, WaitInv, StateInv
<1>2. PICK r : r = thread[t]
  OBVIOUS
<1>3. r.pc = "recv" /\ Known(blocks, r) /\ ForkAnswers(blocks, r)
  BY <1>1, <1>2, ReaderIs DEF Receive, ReadersInv
<1>4. UNCHANGED <<stateVars, cache, incoming, dedup, pending, answers>> /\ blocks' = blocks
      /\ inbox' = [inbox EXCEPT ![t] = {}] /\ inbox[t] # {}
  BY DEF Receive, stateVars, backendVars
<1>5. StateInv'
  BY <1>1, <1>4, StateKept
<1>6. thread = [s \in Threads |-> thread[s]]
  BY <1>1 DEF ReadersInv
<1>7. PICK a \in inbox[t] :
          IF a.ok
          THEN thread' = [thread EXCEPT ![t] = [pc |-> "store", view |-> @.view, key |-> @.key,
                             since |-> @.since,
                             value |-> IF @.key.kind = "compiled"
                                       THEN {Remote.compiled[h] : h \in a.value}
                                       ELSE a.value]]
          ELSE Return(t, FALSE, {})
  BY DEF Receive
<1>8. \E q : Reader(blocks, q) /\ q.pc # "recv" /\ thread' = [thread EXCEPT ![t] = q]
  <2>1. CASE a.ok
    <3>1. PICK value : value = IF r.key.kind = "compiled" THEN {Remote.compiled[h] : h \in a.value} ELSE a.value
      OBVIOUS
    <3>2. a.value = RemoteValue(RequestKey(r.key))
      BY <1>1, <1>2, <1>4, <2>1 DEF WaitInv, InboxInv
    <3>3. value = Forked(r.key)
      <4>1. r.key \in Keys
        BY <1>3, ReadKeys DEF Known
      <4>2. CASE r.key.kind = "compiled"
        <5>1. RequestKey(r.key) = [kind |-> "class", id |-> r.key.id]
          BY <4>1, <4>2, KeyCases DEF RequestKey
        <5>2. a.value = {r.key.id} \cap DOMAIN Remote.compiled
          BY <3>2, <5>1 DEF RemoteValue
        <5> QED
          BY <3>1, <4>2, <5>2 DEF Forked, Entry
      <4>3. CASE r.key.kind # "compiled"
        BY <3>1, <3>2, <4>3 DEF Forked, RequestKey
      <4> QED
        BY <4>2, <4>3
    <3>4. PICK q : q = [pc |-> "store", view |-> r.view, key |-> r.key, since |-> r.since, value |-> value]
      OBVIOUS
    <3>5. Reader(blocks, q) /\ q.pc = "store"
      BY <1>3, <3>3, <3>4, MakeReader
    <3>6. thread' = [thread EXCEPT ![t] = q]
      BY <1>2, <1>6, <1>7, <2>1, <3>1, <3>4
    <3> QED
      BY <3>5, <3>6
  <2>2. CASE ~a.ok
    <3>1. PICK d : d = [pc |-> "done", view |-> r.view, key |-> r.key, since |-> r.since, ok |-> FALSE, value |-> {}]
      OBVIOUS
    <3>2. thread' = [thread EXCEPT ![t] = d]
      BY <1>2, <1>6, <1>7, <2>2, <3>1 DEF Return
    <3>3. Reader(blocks, d) /\ d.pc = "done"
      BY <1>3, <3>1 DEF Reader, Known
    <3> QED
      BY <3>2, <3>3
  <2> QED
    BY <2>1, <2>2
<1>9. PICK q : Reader(blocks, q) /\ q.pc # "recv" /\ thread' = [thread EXCEPT ![t] = q]
  BY <1>8
<1>10. ReadersInv' /\ thread'[t] = q /\ \A s \in Threads : s # t => thread'[s] = thread[s]
  BY <1>1, <1>4, <1>9, ReadersStep
<1>11. WaitInv'
  BY <1>1, <1>4, <1>9, <1>10, WaitReceive
<1> QED
  BY <1>1, <1>4, <1>5, <1>10, <1>11 DEF ForkInv, WaitInv, StateInv

\* What was fetched is stored and returned.
LEMMA StoreStep ==
    ASSUME ForkInv, NEW t \in Threads, Store(t)
    PROVE  ForkInv'
<1>1. StateInv /\ CacheInv(cache) /\ ReadersInv /\ WaitInv
  BY DEF ForkInv, WaitInv, StateInv
<1>2. PICK r : r = thread[t]
  OBVIOUS
<1>3. r.pc = "store" /\ Known(blocks, r) /\ ForkAnswers(blocks, r) /\ r.value = Forked(r.key)
  BY <1>1, <1>2, ReaderIs DEF Store, ReadersInv
<1>4. Len(blocks) \in Nat /\ r.key \in Keys
  BY <1>1, <1>3, ReadKeys DEF StateInv, BlocksType, Known
<1>5. CacheInv(cache')
  BY <1>1, <1>2, <1>3, <1>4, CacheStored DEF Store
<1>6. PICK d : d = [pc |-> "done", view |-> r.view, key |-> r.key, since |-> r.since, ok |-> TRUE, value |-> r.value]
  OBVIOUS
<1>7. thread' = [thread EXCEPT ![t] = d]
  <2>1. thread = [s \in Threads |-> thread[s]]
    BY <1>1 DEF ReadersInv
  <2> QED
    BY <1>2, <1>6, <2>1 DEF Store, Return
<1>8. Reader(blocks, d) /\ d.pc = "done"
  <2>1. Right(blocks, d)
    BY <1>3, <1>4, <1>6, ForkRight
  <2> QED
    BY <1>3, <1>6, <2>1 DEF Reader, Known
<1>9. UNCHANGED <<stateVars, incoming, dedup, pending, answers, inbox>> /\ blocks' = blocks
  BY DEF Store, backendVars, stateVars
<1>10. ReadersInv' /\ thread'[t] = d /\ \A s \in Threads : s # t => thread'[s] = thread[s]
  BY <1>1, <1>7, <1>8, <1>9, ReadersStep
<1>11. WaitInv'
  BY <1>1, <1>2, <1>3, <1>8, <1>9, <1>10, WaitKept
<1>12. StateInv'
  BY <1>1, <1>9, StateKept
<1> QED
  BY <1>5, <1>10, <1>11, <1>12 DEF ForkInv, WaitInv, StateInv

\* A read is over.
LEMMA EndStep ==
    ASSUME ForkInv, NEW t \in Threads, End(t)
    PROVE  ForkInv'
<1>1. StateInv /\ CacheInv(cache) /\ ReadersInv /\ WaitInv
  BY DEF ForkInv, WaitInv, StateInv
<1>2. thread' = [thread EXCEPT ![t] = Idle] /\ thread[t].pc = "done"
      /\ UNCHANGED <<stateVars, cache, incoming, dedup, pending, answers, inbox>> /\ blocks' = blocks
  BY DEF End, backendVars, stateVars
<1>3. Reader(blocks, Idle) /\ Idle.pc = "idle"
  BY DEF Reader, Idle
<1>4. ReadersInv' /\ thread'[t] = Idle /\ \A s \in Threads : s # t => thread'[s] = thread[s]
  BY <1>1, <1>2, <1>3, ReadersStep
<1>5. WaitInv'
  BY <1>1, <1>2, <1>3, <1>4, WaitKept
<1>6. StateInv'
  BY <1>1, <1>2, StateKept
<1> QED
  BY <1>1, <1>2, <1>4, <1>5, <1>6 DEF ForkInv, WaitInv, StateInv

\* The remote node answers or fails, and the backend is polled.
LEMMA BackendStep ==
    ASSUME ForkInv, Answer \/ Fail \/ PollBackend
    PROVE  ForkInv'
<1>1. StateInv /\ CacheInv(cache) /\ ReadersInv /\ WaitInv
  BY DEF ForkInv, WaitInv, StateInv
<1>2. UNCHANGED <<stateVars, cache, thread>>
  BY DEF Answer, Fail, PollBackend
<1>3. StateInv' /\ ReadersInv' /\ CacheInv(cache')
  <2>1. StateInv'
    BY <1>1, <1>2, StateKept
  <2>2. ReadersInv'
    BY <1>1, <1>2 DEF ReadersInv, stateVars
  <2> QED
    BY <1>1, <1>2, <2>1, <2>2
<1>4. WaitInv'
  <2>1. CASE Answer
    <3>1. PICK key \in Unanswered :
              /\ answers' = Upsert(answers, [k \in {key} |-> [ok |-> TRUE, value |-> RemoteValue(key)]])
              /\ UNCHANGED <<incoming, dedup, pending, inbox, thread>>
      BY <2>1 DEF Answer
    <3>2. PICK a : a = [ok |-> TRUE, value |-> RemoteValue(key)]
      OBVIOUS
    <3>3. (a.ok => a.value = RemoteValue(key)) /\ answers' = Upsert(answers, [k \in {key} |-> a])
      BY <3>1, <3>2
    <3> QED
      BY <1>1, <3>1, <3>3, WaitAnswer
  <2>2. CASE Fail
    <3>1. PICK key \in Unanswered :
              /\ answers' = Upsert(answers, [k \in {key} |-> [ok |-> FALSE, value |-> {}]])
              /\ UNCHANGED <<incoming, dedup, pending, inbox, thread>>
      BY <2>2 DEF Fail
    <3>2. PICK a : a = [ok |-> FALSE, value |-> {}]
      OBVIOUS
    <3>3. (a.ok => a.value = RemoteValue(key)) /\ answers' = Upsert(answers, [k \in {key} |-> a])
      BY <3>1, <3>2
    <3> QED
      BY <1>1, <3>1, <3>3, WaitAnswer
  <2>3. CASE PollBackend
    BY <1>1, <2>3, WaitPoll
  <2> QED
    BY <2>1, <2>2, <2>3
<1> QED
  BY <1>3, <1>4 DEF ForkInv, WaitInv, StateInv

\* Nothing happens.
LEMMA StutterStep ==
    ASSUME ForkInv, UNCHANGED vars
    PROVE  ForkInv'
<1>1. StateInv /\ CacheInv(cache) /\ ReadersInv /\ WaitInv
  BY DEF ForkInv, WaitInv, StateInv
<1>2. UNCHANGED <<stateVars, cache, thread, incoming, dedup, pending, answers, inbox>> /\ blocks' = blocks
  BY DEF vars, backendVars, stateVars
<1>3. WaitInv'
  BY <1>1, <1>2, WaitKept
<1>4. StateInv'
  BY <1>1, <1>2, StateKept
<1>5. ReadersInv' /\ CacheInv(cache')
  BY <1>1, <1>2 DEF ReadersInv
<1> QED
  BY <1>3, <1>4, <1>5 DEF ForkInv, WaitInv, StateInv

-----------------------------------------------------------------------------

\* The layers, the cache, the readers and the backend agree in every reachable state:
\* whatever the local blocks, the remote state, the number of readers and the failures
\* of the remote node (ForkedStateDb, SharedStateProvider, Backend).
THEOREM LayersAgree == Spec => []ForkInv
<1>1. Init => ForkInv
  BY InitStep
<1>2. ForkInv /\ [Next]_vars => ForkInv'
  BY InsertBlockStep, ReadLocalStep, ReadCacheStep, SendStep, ReceiveStep, StoreStep, EndStep,
     BackendStep, StutterStep DEF Next, Step
<1> QED
  BY <1>1, <1>2, PTL DEF Spec

\* Who waits for a response is in the channel, in the map or has it, and the structures
\* keep their types (dedup_request, the poll of Backend, HistoricalStates::insert).
THEOREM WaitersStayKnown == Spec => []WaitersKnown
<1>1. ForkInv => WaitersKnown
  <2> SUFFICES ASSUME ForkInv PROVE WaitersKnown
    OBVIOUS
  <2>1. TypeInv
    BY DEF ForkInv, TypeInv, BlocksType, ChannelInv, MapInv
  <2>2. ASSUME NEW t \in Threads, thread[t].pc = "recv"
        PROVE  \/ inbox[t] # {}
               \/ t \in Senders(RequestKey(thread[t].key))
               \/ \E key \in DOMAIN dedup : key = RequestKey(thread[t].key) /\ t \in dedup[key]
    BY <2>2 DEF ForkInv, InboxInv, Found
  <2> QED
    BY <2>1, <2>2 DEF WaitersKnown
<1> QED
  BY <1>1, LayersAgree, PTL

\* A read that does not fail returns the value at its block, whichever layer answers it
\* and whatever is inserted, fetched or cached meanwhile (ForkedStateDb, ForkedSnapshot,
\* SharedStateProvider).
THEOREM ReadsStayExact == Spec => []ReadsExact
<1>1. ForkInv => ReadsExact
  <2> SUFFICES ASSUME ForkInv, NEW t \in Threads, thread[t].pc = "done", thread[t].ok
               PROVE  \E n \in IF thread[t].view = 0 THEN thread[t].since..Len(blocks) ELSE {thread[t].view} :
                          \/ OrZero(thread[t].value) = Expected(n, thread[t].key)
                          \/ Replaced(n, thread[t].key)
    BY DEF ReadsExact
  <2>1. Reader(blocks, thread[t])
    BY DEF ForkInv, ReadersInv
  <2>2. Known(blocks, thread[t]) /\ Right(blocks, thread[t])
    BY <2>1 DEF Reader, Idle
  <2>3. thread[t].key \in Keys
    BY <2>2, ReadKeys DEF Known
  <2>4. PICK n \in IF thread[t].view = 0 THEN thread[t].since..Len(blocks) ELSE {thread[t].view} :
            \/ OrZero(thread[t].value) = ExpectedIn(blocks, n, thread[t].key)
            \/ ReplacedIn(blocks, n, thread[t].key)
    BY <2>2 DEF Right
  <2>5. Expected(n, thread[t].key) = ExpectedIn(blocks, n, thread[t].key)
    BY <2>3, ExpectedIs
  <2>6. ReplacedIn(blocks, n, thread[t].key) => Replaced(n, thread[t].key)
    BY DEF ReplacedIn, Replaced
  <2> QED
    BY <2>4, <2>5, <2>6
<1> QED
  BY <1>1, LayersAgree, PTL
=============================================================================
