---------------------------- MODULE ModelStorage ----------------------------
(***************************************************************************)
(* The records of one model in the storage of a dojo world. A contract     *)
(* writes, reads and erases records with the layout it was compiled with;  *)
(* the owner of the model may upgrade it while contracts compiled against  *)
(* an earlier version go on. A transaction is one step; a panic reverts    *)
(* it. Permissions are those of the module World and are not repeated.     *)
(*                                                                         *)
(* The storage is a function of the slots that are not zero. A slot is a   *)
(* path, the chunk and the index in the chunk; the path stands for the     *)
(* hash of the model, the entity and the selectors down to the field.      *)
(***************************************************************************)
EXTENDS Layouts, Functions

CONSTANTS
    Entities,   \* the entity ids, by the name of the model
    Versions,   \* the candidate types of each model, a sequence by its name
    Chunk,      \* the felts of a storage segment, 256
    Samples,    \* the values of a primitive that are written, by its name
    Texts,      \* the ByteArrays that are written
    MaxItems,   \* bound: the items of an array that is written
    Unset       \* no value was ever written

ASSUME StorageAssumption ==
    /\ Chunk \in Nat \ {0}
    /\ \A m \in DOMAIN Versions : \A i \in DOMAIN Versions[m] : Versions[m][i].kind = "struct"

VARIABLES
    model,     \* the name of the model
    current,   \* the version that the world has registered
    clients,   \* the versions some deployed contract was compiled with
    store,     \* the storage of the world
    record     \* history: what was written, by entity

vars == <<model, current, clients, store, record>>
-----------------------------------------------------------------------------
(* Slots.                                                                  *)

\* get_storage_key and the address of felt i from it.
Slot(path, i) == <<path, i \div Chunk, i % Chunk>>

Put(st, path, felts) ==
    LET written == [i \in 0..(Len(felts) - 1) |-> Slot(path, i)]
        new     == [s \in DOMAIN st \cup Range(written) |->
                        IF s[1] = path /\ s[2] * Chunk + s[3] < Len(felts)
                        THEN felts[s[2] * Chunk + s[3] + 1] ELSE st[s]]
    IN Restrict(new, {s \in DOMAIN new : new[s] # 0})

Get(st, path, n) ==
    [i \in 1..n |-> LET s == Slot(path, i - 1) IN IF s \in DOMAIN st THEN st[s] ELSE 0]

\* database::get: the values of a fixed layout.
GetValues(st, path, bits) == Unpack(Get(st, path, PackedSize(bits)), bits)

\* database::delete: zeros through the layout.
DeleteValues(st, path, bits) ==
    Put(st, path, Pack([i \in DOMAIN bits |-> 0], bits).felts)

CombineKey(path, selector) == Append(path, selector)
-----------------------------------------------------------------------------
(* Write, erase and read through a layout. A write threads the storage and *)
(* the values not yet written; ok is lost when the code panics.            *)

WriteFixed(w, path, bits) ==
    LET packed == Pack(w.values, bits)
    IN IF ~packed.ok THEN [w EXCEPT !.ok = FALSE]
       ELSE [w EXCEPT !.store  = Put(@, path, packed.felts),
                      !.values = SubSeq(@, Len(bits) + 1, Len(@))]

\* The length of the data, the data, the pending word and its length.
WriteByteArray(w, path) ==
    IF Len(w.values) < 3 \/ Len(w.values) < w.values[1] + 3 THEN [w EXCEPT !.ok = FALSE]
    ELSE LET n == w.values[1] + 3
         IN [w EXCEPT !.store  = Put(@, path, SubSeq(w.values, 1, n)),
                      !.values = SubSeq(@, n + 1, Len(@))]

RECURSIVE WriteLayout(_, _, _)
WriteLayout(w, path, layout) ==
    LET Item(acc, i) == WriteLayout(acc, CombineKey(path, i - 1), layout.items[i])
        Field(acc, f) == WriteLayout(acc, CombineKey(path, f.selector), f.layout)
        Element(acc, i) == WriteLayout(acc, CombineKey(path, i - 1), layout.item)
    IN CASE ~w.ok -> w
         [] w.ok /\ layout.kind = "fixed"     -> WriteFixed(w, path, layout.bits)
         [] w.ok /\ layout.kind = "bytearray" -> WriteByteArray(w, path)
         [] w.ok /\ layout.kind = "struct"    -> FoldLeft(Field, w, layout.fields)
         [] w.ok /\ layout.kind = "tuple"     -> FoldLeftDomain(Item, w, layout.items)
         [] w.ok /\ layout.kind = "array"     ->
               IF w.values = <<>> THEN [w EXCEPT !.ok = FALSE]
               ELSE FoldLeft(Element, WriteFixed(w, path, <<MaxBits>>),
                             [i \in 1..w.values[1] |-> i])
         [] w.ok /\ layout.kind = "enum"      ->
               IF w.values = <<>> THEN [w EXCEPT !.ok = FALSE]
               ELSE LET tag == w.values[1]
                    IN IF tag >= 2^TagBits \/ tag + 1 \notin DOMAIN layout.variants
                       THEN [w EXCEPT !.ok = FALSE]
                       ELSE WriteLayout(WriteFixed(w, path, <<MaxBits>>),
                                        CombineKey(path, tag), layout.variants[tag + 1])

\* Plausible bug: only the length of the data of a ByteArray is reset.
DeleteByteArrayLength(st, path) == DeleteValues(st, path, <<MaxBits>>)

\* The lengths and the pending word of an empty ByteArray.
DeleteByteArray(st, path) == DeleteValues(st, path, <<MaxBits, MaxBits, MaxBits>>)

\* An array loses its length and keeps its items; an enum loses its tag and the
\* data of the variant it has.
RECURSIVE DeleteLayout(_, _, _)
DeleteLayout(d, path, layout) ==
    LET Field(acc, f) == DeleteLayout(acc, CombineKey(path, f.selector), f.layout)
        Item(acc, i) == DeleteLayout(acc, CombineKey(path, i - 1), layout.items[i])
    IN CASE ~d.ok -> d
         [] d.ok /\ layout.kind = "fixed"     ->
               [d EXCEPT !.store = DeleteValues(@, path, layout.bits)]
         [] d.ok /\ layout.kind = "bytearray" -> [d EXCEPT !.store = DeleteByteArray(@, path)]
         [] d.ok /\ layout.kind = "array"     ->
               [d EXCEPT !.store = DeleteValues(@, path, <<MaxBits>>)]
         [] d.ok /\ layout.kind = "struct"    -> FoldLeft(Field, d, layout.fields)
         [] d.ok /\ layout.kind = "tuple"     -> FoldLeftDomain(Item, d, layout.items)
         [] d.ok /\ layout.kind = "enum"      ->
               LET tag == GetValues(d.store, path, <<MaxBits>>)[1]
               IN IF tag >= 2^TagBits \/ tag + 1 \notin DOMAIN layout.variants
                  THEN [d EXCEPT !.ok = FALSE]
                  ELSE DeleteLayout([d EXCEPT !.store = DeleteValues(@, path, <<MaxBits>>)],
                                    CombineKey(path, tag), layout.variants[tag + 1])

\* r carries the felts read so far.
RECURSIVE ReadLayout(_, _, _, _)
ReadLayout(r, st, path, layout) ==
    LET Field(acc, f) == ReadLayout(acc, st, CombineKey(path, f.selector), f.layout)
        Item(acc, i) == ReadLayout(acc, st, CombineKey(path, i - 1), layout.items[i])
        Element(acc, i) == ReadLayout(acc, st, CombineKey(path, i - 1), layout.item)
        Read(felts) == [r EXCEPT !.felts = @ \o felts]
    IN CASE ~r.ok -> r
         [] r.ok /\ layout.kind = "fixed"     -> Read(GetValues(st, path, layout.bits))
         [] r.ok /\ layout.kind = "bytearray" ->
               Read(Get(st, path, GetValues(st, path, <<MaxBits>>)[1] + 3))
         [] r.ok /\ layout.kind = "struct"    -> FoldLeft(Field, r, layout.fields)
         [] r.ok /\ layout.kind = "tuple"     -> FoldLeftDomain(Item, r, layout.items)
         [] r.ok /\ layout.kind = "array"     ->
               LET n == GetValues(st, path, <<MaxBits>>)[1]
               IN FoldLeft(Element, Read(<<n>>), [i \in 1..n |-> i])
         [] r.ok /\ layout.kind = "enum"      ->
               LET tag == GetValues(st, path, <<TagBits>>)[1]
               IN IF tag + 1 \notin DOMAIN layout.variants THEN [r EXCEPT !.ok = FALSE]
                  ELSE ReadLayout(Read(<<tag>>), st, CombineKey(path, tag),
                                  layout.variants[tag + 1])
-----------------------------------------------------------------------------
(* The world's entry points, which take the layout from the caller. An     *)
(* index is <<entity>> or <<entity, member>>.                              *)

\* Only fixed and struct layouts are those of a model.
WriteModelEntity(w, e, layout) ==
    IF layout.kind \in {"fixed", "struct"} THEN WriteLayout(w, <<e>>, layout)
    ELSE [w EXCEPT !.ok = FALSE]

WriteModelMember(w, e, member, layout) == WriteLayout(w, CombineKey(<<e>>, member), layout)

DeleteModelEntity(d, e, layout) ==
    IF layout.kind \in {"fixed", "struct"} THEN DeleteLayout(d, <<e>>, layout)
    ELSE [d EXCEPT !.ok = FALSE]

ReadModelEntity(st, e, layout) ==
    IF layout.kind \in {"fixed", "struct"}
    THEN ReadLayout([ok |-> TRUE, felts |-> <<>>], st, <<e>>, layout)
    ELSE [ok |-> FALSE, felts |-> <<>>]

SetEntityInternal(w, index, layout) ==
    IF Len(index) = 1 THEN WriteModelEntity(w, index[1], layout)
    ELSE WriteModelMember(w, index[1], index[2], layout)

\* A member cannot be deleted.
DeleteEntityInternal(d, index, layout) ==
    IF Len(index) = 1 THEN DeleteModelEntity(d, index[1], layout) ELSE [d EXCEPT !.ok = FALSE]

\* values is a function of the indexes.
SetEntities(st, indexes, values, layout) ==
    FoldLeft(LAMBDA w, index : SetEntityInternal([w EXCEPT !.values = values[index]], index, layout),
             [store |-> st, values |-> <<>>, ok |-> TRUE], SetToSeq(indexes))

DeleteEntities(st, indexes, layout) ==
    FoldLeft(LAMBDA d, index : DeleteEntityInternal(d, index, layout),
             [store |-> st, ok |-> TRUE], SetToSeq(indexes))
-----------------------------------------------------------------------------
(* Values of a type, and how Cairo serialises them.                        *)

\* The values a contract writes: a sequence for a struct, a tuple or an array,
\* a tag and the data of its variant for an enum.
RECURSIVE Values(_)
Values(ty) ==
    LET Product(tys) ==
            FoldLeft(LAMBDA acc, t : {Append(vs, v) : vs \in acc, v \in Values(t)}, {<<>>}, tys)
    IN CASE ty.kind = "primitive" -> Samples[ty.name]
         [] ty.kind = "bytearray" -> Texts
         [] ty.kind = "tuple"     -> Product(ty.items)
         [] ty.kind = "struct"    -> Product(Map(LAMBDA m : m.ty, Members(ty)))
         [] ty.kind = "array"     -> BoundedSeq(Values(ty.item), MaxItems)
         [] ty.kind = "enum"      ->
               UNION {{[tag |-> i - 1, data |-> d] : d \in Values(ty.variants[i].ty)} :
                        i \in DOMAIN ty.variants}

RECURSIVE Serialize(_, _)
Serialize(ty, v) ==
    CASE ty.kind = "primitive" -> v
      [] ty.kind = "bytearray" -> <<Len(v.data)>> \o v.data \o <<v.pending, v.length>>
      [] ty.kind = "tuple"     -> FlattenSeq([i \in DOMAIN v |-> Serialize(ty.items[i], v[i])])
      [] ty.kind = "struct"    ->
            FlattenSeq([i \in DOMAIN v |-> Serialize(Members(ty)[i].ty, v[i])])
      [] ty.kind = "array"     ->
            <<Len(v)>> \o FlattenSeq([i \in DOMAIN v |-> Serialize(ty.item, v[i])])
      [] ty.kind = "enum"      -> <<v.tag>> \o Serialize(ty.variants[v.tag + 1].ty, v.data)
-----------------------------------------------------------------------------
(* What the records mean, field by field and without storage: the history  *)
(* variable. A node is Unset or, by the kind of the type: the felts of a   *)
(* primitive; the nodes of the members or items; the length and the items  *)
(* of an array; the tag and one node per variant; a ByteArray; for a       *)
(* packed type the felts and the widths they were packed with.             *)

IsPacked(ty) == ty.kind \in {"struct", "enum"} /\ ty.packed

Parts(ty) == IF ty.kind = "struct" THEN Map(LAMBDA m : m.ty, Members(ty)) ELSE ty.items

Part(nodes, i) == IF nodes # Unset /\ i \in DOMAIN nodes THEN nodes[i] ELSE Unset

\* The nodes with those at 1..n replaced; the ones beyond are kept.
Replaced(nodes, n, New(_)) ==
    LET kept == IF nodes = Unset THEN 0 ELSE Len(nodes)
    IN [i \in 1..(IF kept > n THEN kept ELSE n) |-> IF i <= n THEN New(i) ELSE nodes[i]]

TagOf(node) == IF node = Unset THEN 0 ELSE node.tag
NodesOf(node) == IF node = Unset THEN Unset ELSE node.nodes

\* Writing a value of the type: the fields the type has, no other.
RECURSIVE Merge(_, _, _)
Merge(ty, node, v) ==
    CASE IsPacked(ty) -> [bits |-> PackedBits(ty), felts |-> Serialize(ty, v)]
      [] ~IsPacked(ty) /\ ty.kind \in {"primitive", "bytearray"} -> v
      [] ~IsPacked(ty) /\ ty.kind \in {"struct", "tuple"} ->
            LET New(i) == Merge(Parts(ty)[i], Part(node, i), v[i])
            IN Replaced(node, Len(v), New)
      [] ty.kind = "array" ->
            LET New(i) == Merge(ty.item, Part(NodesOf(node), i), v[i])
            IN [tag |-> Len(v), nodes |-> Replaced(NodesOf(node), Len(v), New)]
      [] ~IsPacked(ty) /\ ty.kind = "enum" ->
            LET New(i) == IF i = v.tag + 1
                          THEN Merge(ty.variants[i].ty, Part(NodesOf(node), i), v.data)
                          ELSE Part(NodesOf(node), i)
            IN [tag |-> v.tag, nodes |-> Replaced(NodesOf(node), Len(ty.variants), New)]

\* Erasing the fields of the type. The data of the variants that the enum does
\* not have stays, and so do the items of an array.
RECURSIVE Erased(_, _)
Erased(ty, node) ==
    CASE IsPacked(ty) -> LET bits == PackedBits(ty)
                         IN [bits |-> bits, felts |-> [i \in DOMAIN bits |-> 0]]
      [] ~IsPacked(ty) /\ ty.kind \in {"primitive", "bytearray"} -> Unset
      [] ~IsPacked(ty) /\ ty.kind \in {"struct", "tuple"} ->
            LET New(i) == Erased(Parts(ty)[i], Part(node, i))
            IN Replaced(node, Len(Parts(ty)), New)
      [] ty.kind = "array" -> [tag |-> 0, nodes |-> NodesOf(node)]
      [] ~IsPacked(ty) /\ ty.kind = "enum" ->
            LET New(i) == IF i = TagOf(node) + 1
                          THEN Erased(ty.variants[i].ty, Part(NodesOf(node), i))
                          ELSE Part(NodesOf(node), i)
            IN [tag |-> 0, nodes |-> Replaced(NodesOf(node), Len(ty.variants), New)]

\* A felt as the reader's width shows it.
Truncated(felt, bits) == IF bits = MaxBits THEN felt ELSE felt % 2^bits

\* The felts that a reader of the type expects; Unset is a felt that nothing is
\* said of, in a packed type that was written with other widths or with a value
\* wider than its place.
RECURSIVE Expected(_, _, _)
Expected(r, ty, node) ==
    LET Read(felts) == [r EXCEPT !.felts = @ \o felts]
    IN CASE ~r.ok -> r
         [] r.ok /\ IsPacked(ty) ->
               LET bits == PackedBits(ty)
                   fits == node # Unset /\ node.bits = bits
                            /\ \A i \in DOMAIN bits : bits[i] = MaxBits \/ node.felts[i] < 2^bits[i]
               IN Read(IF node = Unset THEN [i \in DOMAIN bits |-> 0]
                       ELSE IF fits THEN node.felts ELSE [i \in DOMAIN bits |-> Unset])
         [] r.ok /\ ty.kind = "primitive" ->
               Read([i \in DOMAIN Width[ty.name] |->
                        IF node = Unset THEN 0 ELSE Truncated(node[i], Width[ty.name][i])])
         [] r.ok /\ ty.kind = "bytearray" ->
               Read(IF node = Unset THEN <<0, 0, 0>> ELSE Serialize(ty, node))
         [] r.ok /\ ~IsPacked(ty) /\ ty.kind \in {"struct", "tuple"} ->
               FoldLeftDomain(LAMBDA acc, i : Expected(acc, Parts(ty)[i], Part(node, i)),
                              r, Parts(ty))
         [] r.ok /\ ty.kind = "array" ->
               FoldLeft(LAMBDA acc, i : Expected(acc, ty.item, Part(NodesOf(node), i)),
                        Read(<<TagOf(node)>>), [i \in 1..TagOf(node) |-> i])
         [] r.ok /\ ~IsPacked(ty) /\ ty.kind = "enum" ->
               LET tag == TagOf(node)
               IN IF tag + 1 \notin DOMAIN ty.variants THEN [r EXCEPT !.ok = FALSE]
                  ELSE Expected(Read(<<tag>>), ty.variants[tag + 1].ty, Part(NodesOf(node), tag + 1))
-----------------------------------------------------------------------------
(* The world.                                                              *)

\* The type of version v, its layout and its values.
Layouts_ == [m \in DOMAIN Versions |-> Map(LayoutOf, Versions[m])]
Values_  == [m \in DOMAIN Versions |-> Map(Values, Versions[m])]

Ty(v)     == Versions[model][v]
Layout(v) == Layouts_[model][v]

\* A model is registered with a type the plugin accepts.
Init ==
    /\ model \in DOMAIN Versions
    /\ current \in DOMAIN Versions[model]
    /\ Compiles(Ty(current))
    /\ clients = {current}
    /\ store = <<>>
    /\ record = [e \in Entities[model] |-> Unset]

\* write_model, write_models, write_value and write_values of a contract compiled
\* with version v.
WriteModels(es, v, values) ==
    LET w == SetEntities(store, {<<e>> : e \in es},
                         [index \in {<<e>> : e \in es} |-> Serialize(Ty(v), values[index[1]])],
                         Layout(v))
    IN /\ w.ok
       /\ store' = w.store
       /\ record' = [e \in Entities[model] |->
                        IF e \in es THEN Merge(Ty(v), record[e], values[e]) ELSE record[e]]
       /\ UNCHANGED <<model, current, clients>>

\* write_member and write_member_of_models. Only a model with a struct layout has
\* member layouts.
WriteMembers(es, v, i, values) ==
    LET m       == Members(Ty(v))[i]
        indexes == {<<e, m.name>> : e \in es}
        w       == SetEntities(store, indexes,
                               [index \in indexes |-> Serialize(m.ty, values[index[1]])],
                               LayoutOf(m.ty))
        Written(e) == LET New(j) == IF j = i THEN Merge(m.ty, Part(record[e], j), values[e])
                                    ELSE Part(record[e], j)
                      IN Replaced(record[e], Len(Members(Ty(v))), New)
    IN /\ Layout(v).kind = "struct"
       /\ w.ok
       /\ store' = w.store
       /\ record' = [e \in Entities[model] |-> IF e \in es THEN Written(e) ELSE record[e]]
       /\ UNCHANGED <<model, current, clients>>

\* erase_model, erase_models and their pointers.
EraseModels(es, v) ==
    LET d == DeleteEntities(store, {<<e>> : e \in es}, Layout(v))
    IN /\ d.ok
       /\ store' = d.store
       /\ record' = [e \in Entities[model] |-> IF e \in es THEN Erased(Ty(v), record[e]) ELSE record[e]]
       /\ UNCHANGED <<model, current, clients>>

\* upgrade_model: the class of version v is deployed and registered; contracts
\* compiled with it are deployed from then on.
UpgradeModel(v) ==
    /\ Compiles(Ty(v))
    /\ IsUpgradable(Ty(v), Ty(current))
    /\ current' = v
    /\ clients' = clients \cup {v}
    /\ UNCHANGED <<model, store, record>>

Next ==
    \/ \E v \in clients, es \in SUBSET Entities[model] \ {{}} :
            \/ \E values \in [es -> Values_[model][v]] : WriteModels(es, v, values)
            \/ \E i \in DOMAIN Members(Ty(v)) :
                    \E values \in [es -> Values(Members(Ty(v))[i].ty)] :
                        WriteMembers(es, v, i, values)
            \/ EraseModels(es, v)
    \/ \E v \in DOMAIN Versions[model] : UpgradeModel(v)

Spec == Init /\ [][Next]_vars
-----------------------------------------------------------------------------
(* Properties.                                                             *)

\* read_model: what a contract compiled with version v reads.
ReadModel(e, v) == ReadModelEntity(store, e, Layout(v))

ExpectedOf(e, v) == Expected([ok |-> TRUE, felts |-> <<>>], Ty(v), record[e])

\* Every version of the model that has been registered reads, of every record,
\* what was last written by any version: its own fields, cut to its own widths,
\* zeros for what was never written, and a panic exactly for a variant it does
\* not know. No write, erase or upgrade disturbs another field or entity; only
\* the felts of one packed part may be lost, and only to a part of other widths.
RecordExact ==
    \A e \in Entities[model], v \in clients :
        LET got == ReadModel(e, v)  want == ExpectedOf(e, v)
        IN /\ got.ok = want.ok
           /\ want.ok => /\ Len(got.felts) = Len(want.felts)
                         /\ \A i \in DOMAIN want.felts : want.felts[i] \in {Unset, got.felts[i]}

\* The registered version can read every record, whoever wrote it: an upgrade
\* that the world accepts leaves no record behind.
CurrentReads == \A e \in Entities[model] : ReadModel(e, current).ok

\* For every layout of up to three widths and values that fit: unpacking gives the
\* packed values back and the packed felts are as many as calculate_packed_size
\* tells get_many to read. A property of pure functions, looked at before the first
\* transaction.
PackRoundTrip ==
    clients = {current} /\ record = [e \in Entities[model] |-> Unset] =>
        \A bits \in BoundedSeq(1..MaxBits, 3) :
            LET Extreme(pick) == [i \in DOMAIN bits |->
                                    IF pick[i] THEN (IF bits[i] = MaxBits THEN Prime - 1 ELSE 2^bits[i] - 1)
                                    ELSE 0]
            IN \A pick \in [DOMAIN bits -> BOOLEAN] :
                    LET packed == Pack(Extreme(pick), bits)
                    IN /\ packed.ok
                       /\ Len(packed.felts) = PackedSize(bits)
                       /\ Unpack(packed.felts, bits) = Extreme(pick)
=============================================================================
