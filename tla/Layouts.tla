------------------------------ MODULE Layouts ------------------------------
(***************************************************************************)
(* How dojo lays a Cairo type out in the storage of a world: the schema    *)
(* and the layout that the compiler plugin derives for a type, when a      *)
(* schema is an upgrade of another, and how the values of a fixed layout   *)
(* are packed in felts. Pure operators: ModelStorage is their state        *)
(* machine.                                                                *)
(*                                                                         *)
(* A type is a record:                                                     *)
(*   [kind |-> "primitive", name]                                          *)
(*   [kind |-> "struct", name, packed, members: seq of [name, key, ty]]    *)
(*   [kind |-> "enum", name, packed, variants: seq of [name, ty]]          *)
(*   [kind |-> "tuple", items]  [kind |-> "array", item]                   *)
(*   [kind |-> "bytearray"]                                                *)
(* `packed` is the IntrospectPacked derive: it decides the layout and is   *)
(* no part of the schema.                                                  *)
(***************************************************************************)
EXTENDS Integers, Sequences, SequencesExt, Bitwise

CONSTANTS
    MaxBits,  \* PACKING_MAX_BITS
    Width     \* the bits of each felt of a primitive, by the name of the primitive

ASSUME WidthAssumption ==
    /\ MaxBits \in Nat \ {0}
    /\ \A p \in DOMAIN Width : Width[p] \in Seq(1..MaxBits)
    /\ {"u8", "felt252"} \subseteq DOMAIN Width

\* The order of the field, a little above 2^MaxBits.
Prime == 2^MaxBits + 1

\* The bits read for the variant of an enum.
TagBits == Width["u8"][1]

Members(ty) == SelectSeq(ty.members, LAMBDA m : ~m.key)

Map(Op(_), s) == [i \in DOMAIN s |-> Op(s[i])]
-----------------------------------------------------------------------------
(* Packing.                                                                *)

\* Plausible bug: an item that exactly fills what is left of a felt starts a new
\* one, though the size of the packed value counts it in the current one.
PackInnerEager(acc, item) ==
    IF MaxBits - acc.offset <= item[1]
    THEN [acc EXCEPT !.packed = Append(@, acc.packing), !.packing = item[2], !.offset = item[1]]
    ELSE [acc EXCEPT !.packing = @ | (item[2] * 2^acc.offset), !.offset = @ + item[1]]

\* item is <<size, value>>. The item goes above what the current felt holds if
\* its bits are left, else into a new felt; a felt above the field panics.
PackInner(acc, item) ==
    IF MaxBits - acc.offset < item[1]
    THEN [acc EXCEPT !.packed = Append(@, acc.packing), !.packing = item[2], !.offset = item[1]]
    ELSE LET packing == acc.packing | (item[2] * 2^acc.offset)
         IN [acc EXCEPT !.packing = packing, !.offset = @ + item[1],
                        !.ok = @ /\ packing < Prime]

\* The packed felts of the first values for a layout, one per width; the last
\* felt is appended even when it is empty.
Pack(values, bits) ==
    LET n   == Len(bits)
        acc == FoldLeft(PackInner, [packed |-> <<>>, packing |-> 0, offset |-> 0, ok |-> TRUE],
                        [i \in 1..(IF Len(values) < n THEN 0 ELSE n) |-> <<bits[i], values[i]>>])
    IN [ok |-> acc.ok /\ Len(values) >= n, felts |-> Append(acc.packed, acc.packing)]

PackedSize(bits) ==
    FoldLeft(LAMBDA acc, size :
                IF acc.partial + size > MaxBits
                THEN [size |-> acc.size + 1, partial |-> size]
                ELSE [acc EXCEPT !.partial = @ + size],
             [size |-> 1, partial |-> 0], bits).size

UnpackInner(acc, size) ==
    IF MaxBits - acc.offset < size
    THEN LET felt == Head(acc.packed)
         IN [packed |-> Tail(acc.packed), unpacking |-> felt, offset |-> size,
             unpacked |-> Append(acc.unpacked, IF size = MaxBits THEN felt ELSE felt % 2^size)]
    ELSE [acc EXCEPT !.unpacked = Append(@, (acc.unpacking \div 2^acc.offset) % 2^size),
                     !.offset = @ + size]

Unpack(packed, bits) ==
    FoldLeft(UnpackInner,
             [packed |-> packed, unpacking |-> 0, offset |-> MaxBits, unpacked |-> <<>>],
             bits).unpacked
-----------------------------------------------------------------------------
(* What the compiler plugin derives for a type.                            *)

\* The widths of a type in a packed struct or enum: every part must be fixed, a
\* packed enum takes those of its first variant for all of them.
RECURSIVE PackedBits(_)
PackedBits(ty) ==
    CASE ty.kind = "primitive" -> Width[ty.name]
      [] ty.kind = "tuple"     -> FlattenSeq(Map(PackedBits, ty.items))
      [] ty.kind = "struct"    -> FlattenSeq(Map(LAMBDA m : PackedBits(m.ty), Members(ty)))
      [] ty.kind = "enum"      -> <<TagBits>> \o (IF ty.variants = <<>> THEN <<>>
                                                  ELSE PackedBits(ty.variants[1].ty))

\* The layout of a type. The selector of a member is its name, the selector of a
\* variant its index from 0: the position in `variants`.
RECURSIVE LayoutOf(_)
LayoutOf(ty) ==
    CASE ty.kind = "primitive" -> [kind |-> "fixed", bits |-> Width[ty.name]]
      [] ty.kind = "bytearray" -> [kind |-> "bytearray"]
      [] ty.kind = "array"     -> [kind |-> "array", item |-> LayoutOf(ty.item)]
      [] ty.kind = "tuple" /\ ty.items = <<>> -> [kind |-> "fixed", bits |-> <<>>]
      [] ty.kind = "tuple" /\ ty.items # <<>> ->
            [kind |-> "tuple", items |-> Map(LayoutOf, ty.items)]
      [] ty.kind = "struct" /\ ~ty.packed ->
            [kind   |-> "struct",
             fields |-> Map(LAMBDA m : [selector |-> m.name, layout |-> LayoutOf(m.ty)],
                            Members(ty))]
      [] ty.kind = "enum" /\ ~ty.packed ->
            [kind |-> "enum", variants |-> Map(LAMBDA v : LayoutOf(v.ty), ty.variants)]
      [] OTHER -> [kind |-> "fixed", bits |-> PackedBits(ty)]

\* What the plugin knows of the size of a type: the felts of the primitives it
\* has in its table, the types whose size it leaves to their own impl, and whether
\* some part has no fixed size.
Tabled == {"felt252", "bool", "u8", "u16", "u32", "u64", "u128", "u256", "ContractAddress",
           "ClassHash"}
RECURSIVE FieldSize(_)
FieldSize(ty) ==
    CASE ty.kind = "primitive" /\ ty.name \in Tabled ->
            [felts |-> Len(Width[ty.name]), customs |-> <<>>, dynamic |-> FALSE]
      [] ty.kind \in {"array", "bytearray"} -> [felts |-> 0, customs |-> <<>>, dynamic |-> TRUE]
      [] ty.kind = "tuple" ->
            FoldLeft(LAMBDA acc, item :
                        LET size == FieldSize(item)
                        IN [felts   |-> acc.felts + size.felts,
                            customs |-> acc.customs \o size.customs,
                            dynamic |-> acc.dynamic \/ size.dynamic],
                     [felts |-> 0, customs |-> <<>>, dynamic |-> FALSE], ty.items)
      [] OTHER -> [felts |-> 0, customs |-> <<ty.name>>, dynamic |-> FALSE]

\* The check on the variants of a packed enum compares felts, not bits.
IsEnumPackable(ty) ==
    \A i \in DOMAIN ty.variants :
        FieldSize(ty.variants[i].ty) = [FieldSize(ty.variants[1].ty) EXCEPT !.dynamic = FALSE]

\* The parts of a packed type have a fixed layout, or its layout() panics.
RECURSIVE Packable(_)
Packable(ty) ==
    \/ ty.kind = "primitive"
    \/ ty.kind = "tuple" /\ \A i \in DOMAIN ty.items : Packable(ty.items[i])
    \/ ty.kind \in {"struct", "enum"} /\ ty.packed

\* The plugin accepts the type and its layout() returns.
RECURSIVE Compiles(_)
Compiles(ty) ==
    CASE ty.kind = "struct" ->
            \A i \in DOMAIN ty.members :
                /\ Compiles(ty.members[i].ty)
                /\ ty.packed /\ ~ty.members[i].key => Packable(ty.members[i].ty)
      [] ty.kind = "enum" ->
            /\ ty.packed => IsEnumPackable(ty)
            /\ \A i \in DOMAIN ty.variants :
                  /\ Compiles(ty.variants[i].ty)
                  /\ ty.packed => Packable(ty.variants[i].ty)
      [] ty.kind = "tuple" -> \A i \in DOMAIN ty.items : Compiles(ty.items[i])
      [] ty.kind = "array" -> Compiles(ty.item)
      [] OTHER -> TRUE

\* The schema of a type: what the plugin emits as its Ty.
RECURSIVE Schema(_)
Schema(ty) ==
    CASE ty.kind = "struct" ->
            [kind |-> "struct", name |-> ty.name,
             members |-> Map(LAMBDA m : [m EXCEPT !.ty = Schema(m.ty)], ty.members)]
      [] ty.kind = "enum" ->
            [kind |-> "enum", name |-> ty.name,
             variants |-> Map(LAMBDA v : [v EXCEPT !.ty = Schema(v.ty)], ty.variants)]
      [] ty.kind = "tuple" -> [ty EXCEPT !.items = Map(Schema, ty.items)]
      [] ty.kind = "array" -> [ty EXCEPT !.item = Schema(ty.item)]
      [] OTHER -> ty
-----------------------------------------------------------------------------
(* When a schema is an upgrade of another.                                 *)

Unsigned == <<"u8", "u16", "u32", "u64", "u128">>
Signed   == <<"i8", "i16", "i32", "i64", "i128">>
Hashes   == {"felt252", "ClassHash", "ContractAddress"}

\* ALLOWED_PRIMITIVE_UPGRADES: an integer to a wider one of its sign, everything
\* but u256 to felt252, the hashes to each other.
PrimitiveUpgrade(new, old) ==
    \/ new = old
    \/ \E chain \in {Unsigned, Signed} : \E i, j \in DOMAIN chain :
            i < j /\ old = chain[i] /\ new = chain[j]
    \/ old # "u256" /\ new = "felt252"
    \/ old \in Hashes \cup {"EthAddress"} /\ new \in Hashes

\* A key keeps its type, but for a wider primitive and for new variants.
KeyUpgrade(new, old) ==
    IF new.kind = "primitive" /\ old.kind = "primitive" THEN PrimitiveUpgrade(new.name, old.name)
    ELSE IF new.kind = "enum" /\ old.kind = "enum"
    THEN new.name = old.name /\ IsPrefix(old.variants, new.variants)
    ELSE new = old

\* is_an_upgrade_of: the same kind and names in the same places; members, items
\* and variants may be added at the end, and primitives widened, at any depth.
RECURSIVE IsUpgradeOf(_, _)
IsUpgradeOf(new, old) ==
    /\ new.kind = old.kind
    /\ CASE new.kind = "primitive" -> PrimitiveUpgrade(new.name, old.name)
         [] new.kind = "bytearray" -> TRUE
         [] new.kind = "array"     -> IsUpgradeOf(new.item, old.item)
         [] new.kind = "tuple"     ->
               /\ Len(new.items) >= Len(old.items)
               /\ \A i \in DOMAIN old.items : IsUpgradeOf(new.items[i], old.items[i])
         [] new.kind = "enum"      ->
               /\ new.name = old.name /\ Len(new.variants) >= Len(old.variants)
               /\ \A i \in DOMAIN old.variants :
                     /\ new.variants[i].name = old.variants[i].name
                     /\ IsUpgradeOf(new.variants[i].ty, old.variants[i].ty)
         [] new.kind = "struct"    ->
               /\ new.name = old.name /\ Len(new.members) >= Len(old.members)
               /\ \A i \in DOMAIN old.members :
                     LET n == new.members[i]  o == old.members[i]
                     IN /\ n.name = o.name /\ n.key = o.key
                        /\ IF n.key THEN KeyUpgrade(n.ty, o.ty) ELSE IsUpgradeOf(n.ty, o.ty)

\* Plausible bug: only the layouts are compared.
IsUpgradableByLayout(new, old) ==
    /\ LayoutOf(new).kind = LayoutOf(old).kind
    /\ LayoutOf(new).kind # "fixed"

\* assert_resource_upgradability: the model keeps the kind of its layout, is not
\* packed, and its schema is an upgrade.
IsUpgradable(new, old) ==
    /\ LayoutOf(new).kind = LayoutOf(old).kind
    /\ LayoutOf(new).kind # "fixed"
    /\ IsUpgradeOf(Schema(new), Schema(old))
=============================================================================
