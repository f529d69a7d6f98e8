--------------------------- MODULE MCModelStorage ---------------------------
(***************************************************************************)
(* Models for TLC: candidate versions of five models, most of which the    *)
(* world must refuse as upgrades of each other. The widths are scaled: a   *)
(* felt has 5 bits instead of 251, u256 is two halves that do not fit one  *)
(* felt, as in the code.                                                   *)
(***************************************************************************)
EXTENDS ModelStorage

CONSTANTS e1, e2

P(name) == [kind |-> "primitive", name |-> name]
M(name, ty) == [name |-> name, key |-> FALSE, ty |-> ty]
K(name, ty) == [name |-> name, key |-> TRUE, ty |-> ty]
S(name, packed, members) == [kind |-> "struct", name |-> name, packed |-> packed, members |-> members]
E(name, packed, variants) ==
    [kind |-> "enum", name |-> name, packed |-> packed, variants |-> variants]
V(name, ty) == [name |-> name, ty |-> ty]
T(items) == [kind |-> "tuple", items |-> items]
A(item) == [kind |-> "array", item |-> item]
Bytes == [kind |-> "bytearray"]
Nothing == T(<<>>)
Option(ty) == E("Option<T>", FALSE, <<V("Some(T)", ty), V("None", Nothing)>>)

\* A counter and a state with variants: wider counter, new variant, new member;
\* and refused ones: a variant less, two members exchanged, a member less.
Player(hp, xp, variants, more) ==
    S("Player", FALSE, <<K("id", P("u8")), M("hp", P(hp)), M("xp", P(xp)),
                         M("state", E("State", FALSE, variants))>> \o more)
Hit(name) == V("Hit", P(name))
Idle == V("Idle", Nothing)
Players ==
    <<Player("u8", "u8", <<Idle, Hit("u8")>>, <<>>),
      Player("u16", "u8", <<Idle, Hit("u16"), V("Dead", Nothing)>>, <<M("level", P("bool"))>>),
      Player("u16", "u8", <<Idle>>, <<M("level", P("bool"))>>),
      S("Player", FALSE, <<K("id", P("u8")), M("xp", P("u8")), M("hp", P("u8")),
                           M("state", E("State", FALSE, <<Idle, Hit("u8")>>))>>),
      S("Player", FALSE, <<K("id", T(<<P("u8")>>)), M("hp", P("u8")), M("xp", P("u8")),
                           M("state", E("State", FALSE, <<Idle, Hit("u8")>>))>>)>>

\* Items and a text; the items gain a part, the keys a variant.
Bag(items, variants) ==
    S("Bag", FALSE, <<K("kind", E("Kind", FALSE, variants)), M("items", A(T(items))), M("note", Bytes)>>)
Bags_ ==
    <<Bag(<<P("u8")>>, <<V("Small", Nothing)>>),
      Bag(<<P("u8"), P("bool")>>, <<V("Small", Nothing), V("Big", Nothing)>>),
      Bag(<<P("felt252")>>, <<V("Big", Nothing)>>)>>

\* Packed parts inside a model that is not packed: one is widened, which the
\* world accepts, and the variants of the other have one felt of different widths.
Gear(a, more) ==
    S("Gear", FALSE,
      <<M("stats", S("Stats", TRUE, <<M("a", P(a)), M("b", P("u16"))>>)),
        M("mode", E("Mode", TRUE, <<V("On", P("u8")), V("Off", P("u16"))>>)),
        M("target", Option(P("u16")))>> \o more)
Gears == <<Gear("u8", <<>>), Gear("u16", <<M("owner", P("felt252"))>>), Gear("u16", <<M("owner", P("ClassHash"))>>)>>

\* A packed model: nothing is an upgrade of it.
Packed(name) ==
    S("Packed", TRUE, <<K("id", P("u8")), M("wide", P("u256")), M("flag", P("bool")),
                        M("pair", T(<<P(name), P("felt252")>>)), M("last", P("i8"))>>)
Packeds == <<Packed("u8"), Packed("u16"), [Packed("u8") EXCEPT !.packed = FALSE]>>

\* A model small enough for two entities: batches, and an upgrade that old
\* contracts do not know of.
Door(variants) == S("Door", FALSE, <<K("id", P("u8")), M("state", E("State", FALSE, variants))>>)
Doors == <<Door(<<Idle, Hit("u8")>>), Door(<<Idle, Hit("u8"), V("Gone", P("u16"))>>), Door(<<Idle>>)>>

MCVersions == [player |-> Players, bag |-> Bags_, gear |-> Gears, packed |-> Packeds,
               door |-> Doors]
MCEntities == [m \in DOMAIN MCVersions |-> IF m = "door" THEN {e1, e2} ELSE {e1}]
MCWidth ==
    [bool |-> <<1>>, u8 |-> <<2>>, u16 |-> <<3>>, u128 |-> <<4>>, u256 |-> <<4, 4>>, i8 |-> <<5>>,
     felt252 |-> <<5>>, ClassHash |-> <<5>>]
MCSamples ==
    [bool |-> {<<1>>}, u8 |-> {<<0>>, <<3>>}, u16 |-> {<<6>>}, u128 |-> {<<9>>},
     u256 |-> {<<9, 15>>, <<15, 0>>}, i8 |-> {<<32>>}, felt252 |-> {<<1>>, <<32>>}, ClassHash |-> {<<21>>}]
MCTexts == {[data |-> <<>>, pending |-> 7, length |-> 1],
            [data |-> <<31, 0, 5>>, pending |-> 0, length |-> 0]}
=============================================================================
