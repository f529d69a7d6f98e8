----------------------------- MODULE MCMigration -----------------------------
(***************************************************************************)
(* Migration with one namespace, two contracts that are initialised in     *)
(* order, a model, an event and a library, and two accounts of one team.   *)
(***************************************************************************)
EXTENDS Migration

CONSTANTS ns, actions, betting, position, moved, mathlib, alice, bob

MCKind == (actions :> "Contract") @@ (betting :> "Contract") @@ (position :> "Model")
          @@ (moved :> "Event") @@ (mathlib :> "Library")
MCNamespaceOf == [r \in {actions, betting, position, moved, mathlib} |-> ns]
MCNeeds == (actions :> {}) @@ (betting :> {actions})
MCOrderInits == <<actions, betting>>

MCLocal == [classes |-> (WORLD :> 1) @@ (ns :> 1) @@ (actions :> 2) @@ (betting :> 1)
                       @@ (position :> 2) @@ (moved :> 2) @@ (mathlib :> 1),
            writers |-> {<<position, betting>>}, owners |-> {}]

\* Nothing is deployed; or an earlier release is, without its contract initialised.
MCEmpty == [world |-> NoWorld, remote |-> NoWorld,
            declared |-> {<<WORLD, 1>>, <<actions, 2>>, <<betting, 1>>,
                          <<position, 2>>, <<moved, 2>>, <<mathlib, 1>>},
            sequential |-> {}]
MCReleased ==
    LET classes == (WORLD :> 1) @@ (ns :> 1) @@ (actions :> 2) @@ (betting :> 0)
                   @@ (position :> 1) @@ (moved :> 2) @@ (mathlib :> 1)
    IN [world |-> [classes |-> classes, writers |-> {}, initialized |-> {},
                   owners |-> {<<s, alice>> :
                       s \in {WORLD, ns, actions, position, moved, mathlib}}],
        declared |-> {<<WORLD, 1>>, <<actions, 2>>, <<betting, 1>>,
                      <<position, 1>>, <<moved, 2>>, <<mathlib, 1>>},
        remote |-> [classes |-> classes, writers |-> {}, initialized |-> {},
                    owners |-> {<<WORLD, alice>>}],
        sequential |-> {bob}]
MCStarts == {MCEmpty, MCReleased}

MCAuthCalls == {Call("grant_owner", WORLD, bob), Call("grant_writer", betting, actions)}
=============================================================================
