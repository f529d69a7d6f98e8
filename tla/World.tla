-------------------------------- MODULE World --------------------------------
(***************************************************************************)
(* The world contract (crates/dojo/core/src/world/world_contract.cairo)    *)
(* and the picture of it that sozo rebuilds from its events                *)
(* (crates/dojo/world/src/remote).                                         *)
(*                                                                         *)
(* A call of the contract is [fn, r, x]: the entry point, the resource it  *)
(* is about and its other argument (a class version or an address).  An    *)
(* entry point that panics reverts its transaction, so it is a predicate   *)
(* (Accepts), an effect on the contract's storage (Effect) and an effect   *)
(* on the reader of the event it emits (MatchEvent).                       *)
(***************************************************************************)
EXTENDS Naturals

CONSTANTS
    WORLD,        \* the selector of the world itself
    Namespaces,   \* the namespaces
    Resources,    \* the names of contracts, models, events and libraries
    Kind,         \* their resource types
    NamespaceOf,  \* their namespaces
    Accounts,     \* the accounts that call the world
    Packed,       \* the models and events with a fixed layout
    Needs         \* Needs[c]: the contracts that dojo_init of c calls

ASSUME WorldAssumption ==
    /\ Kind \in [Resources -> {"Contract", "Model", "Event", "Library"}]
    /\ NamespaceOf \in [Resources -> Namespaces]
    /\ Packed \subseteq Resources
    /\ WORLD \notin Namespaces \cup Resources
    /\ Namespaces \cap Resources = {}

Contracts == {r \in Resources : Kind[r] = "Contract"}
Addresses == Accounts \cup Contracts   \* a contract is named by its address
Selectors == {WORLD} \cup Namespaces \cup Resources

Call(fn, r, x) == [fn |-> fn, r |-> r, x |-> x]

(***************************************************************************)
(* The storage.  classes maps a selector to the version of its class, 0    *)
(* for an unregistered one (a namespace has no class: 1).  The world's own *)
(* class is classes[WORLD], 0 while it is not deployed.                    *)
(***************************************************************************)
NoWorld == [classes |-> [s \in Selectors |-> 0], owners |-> {}, writers |-> {},
            initialized |-> {}]

Registered(w, s) == w.classes[s] > 0

IsOwner(w, s, a) == <<s, a>> \in w.owners
IsWriter(w, s, a) == <<s, a>> \in w.writers

(* assert_caller_permissions: a library or a namespace has no namespace to *)
(* fall back on.                                                           *)
FallsBack(s) == s \in Resources /\ Kind[s] # "Library"

HasPermission(w, s, a, writer) ==
    \/ writer /\ IsWriter(w, s, a)
    \/ IsOwner(w, s, a)
    \/ IsOwner(w, WORLD, a)
    \/ /\ FallsBack(s) /\ Registered(w, s)
       /\ \/ writer /\ IsWriter(w, NamespaceOf[s], a)
          \/ IsOwner(w, NamespaceOf[s], a)

(* assert_resource_upgradability: same layout type, not Fixed, and a schema *)
(* that extends the old one; a later version of a class does.               *)
Upgradable(w, r, class) == r \notin Packed /\ class >= w.classes[r]

Grants == {"grant_owner", "grant_writer", "revoke_owner", "revoke_writer"}

(* Plausible bug: the owner of the world may grant rights on anything. *)
GrantAllowedToOwner(w, a, s) == HasPermission(w, s, a, FALSE)

GrantAllowed(w, a, s) == Registered(w, s) /\ HasPermission(w, s, a, FALSE)

(***************************************************************************)
(* The guards of the entry points, for a call of account a.  `declared`    *)
(* are the <<selector, class>> pairs declared on the chain: deploy_syscall *)
(* needs the class.  The world is deployed through the UDC, which runs its *)
(* constructor.                                                            *)
(***************************************************************************)
DeployWorldAllowed(w) == ~Registered(w, WORLD)

UpgradeWorldAllowed(w, a) == IsOwner(w, WORLD, a)

RegisterNamespaceAllowed(w, n) == Registered(w, WORLD) /\ ~Registered(w, n)

IsNamespaceRegistered(w, n) == Registered(w, n)

(* A name that is free, in a namespace of the caller's. *)
NewIn(w, a, r) ==
    /\ ~Registered(w, r)
    /\ IsNamespaceRegistered(w, NamespaceOf[r])
    /\ HasPermission(w, NamespaceOf[r], a, FALSE)

RegisterEventAllowed(w, declared, a, c) == <<c.r, c.x>> \in declared /\ NewIn(w, a, c.r)
RegisterModelAllowed(w, declared, a, c) == <<c.r, c.x>> \in declared /\ NewIn(w, a, c.r)
RegisterContractAllowed(w, declared, a, c) == <<c.r, c.x>> \in declared /\ NewIn(w, a, c.r)

(* A library is not deployed: nothing looks at its class. *)
RegisterLibraryAllowed(w, a, c) == NewIn(w, a, c.r)

UpgradeContractAllowed(w, declared, a, c) ==
    /\ <<c.r, c.x>> \in declared
    /\ Registered(w, c.r) /\ HasPermission(w, c.r, a, FALSE)

UpgradeModelAllowed(w, declared, a, c) ==
    /\ <<c.r, c.x>> \in declared
    /\ IsNamespaceRegistered(w, NamespaceOf[c.r])
    /\ HasPermission(w, c.r, a, FALSE)
    /\ Registered(w, c.r) /\ Upgradable(w, c.r, c.x)

UpgradeEventAllowed(w, declared, a, c) == UpgradeModelAllowed(w, declared, a, c)

(* dojo_init of the contract calls those it needs, which must be initialised. *)
InitContractAllowed(w, a, r) ==
    /\ r \in Contracts /\ Registered(w, r)
    /\ r \notin w.initialized /\ HasPermission(w, r, a, FALSE)
    /\ Needs[r] \subseteq w.initialized

Accepts(w, declared, a, c) ==
    CASE c.fn = "deploy_world" -> DeployWorldAllowed(w) /\ <<c.r, c.x>> \in declared
      [] c.fn = "upgrade_world" -> UpgradeWorldAllowed(w, a) /\ <<c.r, c.x>> \in declared
      [] c.fn = "register_namespace" -> RegisterNamespaceAllowed(w, c.r)
      [] c.fn = "register_event" -> RegisterEventAllowed(w, declared, a, c)
      [] c.fn = "register_model" -> RegisterModelAllowed(w, declared, a, c)
      [] c.fn = "register_contract" -> RegisterContractAllowed(w, declared, a, c)
      [] c.fn = "register_library" -> RegisterLibraryAllowed(w, a, c)
      [] c.fn = "upgrade_event" -> UpgradeEventAllowed(w, declared, a, c)
      [] c.fn = "upgrade_model" -> UpgradeModelAllowed(w, declared, a, c)
      [] c.fn = "upgrade_contract" -> UpgradeContractAllowed(w, declared, a, c)
      [] c.fn = "init_contract" -> InitContractAllowed(w, a, c.r)
      [] c.fn \in Grants -> GrantAllowed(w, a, c.r)

Registrations ==
    {"deploy_world", "register_namespace", "register_event", "register_model",
     "register_contract", "register_library"}
Upgrades == {"upgrade_world", "upgrade_event", "upgrade_model", "upgrade_contract"}

(* The caller of a registration becomes the owner of what it registers. *)
RegisterEffect(w, a, c) ==
    [w EXCEPT !.classes[c.r] = c.x, !.owners = @ \cup {<<c.r, a>>}]

GrantEffect(w, c) ==
    CASE c.fn = "grant_owner" -> [w EXCEPT !.owners = @ \cup {<<c.r, c.x>>}]
      [] c.fn = "revoke_owner" -> [w EXCEPT !.owners = @ \ {<<c.r, c.x>>}]
      [] c.fn = "grant_writer" -> [w EXCEPT !.writers = @ \cup {<<c.r, c.x>>}]
      [] c.fn = "revoke_writer" -> [w EXCEPT !.writers = @ \ {<<c.r, c.x>>}]

InitEffect(w, r) == [w EXCEPT !.initialized = @ \cup {r}]

(* What the entry points write. *)
Effect(w, a, c) ==
    CASE c.fn \in Registrations -> RegisterEffect(w, a, c)
      [] c.fn \in Upgrades -> [w EXCEPT !.classes[c.r] = c.x]
      [] c.fn = "init_contract" -> InitEffect(w, c.r)
      [] c.fn \in Grants -> GrantEffect(w, c)

(***************************************************************************)
(* WorldRemote: from_events folds match_event over the contract's events.  *)
(* Only the deployment's event names an owner; a registration's does not.  *)
(***************************************************************************)
(* Plausible bug: the upgrades are missing from the keys of the event filter. *)
ClassEventsNoUpgrade == Registrations \ {"deploy_world"}

ClassEvents == (Registrations \ {"deploy_world"}) \cup Upgrades

MatchEvent(m, a, c) ==
    CASE c.fn = "deploy_world" ->
            [m EXCEPT !.classes[WORLD] = c.x, !.owners = {<<WORLD, a>>}]
      [] c.fn \in ClassEvents -> [m EXCEPT !.classes[c.r] = c.x]
      [] c.fn = "init_contract" -> InitEffect(m, c.r)
      [] c.fn \in Grants -> GrantEffect(m, c)
      [] OTHER -> m
=============================================================================
