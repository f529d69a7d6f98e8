\* Two accounts migrate the same project, are interrupted and run again.
SPECIFICATION FairSpec
CONSTANTS
    WORLD = WORLD
    ns = ns
    actions = actions
    betting = betting
    position = position
    moved = moved
    mathlib = mathlib
    alice = alice
    bob = bob
    Namespaces = {ns}
    Resources = {actions, betting, position, moved, mathlib}
    Kind <- MCKind
    NamespaceOf <- MCNamespaceOf
    Accounts = {alice, bob}
    Packed = {}
    Needs <- MCNeeds
    Local <- MCLocal
    OrderInits <- MCOrderInits
    Keepers = {alice}
    AuthCalls <- MCAuthCalls
    Starts <- MCStarts
    MaxDisturbances = 1
INVARIANTS
    
    RightsOnRegistered
    SuccessMeansSynced
PROPERTIES
    Converges
