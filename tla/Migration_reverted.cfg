\* A transaction that is reverted in a mined block is taken for a success.
SPECIFICATION Spec
CONSTANTS
    WORLD = WORLD
    ns = ns
    actions = actions
    betting = betting
    position = position
    moved = moved
    mathlib = mathlib
    alice = alice
    bob = bob
    Namespaces = {ns}
    Resources = {actions, betting, position, moved, mathlib}
    Kind <- MCKind
    NamespaceOf <- MCNamespaceOf
    Accounts = {alice, bob}
    Packed = {}
    Needs <- MCNeeds
    Local <- MCLocal
    OrderInits <- MCOrderInits
    Keepers = {alice}
    AuthCalls <- MCAuthCalls
    Starts <- MCStarts
    MaxDisturbances = 1
INVARIANT
    WaitedSucceeded
