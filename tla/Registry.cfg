\* Registrations, compactions, lookups and leases in every order.
CONSTANTS
    two = two
    newer = newer
    empty = empty
    same = same
    twice = twice
    malformed = malformed
    x = x
    y = y
    c1 = c1
    NoControl = NoControl
    Controls <- MCControls
    Manifest <- Manifests
    Clients = {c1}
    Keys = {x, y}
    Versions = {1, 2}
    ModuleCapacity = 3
    InterfaceCapacity = 4
SPECIFICATION Spec
INVARIANTS
    SlotsConsistent
    LookupsExact
    BoundModulesLive
