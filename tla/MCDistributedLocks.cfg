SPECIFICATION DeploymentSpec
CONSTANTS
    Requests = {r1, r2, r3, r4}
    Limit = 2
    Nobody = Nobody
    RunsFitLease = TRUE
    Unreliable = TRUE
    Clients = {k1, k2, k3}
    NoLease = NoLease
INVARIANTS
    HeldLeaseExists
PROPERTIES
    OnlyOwnerFrees
    ImplementsSlotGate
    LeakedSlotRecovers
CHECK_DEADLOCK FALSE
