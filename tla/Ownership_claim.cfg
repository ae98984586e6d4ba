SPECIFICATION Spec
CONSTANTS
    n1 = n1
    n2 = n2
    Node <- TwoNodes
    None = None
    TTL = 3
    Margin = 1
    Delay = 1
    MaxLease = 3
    MaxFault = 1
    MaxRing = 0
    Shutdown = TRUE
    LostAcquire = TRUE
SYMMETRY Symmetry
INVARIANTS ClaimBacked
PROPERTIES Claimed
