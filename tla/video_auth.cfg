SPECIFICATION Spec
CONSTANTS
    c1 = c1  c2 = c2
    Clients <- TwoClients
    VIDEO_AUTH_CACHE_S = 2
    Graces = {2}
    MaxTime = 5
SYMMETRY Symmetry
INVARIANTS GraceFromLive OldAddressRefused EntitledAdmitted
