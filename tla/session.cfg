SPECIFICATION Spec
CONSTANTS
    r1 = r1  r2 = r2  c1 = c1  c2 = c2
    Reqs = {r1, r2}
    Categories = {c1, c2}
    Users = {"u"}
    MaxKey = 2
    Lifetime = 1
    MaxTime = 2
    MaxOps = 2
    Pieces <- MCPieces
    MaxDepth = 3
    Registrations <- MCRegistrations
    Samples <- MCSamples
INVARIANTS VaryWhenUsed FlashOnce SessionLossless
PROPERTIES ReadersKeepWrites WritesReachBrowser SurvivesDrop
SYMMETRY Symmetric
CHECK_DEADLOCK FALSE
