SPECIFICATION Spec
CONSTANTS
    r1 = r1
    r2 = r2
    r3 = r3
    NoRun = NoRun
    Instances <- MCRuns
    Calls <- AllCalls
    Registered <- MCRegistered
    BreakerEnabled = TRUE
    Amounts = {0, 1, 2}
    Ceilings = {3}
    MaxDay = 0
    TornWrites = TRUE
    Window = 2
    Worlds = {1}
    ReadsWorld = FALSE
SYMMETRY Symmetry
INVARIANTS BreakerInv VetoHolds CancelIsTheOwners OnlyGatedEffects AuditMatchesOutcome
