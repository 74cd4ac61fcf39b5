SPECIFICATION Spec
CONSTANTS
    r1 = r1
    r2 = r2
    r3 = r3
    NoRun = NoRun
    Instances <- MCTwoRuns
    Calls <- PurchaseOnly
    Registered <- MCRegistered
    BreakerEnabled = TRUE
    Amounts = {0, 1, 2}
    Ceilings = {2, 3}
    MaxDay = 1
    TornWrites = FALSE
    Window = 1
    Worlds = {1, 2}
    ReadsWorld = FALSE
PROPERTIES ExecutedOnPreviewedWorld
