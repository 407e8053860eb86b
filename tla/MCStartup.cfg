SPECIFICATION FairStartup
CONSTANTS
    Replica = {r1, r2}
    Production = TRUE
    Test = TRUE
    Deployments <- Deployed
    Databases <- Ages
    NamedOrders = 2
    MaxOrders = 2
    MaxDeaths = 1
INVARIANTS
    SeededOnce
    FilledUnlessCut
PROPERTIES
    SettledStays
    SeedArrives
CHECK_DEADLOCK FALSE
