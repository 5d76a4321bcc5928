\* Two processes start, migrate, work, are stopped and killed.
SPECIFICATION FairProcessSpec
CONSTANTS
    p1 = p1
    p2 = p2
    k1 = k1
    None = None
    Procs <- MCProcs
    Callers <- MCCallers
    Keys = {k1}
    Writer <- MCWriter
    MaxSize = 2
    ObjectLimit = 1
    Deployments <- MCDeployments
    Environments <- MCEnvironments
    Migrations = 2
    MaxKills = 1
    Names = {"a", "b"}
    MaxSegments = 4
INVARIANTS
    ProcessTypeOK
    StorageInv
    MigratedOnce
    MigratedFirst
    PoolOutlivesWork
    CleanExit
    NoDrift
    KeysInside
    SameKeys
PROPERTIES
    StopsWhenAsked
    ImplementsAtomicStore
    NoStrayTemps
