CONSTANTS
    t1 = t1
    t2 = t2
    r1 = r1
    main = main
    Tasks = {t1, t2}
    Repos = {r1}
    Names = {t1, t2}
    Branches = {main}
    NoBranch = NoBranch
    Nobody = Nobody
    MaxTip = 1
    MaxCrashes = 1
    RepoOf <- OneRepo
    NameOf <- OwnName
SYMMETRY Interchangeable
SPECIFICATION Spec
INVARIANTS
    TypeOK
    OneCreationPerProject
    OneWorkerPerTask
    CompleteIsReal
    FailedLeavesNothing
    DirtyStartAuthorized
    SpawnInv
PROPERTY TaskedWorktreeKept
