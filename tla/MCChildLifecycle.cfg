CONSTANTS
    t1 = t1
    t2 = t2
    r1 = r1
    main = main
    Tasks = {t1}
    Repos = {r1}
    Names = {t1}
    Branches = {main}
    NoBranch = NoBranch
    Nobody = Nobody
    MaxTip = 1
    MaxCrashes = 1
    MaxWork = 2
    RepoOf <- OneRepo
    NameOf <- OwnName
SPECIFICATION ChildFairSpec
INVARIANTS
    ChildTypeOK
    OutcomeMatchesGit
    NoUnreviewedMerge
    HistoryFollowsCode
PROPERTIES
    OutcomeFinal
    ImplementsOutcome
    IntegrationSettles
