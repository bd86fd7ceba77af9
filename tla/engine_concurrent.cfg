SPECIFICATION Spec
CONSTANTS
    d1 = d1
    d2 = d2
    j1 = j1
    j2 = j2
    Jobs = {j1, j2}
    Datasets = {d1}
    Versions = {1, 2, 3}
    DatasetOf <- MC_OneDataset
    Listed <- MC_ListedOne
    Passing = {1, 2}
    NoVersion = NoVersion
    RETAIN_VERSIONS = 2
    HistoryLimit = 2
    MaxLedger = 3
SYMMETRY MC_JobSymmetry
INVARIANTS
    TypeOK
    GatedServing
    StatusJustified
    RollbacksFollowPromotions
CHECK_DEADLOCK FALSE
