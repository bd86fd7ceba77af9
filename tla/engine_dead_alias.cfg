SPECIFICATION Spec
CONSTANTS
    d1 = d1
    d2 = d2
    j1 = j1
    j2 = j2
    Jobs = {j1, j2}
    Datasets = {d1}
    Versions = {1, 2, 3, 4}
    DatasetOf <- MC_OneDataset
    Listed <- MC_ListedOne
    Passing = {1, 2, 3, 4}
    NoVersion = NoVersion
    RETAIN_VERSIONS = 3
    HistoryLimit = 2
    MaxLedger = 4
SYMMETRY MC_JobSymmetry
INVARIANTS
    ProdServes
CHECK_DEADLOCK FALSE
