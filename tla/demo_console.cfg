SPECIFICATION Spec
CONSTANTS
    Threads = {t1, t2}
    NoThread = NoThread
    Datasets = {d1, d2}
    Schemas = {s1, s2}
    NoSchema = NoSchema
    NoVersion = NoVersion
    RETAIN_VERSIONS = 3
    HistoryLimit = 3
    MaxRuns = 4
    MaxLedger = 7
SYMMETRY MC_Symmetry
INVARIANTS
    TypeOK
    LedgerTellsServing
    OneSchemaPromoted
    AheadWereRolledBack
    RollbackReady
    AnswersAgree
PROPERTIES
    RollbackGoesOlder
