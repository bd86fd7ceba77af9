SPECIFICATION Spec
CONSTANTS
    Executions = {x1, x2}
    Rows <- MC_Rows
    Objects <- MC_Drifting
    NonObjects = {5}
    SampleSize = 2
    Valid = {1, 2, 4, 6}
    Filled = {1, 2, 4, 6}
    Textual = {1, 2, 3, 6}
    KeyOf <- MC_KeyOf
    FieldsOf <- MC_FieldsOf
    NoHash = NoHash
    MaxAttempts = 1
    MinRecords = 1
    CompletenessMin = 95
    UniquenessMin = 99
    PassRateMin = 70
    CoverageMin = 50
INVARIANTS
    DriftBlocksPromotion
CHECK_DEADLOCK FALSE
