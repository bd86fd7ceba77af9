SPECIFICATION FairSpec
CONSTANTS
    Executions = {x1}
    Rows <- MC_Rows
    Objects <- MC_UnderRate
    NonObjects = {5}
    SampleSize = 2
    Valid = {1, 2, 4, 6}
    Filled = {1, 2, 4, 6}
    Textual = {1, 2, 3, 6}
    KeyOf <- MC_KeyOf
    FieldsOf <- MC_FieldsOf
    NoHash = NoHash
    MaxAttempts = 2
    MinRecords = 1
    CompletenessMin = 95
    UniquenessMin = 99
    PassRateMin = 95
    CoverageMin = 98
PROPERTIES
    ImplementsRelease
CHECK_DEADLOCK FALSE
