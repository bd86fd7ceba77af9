SPECIFICATION FairSpec
CONSTANTS
    Relays = {r1, r2}
    c1 = c1
    c2 = c2
    Contents = {c1}
    KeyOf <- MC_KeyOf
    NoConsumer = NoConsumer
    Daemons = {r1}
    Outcomes = {"started", "refused", "lost"}
    BatchSize = 2
    MaxDeliveries = 1
    MaxUploads = 2
    MaxCrashes = 1
INVARIANTS
    TypeOK
    NoSilentLoss
    OneEventPerWindow
    RunsBounded
    DeadLettersExhausted
PROPERTIES
    SettledOrAbandoned
    MarkerStopsReruns
    ImplementsDelivery
