SPECIFICATION Spec
CONSTANTS
    Relays = {r1}
    c1 = c1
    c2 = c2
    Contents = {c1, c2}
    KeyOf <- MC_SharedKey
    NoConsumer = NoConsumer
    Daemons = {r1}
    Outcomes = {"started"}
    BatchSize = 2
    MaxDeliveries = 2
    MaxUploads = 2
    MaxCrashes = 1
INVARIANTS
    DuplicatesAreQueued
