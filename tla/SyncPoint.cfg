SPECIFICATION FairSpec
CONSTANTS
    Receiver = {r1, r2, r3}
    MaxResolve = 5
INVARIANTS
    NoSleepOnData
PROPERTIES
    ImplementsMailbox
    LastIsRetrieved
