SPECIFICATION FairSpec
CONSTANTS
    Msg = {m1, m2}
    Consumer = {c1, c2}
    MaxTx = 4
INVARIANTS
    NoSleepOnData
PROPERTIES
    ImplementsChannel
    EverySentIsReceived
