\* Every method, on every socket, with every outcome, after any other.
SPECIFICATION DispatchSpec
CONSTANT Platform <- Platforms
INVARIANTS NoFalseAlarm ListedErrorIsReported
