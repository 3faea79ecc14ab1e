\* Every way a session starts, goes on and ends.
SPECIFICATION FairSpec
CONSTANTS
    Typed = {"register", "exit"}
    Faults = {"discovery", "create", "connect", "unlisted", "full", "vanish"}
    MaxTyped = 2
    MaxUnread = 1
INVARIANTS TypeOK TerminalIsRestored RegisteredFirst WakeUpIsAhead
PROPERTIES ShutdownWakesThreads
CHECK_DEADLOCK FALSE
