\* The user leaves without registering.
SPECIFICATION FairSpec
CONSTANTS
    Typed = {"exit"}
    Faults = {}
    MaxTyped = 1
    MaxUnread = 0
PROPERTIES ShutdownEndsProcess
CHECK_DEADLOCK FALSE
