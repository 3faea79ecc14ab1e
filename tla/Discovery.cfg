\* A server that may fail to start, on the clients' port or on another; two clients, on
\* one machine or on two; losses, sends that block, and $exit at any time, or never.
SPECIFICATION FairSpec
CONSTANTS
    Client = {c1, c2}
    Port = {12345, 33420}
    ClientPort = 12345
    Timeout = 2
    MaxLost = 1
    Faults = {"create", "bind", "listen"}
INVARIANT TypeOK
PROPERTIES AnnouncesWhatItServes ClientFindsServer ShutdownEndsProcess
CHECK_DEADLOCK FALSE
