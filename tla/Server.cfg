\* Three peers for two places, everything they may ask, one of them may vanish.
SPECIFICATION Spec
CONSTANTS
    n1 = n1
    n2 = n2
    Conn = {c1, c2, c3}
    Name = {n1, n2}
    Fd = {4, 5, 6}
    Offered <- Everything
    MaxUsers = 2
    SockBuf = 1
    MaxLog = 1
    MaxAsks = 3
    Vanishing = {c1}
    NoConn = NoConn
    NoName = NoName
SYMMETRY Symmetry
INVARIANTS TypeOK FdLedger RecvNeverBlocks RegistrationSticks
PROPERTIES FarewellBeforeClose AnswerIsContiguous
