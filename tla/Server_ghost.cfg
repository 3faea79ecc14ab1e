\* A second connection under a descriptor that was used.
SPECIFICATION Spec
CONSTANTS
    n1 = n1
    n2 = n2
    Conn = {c1, c2}
    Name = {n1}
    Fd = {4, 5, 6}
    Offered <- Chatting
    MaxUsers = 2
    SockBuf = 1
    MaxLog = 0
    MaxAsks = 4
    Vanishing = {}
    NoConn = NoConn
    NoName = NoName
INVARIANTS
    ChatOnlyFromRegistered
