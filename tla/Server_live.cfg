\* Two members that talk and read, of whom one may hang up; a chat room, and liveness.
SPECIFICATION FairSpec
CONSTANTS
    n1 = n1
    n2 = n2
    Conn = {c1, c2}
    Name = {n1}
    Fd = {4, 5}
    Offered <- Chatting
    MaxUsers = 2
    SockBuf = 1
    MaxLog = 1
    MaxAsks = 3
    Vanishing = {c1}
    NoConn = NoConn
    NoName = NoName
PROPERTIES ImplementsChatRoom EveryFrameServed ConnectIsAnswered ShutdownCompletes
