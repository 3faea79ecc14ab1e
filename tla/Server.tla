------------------------------- MODULE Server -------------------------------
(***************************************************************************)
(* The chat server of Server.cpp: one thread that polls its sockets,       *)
(* accepts at most one connection per iteration, and serves at most one    *)
(* frame of every socket that select reported.  The sockets are blocking,  *)
(* so a handler is as many steps as it makes calls of ::send, and the      *)
(* peers and the kernel act between any two of them.                       *)
(*                                                                         *)
(* Abstractions.  A frame is received whole (module Framing has the bytes  *)
(* and the trailing NUL, which this loop reads as an empty frame and       *)
(* ignores: Server.cpp:30).  A connection is used once: a user who comes   *)
(* back is another member of Conn.                                         *)
(***************************************************************************)
EXTENDS Naturals, Sequences, SequencesExt

CONSTANTS Conn,       (* connections that peers may open                      *)
          Name,       (* user names                                           *)
          Fd,         (* file descriptors the process may get for a client    *)
          Offered,    (* the requests peers make: records [cmd, name]         *)
          MaxUsers,   (* _max_users, also the length of the listen backlog    *)
          SockBuf,    (* frames the kernel buffers towards one peer           *)
          MaxLog,     (* bound: lines of the log file                         *)
          MaxAsks,    (* bound: requests sent by all peers together           *)
          Vanishing,  (* connections whose peer may go without an $exit       *)
          NoConn,     (* the file descriptor is not open                      *)
          NoName      (* no entry in users; a $register without a name        *)

Command == {"register", "exit", "getlist", "getlog", "chat"}
Request == [cmd : Command, name : Name \cup {NoName}]

Kind == {"joined", "left", "gone", "chat", "entry", "line", "done", "full", "error"}
Frame == [kind : Kind, name : Name \cup {NoName}]
Plain(kind) == [kind |-> kind, name |-> NoName]

ASSUME ServerAssumption ==
    /\ Offered \subseteq Request
    /\ Fd \subseteq Nat /\ Fd # {}
    /\ {MaxUsers, SockBuf, MaxLog, MaxAsks} \subseteq Nat
    /\ NoConn \notin Conn
    /\ NoName \notin Name

VARIABLES
    (* the server's thread *)
    pc,             (* "poll", "accept", "scan"; the sends of a handler:      *)
                    (* "reply", "broadcast", "list", "log"; the end:          *)
                    (* "stopped", "killed"                                    *)
    shutdown,       (* console->shutdown                                      *)
    clientSockets,  (* _client_sockets, as the descriptors in it              *)
    users,          (* users: descriptor to name                              *)
    ready,          (* _read_fds after select                                 *)
    i,              (* index of the receive loop of run_loop                  *)
    cur, out, k,    (* a handler's socket, what it sends, its loop's cursor   *)
    (* the kernel, on behalf of the server's process *)
    owner,          (* descriptor table: the connection behind a descriptor   *)
    backlog,        (* connections waiting for accept                         *)
    inq,            (* frames received on a connection and not read           *)
    (* the peers *)
    peer,           (* "idle"; "open"; "closed": FIN sent, will answer data   *)
                    (* with RST; "probed": that RST is on its way; "reset"    *)
    inbox,          (* frames the server sent and the peer has not read       *)
    (* history *)
    asked,          (* number of requests the peers sent                      *)
    registered,     (* the name this connection last registered               *)
    told            (* the last frame put into inbox, with its kind           *)

serverVars == <<pc, shutdown, clientSockets, users, ready, i, cur, out, k>>
vars == <<serverVars, owner, backlog, inq, peer, inbox, asked, registered, told>>

AnyFd == CHOOSE f \in Fd : TRUE    (* cur and out outside of a handler *)
Sending == {"reply", "broadcast", "list", "log"}
Halted == pc \in {"stopped", "killed"}
Listed == ToSet(clientSockets)
Connected(c) == c \in ToSet(backlog) \/ \E f \in Fd : owner[f] = c

TypeOK ==
    /\ pc \in {"poll", "accept", "scan", "stopped", "killed"} \cup Sending
    /\ shutdown \in BOOLEAN
    /\ clientSockets \in Seq(Fd)
    /\ users \in [Fd -> Name \cup {NoName}]
    /\ ready \in SUBSET Fd
    /\ i \in Nat /\ k \in Nat
    /\ cur \in Fd
    /\ out \in Frame
    /\ owner \in [Fd -> Conn \cup {NoConn}]
    /\ backlog \in Seq(Conn)
    /\ inq \in [Conn -> Seq(Request)]
    /\ peer \in [Conn -> {"idle", "open", "closed", "probed", "reset"}]
    /\ inbox \in [Conn -> Seq(Frame)]
    /\ asked \in Nat
    /\ registered \in [Conn -> Name \cup {NoName}]
    /\ told \in [Conn -> Frame]

Init ==
    /\ pc = "poll" /\ shutdown = FALSE
    /\ clientSockets = <<>> /\ users = [f \in Fd |-> NoName]
    /\ ready = {} /\ i = 0 /\ k = 0
    /\ cur = AnyFd /\ out = Plain("error")
    /\ owner = [f \in Fd |-> NoConn] /\ backlog = <<>>
    /\ inq = [c \in Conn |-> <<>>] /\ inbox = [c \in Conn |-> <<>>]
    /\ peer = [c \in Conn |-> "idle"]
    /\ asked = 0
    /\ registered = [c \in Conn |-> NoName]
    /\ told = [c \in Conn |-> Plain("error")]

-----------------------------------------------------------------------------
(* Leaving a handler: the receive loop goes on with the next socket.  The  *)
(* poll sets i to 0 before accept, so accept's handler leaves the same way. *)
Resume == pc' = "scan" /\ i' = i + 1

(* recv on this descriptor returns at once: data, end of file or an error. *)
Readable(f) == inq[owner[f]] # <<>> \/ peer[owner[f]] # "open"

(* Fault: the sets are used although select timed out. *)
Select_Everything == ready' = Listed

(* select, level-triggered on every listed socket. *)
Select == ready' = {f \in Listed : Readable(f)}

(* Fault: the flag is not looked at. *)
Poll_IgnoresShutdown ==
    /\ pc = "poll"
    /\ Select
    /\ i' = IF backlog = <<>> THEN 1 ELSE 0
    /\ pc' = IF backlog = <<>> THEN "scan" ELSE "accept"
    /\ UNCHANGED <<shutdown, clientSockets, users, cur, out, k, owner, backlog,
                   inq, peer, inbox, asked, registered, told>>

(* Fault: accepts only when no client has sent anything. *)
Poll_ClientsFirst ==
    /\ pc = "poll" /\ ~shutdown
    /\ Select
    /\ LET wait == backlog = <<>> \/ ready' # {}
       IN  i' = (IF wait THEN 1 ELSE 0) /\ pc' = (IF wait THEN "scan" ELSE "accept")
    /\ UNCHANGED <<shutdown, clientSockets, users, cur, out, k, owner, backlog,
                   inq, peer, inbox, asked, registered, told>>

(* The head of the loop and run_loop up to select, which also returns with *)
(* nothing ready when its two seconds are over.                            *)
Poll ==
    /\ pc = "poll" /\ ~shutdown
    /\ Select
    /\ i' = IF backlog = <<>> THEN 1 ELSE 0
    /\ pc' = IF backlog = <<>> THEN "scan" ELSE "accept"
    /\ UNCHANGED <<shutdown, clientSockets, users, cur, out, k, owner, backlog,
                   inq, peer, inbox, asked, registered, told>>

(* ::accept gives the lowest free descriptor.  Its handler lists the       *)
(* connection, or tells it that the server is full.  An entry of users     *)
(* under that descriptor stays as it is.                                   *)
Accept ==
    /\ pc = "accept"
    /\ \E f \in Fd :
          /\ owner[f] = NoConn
          /\ \A g \in Fd : owner[g] = NoConn => f <= g
          /\ owner' = [owner EXCEPT ![f] = Head(backlog)]
          /\ IF Len(clientSockets) = MaxUsers
             THEN /\ pc' = "reply" /\ cur' = f /\ out' = Plain("full")
                  /\ UNCHANGED <<i, clientSockets>>
             ELSE /\ clientSockets' = Append(clientSockets, f)
                  /\ Resume
                  /\ UNCHANGED <<cur, out>>
    /\ backlog' = Tail(backlog)
    /\ UNCHANGED <<shutdown, users, ready, k, inq, peer, inbox, asked,
                   registered, told>>

(* The peer gave up while it waited: accept may fail with ECONNABORTED,    *)
(* and the error handler only reports it.                                  *)
AcceptFails ==
    /\ pc = "accept" /\ peer[Head(backlog)] # "open"
    /\ backlog' = Tail(backlog)
    /\ inq' = [inq EXCEPT ![Head(backlog)] = <<>>]
    /\ Resume
    /\ UNCHANGED <<shutdown, clientSockets, users, ready, cur, out, k, owner,
                   peer, inbox, asked, registered, told>>

-----------------------------------------------------------------------------
(* What the handlers start.                                                *)
Reply(m) == pc' = "reply" /\ out' = m /\ UNCHANGED <<i, k>>
(* Fault: the loop starts at the second socket. *)
Broadcast_OffByOne(m) == pc' = "broadcast" /\ out' = m /\ k' = 2 /\ UNCHANGED i

Broadcast(m) == pc' = "broadcast" /\ out' = m /\ k' = 1 /\ UNCHANGED i

(* Fault: users.insert, which keeps the first name. *)
Register_KeepsFirst(f, name) ==
    IF name = NoName
    THEN Reply(Plain("error")) /\ UNCHANGED <<users, registered>>
    ELSE /\ users' = [users EXCEPT ![f] = IF @ = NoName THEN name ELSE @]
         /\ registered' = [registered EXCEPT ![owner[f]] = name]
         /\ Broadcast([kind |-> "joined", name |-> name])

Register(f, name) ==
    IF name = NoName
    THEN Reply(Plain("error")) /\ UNCHANGED <<users, registered>>
    ELSE /\ users' = [users EXCEPT ![f] = name]
         /\ registered' = [registered EXCEPT ![owner[f]] = name]
         /\ Broadcast([kind |-> "joined", name |-> name])

(* The message handler, in the order of its tests. *)
Dispatch(f, m) ==
    \/ m.cmd = "register" /\ Register(f, m.name)
    \/ /\ m.cmd # "register"
       /\ UNCHANGED <<users, registered>>
       /\ \/ users[f] = NoName /\ Reply(Plain("error"))
          \/ /\ users[f] # NoName
             /\ \/ m.cmd = "exit" /\ Broadcast([kind |-> "left", name |-> users[f]])
                \/ m.cmd = "chat" /\ Broadcast([kind |-> "chat", name |-> users[f]])
                \/ /\ m.cmd = "getlist"
                   /\ pc' = "list" /\ k' = 0 /\ UNCHANGED <<i, out>>
                \/ /\ m.cmd = "getlog"
                   /\ pc' = "log" /\ k' \in 0..MaxLog /\ UNCHANGED <<i, out>>

(* receive_str on the i-th socket when it delivers a frame. *)
Receive ==
    /\ pc = "scan" /\ i <= Len(clientSockets)
    /\ LET f == clientSockets[i]
           c == owner[f]
       IN  /\ f \in ready /\ inq[c] # <<>>
           /\ inq' = [inq EXCEPT ![c] = Tail(@)]
           /\ cur' = f
           /\ Dispatch(f, Head(inq[c]))
    /\ UNCHANGED <<shutdown, clientSockets, ready, owner, backlog, peer, inbox,
                   asked, told>>

(* receive_str finds the end of the stream: the DISCONNECTING handler says *)
(* goodbye for a registered user, and keeps the socket listed.             *)
Disconnecting ==
    /\ pc = "scan" /\ i <= Len(clientSockets)
    /\ LET f == clientSockets[i]
       IN  /\ f \in ready /\ inq[owner[f]] = <<>> /\ peer[owner[f]] # "open"
           /\ cur' = f
           /\ \/ users[f] = NoName /\ Resume /\ UNCHANGED <<out, k>>
              \/ users[f] # NoName /\ Broadcast([kind |-> "gone", name |-> users[f]])
    /\ UNCHANGED <<shutdown, clientSockets, users, ready, owner, backlog, inq,
                   peer, inbox, asked, registered, told>>

(* Fault: break where the loop continues. *)
NotReady_Breaks ==
    /\ pc = "scan" /\ i <= Len(clientSockets)
    /\ clientSockets[i] \notin ready
    /\ pc' = "poll"
    /\ UNCHANGED <<shutdown, clientSockets, users, ready, i, cur, out, k, owner,
                   backlog, inq, peer, inbox, asked, registered, told>>

NotReady ==
    /\ pc = "scan" /\ i <= Len(clientSockets)
    /\ clientSockets[i] \notin ready
    /\ Resume
    /\ UNCHANGED <<shutdown, clientSockets, users, ready, cur, out, k, owner,
                   backlog, inq, peer, inbox, asked, registered, told>>

(* The end of run_loop; its locals and those of the handlers are gone. *)
ScanEnds ==
    /\ pc = "scan" /\ i > Len(clientSockets)
    /\ pc' = "poll"
    /\ ready' = {} /\ i' = 0 /\ k' = 0 /\ cur' = AnyFd /\ out' = Plain("error")
    /\ UNCHANGED <<shutdown, clientSockets, users, owner, backlog, inq, peer,
                   inbox, asked, registered, told>>

-----------------------------------------------------------------------------
(* One ::send on a blocking socket.  It waits while the buffer is full and *)
(* the peer open: no disjunct is enabled then.  Data for a peer that has   *)
(* closed is accepted and answered with RST.  After that RST the error is  *)
(* ignored, for a client's socket has no send handler, or see SigPipe.     *)
Send(f, m) ==
    LET c == owner[f] IN
    \/ /\ peer[c] = "open" /\ Len(inbox[c]) < SockBuf
       /\ inbox' = [inbox EXCEPT ![c] = Append(@, m)]
       /\ told' = [told EXCEPT ![c] = m]
       /\ UNCHANGED peer
    \/ /\ peer[c] \in {"closed", "probed"}
       /\ peer' = [peer EXCEPT ![c] = "probed"]
       /\ UNCHANGED <<inbox, told>>
    \/ /\ peer[c] = "reset"
       /\ UNCHANGED <<peer, inbox, told>>

(* Fault: the descriptor is not closed. *)
Close_Leaks(f) == UNCHANGED <<owner, inq>>

(* ~Socket: the last shared_ptr is gone, what was not read is discarded. *)
Close(f) ==
    /\ owner' = [owner EXCEPT ![f] = NoConn]
    /\ inq' = [inq EXCEPT ![owner[f]] = <<>>]

SendReply ==
    /\ pc = "reply"
    /\ Send(cur, out)
    /\ IF out.kind = "full" THEN Close(cur) ELSE UNCHANGED <<owner, inq>>
    /\ Resume
    /\ UNCHANGED <<shutdown, clientSockets, users, ready, cur, out, k, backlog,
                   asked, registered>>

(* Fault: the sender does not get its own message. *)
SendBroadcast_SkipsSender ==
    /\ pc = "broadcast" /\ k <= Len(clientSockets)
    /\ \/ clientSockets[k] = cur /\ UNCHANGED <<peer, inbox, told>>
       \/ clientSockets[k] # cur /\ Send(clientSockets[k], out)
    /\ k' = k + 1
    /\ UNCHANGED <<pc, shutdown, clientSockets, users, ready, i, cur, out, owner,
                   backlog, inq, asked, registered>>

SendBroadcast ==
    /\ pc = "broadcast" /\ k <= Len(clientSockets)
    /\ Send(clientSockets[k], out)
    /\ k' = k + 1
    /\ UNCHANGED <<pc, shutdown, clientSockets, users, ready, i, cur, out, owner,
                   backlog, inq, asked, registered>>

(* After the farewell of an $exit the first socket with the exiter's       *)
(* descriptor is erased and thereby closed; its entry of users stays.      *)
Leave ==
    \E j \in DOMAIN clientSockets :
        /\ clientSockets[j] = cur
        /\ \A l \in DOMAIN clientSockets : clientSockets[l] = cur => j <= l
        /\ clientSockets' = RemoveAt(clientSockets, j)
        /\ Close(cur)

BroadcastEnds ==
    /\ pc = "broadcast" /\ k > Len(clientSockets)
    /\ IF out.kind = "left" THEN Leave ELSE UNCHANGED <<clientSockets, owner, inq>>
    /\ Resume
    /\ UNCHANGED <<shutdown, users, ready, cur, out, k, backlog, peer, inbox,
                   asked, registered, told>>

(* $getlist walks users in the order of the descriptors, then $getlog's    *)
(* lines; both end with SRV_DONE_SEND.                                     *)
SendEntry ==
    /\ pc = "list"
    /\ LET rest == {f \in Fd : f >= k /\ users[f] # NoName} IN
       \/ \E f \in rest :
             /\ \A g \in rest : f <= g
             /\ Send(cur, [kind |-> "entry", name |-> users[f]])
             /\ k' = f + 1
             /\ UNCHANGED <<pc, i>>
       \/ /\ rest = {}
          /\ Send(cur, Plain("done"))
          /\ Resume /\ UNCHANGED k
    /\ UNCHANGED <<shutdown, clientSockets, users, ready, cur, out, owner,
                   backlog, inq, asked, registered>>

(* Fault: SRV_DONE_SEND is forgotten. *)
SendLine_NoDone ==
    /\ pc = "log"
    /\ \/ k > 0 /\ Send(cur, Plain("line")) /\ k' = k - 1 /\ UNCHANGED <<pc, i>>
       \/ k = 0 /\ Resume /\ UNCHANGED <<k, peer, inbox, told>>
    /\ UNCHANGED <<shutdown, clientSockets, users, ready, cur, out, owner,
                   backlog, inq, asked, registered>>

(* Fault: the loop goes on past the last line. *)
SendLine_OnePast ==
    /\ pc = "log"
    /\ Send(cur, Plain("line"))
    /\ \/ k >= 0 /\ k' = k - 1 /\ UNCHANGED <<pc, i>>
       \/ k < 0 /\ Resume /\ UNCHANGED k
    /\ UNCHANGED <<shutdown, clientSockets, users, ready, cur, out, owner,
                   backlog, inq, asked, registered>>

SendLine ==
    /\ pc = "log"
    /\ \/ /\ k > 0 /\ Send(cur, Plain("line"))
          /\ k' = k - 1 /\ UNCHANGED <<pc, i>>
       \/ /\ k = 0 /\ Send(cur, Plain("done"))
          /\ Resume /\ UNCHANGED k
    /\ UNCHANGED <<shutdown, clientSockets, users, ready, cur, out, owner,
                   backlog, inq, asked, registered>>

-----------------------------------------------------------------------------
(* The end of the process: the kernel closes every socket. *)
Halt(how) ==
    /\ pc' = how
    /\ clientSockets' = <<>>
    /\ owner' = [f \in Fd |-> NoConn]
    /\ backlog' = <<>>
    /\ inq' = [c \in Conn |-> <<>>]
    /\ UNCHANGED <<shutdown, users, ready, i, cur, out, k, peer, inbox,
                   asked, registered, told>>

Stop == pc = "poll" /\ shutdown /\ Halt("stopped")

(* send without MSG_NOSIGNAL after an RST raises SIGPIPE, which nothing    *)
(* catches.                                                                *)
SigPipe ==
    /\ pc \in Sending
    /\ pc = "broadcast" => k <= Len(clientSockets)
    /\ LET f == IF pc = "broadcast" THEN clientSockets[k] ELSE cur
       IN  peer[owner[f]] = "reset"
    /\ Halt("killed")

ServerStep ==
    \/ Poll \/ Accept \/ AcceptFails
    \/ Receive \/ Disconnecting \/ NotReady \/ ScanEnds
    \/ SendReply \/ SendBroadcast \/ BroadcastEnds \/ SendEntry \/ SendLine
    \/ Stop \/ SigPipe

-----------------------------------------------------------------------------
(* The operator types $exit at the server: its shutdown task sets the flag. *)
TypeExit ==
    /\ ~shutdown /\ shutdown' = TRUE
    /\ UNCHANGED <<pc, clientSockets, users, ready, i, cur, out, k, owner, backlog,
                   inq, peer, inbox, asked, registered, told>>

Connect(c) ==
    /\ ~Halted /\ peer[c] = "idle" /\ Len(backlog) < MaxUsers
    /\ peer' = [peer EXCEPT ![c] = "open"]
    /\ backlog' = Append(backlog, c)
    /\ UNCHANGED <<serverVars, owner, inq, inbox, asked, registered, told>>

Ask(c) ==
    /\ Connected(c) /\ peer[c] = "open" /\ asked < MaxAsks
    /\ \E m \in Offered : inq' = [inq EXCEPT ![c] = Append(@, m)]
    /\ asked' = asked + 1
    /\ UNCHANGED <<serverVars, owner, backlog, peer, inbox, registered, told>>

Read(c) ==
    /\ peer[c] = "open" /\ inbox[c] # <<>>
    /\ inbox' = [inbox EXCEPT ![c] = Tail(@)]
    /\ UNCHANGED <<serverVars, owner, backlog, inq, peer, asked, registered, told>>

(* The peer's process ends; closing with unread data sends RST at once. *)
Hangup(c) ==
    /\ c \in Vanishing /\ peer[c] = "open"
    /\ peer' = [peer EXCEPT ![c] = IF inbox[c] = <<>> THEN "closed" ELSE "reset"]
    /\ inbox' = [inbox EXCEPT ![c] = <<>>]
    /\ UNCHANGED <<serverVars, owner, backlog, inq, asked, registered, told>>

RstArrives(c) ==
    /\ peer[c] = "probed"
    /\ peer' = [peer EXCEPT ![c] = "reset"]
    /\ UNCHANGED <<serverVars, owner, backlog, inq, inbox, asked, registered, told>>

Terminated == Halted /\ UNCHANGED vars

Next ==
    \/ ServerStep
    \/ TypeExit
    \/ \E c \in Conn : Connect(c) \/ Ask(c) \/ Read(c) \/ Hangup(c) \/ RstArrives(c)
    \/ Terminated

Spec == Init /\ [][Next]_vars

(* The server's thread is scheduled, and its two-second timeout keeps it   *)
(* from waiting in select.                                                 *)
ServerFair == WF_vars(ServerStep)

(* Every peer goes on reading. *)
FairSpec == Spec /\ ServerFair /\ \A c \in Conn : WF_vars(Read(c))

-----------------------------------------------------------------------------
(* Descriptors, list and connections agree: no connection is listed twice  *)
(* or under two descriptors, every listed descriptor is open, and an open  *)
(* descriptor is listed or being refused: no accept, refusal or $exit may  *)
(* leak one or close one that is in use.                                   *)
Refusing(f) == pc = "reply" /\ out.kind = "full" /\ f = cur
FdLedger ==
    /\ \A j, l \in DOMAIN clientSockets : clientSockets[j] = clientSockets[l] => j = l
    /\ \A f, g \in Fd : owner[f] = owner[g] /\ owner[f] # NoConn => f = g
    /\ \A f \in Fd : owner[f] # NoConn <=> f \in Listed \/ Refusing(f)
    /\ \A j \in DOMAIN backlog : \A f \in Fd : owner[f] # backlog[j]

(* The loop calls the blocking receive_str only on a socket that has       *)
(* something to give, although since select a handler may have erased a    *)
(* socket, shifted the others and freed a descriptor.                      *)
RecvNeverBlocks ==
    pc = "scan" /\ i <= Len(clientSockets) /\ clientSockets[i] \in ready =>
        \/ inq[owner[clientSockets[i]]] # <<>>
        \/ peer[owner[clientSockets[i]]] # "open"

(* A user speaks under the name registered last on the same connection,    *)
(* whatever was stored before under the descriptor (Server.cpp:37).        *)
RegistrationSticks ==
    \A f \in Fd :
        owner[f] # NoConn /\ registered[owner[f]] # NoName =>
            users[f] = registered[owner[f]]

(* The server is a chat room.  Its members are the listed connections, and *)
(* what a broadcast has behind its cursor are those who had their turn     *)
(* (Server.h:34): nobody who is there is left out or gets two messages in  *)
(* another order, an $exit takes out the connection whose goodbye was told *)
(* and no other one (Server.cpp:49-55), and an answer goes to one alone.   *)
MessageOf(kinds) == [kind : kinds, name : Name \cup {NoName}]
Spoken == {"joined", "left", "gone", "chat"}
Members == {owner[f] : f \in Listed}
Present == {c \in Conn : peer[c] = "open"}
Saying == IF pc = "broadcast" THEN out ELSE NoName
Speaker == IF pc = "broadcast" THEN owner[cur] ELSE NoConn
HadTurn ==
    {owner[f] : f \in {clientSockets[j] : j \in {l \in DOMAIN clientSockets : pc = "broadcast" /\ l < k}}}

Promise == INSTANCE ChatRoom WITH
    Person <- Conn, Nobody <- NoConn, Nothing <- NoName,
    Public <- MessageOf(Spoken), Private <- MessageOf(Kind \ Spoken),
    Farewells <- MessageOf({"left"}),
    members <- Members, present <- Present, saying <- Saying, speaker <- Speaker,
    told <- HadTurn, heard <- told
ImplementsChatRoom == Promise!Spec

(* The server hangs up on a peer that is still there only after telling it *)
(* why: its own farewell is sent to the socket before the socket is erased *)
(* (Server.cpp:49-53), or the refusal before the drop.                     *)
FarewellBeforeClose ==
    [][\A c \in Conn :
        /\ Connected(c) /\ ~Connected(c)'
        /\ ~Halted' /\ peer[c] = "open"
        => told'[c].kind \in {"left", "full"}]_vars

(* The answer to $getlist or $getlog arrives in one piece, closed by       *)
(* SRV_DONE_SEND: the client's alternate screen takes every frame up to    *)
(* that one for a part of the answer (Client.cpp:161-168).                 *)
AnswerIsContiguous ==
    [][\A c \in Conn :
        told[c].kind \in {"entry", "line"} =>
            told'[c].kind \in {told[c].kind, "done"}]_vars

(* A frame that arrived is received, although serving an $exit makes the   *)
(* loop skip a socket in that iteration (Server.cpp:53 within 211).        *)
EveryFrameServed == \A c \in Conn : inq[c] # <<>> ~> inq[c] = <<>> \/ Halted

(* A connection does not wait for accept for ever, not even while the      *)
(* sockets of vanished peers are reported again in every iteration.        *)
ConnectIsAnswered ==
    \A c \in Conn : c \in ToSet(backlog) ~> c \notin ToSet(backlog)

(* After $exit at the server its thread leaves the loop. *)
ShutdownCompletes == shutdown ~> Halted

-----------------------------------------------------------------------------
(* Server.cpp:44 tells a user "You must register to send messages!": what  *)
(* is broadcast for a connection was asked on a registered connection.     *)
ChatOnlyFromRegistered ==
    pc = "broadcast" /\ out.kind \in {"chat", "left"} => registered[owner[cur]] # NoName

(* README.md:20 "Any time an error event occurs it runs the associated     *)
(* event handler": an error of send does not end the process.              *)
SendErrorsAreHandled == pc # "killed"
=============================================================================
