---------------------------- MODULE ServerProofs ----------------------------
(***************************************************************************)
(* Proofs about Server for any number of connections, descriptors, names,  *)
(* users and buffered frames, with no bound on the requests: descriptors,  *)
(* recv and registrations; the chat room that the server implements; what  *)
(* it has told a peer.                                                     *)
(***************************************************************************)
EXTENDS Server, SequenceTheorems, TLAPS

(* Erasing one element leaves the others, those behind it one place lower. *)
LEMMA RemoveAtFacts ==
    ASSUME NEW S, NEW s \in Seq(S), NEW j \in DOMAIN s
    PROVE  /\ RemoveAt(s, j) \in Seq(S)
           /\ Len(RemoveAt(s, j)) = Len(s) - 1
           /\ DOMAIN RemoveAt(s, j) = 1..(Len(s) - 1)
           /\ \A n \in 1..(Len(s) - 1) :
                RemoveAt(s, j)[n] = IF n < j THEN s[n] ELSE s[n + 1]
<1> DEFINE front == SubSeq(s, 1, j - 1)
           back == SubSeq(s, j + 1, Len(s))
<1>1. Len(s) \in Nat /\ j \in 1..Len(s) /\ DOMAIN s = 1..Len(s)
  OBVIOUS
<1>2. /\ front \in Seq(S) /\ Len(front) = j - 1
      /\ \A n \in 1..(j - 1) : front[n] = s[n]
  <2>1. 1 \in Int /\ j - 1 \in Int /\ \A n \in 1..(j - 1) : s[n] \in S
    BY <1>1
  <2>2. /\ front \in Seq(S)
        /\ Len(front) = IF 1 <= j - 1 THEN (j - 1) - 1 + 1 ELSE 0
        /\ \A n \in 1..((j - 1) - 1 + 1) : front[n] = s[1 + n - 1]
    BY <2>1, SubSeqProperties
  <2> HIDE DEF front
  <2>3. QED
    BY <1>1, <2>2
<1>3. /\ back \in Seq(S) /\ Len(back) = Len(s) - j
      /\ \A n \in 1..(Len(s) - j) : back[n] = s[j + n]
  <2>1. j + 1 \in Int /\ Len(s) \in Int /\ \A n \in (j + 1)..Len(s) : s[n] \in S
    BY <1>1
  <2>2. /\ back \in Seq(S)
        /\ Len(back) = IF j + 1 <= Len(s) THEN Len(s) - (j + 1) + 1 ELSE 0
        /\ \A n \in 1..(Len(s) - (j + 1) + 1) : back[n] = s[j + 1 + n - 1]
    BY <2>1, SubSeqProperties
  <2> HIDE DEF back
  <2>3. Len(back) = Len(s) - j
    BY <1>1, <2>2
  <2>4. ASSUME NEW n \in 1..(Len(s) - j) PROVE back[n] = s[j + n]
    <3>1. n \in 1..(Len(s) - (j + 1) + 1) /\ j + 1 + n - 1 = j + n
      BY <1>1
    <3>2. QED
      BY <2>2, <3>1
  <2>5. QED
    BY <2>2, <2>3, <2>4
<1>4. RemoveAt(s, j) = front \o back
  BY DEF RemoveAt
<1> HIDE DEF front, back
<1>5. /\ front \o back \in Seq(S)
      /\ Len(front \o back) = Len(s) - 1
      /\ \A n \in 1..(Len(s) - 1) :
           (front \o back)[n] = IF n <= j - 1 THEN front[n] ELSE back[n - (j - 1)]
  <2>1. /\ front \o back \in Seq(S)
        /\ Len(front \o back) = Len(front) + Len(back)
        /\ \A n \in 1..(Len(front) + Len(back)) :
             (front \o back)[n] = IF n <= Len(front) THEN front[n] ELSE back[n - Len(front)]
    BY <1>2, <1>3, ConcatProperties
  <2>2. Len(front) = j - 1 /\ Len(front) + Len(back) = Len(s) - 1
    BY <1>1, <1>2, <1>3
  <2>3. QED
    BY <2>1, <2>2
<1>6. ASSUME NEW n \in 1..(Len(s) - 1)
      PROVE  (front \o back)[n] = IF n < j THEN s[n] ELSE s[n + 1]
  <2>1. CASE n < j
    BY <1>1, <1>2, <1>5, <2>1
  <2>2. CASE n >= j
    <3>1. /\ n \in Int /\ j \in Int /\ Len(s) \in Int
          /\ 1 <= n /\ n <= Len(s) - 1
      BY <1>1
    <3>2. /\ n - (j - 1) \in 1..(Len(s) - j)
          /\ j + (n - (j - 1)) = n + 1
          /\ ~(n <= j - 1) /\ ~(n < j)
      BY <2>2, <3>1
    <3>3. back[n - (j - 1)] = s[n + 1]
      BY <1>3, <3>2
    <3>4. (front \o back)[n] = back[n - (j - 1)]
      BY <1>5, <3>2
    <3>5. QED
      BY <3>2, <3>3, <3>4
  <2>3. n < j \/ n >= j
    BY <1>1
  <2>4. QED
    BY <2>1, <2>2, <2>3
<1>7. DOMAIN (front \o back) = 1..(Len(s) - 1)
  BY <1>5, LenProperties
<1>8. QED
  BY <1>4, <1>5, <1>6, <1>7

(* The elements of a sequence without repetitions after such an erase.     *)
LEMMA ElemsOfErase ==
    ASSUME NEW S, NEW s \in Seq(S), NEW j \in DOMAIN s,
           \A m, n \in DOMAIN s : s[m] = s[n] => m = n
    PROVE  /\ ToSet(RemoveAt(s, j)) = ToSet(s) \ {s[j]}
           /\ \A m, n \in DOMAIN RemoveAt(s, j) :
                RemoveAt(s, j)[m] = RemoveAt(s, j)[n] => m = n
<1> DEFINE t == RemoveAt(s, j)
<1>1. /\ Len(s) \in Nat /\ DOMAIN s = 1..Len(s) /\ j \in 1..Len(s)
      /\ DOMAIN t = 1..(Len(s) - 1)
      /\ \A n \in DOMAIN t : t[n] = IF n < j THEN s[n] ELSE s[n + 1]
  <2>1. Len(s) \in Nat /\ DOMAIN s = 1..Len(s)
    OBVIOUS
  <2>2. /\ DOMAIN t = 1..(Len(s) - 1)
        /\ \A n \in 1..(Len(s) - 1) : t[n] = IF n < j THEN s[n] ELSE s[n + 1]
    BY RemoveAtFacts
  <2>3. QED
    BY <2>1, <2>2
<1> HIDE DEF t
<1>2. \A m, n \in DOMAIN t : t[m] = t[n] => m = n
  BY <1>1
<1>3. \A n \in DOMAIN t : t[n] \in ToSet(s) \ {s[j]}
  BY <1>1 DEF ToSet
<1>4. ASSUME NEW n \in DOMAIN s, n # j PROVE \E m \in DOMAIN t : t[m] = s[n]
  <2>1. CASE n < j
    BY <1>1, <2>1
  <2>2. CASE n > j
    <3>1. n - 1 \in DOMAIN t /\ t[n - 1] = s[n]
      BY <1>1, <2>2
    <3>2. QED
      BY <3>1
  <2>3. QED
    BY <1>1, <1>4, <2>1, <2>2
<1>5. ToSet(t) = ToSet(s) \ {s[j]}
  BY <1>3, <1>4 DEF ToSet
<1>6. QED
  BY <1>2, <1>5 DEF t

(* Appending keeps the places of the others. *)
LEMMA ElemsOfAppend ==
    ASSUME NEW S, NEW s \in Seq(S), NEW e \in S
    PROVE  /\ ToSet(Append(s, e)) = ToSet(s) \cup {e}
           /\ DOMAIN Append(s, e) = 1..(Len(s) + 1)
           /\ \A n \in DOMAIN s : n \in DOMAIN Append(s, e) /\ Append(s, e)[n] = s[n]
           /\ Append(s, e)[Len(s) + 1] = e
<1>1. /\ Len(s) \in Nat /\ DOMAIN s = 1..Len(s)
      /\ Append(s, e) \in Seq(S) /\ Len(Append(s, e)) = Len(s) + 1
      /\ DOMAIN Append(s, e) = 1..(Len(s) + 1)
      /\ \A n \in 1..Len(s) : Append(s, e)[n] = s[n]
      /\ Append(s, e)[Len(s) + 1] = e
  OBVIOUS
<1>2. QED
  BY <1>1 DEF ToSet

(* Without its head, a sequence moves one place down. *)
LEMMA TailFacts ==
    ASSUME NEW S, NEW s \in Seq(S), s # <<>>
    PROVE  /\ 1 \in DOMAIN s /\ Head(s) = s[1]
           /\ \A n \in DOMAIN Tail(s) :
                n \in Nat \ {0} /\ n + 1 \in DOMAIN s /\ Tail(s)[n] = s[n + 1]
<1>1. Len(s) \in Nat \ {0} /\ DOMAIN s = 1..Len(s)
  OBVIOUS
<1>2. Tail(s) \in Seq(S) /\ Len(Tail(s)) = Len(s) - 1 /\ DOMAIN Tail(s) = 1..(Len(s) - 1)
  BY <1>1
<1>3. QED
  BY <1>1, <1>2

(* What a send may change: the two queues of the peer, never their types. *)
LEMMA SendType ==
    ASSUME TypeOK, NEW f \in Fd, owner[f] # NoConn, NEW m \in Frame, Send(f, m)
    PROVE  /\ peer' \in [Conn -> {"idle", "open", "closed", "probed", "reset"}]
           /\ inbox' \in [Conn -> Seq(Frame)]
           /\ told' \in [Conn -> Frame]
<1>1. owner[f] \in Conn
  BY DEF TypeOK
<1>2. inbox[owner[f]] \in Seq(Frame) /\ Append(inbox[owner[f]], m) \in Seq(Frame)
  BY <1>1 DEF TypeOK
<1>3. peer' \in [Conn -> {"idle", "open", "closed", "probed", "reset"}]
  BY <1>1 DEF Send, TypeOK
<1>4. inbox' \in [Conn -> Seq(Frame)]
  <2>1. CASE inbox' = [inbox EXCEPT ![owner[f]] = Append(@, m)]
    BY <1>1, <1>2, <2>1 DEF TypeOK
  <2>2. CASE inbox' = inbox
    BY <2>2 DEF TypeOK
  <2>3. QED
    BY <2>1, <2>2 DEF Send
<1>5. told' \in [Conn -> Frame]
  <2>1. CASE told' = [told EXCEPT ![owner[f]] = m]
    BY <1>1, <2>1 DEF TypeOK
  <2>2. CASE told' = told
    BY <2>2 DEF TypeOK
  <2>3. QED
    BY <2>1, <2>2 DEF Send
<1>6. QED
  BY <1>3, <1>4, <1>5

-----------------------------------------------------------------------------
(* The strengthening.  A handler works on the i-th socket, ...             *)
Serving == pc \in {"broadcast", "list", "log"} \/ (pc = "reply" /\ out.kind # "full")
Cursor ==
    /\ Serving => i \in DOMAIN clientSockets /\ clientSockets[i] = cur
    /\ pc = "accept" => i = 0 /\ backlog # <<>> /\ ready \subseteq Listed
    /\ pc = "reply" /\ out.kind = "full" =>
          i = 0 /\ owner[cur] # NoConn /\ cur \notin Listed
    /\ pc = "broadcast" => out.kind # "full" /\ k >= 1
    /\ pc = "scan" => i >= 1

(* ... a connection waits once and has not spoken before it is accepted,   *)
Waiting ==
    /\ \A j, l \in DOMAIN backlog : backlog[j] = backlog[l] => j = l
    /\ \A j \in DOMAIN backlog : peer[backlog[j]] # "idle"
    /\ \A f \in Fd : owner[f] # NoConn => peer[owner[f]] # "idle"
    /\ \A c \in Conn : registered[c] # NoName =>
          peer[c] # "idle" /\ \A j \in DOMAIN backlog : backlog[j] # c

(* ... and the sockets the loop has yet to visit are as select found them. *)
Ahead ==
    \A j \in DOMAIN clientSockets :
        /\ clientSockets[j] \in ready
        /\ \/ pc = "scan" /\ j >= i
           \/ pc \in Sending \cup {"accept"} /\ j > i
        => Readable(clientSockets[j])

IInv == TypeOK /\ FdLedger /\ Cursor /\ Waiting /\ Ahead /\ RegistrationSticks

(* A descriptor that a handler sends to is open. *)
LEMMA TargetOpen ==
    ASSUME IInv
    PROVE  /\ pc \in Sending => owner[cur] \in Conn
           /\ \A j \in DOMAIN clientSockets :
                 clientSockets[j] \in Fd /\ owner[clientSockets[j]] \in Conn
<1>1. \A j \in DOMAIN clientSockets :
          clientSockets[j] \in Fd /\ owner[clientSockets[j]] # NoConn
  BY DEF IInv, TypeOK, FdLedger, Listed, ToSet
<1>2. \A j \in DOMAIN clientSockets : owner[clientSockets[j]] \in Conn
  BY <1>1 DEF IInv, TypeOK
<1>3. ASSUME pc \in Sending PROVE owner[cur] \in Conn
  <2>1. CASE Serving
    BY <1>1, <1>2, <2>1 DEF IInv, Cursor
  <2>2. CASE pc = "reply" /\ out.kind = "full"
    BY <2>2 DEF IInv, Cursor, TypeOK
  <2>3. QED
    BY <1>3, <2>1, <2>2 DEF Serving, Sending
<1>4. QED
  BY <1>1, <1>2, <1>3

(* The strengthened invariant holds when the server starts. *)
LEMMA InitInv == Init => IInv
<1> SUFFICES ASSUME Init PROVE IInv
  OBVIOUS
<1>1. AnyFd \in Fd
  BY ServerAssumption DEF AnyFd
<1>2. Plain("error") \in Frame
  BY DEF Plain, Frame, Kind
<1>3. TypeOK
  <2>1. <<>> \in Seq(Request) /\ <<>> \in Seq(Frame) /\ <<>> \in Seq(Fd) /\ <<>> \in Seq(Conn)
    OBVIOUS
  <2>2. inq \in [Conn -> Seq(Request)] /\ inbox \in [Conn -> Seq(Frame)] /\ told \in [Conn -> Frame]
    BY <1>2, <2>1 DEF Init
  <2>3. /\ users \in [Fd -> Name \cup {NoName}]
        /\ owner \in [Fd -> Conn \cup {NoConn}]
        /\ peer \in [Conn -> {"idle", "open", "closed", "probed", "reset"}]
        /\ registered \in [Conn -> Name \cup {NoName}]
    BY DEF Init
  <2>4. QED
    BY <1>1, <1>2, <2>1, <2>2, <2>3 DEF Init, TypeOK
<1>4. Listed = {}
  BY DEF Init, Listed, ToSet
<1>5. FdLedger
  BY <1>4 DEF Init, FdLedger, Refusing
<1>6. Cursor /\ Waiting /\ Ahead /\ RegistrationSticks
  BY DEF Init, Cursor, Serving, Waiting, Ahead, RegistrationSticks
<1>7. QED
  BY <1>3, <1>5, <1>6 DEF IInv

-----------------------------------------------------------------------------
(* Type correctness, one step per action. *)
LEMMA TypeStep ==
    ASSUME IInv, [Next]_vars
    PROVE  TypeOK'
<1> USE DEF IInv, Sending
<1>1. CASE Poll
  BY <1>1 DEF Poll, Select, TypeOK, Listed, ToSet
<1>2. CASE Accept
  <2>1. backlog \in Seq(Conn) /\ backlog # <<>> /\ Head(backlog) \in Conn
        /\ Tail(backlog) \in Seq(Conn)
    BY <1>2 DEF Accept, Cursor, TypeOK
  <2>2. Plain("full") \in Frame
    BY DEF Plain, Frame, Kind
  <2>3. QED
    <3>1. PICK f \in Fd :
            /\ owner' = [owner EXCEPT ![f] = Head(backlog)]
            /\ \/ pc' = "reply" /\ cur' = f /\ out' = Plain("full")
                  /\ UNCHANGED <<i, clientSockets>>
               \/ /\ clientSockets' = Append(clientSockets, f)
                  /\ pc' = "scan" /\ i' = i + 1
                  /\ UNCHANGED <<cur, out>>
      BY <1>2 DEF Accept, Resume
    <3>2. owner' \in [Fd -> Conn \cup {NoConn}]
      BY <2>1, <3>1 DEF TypeOK
    <3>3. clientSockets' \in Seq(Fd)
      <4>1. clientSockets \in Seq(Fd) /\ Append(clientSockets, f) \in Seq(Fd) 
        BY DEF TypeOK
      <4>2. clientSockets' = Append(clientSockets, f) \/ clientSockets' = clientSockets
        BY <3>1
      <4>3. QED
        BY <4>1, <4>2
    <3>4. /\ pc' \in {"reply", "scan"} /\ i' \in Nat
          /\ cur' \in Fd /\ out' \in Frame
      <4>1. i \in Nat /\ i + 1 \in Nat /\ cur \in Fd /\ out \in Frame
        BY DEF TypeOK
      <4>2. QED
        BY <2>2, <3>1, <4>1
    <3>5. QED
      BY <1>2, <2>1, <3>2, <3>3, <3>4 DEF Accept, TypeOK
<1>3. CASE AcceptFails
  <2>1. Head(backlog) \in Conn /\ Tail(backlog) \in Seq(Conn)
    BY <1>3 DEF AcceptFails, Cursor, TypeOK
  <2>2. QED
    BY <1>3, <2>1 DEF AcceptFails, Resume, TypeOK
<1>4. CASE Receive
  <2> DEFINE f == clientSockets[i]
             c == owner[f]
             m == Head(inq[c])
  <2>1. f \in Fd /\ c \in Conn
    <3>1. i \in DOMAIN clientSockets
      BY <1>4 DEF Receive, TypeOK, Cursor
    <3>2. QED
      BY <3>1, TargetOpen
  <2>2. m \in Request /\ inq' \in [Conn -> Seq(Request)]
    BY <1>4, <2>1 DEF Receive, TypeOK
  <2>3. m.name \in Name \cup {NoName} /\ users[f] \in Name \cup {NoName}
    BY <2>1, <2>2 DEF Request, TypeOK
  <2>4. /\ Plain("error") \in Frame
        /\ [kind |-> "joined", name |-> m.name] \in Frame
        /\ [kind |-> "left", name |-> users[f]] \in Frame
        /\ [kind |-> "chat", name |-> users[f]] \in Frame
    BY <2>3 DEF Plain, Frame, Kind
  <2>5. Dispatch(f, m) /\ cur' = f
    BY <1>4 DEF Receive
  <2>6. /\ pc' \in {"reply", "broadcast", "list", "log"}
        /\ out' \in Frame /\ k' \in Nat /\ i' = i
        /\ users' \in [Fd -> Name \cup {NoName}]
        /\ registered' \in [Conn -> Name \cup {NoName}]
    <3> USE DEF Reply, Broadcast
    <3>1. /\ users \in [Fd -> Name \cup {NoName}]
          /\ registered \in [Conn -> Name \cup {NoName}]
          /\ out \in Frame /\ k \in Nat
      BY DEF TypeOK
    <3>2. CASE Register(f, m.name)
      <4>1. m.name # NoName => m.name \in Name
        BY <2>3
      <4>2. CASE m.name = NoName
        BY <2>4, <2>5, <3>1, <3>2, <4>2, <1>4 DEF Register, Receive
      <4>3. CASE m.name # NoName
        BY <2>1, <2>4, <3>1, <3>2, <4>1, <4>3, <1>4 DEF Register, Receive
      <4>4. QED
        BY <4>2, <4>3
    <3>3. CASE m.cmd # "register"
      <4>1. UNCHANGED <<users, registered>>
        BY <2>5, <3>3 DEF Dispatch
      <4>2. /\ pc' \in {"reply", "broadcast", "list", "log"} /\ i' = i
            /\ k' = k \/ k' = 1 \/ k' = 0 \/ k' \in 0..MaxLog
            /\ \/ out' = Plain("error") \/ out' = out
               \/ out' = [kind |-> "left", name |-> users[f]]
               \/ out' = [kind |-> "chat", name |-> users[f]]
        BY <2>5, <3>3 DEF Dispatch
      <4>3. MaxLog \in Nat
        BY ServerAssumption
      <4>4. out' \in Frame /\ k' \in Nat
        BY <2>3, <2>4, <3>1, <4>2, <4>3
      <4>5. QED
        BY <3>1, <4>1, <4>2, <4>4
    <3>4. QED
      BY <2>5, <3>2, <3>3 DEF Dispatch
  <2>7. QED
    BY <1>4, <2>1, <2>2, <2>5, <2>6 DEF Receive, TypeOK
<1>5. CASE Disconnecting
  <2>1. clientSockets[i] \in Fd
    BY <1>5 DEF Disconnecting, TypeOK, Cursor
  <2>2. QED
    <3>1. users[clientSockets[i]] \in Name \cup {NoName}
      BY <2>1 DEF TypeOK
    <3>2. [kind |-> "gone", name |-> users[clientSockets[i]]] \in Frame
      BY <3>1 DEF Frame, Kind
    <3>3. /\ pc' \in {"scan", "broadcast"} /\ cur' \in Fd
          /\ \/ i' = i + 1 /\ k' = k /\ out' = out
             \/ i' = i /\ k' = 1 /\ out' = [kind |-> "gone", name |-> users[clientSockets[i]]]
      BY <1>5, <2>1 DEF Disconnecting, Resume, Broadcast
    <3>4. i' \in Nat /\ k' \in Nat /\ out' \in Frame
      BY <3>2, <3>3 DEF TypeOK
    <3>5. QED
      BY <1>5, <3>3, <3>4 DEF Disconnecting, TypeOK
<1>6. CASE NotReady
  BY <1>6 DEF NotReady, Resume, TypeOK
<1>7. CASE ScanEnds
  <2>1. AnyFd \in Fd /\ Plain("error") \in Frame
    BY ServerAssumption DEF AnyFd, Plain, Frame, Kind
  <2>2. QED
    BY <1>7, <2>1 DEF ScanEnds, TypeOK
<1>8. CASE SendReply
  <2>1. cur \in Fd /\ out \in Frame /\ owner[cur] \in Conn /\ owner[cur] # NoConn
    BY <1>8, TargetOpen, ServerAssumption DEF SendReply, TypeOK
  <2>2. /\ peer' \in [Conn -> {"idle", "open", "closed", "probed", "reset"}]
        /\ inbox' \in [Conn -> Seq(Frame)]
        /\ told' \in [Conn -> Frame]
    BY <1>8, <2>1, SendType DEF SendReply
  <2>3. owner' \in [Fd -> Conn \cup {NoConn}] /\ inq' \in [Conn -> Seq(Request)]
    <3>1. owner \in [Fd -> Conn \cup {NoConn}] /\ inq \in [Conn -> Seq(Request)]
          /\ <<>> \in Seq(Request)
      BY DEF TypeOK
    <3>2. Close(cur) \/ UNCHANGED <<owner, inq>>
      BY <1>8 DEF SendReply
    <3>3. QED
      BY <2>1, <3>1, <3>2 DEF Close
  <2>4. QED
    BY <1>8, <2>2, <2>3 DEF SendReply, Resume, TypeOK
<1>9. CASE SendBroadcast
  <2>1. k \in DOMAIN clientSockets
    BY <1>9 DEF SendBroadcast, Cursor, TypeOK
  <2>2. clientSockets[k] \in Fd /\ owner[clientSockets[k]] # NoConn /\ out \in Frame
    BY <2>1, TargetOpen, ServerAssumption DEF TypeOK
  <2>3. /\ peer' \in [Conn -> {"idle", "open", "closed", "probed", "reset"}]
        /\ inbox' \in [Conn -> Seq(Frame)]
        /\ told' \in [Conn -> Frame]
    BY <1>9, <2>2, SendType DEF SendBroadcast
  <2>4. QED
    BY <1>9, <2>3 DEF SendBroadcast, TypeOK
<1>10. CASE BroadcastEnds
  <2>1. cur \in Fd /\ owner[cur] \in Conn
    BY <1>10, TargetOpen DEF BroadcastEnds, TypeOK
  <2>2. CASE Leave
    <3>1. clientSockets' \in Seq(Fd)
      BY <2>2, RemoveAtFacts DEF Leave, TypeOK
    <3>2. owner' \in [Fd -> Conn \cup {NoConn}] /\ inq' \in [Conn -> Seq(Request)]
      BY <2>1, <2>2 DEF Leave, Close, TypeOK
    <3>3. QED
      BY <1>10, <3>1, <3>2 DEF BroadcastEnds, Resume, TypeOK
  <2>3. CASE UNCHANGED <<clientSockets, owner, inq>>
    BY <1>10, <2>3 DEF BroadcastEnds, Resume, TypeOK
  <2>4. QED
    BY <1>10, <2>2, <2>3 DEF BroadcastEnds
<1>11. CASE SendEntry
  <2>1. cur \in Fd /\ owner[cur] # NoConn
    BY <1>11, TargetOpen, ServerAssumption DEF SendEntry, TypeOK
  <2>2. PICK m \in Frame : Send(cur, m)
    BY <1>11 DEF SendEntry, Plain, Frame, Kind, TypeOK
  <2>3. /\ peer' \in [Conn -> {"idle", "open", "closed", "probed", "reset"}]
        /\ inbox' \in [Conn -> Seq(Frame)]
        /\ told' \in [Conn -> Frame]
    BY <2>1, <2>2, SendType
  <2>4. k' \in Nat /\ i' \in Nat /\ pc' \in {"list", "scan"}
    <3>1. i \in Nat /\ k \in Nat /\ Fd \subseteq Nat
      BY ServerAssumption DEF TypeOK
    <3>2. (\E f \in Fd : k' = f + 1 /\ UNCHANGED <<pc, i>>) \/ (pc' = "scan" /\ i' = i + 1 /\ k' = k)
      BY <1>11 DEF SendEntry, Resume
    <3>3. QED
      BY <1>11, <3>1, <3>2 DEF SendEntry
  <2>5. QED
    BY <1>11, <2>3, <2>4 DEF SendEntry, TypeOK
<1>12. CASE SendLine
  <2>1. cur \in Fd /\ owner[cur] # NoConn
    BY <1>12, TargetOpen, ServerAssumption DEF SendLine, TypeOK
  <2>2. PICK m \in Frame : Send(cur, m)
    BY <1>12 DEF SendLine, Plain, Frame, Kind, TypeOK
  <2>3. /\ peer' \in [Conn -> {"idle", "open", "closed", "probed", "reset"}]
        /\ inbox' \in [Conn -> Seq(Frame)]
        /\ told' \in [Conn -> Frame]
    BY <2>1, <2>2, SendType
  <2>4. k' \in Nat /\ i' \in Nat /\ pc' \in {"log", "scan"}
    BY <1>12 DEF SendLine, Resume, TypeOK
  <2>5. QED
    BY <1>12, <2>3, <2>4 DEF SendLine, TypeOK
<1>13. CASE Stop \/ SigPipe
  <2>1. PICK how \in {"stopped", "killed"} : Halt(how)
    BY <1>13 DEF Stop, SigPipe
  <2>2. <<>> \in Seq(Request) /\ <<>> \in Seq(Fd) /\ <<>> \in Seq(Conn)
    OBVIOUS
  <2>3. /\ owner' \in [Fd -> Conn \cup {NoConn}]
        /\ inq' \in [Conn -> Seq(Request)]
    BY <2>1, <2>2 DEF Halt
  <2>4. QED
    BY <2>1, <2>2, <2>3 DEF Halt, TypeOK
<1>14. CASE TypeExit
  BY <1>14 DEF TypeExit, TypeOK
<1>15. ASSUME NEW c \in Conn, Connect(c) \/ Ask(c) \/ Read(c) \/ Hangup(c) \/ RstArrives(c)
       PROVE  TypeOK'
  <2>1. CASE Connect(c)
    BY <2>1 DEF Connect, serverVars, TypeOK
  <2>2. CASE Ask(c)
    BY <2>2, ServerAssumption DEF Ask, serverVars, TypeOK
  <2>3. CASE Read(c)
    BY <2>3 DEF Read, serverVars, TypeOK
  <2>4. CASE Hangup(c)
    BY <2>4 DEF Hangup, serverVars, TypeOK
  <2>5. CASE RstArrives(c)
    BY <2>5 DEF RstArrives, serverVars, TypeOK
  <2>6. QED
    BY <1>15, <2>1, <2>2, <2>3, <2>4, <2>5
<1>16. CASE UNCHANGED vars
  BY <1>16 DEF vars, serverVars, TypeOK
<1>17. QED
  BY <1>1, <1>2, <1>3, <1>4, <1>5, <1>6, <1>7, <1>8, <1>9, <1>10, <1>11, <1>12,
     <1>13, <1>14, <1>15, <1>16 DEF Next, ServerStep, Terminated

-----------------------------------------------------------------------------
(* The actions that leave the descriptor table, the list and the backlog   *)
(* alone, and neither start nor end a refusal.                             *)
LEMMA LedgerStep ==
    ASSUME IInv, [Next]_vars
    PROVE  FdLedger'
<1> USE DEF IInv
<1>1. CASE /\ UNCHANGED <<clientSockets, owner, backlog>>
           /\ \A f \in Fd : Refusing(f)' <=> Refusing(f)
  BY <1>1 DEF FdLedger, Listed, ToSet
<1>2. CASE Accept
  <2>1. PICK f \in Fd :
          /\ owner[f] = NoConn
          /\ owner' = [owner EXCEPT ![f] = Head(backlog)]
          /\ \/ pc' = "reply" /\ cur' = f /\ out' = Plain("full")
                /\ UNCHANGED clientSockets
             \/ pc' = "scan" /\ clientSockets' = Append(clientSockets, f)
    BY <1>2 DEF Accept, Resume
  <2>2. /\ backlog \in Seq(Conn) /\ backlog # <<>> /\ backlog' = Tail(backlog)
        /\ pc = "accept"
    BY <1>2 DEF Accept, Cursor, TypeOK
  <2>3. /\ Head(backlog) = backlog[1] /\ 1 \in DOMAIN backlog /\ backlog[1] \in Conn
        /\ \A n \in DOMAIN backlog' :
             n \in Nat \ {0} /\ n + 1 \in DOMAIN backlog /\ backlog'[n] = backlog[n + 1]
    BY <2>2, TailFacts
  <2>4. /\ owner \in [Fd -> Conn \cup {NoConn}] /\ owner'[f] = backlog[1]
        /\ owner'[f] # NoConn /\ \A g \in Fd \ {f} : owner'[g] = owner[g]
    BY <2>1, <2>3, ServerAssumption DEF TypeOK
  <2>5. f \notin Listed /\ \A g \in Fd : owner[g] # NoConn <=> g \in Listed
    BY <2>1, <2>2 DEF FdLedger, Refusing
  <2>6. /\ \A g, h \in Fd : owner'[g] = owner'[h] /\ owner'[g] # NoConn => g = h
        /\ \A n \in DOMAIN backlog' : \A g \in Fd : owner'[g] # backlog'[n]
    BY <2>3, <2>4 DEF FdLedger, Waiting
  <2>7. CASE pc' = "reply" /\ cur' = f /\ out' = Plain("full") /\ UNCHANGED clientSockets
    <3>1. \A g \in Fd : Refusing(g)' <=> g = f
      BY <2>7 DEF Refusing, Plain
    <3>2. Listed' = Listed
      BY <2>7 DEF Listed
    <3>3. \A g \in Fd : owner'[g] # NoConn <=> g \in Listed' \/ Refusing(g)'
      BY <2>4, <2>5, <3>1, <3>2
    <3>4. QED
      BY <2>6, <2>7, <3>3 DEF FdLedger
  <2>8. CASE pc' = "scan" /\ clientSockets' = Append(clientSockets, f)
    <3>1. clientSockets \in Seq(Fd)
      BY DEF TypeOK
    <3>2. /\ Listed' = Listed \cup {f}
          /\ DOMAIN clientSockets' = 1..(Len(clientSockets) + 1)
          /\ clientSockets'[Len(clientSockets) + 1] = f
          /\ \A n \in DOMAIN clientSockets : clientSockets'[n] = clientSockets[n]
      BY <2>8, <3>1, ElemsOfAppend DEF Listed
    <3>3. \A n \in DOMAIN clientSockets : clientSockets[n] # f
      BY <2>5 DEF Listed, ToSet
    <3>4. \A j, l \in DOMAIN clientSockets' : clientSockets'[j] = clientSockets'[l] => j = l
      BY <3>1, <3>2, <3>3 DEF FdLedger
    <3>5. \A g \in Fd : ~Refusing(g)'
      BY <2>8 DEF Refusing
    <3>6. \A g \in Fd : owner'[g] # NoConn <=> g \in Listed' \/ Refusing(g)'
      BY <2>4, <2>5, <3>2, <3>5
    <3>7. QED
      BY <2>6, <3>4, <3>6 DEF FdLedger
  <2>9. QED
    BY <2>1, <2>7, <2>8
<1>3. CASE AcceptFails
  <2>1. /\ backlog \in Seq(Conn) /\ backlog # <<>> /\ backlog' = Tail(backlog)
        /\ pc = "accept" /\ pc' = "scan" /\ UNCHANGED <<clientSockets, owner>>
    BY <1>3 DEF AcceptFails, Resume, Cursor, TypeOK
  <2>2. \A n \in DOMAIN backlog' : n + 1 \in DOMAIN backlog /\ backlog'[n] = backlog[n + 1]
    BY <2>1, TailFacts
  <2>3. QED
    BY <2>1, <2>2 DEF FdLedger, Refusing, Listed, ToSet
<1>4. CASE SendReply /\ out.kind = "full"
  <2>1. /\ pc = "reply" /\ pc' = "scan" /\ cur \in Fd
        /\ owner' = [owner EXCEPT ![cur] = NoConn] /\ UNCHANGED <<clientSockets, backlog>>
    BY <1>4 DEF SendReply, Close, Resume, TypeOK
  <2>2. owner'[cur] = NoConn /\ \A g \in Fd \ {cur} : owner'[g] = owner[g]
    BY <2>1 DEF TypeOK
  <2>3. cur \notin Listed /\ Listed' = Listed
    BY <1>4, <2>1 DEF Cursor, Listed
  <2>4. \A g \in Fd : ~Refusing(g)' /\ (Refusing(g) <=> g = cur)
    BY <1>4, <2>1 DEF Refusing
  <2>5. \A n \in DOMAIN backlog : backlog[n] # NoConn
    BY ServerAssumption DEF TypeOK
  <2>6. QED
    BY <2>1, <2>2, <2>3, <2>4, <2>5 DEF FdLedger
<1>5. CASE BroadcastEnds /\ Leave
  <2>1. PICK j \in DOMAIN clientSockets :
          /\ clientSockets[j] = cur
          /\ clientSockets' = RemoveAt(clientSockets, j)
          /\ owner' = [owner EXCEPT ![cur] = NoConn]
    BY <1>5 DEF Leave, Close
  <2>2. clientSockets \in Seq(Fd) /\ cur \in Fd /\ pc = "broadcast" /\ pc' = "scan"
        /\ UNCHANGED backlog
    BY <1>5 DEF BroadcastEnds, Resume, TypeOK
  <2>3. /\ Listed' = Listed \ {cur}
        /\ \A m, n \in DOMAIN clientSockets' : clientSockets'[m] = clientSockets'[n] => m = n
    BY <2>1, <2>2, ElemsOfErase DEF FdLedger, Listed
  <2>4. owner'[cur] = NoConn /\ \A g \in Fd \ {cur} : owner'[g] = owner[g]
    BY <2>1, <2>2 DEF TypeOK
  <2>5. \A g \in Fd : ~Refusing(g) /\ ~Refusing(g)'
    BY <2>2 DEF Refusing
  <2>6. \A n \in DOMAIN backlog : backlog[n] # NoConn
    BY ServerAssumption DEF TypeOK
  <2>7. \A f \in Fd : owner'[f] # NoConn <=> f \in Listed' \/ Refusing(f)'
    BY <2>3, <2>4, <2>5 DEF FdLedger
  <2>8. QED
    BY <2>2, <2>3, <2>4, <2>6, <2>7 DEF FdLedger
<1>6. CASE Stop \/ SigPipe
  <2>1. /\ clientSockets' = <<>> /\ owner' = [f \in Fd |-> NoConn] /\ backlog' = <<>>
        /\ pc' # "reply"
    BY <1>6 DEF Stop, SigPipe, Halt
  <2>2. Listed' = {}
    BY <2>1 DEF Listed, ToSet
  <2>3. QED
    BY <2>1, <2>2 DEF FdLedger, Refusing
<1>7. ASSUME NEW c \in Conn, Connect(c)
      PROVE  FdLedger'
  <2>1. /\ UNCHANGED <<clientSockets, owner, pc, out, cur>> /\ peer[c] = "idle"
        /\ backlog \in Seq(Conn) /\ backlog' = Append(backlog, c)
    BY <1>7 DEF Connect, serverVars, TypeOK
  <2>2. \A n \in DOMAIN backlog' : backlog'[n] = c \/ (n \in DOMAIN backlog /\ backlog'[n] = backlog[n])
    BY <2>1, ElemsOfAppend
  <2>3. \A f \in Fd : owner[f] # c
    BY <2>1, ServerAssumption DEF Waiting
  <2>4. QED
    BY <2>1, <2>2, <2>3 DEF FdLedger, Refusing, Listed, ToSet
<1>8. CASE Receive
  <2>1. UNCHANGED <<clientSockets, owner, backlog>> /\ pc = "scan"
    BY <1>8 DEF Receive
  <2>2. pc' = "reply" => out' = Plain("error")
    BY <1>8 DEF Receive, Dispatch, Register, Reply, Broadcast
  <2>3. QED
    BY <1>1, <2>1, <2>2 DEF Refusing, Plain
<1>9. CASE Poll \/ Disconnecting \/ NotReady \/ ScanEnds \/ SendBroadcast
           \/ SendEntry \/ SendLine
  <2>1. UNCHANGED <<clientSockets, owner, backlog>> /\ pc # "reply" /\ pc' # "reply"
    BY <1>9 DEF Poll, Disconnecting, NotReady, ScanEnds, SendBroadcast, SendEntry,
                SendLine, Resume, Broadcast
  <2>2. QED
    BY <1>1, <2>1 DEF Refusing
<1>10. CASE SendReply /\ out.kind # "full"
  <2>1. UNCHANGED <<clientSockets, owner, backlog, out>> /\ pc' # "reply"
    BY <1>10 DEF SendReply, Resume
  <2>2. QED
    BY <1>1, <1>10, <2>1 DEF Refusing
<1>11. CASE BroadcastEnds /\ ~Leave
  <2>1. UNCHANGED <<clientSockets, owner, backlog>> /\ pc # "reply" /\ pc' # "reply"
    BY <1>11 DEF BroadcastEnds, Resume
  <2>2. QED
    BY <1>1, <2>1 DEF Refusing
<1>12. CASE TypeExit
  BY <1>1, <1>12 DEF TypeExit, Refusing
<1>13. ASSUME NEW c \in Conn, Ask(c) \/ Read(c) \/ Hangup(c) \/ RstArrives(c)
       PROVE  FdLedger'
  <2>1. UNCHANGED <<clientSockets, owner, backlog, pc, out, cur>>
    BY <1>13 DEF Ask, Read, Hangup, RstArrives, serverVars
  <2>2. QED
    BY <1>1, <2>1 DEF Refusing
<1>14. CASE UNCHANGED vars
  BY <1>1, <1>14 DEF vars, serverVars, Refusing
<1>15. QED
  BY <1>2, <1>3, <1>4, <1>5, <1>6, <1>7, <1>8, <1>9, <1>10, <1>11, <1>12, <1>13,
     <1>14 DEF Next, ServerStep, Terminated

-----------------------------------------------------------------------------
(* No action makes a peer idle again, or one that has closed open. *)
LEMMA PeersStart ==
    ASSUME IInv, [Next]_vars, NEW c \in Conn
    PROVE  /\ peer[c] # "idle" => peer'[c] # "idle"
           /\ peer[c] \notin {"idle", "open"} => peer'[c] \notin {"idle", "open"}
<1> DEFINE Onwards ==
      /\ peer[c] # "idle" => peer'[c] # "idle"
      /\ peer[c] \notin {"idle", "open"} => peer'[c] \notin {"idle", "open"}
<1> USE DEF IInv
<1>1. CASE UNCHANGED peer
  BY <1>1
<1>2. ASSUME NEW f \in Fd, NEW m, Send(f, m), owner[f] \in Conn
      PROVE  Onwards
  BY <1>2 DEF Send, TypeOK
<1>3. CASE SendReply \/ SendEntry \/ SendLine
  <2>1. cur \in Fd /\ owner[cur] \in Conn
    BY <1>3, TargetOpen DEF SendReply, SendEntry, SendLine, Sending, TypeOK
  <2>2. QED
    BY <1>2, <1>3, <2>1 DEF SendReply, SendEntry, SendLine
<1>4. CASE SendBroadcast
  <2>1. k \in DOMAIN clientSockets
    BY <1>4 DEF SendBroadcast, Cursor, TypeOK
  <2>2. QED
    BY <1>2, <1>4, <2>1, TargetOpen DEF SendBroadcast
<1>5. ASSUME NEW d \in Conn, Connect(d) \/ Hangup(d) \/ RstArrives(d)
      PROVE  Onwards
  BY <1>5 DEF Connect, Hangup, RstArrives, TypeOK
<1>6. CASE Poll \/ Accept \/ AcceptFails \/ Receive \/ Disconnecting \/ NotReady
           \/ ScanEnds \/ BroadcastEnds \/ Stop \/ SigPipe \/ TypeExit
           \/ (\E d \in Conn : Ask(d) \/ Read(d)) \/ UNCHANGED vars
  BY <1>1, <1>6 DEF Poll, Accept, AcceptFails, Receive, Disconnecting, NotReady,
       ScanEnds, BroadcastEnds, Stop, SigPipe, Halt, TypeExit, Ask, Read, vars
<1>7. QED
  BY <1>3, <1>4, <1>5, <1>6 DEF Next, ServerStep, Terminated

(* Waiting, one step per action. *)
LEMMA WaitingStep ==
    ASSUME IInv, [Next]_vars
    PROVE  Waiting'
<1> USE DEF IInv
<1>1. CASE /\ UNCHANGED <<backlog, registered>>
           /\ \A f \in Fd : owner'[f] \in {owner[f], NoConn}
  <2>1. \A f \in Fd : owner'[f] # NoConn => owner'[f] = owner[f] /\ owner[f] \in Conn
    BY <1>1 DEF TypeOK
  <2>2. \A n \in DOMAIN backlog : backlog[n] \in Conn
    BY DEF TypeOK
  <2>3. QED
    BY <1>1, <2>1, <2>2, PeersStart DEF Waiting
<1>2. CASE Accept \/ AcceptFails
  <2>1. /\ backlog \in Seq(Conn) /\ backlog # <<>> /\ backlog' = Tail(backlog)
        /\ UNCHANGED <<registered, peer>>
    BY <1>2 DEF Accept, AcceptFails, Cursor, TypeOK
  <2>2. /\ Head(backlog) = backlog[1] /\ 1 \in DOMAIN backlog
        /\ \A n \in DOMAIN backlog' :
             n \in Nat \ {0} /\ n + 1 \in DOMAIN backlog /\ backlog'[n] = backlog[n + 1]
    BY <2>1, TailFacts
  <2>3. \A f \in Fd : owner'[f] \in {owner[f], backlog[1]}
    BY <1>2, <2>2 DEF Accept, AcceptFails, TypeOK
  <2>4. \A m, n \in DOMAIN backlog' : backlog'[m] = backlog'[n] => m = n
    BY <2>2 DEF Waiting
  <2>5. QED
    BY <2>1, <2>2, <2>3, <2>4 DEF Waiting
<1>3. CASE Receive
  <2>1. clientSockets[i] \in Fd /\ owner[clientSockets[i]] \in Conn
        /\ UNCHANGED <<owner, backlog, peer>>
    <3>1. i \in DOMAIN clientSockets
      BY <1>3 DEF Receive, TypeOK, Cursor
    <3>2. QED
      BY <1>3, <3>1, TargetOpen DEF Receive
  <2>2. \A c \in Conn : c # owner[clientSockets[i]] => registered'[c] = registered[c]
    BY <1>3, <2>1 DEF Receive, Dispatch, Register, TypeOK
  <2>3. \A n \in DOMAIN backlog : backlog[n] # owner[clientSockets[i]]
    BY <2>1 DEF FdLedger
  <2>4. owner[clientSockets[i]] # NoConn
    BY <2>1, ServerAssumption
  <2>5. QED
    BY <2>1, <2>2, <2>3, <2>4 DEF Waiting
<1>4. ASSUME NEW c \in Conn, Connect(c)
      PROVE  Waiting'
  <2>1. /\ backlog \in Seq(Conn) /\ backlog' = Append(backlog, c) /\ peer[c] = "idle"
        /\ peer' = [peer EXCEPT ![c] = "open"] /\ UNCHANGED <<owner, registered>>
    BY <1>4 DEF Connect, TypeOK
  <2>2. /\ peer'[c] = "open" /\ \A d \in Conn \ {c} : peer'[d] = peer[d]
        /\ \A d \in Conn : peer[d] # "idle" => peer'[d] # "idle"
    BY <2>1 DEF TypeOK
  <2>3. /\ DOMAIN backlog' = 1..(Len(backlog) + 1) /\ DOMAIN backlog = 1..Len(backlog)
        /\ \A n \in DOMAIN backlog : backlog'[n] = backlog[n]
        /\ backlog'[Len(backlog) + 1] = c /\ Len(backlog) \in Nat
    BY <2>1, ElemsOfAppend
  <2>4. \A n \in DOMAIN backlog : backlog[n] \in Conn /\ backlog[n] # c
    BY <2>1 DEF Waiting, TypeOK
  <2>5. \A m, n \in DOMAIN backlog' : backlog'[m] = backlog'[n] => m = n
    BY <2>3, <2>4 DEF Waiting
  <2>6. \A n \in DOMAIN backlog' : peer'[backlog'[n]] # "idle"
    BY <2>2, <2>3, <2>4 DEF Waiting
  <2>7. \A f \in Fd : owner[f] # NoConn => peer'[owner[f]] # "idle"
    BY <2>2 DEF Waiting, TypeOK
  <2>8. \A d \in Conn : registered[d] # NoName =>
            peer'[d] # "idle" /\ \A n \in DOMAIN backlog' : backlog'[n] # d
    BY <2>1, <2>2, <2>3 DEF Waiting
  <2>9. QED
    BY <2>1, <2>5, <2>6, <2>7, <2>8 DEF Waiting
<1>5. CASE Stop \/ SigPipe
  <2>1. backlog' = <<>> /\ owner' = [f \in Fd |-> NoConn] /\ UNCHANGED <<peer, registered>>
    BY <1>5 DEF Stop, SigPipe, Halt
  <2>2. QED
    BY <2>1 DEF Waiting
<1>6. CASE Poll \/ Disconnecting \/ NotReady \/ ScanEnds \/ SendReply \/ SendBroadcast
           \/ BroadcastEnds \/ SendEntry \/ SendLine \/ TypeExit
  <2>1. UNCHANGED <<backlog, registered>>
    BY <1>6 DEF Poll, Disconnecting, NotReady, ScanEnds, SendReply, SendBroadcast,
                BroadcastEnds, SendEntry, SendLine, TypeExit
  <2>2. owner' = owner \/ owner' = [owner EXCEPT ![cur] = NoConn]
    BY <1>6 DEF Poll, Disconnecting, NotReady, ScanEnds, SendReply, SendBroadcast,
                BroadcastEnds, SendEntry, SendLine, TypeExit, Leave, Close
  <2>3. QED
    BY <1>1, <2>1, <2>2 DEF TypeOK
<1>7. ASSUME NEW c \in Conn, Ask(c) \/ Read(c) \/ Hangup(c) \/ RstArrives(c)
      PROVE  Waiting'
  BY <1>1, <1>7 DEF Ask, Read, Hangup, RstArrives
<1>8. CASE UNCHANGED vars
  BY <1>1, <1>8 DEF vars
<1>9. QED
  BY <1>2, <1>3, <1>4, <1>5, <1>6, <1>7, <1>8 DEF Next, ServerStep, Terminated

-----------------------------------------------------------------------------
(* Cursor: what the handlers rely on while they send. *)
LEMMA CursorStep ==
    ASSUME IInv, [Next]_vars
    PROVE  Cursor'
<1> USE DEF IInv, Serving
<1>1. CASE Poll
  BY <1>1 DEF Poll, Select, Cursor, Listed
<1>2. CASE Accept
  <2>1. PICK f \in Fd :
          /\ owner[f] = NoConn
          /\ owner' = [owner EXCEPT ![f] = Head(backlog)]
          /\ \/ pc' = "reply" /\ cur' = f /\ out' = Plain("full")
                /\ UNCHANGED <<i, clientSockets>>
             \/ pc' = "scan" /\ i' = i + 1
    BY <1>2 DEF Accept, Resume
  <2>2. pc = "accept" /\ i = 0 /\ f \notin Listed /\ Head(backlog) \in Conn
    BY <1>2, <2>1 DEF Accept, Cursor, FdLedger, Refusing, TypeOK
  <2>3. owner'[f] # NoConn
    BY <2>1, <2>2, ServerAssumption DEF TypeOK
  <2>4. QED
    BY <2>1, <2>2, <2>3 DEF Cursor, Plain, Listed
<1>3. CASE AcceptFails
  BY <1>3 DEF AcceptFails, Resume, Cursor
<1>4. CASE Receive
  <2>1. i \in DOMAIN clientSockets
    BY <1>4 DEF Receive, TypeOK, Cursor
  <2>2. /\ pc' \in {"reply", "broadcast", "list", "log"} /\ i' = i
        /\ cur' = clientSockets[i] /\ UNCHANGED clientSockets
        /\ pc' = "reply" => out' = Plain("error")
        /\ pc' = "broadcast" => k' = 1 /\ out'.kind # "full"
    BY <1>4 DEF Receive, Dispatch, Register, Reply, Broadcast
  <2>3. QED
    BY <2>1, <2>2 DEF Cursor, Plain
<1>5. CASE Disconnecting
  <2>1. i \in DOMAIN clientSockets /\ i \in Nat
    BY <1>5 DEF Disconnecting, TypeOK, Cursor
  <2>2. \/ pc' = "scan" /\ i' = i + 1
        \/ /\ pc' = "broadcast" /\ i' = i /\ k' = 1 /\ out'.kind # "full"
           /\ cur' = clientSockets[i] /\ UNCHANGED clientSockets
    BY <1>5 DEF Disconnecting, Broadcast, Resume
  <2>3. QED
    BY <2>1, <2>2 DEF Cursor
<1>6. CASE NotReady \/ SendReply \/ BroadcastEnds
  <2>1. pc' = "scan" /\ i' = i + 1 /\ i \in Nat
    BY <1>6 DEF NotReady, SendReply, BroadcastEnds, Resume, TypeOK
  <2>2. QED
    BY <2>1 DEF Cursor
<1>7. CASE ScanEnds \/ Stop \/ SigPipe
  <2>1. pc' \in {"poll", "stopped", "killed"}
    BY <1>7 DEF ScanEnds, Stop, SigPipe, Halt
  <2>2. QED
    BY <2>1 DEF Cursor
<1>8. CASE SendBroadcast
  BY <1>8 DEF SendBroadcast, Cursor, TypeOK
<1>9. CASE SendEntry \/ SendLine
  <2>1. /\ pc \in {"list", "log"} /\ UNCHANGED <<clientSockets, cur>> /\ i \in Nat
        /\ \/ pc' = pc /\ i' = i
           \/ pc' = "scan" /\ i' = i + 1
    BY <1>9 DEF SendEntry, SendLine, Resume, TypeOK
  <2>2. QED
    BY <2>1 DEF Cursor
<1>10. CASE TypeExit
  BY <1>10 DEF TypeExit, Cursor, Listed
<1>11. ASSUME NEW c \in Conn, Connect(c)
       PROVE  Cursor'
  <2>1. backlog' # <<>> /\ UNCHANGED <<serverVars, owner>>
    <3>1. backlog \in Seq(Conn) /\ backlog' = Append(backlog, c)
          /\ UNCHANGED <<serverVars, owner>>
      BY <1>11 DEF Connect, TypeOK
    <3>2. DOMAIN backlog' = 1..(Len(backlog) + 1) /\ Len(backlog) \in Nat
      BY <3>1, ElemsOfAppend
    <3>3. DOMAIN backlog' # {}
      BY <3>2
    <3>4. QED
      BY <3>1, <3>3
  <2>2. QED
    BY <2>1 DEF Cursor, serverVars, Listed
<1>12. ASSUME NEW c \in Conn, Ask(c) \/ Read(c) \/ Hangup(c) \/ RstArrives(c)
       PROVE  Cursor'
  <2>1. UNCHANGED <<serverVars, owner, backlog>>
    BY <1>12 DEF Ask, Read, Hangup, RstArrives
  <2>2. QED
    BY <2>1 DEF Cursor, serverVars, Listed
<1>13. CASE UNCHANGED vars
  BY <1>13 DEF vars, serverVars, Cursor, Listed
<1>14. QED
  BY <1>1, <1>2, <1>3, <1>4, <1>5, <1>6, <1>7, <1>8, <1>9, <1>10, <1>11, <1>12,
     <1>13 DEF Next, ServerStep, Terminated

(* RegistrationSticks: the entry of a descriptor changes only with the     *)
(* registration of its connection, and an accepted connection has none.    *)
LEMMA RegistrationStep ==
    ASSUME IInv, [Next]_vars
    PROVE  RegistrationSticks'
<1> USE DEF IInv
<1>1. CASE /\ UNCHANGED <<registered, users>>
           /\ \A f \in Fd : owner'[f] \in {owner[f], NoConn}
  BY <1>1 DEF RegistrationSticks
<1>2. CASE Accept
  <2>1. PICK f \in Fd : owner' = [owner EXCEPT ![f] = Head(backlog)]
    BY <1>2 DEF Accept
  <2>2. /\ backlog \in Seq(Conn) /\ backlog # <<>> /\ UNCHANGED <<registered, users>>
    BY <1>2 DEF Accept, Cursor, TypeOK
  <2>3. Head(backlog) = backlog[1] /\ 1 \in DOMAIN backlog /\ backlog[1] \in Conn
    BY <2>2, TailFacts
  <2>4. registered[backlog[1]] = NoName
    BY <2>3 DEF Waiting
  <2>5. QED
    BY <2>1, <2>2, <2>3, <2>4 DEF RegistrationSticks, TypeOK
<1>3. CASE Receive
  <2> DEFINE f == clientSockets[i]
  <2>1. f \in Fd /\ owner[f] \in Conn /\ UNCHANGED owner
    <3>1. i \in DOMAIN clientSockets
      BY <1>3 DEF Receive, TypeOK, Cursor
    <3>2. QED
      BY <1>3, <3>1, TargetOpen DEF Receive
  <2>2. owner[f] # NoConn /\ \A g \in Fd : owner[g] = owner[f] => g = f
    BY <2>1, ServerAssumption DEF FdLedger
  <2>3. \/ UNCHANGED <<users, registered>>
        \/ \E name : /\ users' = [users EXCEPT ![f] = name]
                      /\ registered' = [registered EXCEPT ![owner[f]] = name]
    BY <1>3 DEF Receive, Dispatch, Register
  <2>4. ASSUME NEW name, users' = [users EXCEPT ![f] = name],
               registered' = [registered EXCEPT ![owner[f]] = name]
        PROVE  RegistrationSticks'
    <3>1. users'[f] = name /\ registered'[owner[f]] = name
      BY <2>1, <2>4 DEF TypeOK
    <3>2. ASSUME NEW g \in Fd, g # f, owner[g] # NoConn
          PROVE  users'[g] = users[g] /\ registered'[owner[g]] = registered[owner[g]]
      <4>1. owner[g] \in Conn /\ owner[g] # owner[f]
        BY <2>2, <3>2 DEF TypeOK
      <4>2. QED
        BY <2>1, <2>4, <3>2, <4>1 DEF TypeOK
    <3>3. QED
      BY <2>1, <3>1, <3>2 DEF RegistrationSticks
  <2>5. QED
    BY <2>1, <2>3, <2>4 DEF RegistrationSticks
<1>4. CASE Stop \/ SigPipe
  BY <1>4 DEF Stop, SigPipe, Halt, RegistrationSticks
<1>5. CASE Poll \/ AcceptFails \/ Disconnecting \/ NotReady \/ ScanEnds \/ SendReply
           \/ SendBroadcast \/ BroadcastEnds \/ SendEntry \/ SendLine \/ TypeExit
  <2>1. UNCHANGED <<registered, users>>
    BY <1>5 DEF Poll, AcceptFails, Disconnecting, NotReady, ScanEnds, SendReply,
                SendBroadcast, BroadcastEnds, SendEntry, SendLine, TypeExit
  <2>2. owner' = owner \/ owner' = [owner EXCEPT ![cur] = NoConn]
    BY <1>5 DEF Poll, AcceptFails, Disconnecting, NotReady, ScanEnds, SendReply,
                SendBroadcast, BroadcastEnds, SendEntry, SendLine, TypeExit, Leave, Close
  <2>3. QED
    BY <1>1, <2>1, <2>2 DEF TypeOK
<1>6. ASSUME NEW c \in Conn, Connect(c) \/ Ask(c) \/ Read(c) \/ Hangup(c) \/ RstArrives(c)
      PROVE  RegistrationSticks'
  <2>1. UNCHANGED <<registered, users, owner>>
    BY <1>6 DEF Connect, Ask, Read, Hangup, RstArrives, serverVars
  <2>2. QED
    BY <1>1, <2>1
<1>7. CASE UNCHANGED vars
  BY <1>1, <1>7 DEF vars, serverVars
<1>8. QED
  BY <1>2, <1>3, <1>4, <1>5, <1>6, <1>7 DEF Next, ServerStep, Terminated

(* What was readable stays so while its descriptor and queue are kept. *)
LEMMA StaysReadable ==
    ASSUME IInv, [Next]_vars, NEW f \in Fd, owner[f] # NoConn, Readable(f),
           owner'[f] = owner[f],
           inq[owner[f]] # <<>> => inq'[owner[f]] # <<>>
    PROVE  Readable(f)'
<1>1. owner[f] \in Conn /\ peer[owner[f]] # "idle"
  BY DEF IInv, TypeOK, Waiting
<1>2. CASE inq[owner[f]] # <<>>
  BY <1>2 DEF Readable
<1>3. CASE peer[owner[f]] # "open"
  <2>1. peer'[owner[f]] # "open"
    BY <1>1, <1>3, PeersStart
  <2>2. QED
    BY <2>1 DEF Readable
<1>4. QED
  BY <1>2, <1>3 DEF Readable

(* Ahead: no handler takes a readable socket from in front of the loop.    *)
LEMMA AheadStep ==
    ASSUME IInv, [Next]_vars
    PROVE  Ahead'
<1> USE DEF IInv, Sending
<1>0. \A j \in DOMAIN clientSockets :
        clientSockets[j] \in Fd /\ owner[clientSockets[j]] # NoConn
        /\ owner[clientSockets[j]] \in Conn /\ j \in Nat
  BY TargetOpen, ServerAssumption DEF TypeOK
<1>1. CASE /\ UNCHANGED <<clientSockets, ready>>
           /\ \A j \in DOMAIN clientSockets :
                 (\/ pc' = "scan" /\ j >= i'
                  \/ pc' \in Sending \cup {"accept"} /\ j > i')
                 => /\ \/ pc = "scan" /\ j >= i
                       \/ pc \in Sending \cup {"accept"} /\ j > i
                    /\ owner'[clientSockets[j]] = owner[clientSockets[j]]
                    /\ inq[owner[clientSockets[j]]] # <<>> => inq'[owner[clientSockets[j]]] # <<>>
  BY <1>0, <1>1, StaysReadable DEF Ahead
<1>2. CASE Poll
  BY <1>0, <1>2 DEF Poll, Select, Ahead, Readable
<1>3. CASE Accept
  <2>1. PICK f \in Fd :
          /\ owner[f] = NoConn
          /\ owner' = [owner EXCEPT ![f] = Head(backlog)]
          /\ \/ pc' = "reply" /\ UNCHANGED <<i, clientSockets>>
             \/ pc' = "scan" /\ i' = i + 1 /\ clientSockets' = Append(clientSockets, f)
    BY <1>3 DEF Accept, Resume
  <2>2. /\ pc = "accept" /\ i = 0 /\ ready' = ready /\ inq' = inq
        /\ f \notin ready /\ clientSockets \in Seq(Fd)
    BY <1>3, <2>1 DEF Accept, Cursor, FdLedger, Refusing, TypeOK
  <2>3. \A j \in DOMAIN clientSockets : owner'[clientSockets[j]] = owner[clientSockets[j]]
    BY <1>0, <2>1 DEF TypeOK
  <2>4. CASE pc' = "reply" /\ UNCHANGED <<i, clientSockets>>
    BY <1>1, <2>2, <2>3, <2>4
  <2>5. CASE pc' = "scan" /\ i' = i + 1 /\ clientSockets' = Append(clientSockets, f)
    <3>1. \A j \in DOMAIN clientSockets' :
             \/ clientSockets'[j] = f
             \/ j \in DOMAIN clientSockets /\ clientSockets'[j] = clientSockets[j] /\ j > i
      BY <2>2, <2>5, ElemsOfAppend
    <3>2. ASSUME NEW j \in DOMAIN clientSockets, j > i,
                 NEW g \in Fd, g = clientSockets[j], g \in ready
          PROVE  Readable(g)'
      <4>1. Readable(g) /\ owner[g] # NoConn /\ owner'[g] = owner[g]
        BY <1>0, <2>2, <2>3, <3>2 DEF Ahead
      <4>2. QED
        BY <2>2, <4>1, StaysReadable
    <3>3. QED
      BY <1>0, <2>2, <3>1, <3>2 DEF Ahead
  <2>6. QED
    BY <2>1, <2>4, <2>5
<1>4. CASE AcceptFails
  <2>1. /\ backlog \in Seq(Conn) /\ backlog # <<>> /\ pc = "accept" /\ pc' = "scan"
        /\ i' = i + 1 /\ i \in Nat /\ UNCHANGED <<clientSockets, ready, owner>>
        /\ inq' = [inq EXCEPT ![Head(backlog)] = <<>>]
    BY <1>4 DEF AcceptFails, Resume, Cursor, TypeOK
  <2>2. Head(backlog) = backlog[1] /\ 1 \in DOMAIN backlog
    BY <2>1, TailFacts
  <2>3. \A j \in DOMAIN clientSockets :
          inq'[owner[clientSockets[j]]] = inq[owner[clientSockets[j]]]
    BY <1>0, <2>1, <2>2 DEF FdLedger, TypeOK
  <2>4. QED
    BY <1>0, <1>1, <2>1, <2>3
<1>5. CASE Receive
  <2>1. i \in DOMAIN clientSockets
    BY <1>5 DEF Receive, TypeOK, Cursor
  <2>2. /\ pc = "scan" /\ pc' \in Sending /\ i' = i
        /\ UNCHANGED <<clientSockets, ready, owner>>
        /\ inq' = [inq EXCEPT ![owner[clientSockets[i]]] = Tail(@)]
    BY <1>5 DEF Receive, Dispatch, Register, Reply, Broadcast
  <2>3. \A j \in DOMAIN clientSockets : j # i =>
          owner[clientSockets[j]] # owner[clientSockets[i]]
    BY <1>0, <2>1 DEF FdLedger
  <2>4. \A j \in DOMAIN clientSockets : j > i =>
          inq'[owner[clientSockets[j]]] = inq[owner[clientSockets[j]]]
    BY <1>0, <2>1, <2>2, <2>3 DEF TypeOK
  <2>5. \A j \in DOMAIN clientSockets : pc' \in Sending \cup {"accept"} /\ j > i' =>
          /\ pc = "scan" /\ j >= i
          /\ owner'[clientSockets[j]] = owner[clientSockets[j]]
          /\ inq[owner[clientSockets[j]]] # <<>> => inq'[owner[clientSockets[j]]] # <<>>
    <3>1. i \in Nat /\ i' = i /\ pc = "scan" /\ owner' = owner
      BY <2>2 DEF TypeOK
    <3>2. ASSUME NEW j \in DOMAIN clientSockets, j > i
          PROVE  j >= i /\ inq'[owner[clientSockets[j]]] = inq[owner[clientSockets[j]]]
      BY <1>0, <2>4, <3>1, <3>2
    <3>3. QED
      BY <3>1, <3>2
  <2>6. QED
    BY <1>1, <2>2, <2>5
<1>6. CASE Disconnecting \/ NotReady
  <2>1. /\ pc = "scan" /\ UNCHANGED <<clientSockets, ready, owner, inq>> /\ i \in Nat
        /\ \/ pc' = "scan" /\ i' = i + 1
           \/ pc' = "broadcast" /\ i' = i
    BY <1>6 DEF Disconnecting, NotReady, Resume, Broadcast, TypeOK
  <2>2. QED
    BY <1>0, <1>1, <2>1
<1>7. CASE ScanEnds \/ Stop \/ SigPipe
  <2>1. pc' \in {"poll", "stopped", "killed"}
    BY <1>7 DEF ScanEnds, Stop, SigPipe, Halt
  <2>2. QED
    BY <2>1 DEF Ahead
<1>8. CASE SendReply
  <2>1. /\ pc = "reply" /\ pc' = "scan" /\ i' = i + 1 /\ i \in Nat /\ cur \in Fd
        /\ UNCHANGED <<clientSockets, ready>>
        /\ \/ UNCHANGED <<owner, inq>>
           \/ out.kind = "full" /\ Close(cur)
    BY <1>8 DEF SendReply, Resume, TypeOK
  <2>2. CASE UNCHANGED <<owner, inq>>
    BY <1>0, <1>1, <2>1, <2>2
  <2>3. CASE out.kind = "full" /\ Close(cur)
    <3>1. owner[cur] # NoConn /\ cur \notin Listed /\ owner[cur] \in Conn
      BY <2>1, <2>3 DEF Cursor, TypeOK
    <3>2. \A j \in DOMAIN clientSockets :
            clientSockets[j] # cur /\ owner[clientSockets[j]] # owner[cur]
      BY <1>0, <2>1, <3>1 DEF FdLedger, Listed, ToSet
    <3>3. \A j \in DOMAIN clientSockets :
            /\ owner'[clientSockets[j]] = owner[clientSockets[j]]
            /\ inq'[owner[clientSockets[j]]] = inq[owner[clientSockets[j]]]
      BY <1>0, <2>1, <2>3, <3>1, <3>2 DEF Close, TypeOK
    <3>4. QED
      BY <1>0, <1>1, <2>1, <3>3
  <2>4. QED
    BY <2>1, <2>2, <2>3
<1>9. CASE SendBroadcast \/ SendEntry \/ SendLine
  <2>1. /\ pc \in Sending /\ UNCHANGED <<clientSockets, ready, owner, inq>> /\ i \in Nat
        /\ \/ pc' = "scan" /\ i' = i + 1
           \/ pc' = pc /\ i' = i
    BY <1>9 DEF SendBroadcast, SendEntry, SendLine, Resume, TypeOK
  <2>2. QED
    BY <1>0, <1>1, <2>1
<1>10. CASE BroadcastEnds
  <2>1. /\ pc = "broadcast" /\ pc' = "scan" /\ i' = i + 1 /\ cur \in Fd
        /\ i \in DOMAIN clientSockets /\ clientSockets[i] = cur /\ UNCHANGED ready
        /\ clientSockets \in Seq(Fd)
        /\ Leave \/ UNCHANGED <<clientSockets, owner, inq>>
    BY <1>10 DEF BroadcastEnds, Resume, Cursor, Serving, TypeOK
  <2>2. CASE UNCHANGED <<clientSockets, owner, inq>>
    BY <1>0, <1>1, <2>1, <2>2
  <2>3. CASE Leave
    <3>1. clientSockets' = RemoveAt(clientSockets, i) /\ Close(cur)
      BY <2>1, <2>3 DEF Leave, FdLedger
    <3>2. \A j \in DOMAIN clientSockets : j # i =>
            /\ owner'[clientSockets[j]] = owner[clientSockets[j]]
            /\ inq'[owner[clientSockets[j]]] = inq[owner[clientSockets[j]]]
      BY <1>0, <2>1, <3>1 DEF Close, FdLedger, TypeOK
    <3>3. ASSUME NEW j \in DOMAIN clientSockets, j > i,
                 NEW g \in Fd, g = clientSockets[j], g \in ready
          PROVE  Readable(g)'
      <4>1. j # i /\ j \in Nat /\ i \in Nat
        BY <1>0, <2>1, <3>3
      <4>2. /\ Readable(g) /\ owner[g] # NoConn /\ owner'[g] = owner[g]
            /\ inq'[owner[g]] = inq[owner[g]]
        BY <1>0, <2>1, <3>2, <3>3, <4>1 DEF Ahead
      <4>3. QED
        BY <4>2, StaysReadable
    <3>4. /\ DOMAIN clientSockets' = 1..(Len(clientSockets) - 1)
          /\ \A j \in DOMAIN clientSockets' : j >= i + 1 =>
                j + 1 \in DOMAIN clientSockets /\ clientSockets'[j] = clientSockets[j + 1]
      <4>1. /\ Len(clientSockets) \in Nat /\ DOMAIN clientSockets = 1..Len(clientSockets)
            /\ DOMAIN clientSockets' = 1..(Len(clientSockets) - 1)
            /\ \A n \in 1..(Len(clientSockets) - 1) :
                 clientSockets'[n] = IF n < i THEN clientSockets[n] ELSE clientSockets[n + 1]
        BY <2>1, <3>1, RemoveAtFacts
      <4>2. QED
        BY <2>1, <4>1
    <3>5. ASSUME NEW j \in DOMAIN clientSockets', j >= i', clientSockets'[j] \in ready'
          PROVE  Readable(clientSockets[j])'
      <4>1. i \in Nat /\ j \in Nat /\ j >= i + 1
        BY <1>0, <2>1, <3>4, <3>5
      <4>2. j + 1 \in DOMAIN clientSockets /\ clientSockets'[j] = clientSockets[j + 1] /\ j + 1 > i
        BY <3>4, <3>5, <4>1
      <4>3. QED
        BY <1>0, <2>1, <3>3, <3>5, <4>2
    <3>6. QED
      BY <2>1, <3>5 DEF Ahead
  <2>4. QED
    BY <2>1, <2>2, <2>3
<1>11. CASE TypeExit
  BY <1>0, <1>1, <1>11 DEF TypeExit
<1>12. ASSUME NEW c \in Conn, Connect(c) \/ Ask(c) \/ Read(c) \/ Hangup(c) \/ RstArrives(c)
       PROVE  Ahead'
  <2>1. /\ UNCHANGED <<serverVars, owner>>
        /\ inq' = inq \/ \E m : inq' = [inq EXCEPT ![c] = Append(@, m)]
    BY <1>12 DEF Connect, Ask, Read, Hangup, RstArrives
  <2>2. \A d \in Conn : inq[d] # <<>> => inq'[d] # <<>>
    BY <2>1 DEF TypeOK
  <2>3. QED
    BY <1>0, <1>1, <2>1, <2>2 DEF serverVars
<1>13. CASE UNCHANGED vars
  BY <1>0, <1>1, <1>13 DEF vars, serverVars
<1>14. QED
  BY <1>2, <1>3, <1>4, <1>5, <1>6, <1>7, <1>8, <1>9, <1>10, <1>11, <1>12, <1>13
     DEF Next, ServerStep, Terminated

-----------------------------------------------------------------------------
(* The strengthened invariant holds in every reachable state. *)
LEMMA InductiveInvariant == Spec => []IInv
<1>1. ASSUME IInv, [Next]_vars PROVE IInv'
  BY <1>1, TypeStep, LedgerStep, CursorStep, WaitingStep, AheadStep, RegistrationStep
     DEF IInv
<1>2. QED
  BY <1>1, InitInv, PTL DEF Spec

(* The variables of Server keep their types. *)
THEOREM TypeCorrect == Spec => []TypeOK
<1>1. IInv => TypeOK
  BY DEF IInv
<1>2. QED
  BY <1>1, InductiveInvariant, PTL

(* No descriptor leaks, is listed twice or shared by two connections, and  *)
(* none that is listed is closed, for every history of connections,        *)
(* refusals and $exits.                                                    *)
THEOREM DescriptorsAreSound == Spec => []FdLedger
<1>1. IInv => FdLedger
  BY DEF IInv
<1>2. QED
  BY <1>1, InductiveInvariant, PTL

(* The server's thread never waits in receive_str for a peer to speak. *)
THEOREM ReceiveReturns == Spec => []RecvNeverBlocks
<1>1. IInv => RecvNeverBlocks
  <2> SUFFICES ASSUME IInv, pc = "scan", i <= Len(clientSockets), clientSockets[i] \in ready
               PROVE  Readable(clientSockets[i])
    BY DEF RecvNeverBlocks, Readable
  <2>1. i \in DOMAIN clientSockets
    BY DEF IInv, TypeOK, Cursor
  <2>2. QED
    BY <2>1 DEF IInv, TypeOK, Ahead
<1>2. QED
  BY <1>1, InductiveInvariant, PTL

(* A registered connection is known under the name it registered last,     *)
(* whoever had its descriptor before.                                      *)
THEOREM NamesStick == Spec => []RegistrationSticks
<1>1. IInv => RegistrationSticks
  BY DEF IInv
<1>2. QED
  BY <1>1, InductiveInvariant, PTL

-----------------------------------------------------------------------------
(***************************************************************************)
(* The server implements the chat room.                                    *)
(***************************************************************************)
(* What a handler sends is what its kind of handler may send. *)
RightKind ==
    /\ pc = "reply" => out.kind \in {"error", "full"}
    /\ pc = "broadcast" => out.kind \in Spoken

(* RightKind holds in every reachable state. *)
LEMMA KindsAreRight == Spec => []RightKind
<1>1. Init => RightKind
  BY DEF Init, RightKind
<1>2. ASSUME IInv, RightKind, [Next]_vars PROVE RightKind'
  <2> USE DEF RightKind, Spoken
  <2>1. CASE Receive
    BY <2>1 DEF Receive, Dispatch, Register, Reply, Broadcast, Plain
  <2>2. CASE Accept
    BY <2>2 DEF Accept, Resume, Plain
  <2>3. CASE Disconnecting
    BY <2>3 DEF Disconnecting, Resume, Broadcast
  <2>4. CASE SendBroadcast
    BY <1>2, <2>4 DEF SendBroadcast
  <2>5. CASE Poll \/ AcceptFails \/ NotReady \/ ScanEnds \/ SendReply \/ BroadcastEnds
             \/ SendEntry \/ SendLine \/ Stop \/ SigPipe
    BY <2>5 DEF Poll, AcceptFails, NotReady, ScanEnds, SendReply, BroadcastEnds,
                SendEntry, SendLine, Stop, SigPipe, Halt, Resume
  <2>6. CASE UNCHANGED <<pc, out>>
    BY <1>2, <2>6
  <2>7. CASE TypeExit \/ (\E c \in Conn : Connect(c) \/ Ask(c) \/ Read(c) \/ Hangup(c) \/ RstArrives(c))
             \/ UNCHANGED vars
    BY <2>6, <2>7 DEF TypeExit, Connect, Ask, Read, Hangup, RstArrives, vars, serverVars
  <2>8. QED
    BY <1>2, <2>1, <2>2, <2>3, <2>4, <2>5, <2>7 DEF Next, ServerStep, Terminated
<1>3. QED
  BY <1>1, <1>2, InductiveInvariant, PTL DEF Spec

-----------------------------------------------------------------------------
(* What can be seen of the room outside of a broadcast.                    *)
LEMMA RoomIsQuiet ==
    ASSUME pc # "broadcast"
    PROVE  Saying = NoName /\ Speaker = NoConn /\ HadTurn = {}
BY DEF Saying, Speaker, HadTurn

(* It is the same after a step that leaves list and descriptors alone.     *)
LEMMA RoomIsSame ==
    ASSUME UNCHANGED clientSockets, \A f \in Listed : owner'[f] = owner[f],
           \/ pc # "broadcast" /\ pc' # "broadcast"
           \/ UNCHANGED <<pc, out, cur, k, owner>>
    PROVE  UNCHANGED <<Members, Saying, Speaker, HadTurn>>
<1>1. Members' = Members
  BY DEF Members, Listed, ToSet
<1>2. CASE pc # "broadcast" /\ pc' # "broadcast"
  BY <1>1, <1>2 DEF Saying, Speaker, HadTurn
<1>3. CASE UNCHANGED <<pc, out, cur, k, owner>>
  BY <1>1, <1>3 DEF Saying, Speaker, HadTurn
<1>4. QED
  BY <1>2, <1>3

(* A listed connection is a member, and is one; nobody else is.            *)
LEMMA MembersAreListed ==
    ASSUME IInv
    PROVE  /\ Members \subseteq Conn
           /\ \A j \in DOMAIN clientSockets : owner[clientSockets[j]] \in Members
           /\ \A j, l \in DOMAIN clientSockets :
                 owner[clientSockets[j]] = owner[clientSockets[l]] => j = l
           /\ pc = "broadcast" => cur \in Listed /\ owner[cur] \in Conn
<1>1. Members = {owner[clientSockets[j]] : j \in DOMAIN clientSockets}
  BY DEF Members, Listed, ToSet
<1>2. \A j \in DOMAIN clientSockets :
         clientSockets[j] \in Fd /\ owner[clientSockets[j]] \in Conn
  BY TargetOpen
<1>3. \A j, l \in DOMAIN clientSockets :
         owner[clientSockets[j]] = owner[clientSockets[l]] => j = l
  BY <1>2, ServerAssumption DEF IInv, FdLedger
<1>4. pc = "broadcast" => cur \in Listed /\ owner[cur] \in Conn
  BY <1>2 DEF IInv, Cursor, Serving, Listed, ToSet
<1>5. QED
  BY <1>1, <1>2, <1>3, <1>4

(* A send is heard by a peer that is there, and shows nobody the door.     *)
LEMMA SendIsHeard ==
    ASSUME TypeOK, NEW f \in Fd, owner[f] \in Conn, NEW m, Send(f, m)
    PROVE  /\ Present' = Present
           /\ told' = IF owner[f] \in Present THEN [told EXCEPT ![owner[f]] = m] ELSE told
<1>1. CASE peer[owner[f]] = "open"
  BY <1>1 DEF Send, Present
<1>2. CASE peer[owner[f]] # "open"
  <2>1. told' = told /\ (peer' = peer \/ peer' = [peer EXCEPT ![owner[f]] = "probed"])
    BY <1>2 DEF Send
  <2>2. Present' = Present
    BY <1>2, <2>1 DEF Present, TypeOK
  <2>3. QED
    BY <1>2, <2>1, <2>2 DEF Present
<1>3. QED
  BY <1>1, <1>2

(* A frame is a message of the kinds that its kind is one of.              *)
LEMMA FrameOfKind ==
    ASSUME NEW m \in Frame, NEW K
    PROVE  m \in MessageOf(K) <=> m.kind \in K
BY DEF Frame, MessageOf

-----------------------------------------------------------------------------
(* A handler that starts a broadcast speaks for its connection.            *)
LEMMA Begins ==
    ASSUME IInv, IInv', RightKind', pc # "broadcast", pc' = "broadcast", k' = 1,
           UNCHANGED <<clientSockets, owner, peer, told>>, cur' \in Listed
    PROVE  Promise!Next
<1>1. Speaker = NoConn
  BY RoomIsQuiet
<1>2. Members' = Members /\ Present' = Present
  BY DEF Members, Listed, ToSet, Present
<1>3. owner[cur'] \in Members /\ owner[cur'] \in Conn
  BY MembersAreListed DEF Members
<1>4. Speaker' = owner[cur']
  BY DEF Speaker
<1>5. Saying' \in MessageOf(Spoken)
  <2>1. Saying' = out' /\ out' \in Frame /\ out'.kind \in Spoken
    BY DEF Saying, RightKind, IInv, TypeOK
  <2>2. QED
    BY <2>1, FrameOfKind
<1>6. HadTurn = {}
  BY RoomIsQuiet
<1>7. HadTurn' = {}
  <2>1. \A l \in DOMAIN clientSockets : ~(l < 1)
    BY DEF IInv, TypeOK
  <2>2. QED
    BY <2>1 DEF HadTurn
<1>8. Promise!Speak(owner[cur'])
  BY <1>1, <1>2, <1>3, <1>4, <1>5, <1>6, <1>7 DEF Promise!Speak, Promise!Quiet
<1>9. QED
  BY <1>3, <1>8 DEF Promise!Next

(* A handler that answers is heard by its connection, or by nobody.        *)
LEMMA Answers ==
    ASSUME IInv, pc \in {"reply", "list", "log"}, pc' # "broadcast",
           UNCHANGED clientSockets, \A f \in Listed : owner'[f] = owner[f],
           NEW m \in Frame, m.kind \notin Spoken, Send(cur, m)
    PROVE  [Promise!Next]_(Promise!vars)
<1>1. cur \in Fd /\ owner[cur] \in Conn /\ TypeOK
  BY TargetOpen DEF IInv, TypeOK, Sending
<1>2. UNCHANGED <<Members, Saying, Speaker, HadTurn>> /\ Speaker = NoConn
  BY RoomIsSame, RoomIsQuiet
<1>3. /\ Present' = Present
      /\ told' = IF owner[cur] \in Present THEN [told EXCEPT ![owner[cur]] = m] ELSE told
  BY <1>1, SendIsHeard
<1>4. m \in MessageOf(Kind \ Spoken)
  <2>1. m.kind \in Kind
    BY DEF Frame
  <2>2. QED
    BY <2>1, FrameOfKind
<1>5. CASE owner[cur] \in Present
  <2>1. Promise!Answer(owner[cur])
    BY <1>2, <1>3, <1>4, <1>5 DEF Promise!Answer, Promise!Quiet
  <2>2. QED
    BY <1>1, <2>1 DEF Promise!Next
<1>6. CASE owner[cur] \notin Present
  BY <1>2, <1>3, <1>6 DEF Promise!vars
<1>7. QED
  BY <1>5, <1>6

(* One send of a broadcast is a member's turn.                             *)
LEMMA Tells ==
    ASSUME IInv, RightKind, SendBroadcast
    PROVE  Promise!Next
<1> DEFINE p == owner[clientSockets[k]]
<1>1. /\ pc = "broadcast" /\ k \in DOMAIN clientSockets /\ k' = k + 1
      /\ Send(clientSockets[k], out)
      /\ UNCHANGED <<pc, clientSockets, cur, out, owner>>
  BY DEF SendBroadcast, IInv, Cursor, TypeOK
<1>2. clientSockets[k] \in Fd /\ p \in Conn /\ TypeOK /\ p \in Members
  BY <1>1, TargetOpen, MembersAreListed DEF IInv
<1>3. Members' = Members /\ Saying' = Saying /\ Speaker' = Speaker /\ Saying = out
  BY <1>1 DEF Members, Listed, ToSet, Saying, Speaker
<1>4. Speaker # NoConn
  BY <1>1, MembersAreListed, ServerAssumption DEF Speaker
<1>5. /\ Present' = Present
      /\ told' = IF p \in Present THEN [told EXCEPT ![p] = Saying] ELSE told
  BY <1>1, <1>2, <1>3, SendIsHeard
<1>6. HadTurn = {owner[clientSockets[l]] : l \in {n \in DOMAIN clientSockets : n < k}}
  BY <1>1 DEF HadTurn
<1>7. HadTurn' = {owner[clientSockets[l]] : l \in {n \in DOMAIN clientSockets : n < k + 1}}
  BY <1>1 DEF HadTurn
<1>8. \A n \in DOMAIN clientSockets : n < k + 1 <=> n < k \/ n = k
  BY <1>1 DEF IInv, TypeOK
<1>9. HadTurn' = HadTurn \cup {p}
  <2>1. \A x : x \in HadTurn <=>
          \E n \in DOMAIN clientSockets : n < k /\ x = owner[clientSockets[n]]
    BY <1>6
  <2>2. \A x : x \in HadTurn' <=>
          \E n \in DOMAIN clientSockets : n < k + 1 /\ x = owner[clientSockets[n]]
    BY <1>7
  <2>3. \A x : x \in HadTurn' <=> x \in HadTurn \/ x = p
    BY <1>1, <1>8, <2>1, <2>2
  <2>4. QED
    BY <2>3
<1>10. p \notin HadTurn
  <2>1. \A n \in DOMAIN clientSockets : owner[clientSockets[n]] = p => ~(n < k)
    <3>1. \A n \in DOMAIN clientSockets : owner[clientSockets[n]] = p => n = k
      BY <1>1, MembersAreListed
    <3>2. ~(k < k)
      BY DEF IInv, TypeOK
    <3>3. QED
      BY <3>1, <3>2
  <2>2. ASSUME p \in HadTurn PROVE FALSE
    <3>1. PICK n \in {l \in DOMAIN clientSockets : l < k} : p = owner[clientSockets[n]]
      BY <1>6, <2>2
    <3>2. QED
      BY <2>1, <3>1
  <2>3. QED
    BY <2>2
<1>11. Promise!Tell(p)
  BY <1>2, <1>3, <1>4, <1>5, <1>9, <1>10 DEF Promise!Tell, Promise!Quiet
<1>12. QED
  BY <1>2, <1>11 DEF Promise!Next

(* At the end of a broadcast all had their turn, and after a goodbye it is *)
(* the speaker who is no longer listed.                                    *)
LEMMA Finishes ==
    ASSUME IInv, RightKind, BroadcastEnds
    PROVE  Promise!Next
<1>1. /\ pc = "broadcast" /\ pc' = "scan" /\ k > Len(clientSockets) /\ UNCHANGED <<peer, told>>
      /\ IF out.kind = "left" THEN Leave ELSE UNCHANGED <<clientSockets, owner>>
  BY DEF BroadcastEnds, Resume
<1>2. /\ cur \in Listed /\ owner[cur] \in Conn /\ Speaker = owner[cur] /\ Speaker # NoConn
      /\ Saying = out /\ out \in Frame
  BY <1>1, MembersAreListed, ServerAssumption DEF Speaker, Saying, IInv, TypeOK
<1>3. HadTurn = Members
  <2>1. \A l \in DOMAIN clientSockets : l < k
    BY <1>1 DEF IInv, TypeOK
  <2>2. QED
    BY <1>1, <2>1 DEF HadTurn, Members, Listed, ToSet
<1>4. Saying' = NoName /\ Speaker' = NoConn /\ HadTurn' = {}
  BY <1>1 DEF Saying, Speaker, HadTurn
<1>5. Saying \in MessageOf({"left"}) <=> out.kind = "left"
  BY <1>2, FrameOfKind
<1>6. CASE out.kind = "left"
  <2>1. PICK j \in DOMAIN clientSockets :
          /\ clientSockets[j] = cur
          /\ clientSockets' = RemoveAt(clientSockets, j)
          /\ owner' = [owner EXCEPT ![cur] = NoConn]
    BY <1>1, <1>6 DEF Leave, Close
  <2>2. Listed' = Listed \ {cur}
    BY <2>1, ElemsOfErase DEF IInv, TypeOK, FdLedger, Listed
  <2>3. Listed \subseteq Fd /\ \A f \in Listed : owner[f] = owner[cur] => f = cur
    <3>1. \A j1, j2 \in DOMAIN clientSockets :
             owner[clientSockets[j1]] = owner[clientSockets[j2]] => j1 = j2
      BY MembersAreListed
    <3>2. QED
      BY <1>2, <3>1, TargetOpen DEF Listed, ToSet
  <2>4. \A f \in Listed' : owner'[f] = owner[f]
    BY <2>1, <2>2, <2>3 DEF IInv, TypeOK
  <2>5. Members' = Members \ {Speaker}
    BY <1>2, <2>2, <2>3, <2>4 DEF Members
  <2>6. QED
    BY <1>1, <1>2, <1>3, <1>4, <1>5, <1>6, <2>5
       DEF Promise!Next, Promise!Finish, Promise!Quiet, Present
<1>7. CASE out.kind # "left"
  <2>1. Members' = Members
    BY <1>1, <1>7 DEF Members, Listed, ToSet
  <2>2. QED
    BY <1>1, <1>2, <1>3, <1>4, <1>5, <1>7, <2>1
       DEF Promise!Next, Promise!Finish, Promise!Quiet, Present
<1>8. QED
  BY <1>6, <1>7

(* An accepted connection joins, a refused one does not.                   *)
LEMMA Joins ==
    ASSUME IInv, Accept
    PROVE  [Promise!Next]_(Promise!vars)
<1>1. PICK f \in Fd :
        /\ owner[f] = NoConn
        /\ owner' = [owner EXCEPT ![f] = Head(backlog)]
        /\ \/ pc' = "reply" /\ UNCHANGED clientSockets
           \/ pc' = "scan" /\ clientSockets' = Append(clientSockets, f)
  BY DEF Accept, Resume
<1>2. /\ backlog \in Seq(Conn) /\ backlog # <<>> /\ pc = "accept"
      /\ UNCHANGED <<peer, told>> /\ clientSockets \in Seq(Fd)
  BY DEF Accept, IInv, Cursor, TypeOK
<1>3. Head(backlog) = backlog[1] /\ 1 \in DOMAIN backlog /\ backlog[1] \in Conn
  BY <1>2, TailFacts
<1>4. f \notin Listed /\ \A g \in Listed : owner'[g] = owner[g]
  <2>1. \A g \in Listed : g \in Fd /\ owner[g] # NoConn
    BY TargetOpen, ServerAssumption DEF Listed, ToSet
  <2>2. QED
    BY <1>1, <2>1 DEF IInv, TypeOK
<1>5. Present' = Present
  BY <1>2 DEF Present
<1>6. CASE pc' = "reply" /\ UNCHANGED clientSockets
  BY <1>2, <1>4, <1>5, <1>6, RoomIsSame DEF Promise!vars
<1>7. CASE pc' = "scan" /\ clientSockets' = Append(clientSockets, f)
  <2>1. Listed' = Listed \cup {f}
    BY <1>2, <1>7, ElemsOfAppend DEF Listed
  <2>2. owner'[f] = backlog[1]
    BY <1>1, <1>3 DEF IInv, TypeOK
  <2>3. Members' = Members \cup {backlog[1]}
    BY <1>4, <2>1, <2>2 DEF Members
  <2>4. backlog[1] \notin Members
    <3>1. \A g \in Listed : g \in Fd
      BY TargetOpen DEF Listed, ToSet
    <3>2. QED
      BY <1>3, <3>1 DEF Members, IInv, FdLedger
  <2>5. /\ Saying = NoName /\ Speaker = NoConn /\ HadTurn = {}
        /\ Saying' = NoName /\ Speaker' = NoConn /\ HadTurn' = {}
    BY <1>2, <1>7 DEF Saying, Speaker, HadTurn
  <2>6. Promise!Join(backlog[1])
    BY <1>2, <1>5, <2>3, <2>4, <2>5 DEF Promise!Join, Promise!Quiet
  <2>7. QED
    BY <1>3, <2>6 DEF Promise!Next
<1>8. QED
  BY <1>1, <1>6, <1>7

-----------------------------------------------------------------------------
(* Every step of the server or of a peer is a step of the room, or none.   *)
LEMMA StepSimulation ==
    ASSUME IInv, IInv', RightKind, RightKind', [Next]_vars
    PROVE  [Promise!Next]_(Promise!vars)
<1>1. CASE Accept
  BY <1>1, Joins
<1>2. CASE Receive
  <2>1. i \in DOMAIN clientSockets
    BY <1>2 DEF Receive, IInv, TypeOK, Cursor
  <2>2. /\ pc = "scan" /\ UNCHANGED <<clientSockets, owner, peer, told>>
        /\ cur' = clientSockets[i] /\ cur' \in Listed
        /\ pc' = "broadcast" => k' = 1
    BY <1>2, <2>1 DEF Receive, Dispatch, Register, Reply, Broadcast, Listed, ToSet
  <2>3. CASE pc' = "broadcast"
    BY <2>2, <2>3, Begins
  <2>4. CASE pc' # "broadcast"
    BY <2>2, <2>4, RoomIsSame DEF Promise!vars, Present
  <2>5. QED
    BY <2>3, <2>4
<1>3. CASE Disconnecting
  <2>1. i \in DOMAIN clientSockets
    BY <1>3 DEF Disconnecting, IInv, TypeOK, Cursor
  <2>2. /\ pc = "scan" /\ UNCHANGED <<clientSockets, owner, peer, told>>
        /\ cur' = clientSockets[i] /\ cur' \in Listed
        /\ pc' = "broadcast" => k' = 1
    BY <1>3, <2>1 DEF Disconnecting, Resume, Broadcast, Listed, ToSet
  <2>3. CASE pc' = "broadcast"
    BY <2>2, <2>3, Begins
  <2>4. CASE pc' # "broadcast"
    BY <2>2, <2>4, RoomIsSame DEF Promise!vars, Present
  <2>5. QED
    BY <2>3, <2>4
<1>4. CASE SendReply
  <2>1. /\ pc = "reply" /\ pc' = "scan" /\ UNCHANGED clientSockets /\ Send(cur, out)
        /\ out \in Frame /\ out.kind \notin Spoken
        /\ IF out.kind = "full" THEN owner' = [owner EXCEPT ![cur] = NoConn] ELSE owner' = owner
    BY <1>4 DEF SendReply, Close, Resume, IInv, TypeOK, RightKind, Spoken
  <2>2. \A f \in Listed : owner'[f] = owner[f]
    <3>1. CASE out.kind = "full"
      <4>1. cur \notin Listed
        BY <2>1, <3>1 DEF IInv, Cursor
      <4>2. \A f \in Listed : f \in Fd
        BY TargetOpen DEF Listed, ToSet
      <4>3. QED
        BY <2>1, <3>1, <4>1, <4>2 DEF IInv, TypeOK
    <3>2. QED
      BY <2>1, <3>1
  <2>3. QED
    BY <2>1, <2>2, Answers
<1>5. CASE SendBroadcast
  BY <1>5, Tells
<1>6. CASE BroadcastEnds
  BY <1>6, Finishes
<1>7. CASE SendEntry \/ SendLine
  <2>1. /\ pc \in {"list", "log"} /\ pc' # "broadcast" /\ UNCHANGED <<clientSockets, owner>>
    BY <1>7 DEF SendEntry, SendLine, Resume
  <2>2. \A f \in Fd : users[f] \in Name \cup {NoName}
    BY DEF IInv, TypeOK
  <2>3. PICK m \in Frame : m.kind \notin Spoken /\ Send(cur, m)
    BY <1>7, <2>2 DEF SendEntry, SendLine, Plain, Frame, Kind, Spoken
  <2>4. QED
    BY <2>1, <2>3, Answers
<1>8. CASE Stop \/ SigPipe
  <2>1. /\ clientSockets' = <<>> /\ pc' # "broadcast" /\ UNCHANGED <<peer, told>>
    BY <1>8 DEF Stop, SigPipe, Halt
  <2>2. Members' = {} /\ HadTurn' = {} /\ Saying' = NoName /\ Speaker' = NoConn
    BY <2>1 DEF Members, HadTurn, Saying, Speaker, Listed, ToSet
  <2>3. Promise!Close
    BY <2>1, <2>2 DEF Promise!Close, Present
  <2>4. QED
    BY <2>3 DEF Promise!Next
<1>9. CASE Poll \/ AcceptFails \/ NotReady \/ ScanEnds
  <2>1. /\ pc # "broadcast" /\ pc' # "broadcast"
        /\ UNCHANGED <<clientSockets, owner, peer, told>>
    BY <1>9 DEF Poll, AcceptFails, NotReady, ScanEnds, Resume
  <2>2. QED
    BY <2>1, RoomIsSame DEF Promise!vars, Present
<1>10. ASSUME NEW c \in Conn, Connect(c)
       PROVE  [Promise!Next]_(Promise!vars)
  <2>1. /\ UNCHANGED <<serverVars, owner, told>> /\ peer[c] = "idle"
        /\ peer' = [peer EXCEPT ![c] = "open"]
    BY <1>10 DEF Connect
  <2>2. UNCHANGED <<Members, Saying, Speaker, HadTurn>>
    BY <2>1, RoomIsSame DEF serverVars
  <2>3. Present' = Present \cup {c} /\ c \notin Present
    BY <2>1 DEF Present, IInv, TypeOK
  <2>4. c \notin Members
    <3>1. \A f \in Listed : f \in Fd /\ owner[f] # NoConn
      BY TargetOpen, ServerAssumption DEF Listed, ToSet
    <3>2. QED
      BY <2>1, <3>1 DEF Members, IInv, Waiting
  <2>5. Promise!Come(c)
    BY <2>1, <2>2, <2>3, <2>4 DEF Promise!Come
  <2>6. QED
    BY <2>5 DEF Promise!Next
<1>11. ASSUME NEW c \in Conn, Hangup(c)
       PROVE  [Promise!Next]_(Promise!vars)
  <2>1. /\ UNCHANGED <<serverVars, owner, told>> /\ peer[c] = "open"
        /\ \E how \in {"closed", "reset"} : peer' = [peer EXCEPT ![c] = how]
    BY <1>11 DEF Hangup
  <2>2. UNCHANGED <<Members, Saying, Speaker, HadTurn>>
    BY <2>1, RoomIsSame DEF serverVars
  <2>3. Present' = Present \ {c} /\ c \in Present
    BY <2>1 DEF Present, IInv, TypeOK
  <2>4. Promise!Go(c)
    BY <2>1, <2>2, <2>3 DEF Promise!Go
  <2>5. QED
    BY <2>4 DEF Promise!Next
<1>12. ASSUME NEW c \in Conn, Ask(c) \/ Read(c) \/ RstArrives(c)
       PROVE  UNCHANGED Promise!vars
  <2>1. /\ UNCHANGED <<serverVars, owner, told>>
        /\ \/ peer' = peer
           \/ peer[c] = "probed" /\ peer' = [peer EXCEPT ![c] = "reset"]
    BY <1>12 DEF Ask, Read, RstArrives
  <2>2. Present' = Present
    BY <2>1 DEF Present, IInv, TypeOK
  <2>3. QED
    BY <2>1, <2>2, RoomIsSame DEF serverVars, Promise!vars
<1>13. CASE TypeExit \/ UNCHANGED vars
  <2>1. UNCHANGED <<pc, out, cur, k, clientSockets, owner, peer, told>>
    BY <1>13 DEF TypeExit, vars, serverVars
  <2>2. QED
    BY <2>1, RoomIsSame DEF Promise!vars, Present
<1>14. QED
  BY <1>1, <1>2, <1>3, <1>4, <1>5, <1>6, <1>7, <1>8, <1>9, <1>10, <1>11, <1>12,
     <1>13 DEF Next, ServerStep, Terminated

(* The server keeps the promise of the chat room: nobody listed is passed  *)
(* over by a broadcast, no two messages overlap, and only the connection   *)
(* that said goodbye leaves.                                               *)
THEOREM ChatRoomImplemented == Spec => ImplementsChatRoom
<1>1. Init => Promise!Init
  <2> SUFFICES ASSUME Init PROVE Promise!Init
    OBVIOUS
  <2>1. Members = {} /\ HadTurn = {} /\ Saying = NoName /\ Speaker = NoConn /\ Present = {}
    BY DEF Init, Members, HadTurn, Saying, Speaker, Present, Listed, ToSet
  <2>2. Plain("error") \in MessageOf(Kind \ Spoken)
    BY DEF Plain, MessageOf, Kind, Spoken
  <2>3. told \in [Conn -> MessageOf(Spoken) \cup MessageOf(Kind \ Spoken)]
    BY <2>2 DEF Init
  <2>4. QED
    BY <2>1, <2>3 DEF Promise!Init
<1>2. QED
  BY <1>1, StepSimulation, InductiveInvariant, KindsAreRight, PTL
     DEF Spec, ImplementsChatRoom, Promise!Spec

-----------------------------------------------------------------------------
(***************************************************************************)
(* What the server has told a peer: an answer is not interrupted, and      *)
(* nobody is dropped without a word.  Both follow from where the thread    *)
(* is when a peer has heard what.                                          *)
(***************************************************************************)
Gone == {"closed", "probed", "reset"}
PartOf(place) == IF place = "list" THEN "entry" ELSE "line"

(* A peer that has heard a part of an answer is the one being answered, or *)
(* has gone, or the process is over; and a peer that has not come yet has  *)
(* heard nothing.                                                          *)
Answering ==
    \A c \in Conn : told[c].kind \in {"entry", "line"} =>
        \/ Halted
        \/ peer[c] \in Gone
        \/ pc \in {"list", "log"} /\ owner[cur] = c /\ told[c].kind = PartOf(pc)
Untold == \A c \in Conn : peer[c] = "idle" => told[c].kind = "error"

(* Of a broadcast, everybody in front of the cursor has heard it last.     *)
Heard ==
    pc = "broadcast" =>
        \A j \in DOMAIN clientSockets :
            j < k /\ peer[owner[clientSockets[j]]] = "open" =>
                told[owner[clientSockets[j]]] = out

Known == IInv /\ RightKind /\ Answering /\ Untold /\ Heard

(* An element of a queue is at its head or behind it. *)
LEMMA HeadOrTail ==
    ASSUME NEW S, NEW s \in Seq(S), s # <<>>, NEW x \in ToSet(s)
    PROVE  x = Head(s) \/ x \in ToSet(Tail(s))
<1>1. PICK j \in 1..Len(s) : x = s[j]
  BY DEF ToSet
<1>2. CASE j = 1
  BY <1>1, <1>2
<1>3. CASE j # 1
  <2>1. j - 1 \in 1..Len(Tail(s)) /\ Tail(s)[j - 1] = s[j] /\ DOMAIN Tail(s) = 1..Len(Tail(s))
    BY <1>1, <1>3
  <2>2. QED
    BY <1>1, <2>1 DEF ToSet
<1>4. QED
  BY <1>2, <1>3

(* A send tells the peer, if it is there, and nobody else. *)
LEMMA SendTells ==
    ASSUME TypeOK, NEW f \in Fd, owner[f] \in Conn, NEW m, Send(f, m)
    PROVE  /\ \A c \in Conn : c # owner[f] => told'[c] = told[c] /\ peer'[c] = peer[c]
           /\ peer[owner[f]] = "open" => told'[owner[f]] = m /\ peer' = peer
           /\ peer[owner[f]] # "open" =>
                 told' = told /\ peer[owner[f]] \in Gone /\ peer'[owner[f]] \in Gone
<1>1. CASE peer[owner[f]] = "open"
  BY <1>1 DEF TypeOK, Send
<1>2. CASE peer[owner[f]] # "open"
  BY <1>2 DEF TypeOK, Send, Gone
<1>3. QED
  BY <1>1, <1>2

(* What a peer does by itself: it comes, or it goes. *)
SettlesOnly ==
    \A c \in Conn :
        \/ peer'[c] = peer[c]
        \/ peer[c] = "idle" /\ peer'[c] = "open"
        \/ peer'[c] \in Gone

(* An answer under way stays where it is, or nobody is left to hear it. *)
Undisturbed ==
    \/ pc \notin {"list", "log"} /\ ~Halted
    \/ UNCHANGED <<pc, cur>> /\ owner'[cur] = owner[cur]
    \/ Halted'

(* The steps that tell nobody anything: no peer comes back or goes back to *)
(* idle, and an answer under way stays where it is.                        *)
LEMMA SilentStep ==
    ASSUME TypeOK, Answering, Untold, UNCHANGED told,
           SettlesOnly,
           Undisturbed
    PROVE  Answering' /\ Untold'
<1>1. Untold'
  BY DEF Untold, Gone, SettlesOnly
<1>2. ASSUME NEW c \in Conn, told'[c].kind \in {"entry", "line"}, ~Halted'
      PROVE  \/ peer'[c] \in Gone
             \/ pc' \in {"list", "log"} /\ owner'[cur'] = c /\ told'[c].kind = PartOf(pc')
  <2>1. peer[c] # "idle"
    BY <1>2 DEF Untold
  <2>2. CASE peer[c] \in Gone
    BY <2>1, <2>2 DEF Gone, SettlesOnly
  <2>3. CASE peer[c] \notin Gone
    <3>1. ~Halted
      BY <1>2, <2>3 DEF Halted, Undisturbed
    <3>2. pc \in {"list", "log"} /\ owner[cur] = c /\ told[c].kind = PartOf(pc)
      BY <1>2, <2>3, <3>1 DEF Answering
    <3>3. QED
      BY <1>2, <3>1, <3>2 DEF Undisturbed
  <2>4. QED
    BY <2>2, <2>3
<1>3. QED
  BY <1>1, <1>2 DEF Answering

(* A step that sends m to the socket f of a handler. *)
LEMMA SpokenStep ==
    ASSUME TypeOK, Answering, Untold, ~Halted, NEW f \in Fd, owner[f] \in Conn, NEW m, Send(f, m),
           pc \in {"list", "log"} => f = cur,
           \/ m.kind \notin {"entry", "line"}
           \/ /\ UNCHANGED <<pc, cur, owner>> /\ f = cur
              /\ pc \in {"list", "log"} /\ m.kind = PartOf(pc)
    PROVE  Answering' /\ Untold'
<1> DEFINE d == owner[f]
<1>1. /\ \A c \in Conn : c # d => told'[c] = told[c] /\ peer'[c] = peer[c]
      /\ peer[d] = "open" => told'[d] = m /\ peer' = peer
      /\ peer[d] # "open" => told' = told /\ peer[d] \in Gone /\ peer'[d] \in Gone
  BY SendTells
<1>2. Untold'
  BY <1>1 DEF Untold, Gone
<1>3. ASSUME NEW c \in Conn, told'[c].kind \in {"entry", "line"}, peer'[c] \notin Gone
      PROVE  pc' \in {"list", "log"} /\ owner'[cur'] = c /\ told'[c].kind = PartOf(pc')
  <2>1. CASE c = d
    <3>1. told'[c] = m
      BY <1>1, <1>3, <2>1
    <3>2. QED
      BY <1>3, <2>1, <3>1
  <2>2. CASE c # d
    <3>1. told[c].kind \in {"entry", "line"} /\ peer[c] \notin Gone
      BY <1>1, <1>3, <2>2
    <3>2. pc \in {"list", "log"} /\ owner[cur] = c
      BY <3>1 DEF Answering
    <3>3. QED
      BY <2>2, <3>2
  <2>3. QED
    BY <2>1, <2>2
<1>4. QED
  BY <1>2, <1>3 DEF Answering

-----------------------------------------------------------------------------
(* Every step keeps Answering: only the handlers of $getlist and $getlog   *)
(* send parts, and they send to nobody else until they are done.           *)
LEMMA AnswerStep ==
    ASSUME IInv, RightKind, Answering, Untold, [Next]_vars
    PROVE  Answering' /\ Untold'
<1>1. TypeOK /\ (pc \in Sending => cur \in Fd /\ owner[cur] \in Conn)
  BY TargetOpen DEF IInv, TypeOK
<1>2. CASE SendReply
  <2>1. pc = "reply" /\ Send(cur, out)
    BY <1>2 DEF SendReply
  <2>2. out.kind \notin {"entry", "line"} /\ ~Halted
    BY <2>1 DEF RightKind, Halted
  <2>3. QED
    BY <1>1, <2>1, <2>2, SpokenStep DEF Sending
<1>3. CASE SendBroadcast
  <2>1. /\ pc = "broadcast" /\ k \in DOMAIN clientSockets /\ Send(clientSockets[k], out)
    BY <1>3 DEF SendBroadcast, IInv, Cursor, TypeOK
  <2>2. clientSockets[k] \in Fd /\ owner[clientSockets[k]] \in Conn
    BY <2>1, TargetOpen
  <2>3. out.kind \notin {"entry", "line"} /\ ~Halted
    BY <2>1 DEF RightKind, Spoken, Halted
  <2>4. QED
    BY <1>1, <2>1, <2>2, <2>3, SpokenStep
<1>4. CASE SendEntry
  <2>1. pc = "list" /\ ~Halted /\ UNCHANGED <<cur, owner>>
    BY <1>4 DEF SendEntry, Halted
  <2>2. CASE \E f \in Fd : Send(cur, [kind |-> "entry", name |-> users[f]]) /\ UNCHANGED pc
    <3>1. PICK f \in Fd : Send(cur, [kind |-> "entry", name |-> users[f]]) /\ UNCHANGED pc
      BY <2>2
    <3> DEFINE m == [kind |-> "entry", name |-> users[f]]
    <3>2. m.kind = "entry" /\ Send(cur, m)
      BY <3>1
    <3> HIDE DEF m
    <3>3. QED
      BY <1>1, <2>1, <3>1, <3>2, SpokenStep DEF Sending, PartOf
  <2>3. CASE Send(cur, Plain("done"))
    <3>1. Plain("done").kind = "done"
      BY DEF Plain
    <3>2. QED
      BY <1>1, <2>1, <2>3, <3>1, SpokenStep DEF Sending
  <2>4. QED
    BY <1>4, <2>2, <2>3 DEF SendEntry
<1>5. CASE SendLine
  <2>1. pc = "log" /\ ~Halted /\ UNCHANGED <<cur, owner>>
    BY <1>5 DEF SendLine, Halted
  <2>2. CASE Send(cur, Plain("line")) /\ UNCHANGED pc
    <3>1. Plain("line").kind = "line"
      BY DEF Plain
    <3>2. QED
      BY <1>1, <2>1, <2>2, <3>1, SpokenStep DEF Sending, PartOf
  <2>3. CASE Send(cur, Plain("done"))
    <3>1. Plain("done").kind = "done"
      BY DEF Plain
    <3>2. QED
      BY <1>1, <2>1, <2>3, <3>1, SpokenStep DEF Sending
  <2>4. QED
    BY <1>5, <2>2, <2>3 DEF SendLine
<1>6. CASE Poll \/ Accept \/ AcceptFails \/ Receive \/ Disconnecting \/ NotReady \/ ScanEnds
           \/ BroadcastEnds
  <2>1. UNCHANGED <<told, peer>> /\ pc \notin {"list", "log"} /\ ~Halted
    BY <1>6 DEF Poll, Accept, AcceptFails, Receive, Disconnecting, NotReady, ScanEnds,
                BroadcastEnds, Halted
  <2>2. UNCHANGED told /\ SettlesOnly /\ Undisturbed
    BY <2>1 DEF SettlesOnly, Undisturbed
  <2>3. QED
    BY <1>1, <2>2, SilentStep
<1>7. CASE Stop \/ SigPipe
  <2>1. UNCHANGED <<told, peer>> /\ Halted'
    BY <1>7 DEF Stop, SigPipe, Halt, Halted
  <2>2. UNCHANGED told /\ SettlesOnly /\ Undisturbed
    BY <2>1 DEF SettlesOnly, Undisturbed
  <2>3. QED
    BY <1>1, <2>2, SilentStep
<1>8. CASE TypeExit
           \/ (\E c \in Conn : Connect(c) \/ Ask(c) \/ Read(c) \/ Hangup(c) \/ RstArrives(c))
           \/ UNCHANGED vars
  <2>1. UNCHANGED <<told, pc, cur, owner>>
    BY <1>8 DEF TypeExit, Connect, Ask, Read, Hangup, RstArrives, vars, serverVars
  <2>2. SettlesOnly
    <3>1. CASE TypeExit \/ UNCHANGED vars \/ (\E c \in Conn : Ask(c) \/ Read(c))
      BY <3>1 DEF SettlesOnly, TypeExit, Ask, Read, vars
    <3>2. ASSUME NEW d \in Conn, Connect(d) \/ Hangup(d) \/ RstArrives(d)
          PROVE  SettlesOnly
      BY <1>1, <3>2 DEF SettlesOnly, TypeOK, Connect, Hangup, RstArrives, Gone
    <3>3. QED
      BY <1>8, <3>1, <3>2
  <2>3. UNCHANGED told /\ Undisturbed
    BY <2>1 DEF Undisturbed
  <2>4. QED
    BY <1>1, <2>2, <2>3, SilentStep
<1>9. QED
  BY <1>2, <1>3, <1>4, <1>5, <1>6, <1>7, <1>8 DEF Next, ServerStep, Terminated

(* Every step keeps Heard: the cursor passes whom it has told. *)
LEMMA HeardStep ==
    ASSUME IInv, Heard, [Next]_vars
    PROVE  Heard'
<1> SUFFICES ASSUME pc' = "broadcast",
                    NEW j \in DOMAIN clientSockets', j < k',
                    peer'[owner'[clientSockets'[j]]] = "open"
             PROVE  told'[owner'[clientSockets'[j]]] = out'
  BY DEF Heard
<1>1. TypeOK
  BY DEF IInv
<1>2. CASE Receive \/ Disconnecting
  <2>1. k' = 1 /\ UNCHANGED clientSockets
    BY <1>2 DEF Receive, Dispatch, Register, Reply, Broadcast, Disconnecting, Resume
  <2>2. QED
    BY <1>1, <2>1 DEF TypeOK
<1>3. CASE SendBroadcast
  <2>1. /\ k \in DOMAIN clientSockets /\ Send(clientSockets[k], out) /\ k' = k + 1
        /\ pc = "broadcast" /\ UNCHANGED <<clientSockets, owner, out>>
    BY <1>3 DEF SendBroadcast, IInv, Cursor, TypeOK
  <2>2. /\ clientSockets[k] \in Fd /\ owner[clientSockets[k]] \in Conn
        /\ owner[clientSockets[j]] \in Conn
    BY <2>1, TargetOpen
  <2> DEFINE d == owner[clientSockets[k]]
             c == owner[clientSockets[j]]
  <2>3. /\ c # d => told'[c] = told[c] /\ peer'[c] = peer[c]
        /\ peer[d] = "open" => told'[d] = out /\ peer' = peer
        /\ peer[d] # "open" => peer'[d] \in Gone
    BY <1>1, <2>1, <2>2, SendTells
  <2>4. CASE c = d
    BY <2>1, <2>3, <2>4 DEF Gone
  <2>5. CASE c # d
    <3>1. j < k
      BY <1>1, <2>1, <2>5 DEF TypeOK
    <3>2. told[c] = out
      BY <2>1, <2>3, <2>5, <3>1 DEF Heard
    <3>3. QED
      BY <2>1, <2>3, <2>5, <3>2
  <2>6. QED
    BY <2>4, <2>5
<1>4. CASE TypeExit
           \/ (\E c \in Conn : Connect(c) \/ Ask(c) \/ Read(c) \/ Hangup(c) \/ RstArrives(c))
           \/ UNCHANGED vars
  <2>1. UNCHANGED <<told, pc, k, clientSockets, owner, out>>
    BY <1>4 DEF TypeExit, Connect, Ask, Read, Hangup, RstArrives, vars, serverVars
  <2>2. clientSockets[j] \in Fd /\ owner[clientSockets[j]] \in Conn
    BY <2>1, TargetOpen
  <2>3. peer[owner[clientSockets[j]]] # "idle"
    BY <2>2, ServerAssumption DEF IInv, Waiting
  <2>4. peer[owner[clientSockets[j]]] = "open"
    BY <1>1, <1>4, <2>1, <2>2, <2>3
       DEF TypeExit, Connect, Ask, Read, Hangup, RstArrives, vars, TypeOK
  <2>5. QED
    BY <2>1, <2>4 DEF Heard
<1>5. CASE Poll \/ Accept \/ AcceptFails \/ NotReady \/ ScanEnds \/ SendReply
           \/ BroadcastEnds \/ SendEntry \/ SendLine \/ Stop \/ SigPipe
  BY <1>5 DEF Poll, Accept, AcceptFails, NotReady, ScanEnds, SendReply, BroadcastEnds,
              SendEntry, SendLine, Stop, SigPipe, Halt, Resume
<1>6. QED
  BY <1>2, <1>3, <1>4, <1>5 DEF Next, ServerStep, Terminated

(* What is known of every reachable state. *)
LEMMA KnownInvariant == Spec => []Known
<1>1. Init => Answering /\ Untold /\ Heard
  BY DEF Init, Answering, Untold, Heard, Plain
<1>2. IInv /\ RightKind /\ Answering /\ Untold /\ Heard /\ [Next]_vars
         => (Answering /\ Untold /\ Heard)'
  BY AnswerStep, HeardStep
<1>3. QED
  BY <1>1, <1>2, InductiveInvariant, KindsAreRight, PTL DEF Spec, Known

-----------------------------------------------------------------------------
(* The answer to $getlist or $getlog reaches the client in one piece up to *)
(* SRV_DONE_SEND, whatever the others ask for (Server.cpp 59-77).          *)
THEOREM AnswersAreContiguous == Spec => AnswerIsContiguous
<1>1. ASSUME Known, [Next]_vars, NEW c \in Conn, told[c].kind \in {"entry", "line"}
      PROVE  told'[c].kind \in {told[c].kind, "done"}
  <2>1. TypeOK /\ (pc \in Sending => cur \in Fd /\ owner[cur] \in Conn)
    BY <1>1, TargetOpen DEF Known, IInv, TypeOK
  <2>2. CASE UNCHANGED told
    BY <2>2
  <2>3. CASE SendEntry \/ SendLine
    <3>1. PICK m : /\ Send(cur, m) /\ (m.kind = PartOf(pc) \/ m.kind = "done")
                   /\ pc \in {"list", "log"}
      <4>1. Plain("done").kind = "done" /\ Plain("line").kind = "line"
        BY DEF Plain
      <4>2. CASE SendEntry
        BY <4>1, <4>2 DEF SendEntry, PartOf
      <4>3. CASE SendLine
        BY <4>1, <4>3 DEF SendLine, PartOf
      <4>4. QED
        BY <2>3, <4>2, <4>3
    <3>2. cur \in Fd /\ owner[cur] \in Conn
      BY <2>1, <3>1 DEF Sending
    <3>3. told'[c] = told[c] \/ (c = owner[cur] /\ told'[c] = m /\ peer[c] = "open")
      <4>1. TypeOK /\ Send(cur, m)
        BY <2>1, <3>1
      <4>2. /\ \A d \in Conn : d # owner[cur] => told'[d] = told[d] /\ peer'[d] = peer[d]
            /\ peer[owner[cur]] = "open" => told'[owner[cur]] = m /\ peer' = peer
            /\ peer[owner[cur]] # "open" =>
                  told' = told /\ peer[owner[cur]] \in Gone /\ peer'[owner[cur]] \in Gone
        BY <3>2, <4>1, SendTells
      <4>3. QED
        BY <4>2
    <3>4. CASE c = owner[cur] /\ told'[c] = m /\ peer[c] = "open"
      <4>1. told[c].kind = PartOf(pc)
        BY <1>1, <3>1, <3>4 DEF Known, Answering, Gone, Halted
      <4>2. QED
        BY <3>1, <3>4, <4>1
    <3>5. QED
      BY <3>3, <3>4
  <2>4. CASE SendReply \/ SendBroadcast
    <3>1. PICK f \in Fd : owner[f] \in Conn /\ Send(f, out) /\ pc \in {"reply", "broadcast"}
      <4>1. CASE SendReply
        BY <2>1, <4>1 DEF SendReply, Sending
      <4>2. CASE SendBroadcast
        <5>1. k \in DOMAIN clientSockets
          BY <1>1, <4>2 DEF SendBroadcast, Known, IInv, Cursor, TypeOK
        <5>2. QED
          BY <1>1, <4>2, <5>1, TargetOpen DEF SendBroadcast, Known
      <4>3. QED
        BY <2>4, <4>1, <4>2
    <3>2. peer[c] \in Gone
      BY <1>1, <3>1 DEF Known, Answering, Halted
    <3>3. told'[c] = told[c]
      BY <2>1, <3>1, <3>2, SendTells DEF Gone
    <3>4. QED
      BY <3>3
  <2>5. CASE Poll \/ Accept \/ AcceptFails \/ Receive \/ Disconnecting \/ NotReady \/ ScanEnds
             \/ BroadcastEnds \/ Stop \/ SigPipe \/ TypeExit \/ UNCHANGED vars
             \/ (\E d \in Conn : Connect(d) \/ Ask(d) \/ Read(d) \/ Hangup(d) \/ RstArrives(d))
    <3>1. UNCHANGED told
      BY <2>5 DEF Poll, Accept, AcceptFails, Receive, Disconnecting, NotReady, ScanEnds,
                  BroadcastEnds, Stop, SigPipe, Halt, TypeExit, vars, Connect, Ask, Read,
                  Hangup, RstArrives
    <3>2. QED
      BY <3>1
  <2>6. QED
    BY <1>1, <2>3, <2>4, <2>5 DEF Next, ServerStep, Terminated
<1>2. Known /\ [Next]_vars =>
         [\A c \in Conn : told[c].kind \in {"entry", "line"} =>
             told'[c].kind \in {told[c].kind, "done"}]_vars
  BY <1>1
<1>3. QED
  BY <1>2, KnownInvariant, PTL DEF Spec, AnswerIsContiguous

(* The server hangs up on a peer that is there only behind a farewell or a *)
(* refusal (Server.cpp 20-28, 49-55).                                      *)
THEOREM FarewellPrecedesClose == Spec => FarewellBeforeClose
<1>1. ASSUME Known, [Next]_vars, NEW c \in Conn, Connected(c), ~Connected(c)', ~Halted',
             peer[c] = "open"
      PROVE  told'[c].kind \in {"left", "full"}
  <2>1. TypeOK /\ IInv
    BY <1>1 DEF Known, IInv
  <2>2. CASE Accept
    <3>1. PICK f \in Fd : owner[f] = NoConn /\ owner' = [owner EXCEPT ![f] = Head(backlog)]
                          /\ backlog' = Tail(backlog)
      BY <2>2 DEF Accept
    <3>2. QED
      <4>1. backlog \in Seq(Conn) /\ backlog # <<>>
        BY <2>1, <2>2 DEF IInv, Cursor, TypeOK, Accept
      <4>2. CASE c \in ToSet(backlog)
        <5>1. c = Head(backlog) \/ c \in ToSet(Tail(backlog))
          BY <4>1, <4>2, HeadOrTail
        <5>2. owner'[f] = Head(backlog)
          BY <2>1, <3>1 DEF TypeOK
        <5>3. QED
          BY <1>1, <3>1, <5>1, <5>2 DEF Connected
      <4>3. CASE \E g \in Fd : owner[g] = c
        <5>1. PICK g \in Fd : owner[g] = c
          BY <4>3
        <5>2. owner'[g] = c
          BY <2>1, <3>1, <5>1, ServerAssumption DEF TypeOK
        <5>3. QED
          BY <1>1, <5>2 DEF Connected
      <4>4. QED
        BY <1>1, <4>2, <4>3 DEF Connected
  <2>3. CASE AcceptFails
    <3>1. backlog \in Seq(Conn) /\ backlog # <<>> /\ backlog' = Tail(backlog)
          /\ peer[Head(backlog)] # "open" /\ UNCHANGED owner
      BY <2>1, <2>3 DEF IInv, Cursor, TypeOK, AcceptFails
    <3>2. CASE c \in ToSet(backlog)
      <4>1. c = Head(backlog) \/ c \in ToSet(Tail(backlog))
        BY <3>1, <3>2, HeadOrTail
      <4>2. QED
        BY <1>1, <3>1, <4>1 DEF Connected
    <3>3. QED
      BY <1>1, <3>1, <3>2 DEF Connected
  <2>4. CASE SendReply
    <3>1. /\ pc = "reply" /\ Send(cur, out) /\ UNCHANGED backlog
          /\ (out.kind = "full" /\ owner' = [owner EXCEPT ![cur] = NoConn]) \/ UNCHANGED owner
      BY <2>4 DEF SendReply, Close
    <3>2. cur \in Fd /\ owner[cur] \in Conn
      BY <2>1, <3>1, TargetOpen DEF TypeOK, Sending
    <3>3. out.kind = "full" /\ c = owner[cur]
      BY <1>1, <2>1, <3>1, <3>2 DEF Connected, TypeOK
    <3>4. told'[c] = out
      BY <1>1, <2>1, <3>1, <3>2, <3>3, SendTells
    <3>5. QED
      BY <3>3, <3>4
  <2>5. CASE BroadcastEnds
    <3>1. /\ pc = "broadcast" /\ k > Len(clientSockets) /\ UNCHANGED <<backlog, told>>
          /\ (out.kind = "left" /\ owner' = [owner EXCEPT ![cur] = NoConn]) \/ UNCHANGED owner
      BY <2>5 DEF BroadcastEnds, Leave, Close
    <3>2. i \in DOMAIN clientSockets /\ clientSockets[i] = cur
      BY <2>1, <3>1 DEF IInv, Cursor, Serving
    <3>3. cur \in Fd /\ owner[cur] \in Conn
      BY <2>1, <3>2, TargetOpen
    <3>4. out.kind = "left" /\ c = owner[cur]
      BY <1>1, <2>1, <3>1, <3>3 DEF Connected, TypeOK
    <3>5. i < k
      BY <2>1, <3>1, <3>2 DEF TypeOK
    <3>6. told[c] = out
      BY <1>1, <3>1, <3>2, <3>4, <3>5 DEF Known, Heard
    <3>7. QED
      BY <3>1, <3>4, <3>6
  <2>6. CASE Stop \/ SigPipe
    BY <1>1, <2>6 DEF Stop, SigPipe, Halt, Halted
  <2>7. CASE \E d \in Conn : Connect(d)
    <3>1. UNCHANGED owner /\ \E d \in Conn : backlog' = Append(backlog, d)
      BY <2>7 DEF Connect
    <3>2. ToSet(backlog) \subseteq ToSet(backlog')
      BY <2>1, <3>1, ElemsOfAppend DEF TypeOK
    <3>3. QED
      BY <1>1, <3>1, <3>2 DEF Connected
  <2>8. CASE Poll \/ Receive \/ Disconnecting \/ NotReady \/ ScanEnds \/ SendBroadcast
             \/ SendEntry \/ SendLine \/ TypeExit \/ UNCHANGED vars
             \/ (\E d \in Conn : Ask(d) \/ Read(d) \/ Hangup(d) \/ RstArrives(d))
    <3>1. UNCHANGED <<owner, backlog>>
      BY <2>8 DEF Poll, Receive, Disconnecting, NotReady, ScanEnds, SendBroadcast, SendEntry,
                  SendLine, TypeExit, vars, Ask, Read, Hangup, RstArrives
    <3>2. QED
      BY <1>1, <3>1 DEF Connected
  <2>9. QED
    BY <1>1, <2>2, <2>3, <2>4, <2>5, <2>6, <2>7, <2>8 DEF Next, ServerStep, Terminated
<1>2. Known /\ [Next]_vars =>
         [\A c \in Conn :
            /\ Connected(c) /\ ~Connected(c)'
            /\ ~Halted' /\ peer[c] = "open"
            => told'[c].kind \in {"left", "full"}]_vars
  BY <1>1
<1>3. QED
  BY <1>2, KnownInvariant, PTL DEF Spec, FarewellBeforeClose
=============================================================================
