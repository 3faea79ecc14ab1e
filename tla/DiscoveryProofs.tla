-------------------------- MODULE DiscoveryProofs ---------------------------
(***************************************************************************)
(* Discovery for any number of clients, any ports, any timeout, any losses *)
(* and any faults: its types; that what is announced is served, unless     *)
(* bind has failed; that a client whose bind succeeded and who listens to  *)
(* the server's port fails only after the network has lost a datagram for  *)
(* each of its seconds but one; and that a shutdown leaves no renderer     *)
(* waiting.                                                                *)
(***************************************************************************)
EXTENDS Discovery, Integers, TLAPS

(* How far the server's thread is when nobody has asked for a shutdown:    *)
(* whoever failed to create or to listen has asked for one.                *)
Started ==
    /\ pc["main"] # "loop" => shutdown
    /\ pc["udp"] # "off" => pc["server"] \in {"loop", "send", "joinUdp", "done"}
    /\ ~shutdown =>
          /\ pc["server"] \in {"bind", "listen"} => fd
          /\ pc["server"] \in {"startUdp", "loop", "send", "joinUdp", "done"} =>
                serving = IF bound THEN "port" ELSE "other"

(* While the broadcaster runs, the seconds a client has waited are those   *)
(* whose datagram was lost, and the one whose datagram is about to come.   *)
Counted ==
    \A c \in Client :
        /\ client[c] = "off" => waited[c] = 0
        /\ client[c] = "waiting" /\ steady[c] =>
              /\ ~shutdown /\ pc["udp"] \in {"loop", "sleep"}
              /\ owns[c] /\ port = ClientPort =>
                    waited[c] <= lost[c] + (IF pc["udp"] = "loop" THEN 1 ELSE 0)

-----------------------------------------------------------------------------
(* The types. *)
LEMMA GotoType ==
    ASSUME TypeOK, NEW t, NEW from, NEW to \in Location, Goto(t, from, to)
    PROVE  pc' \in [Thread -> Location]
  BY DEF TypeOK, ProcessTypeOK, Goto

LEMMA MainType ==
    ASSUME TypeOK,
           Main \/ ServerThread \/ Send \/ PeerReads \/ UdpEnds \/ UdpSends \/ UdpWakes
    PROVE  ProcessTypeOK'
<1>1. pc' \in [Thread -> Location]
  <2> USE DEF Location
  <2>1. CASE Main
    BY <2>1, GotoType DEF Main
  <2>2. CASE Create \/ CreateError \/ ServerLoop \/ Send \/ PeerReads
    BY <2>2, GotoType DEF Create, CreateError, ServerLoop, Send, PeerReads
  <2>3. CASE StartUdp
    BY <2>3 DEF StartUdp, TypeOK, ProcessTypeOK
  <2>4. CASE Bind \/ Listen \/ ListenError
    BY <2>4, GotoType DEF Bind, Listen, ListenError
  <2>5. CASE UdpEnds \/ UdpSends \/ UdpWakes
    BY <2>5, GotoType DEF UdpEnds, UdpSends, UdpWakes
  <2>6. QED
    BY <2>1, <2>2, <2>3, <2>4, <2>5 DEF ServerThread
<1>2. /\ UNCHANGED <<tasks, task>>
      /\ shutdown' \in {shutdown, TRUE} /\ fd' \in {fd, TRUE}
      /\ bound' \in {bound, TRUE, FALSE}
      /\ serving' \in {serving, "none", "port", "other"}
  BY DEF Main, ServerThread, Create, CreateError, Bind, Listen, ListenError, StartUdp, ServerLoop,
         Send, PeerReads, UdpEnds, UdpSends, UdpWakes, console, socket
<1>3. refresh' \in {refresh, TRUE, (refresh \/ fd')}
  BY DEF Main, ServerThread, Create, CreateError, Bind, Listen, ListenError, StartUdp, ServerLoop,
         Send, PeerReads, UdpEnds, UdpSends, UdpWakes, console
<1>4. refresh' \in BOOLEAN
  BY <1>3 DEF TypeOK, ProcessTypeOK
<1>5. QED
  BY <1>1, <1>2, <1>4 DEF TypeOK, ProcessTypeOK

LEMMA ConsoleType ==
    ASSUME TypeOK, ConsoleThreads \/ TypeExit
    PROVE  ProcessTypeOK'
<1>1. pc' \in [Thread -> Location]
  <2> USE DEF Location
  <2>1. CASE PushTask \/ Render
    BY <2>1, GotoType DEF PushTask, Render
  <2>2. CASE Check
    BY <2>2, GotoType DEF Check, TypeOK, ProcessTypeOK
  <2>3. CASE Read \/ RunTask \/ EndInput \/ TypeExit
    BY <2>3, GotoType DEF Read, RunTask, EndInput, TypeExit, TypeOK, ProcessTypeOK
  <2>4. QED
    BY <2>1, <2>2, <2>3 DEF ConsoleThreads
<1>2. tasks' \in Seq(Effect)
  <2>1. tasks' \in {tasks, Append(tasks, "flag"), Append(tasks, "refresh")}
    BY DEF ConsoleThreads, PushTask, Render, Check, Read, RunTask, EndInput, TypeExit, console
  <2>2. tasks \in Seq(Effect) /\ "flag" \in Effect /\ "refresh" \in Effect
    BY DEF TypeOK, ProcessTypeOK, Effect
  <2>3. QED
    BY <2>1, <2>2
<1>3. /\ UNCHANGED socket
      /\ task' \in {task, 0, 1, task + 1}
  BY DEF ConsoleThreads, PushTask, Render, Check, Read, RunTask, EndInput, TypeExit,
         console
<1>4. /\ shutdown' = shutdown \/ shutdown' = (shutdown \/ tasks[task] = "flag")
      /\ refresh' = refresh \/ refresh' = (refresh \/ tasks[task] = "refresh")
            \/ refresh' \in BOOLEAN
  BY DEF ConsoleThreads, PushTask, Render, Check, Read, RunTask, EndInput, TypeExit,
         console
<1>5. shutdown' \in BOOLEAN /\ refresh' \in BOOLEAN
  BY <1>4 DEF TypeOK, ProcessTypeOK
<1>6. QED
  BY <1>1, <1>2, <1>3, <1>5 DEF TypeOK, ProcessTypeOK, socket

LEMMA EndsWaitType ==
    ASSUME TypeOK, NEW S \in SUBSET Client, NEW result \in {"found", "failed"},
           EndsWait(S, result)
    PROVE  /\ client' \in [Client -> {"off", "waiting", "found", "failed"}]
           /\ owns' \in [Client -> BOOLEAN] /\ steady' \in [Client -> BOOLEAN]
           /\ waited' \in [Client -> 0..Timeout]
  BY DiscoveryAssumption DEF EndsWait, TypeOK

LEMMA ClientType ==
    ASSUME TypeOK, Next
    PROVE  /\ client' \in [Client -> {"off", "waiting", "found", "failed"}]
           /\ owns' \in [Client -> BOOLEAN] /\ steady' \in [Client -> BOOLEAN]
           /\ waited' \in [Client -> 0..Timeout] /\ lost' \in [Client -> 0..MaxLost]
<1> USE DEF TypeOK
<1>1. CASE Server
  BY <1>1 DEF Server
<1>2. CASE Announce
  <2>1. PICK missed \in SUBSET {c \in Client : Hears(c) /\ lost[c] < MaxLost} :
           LET got == {c \in Client : Hears(c)} \ missed
           IN  /\ EndsWait(got, "found")
               /\ lost' = [c \in Client |-> CASE c \in missed -> lost[c] + 1
                                              [] c \in got -> 0
                                              [] OTHER -> lost[c]]
    BY <1>2 DEF Announce
  <2>2. \A c \in missed : lost[c] + 1 \in 0..MaxLost
    BY <2>1, DiscoveryAssumption
  <2>3. lost' \in [Client -> 0..MaxLost]
    BY <2>1, <2>2, DiscoveryAssumption
  <2>4. QED
    BY <2>1, <2>3, EndsWaitType
<1>3. CASE Tick
  <2>1. \A c \in Client : client[c] = "waiting" => waited[c] + 1 \in 0..Timeout
    BY <1>3, DiscoveryAssumption DEF Tick
  <2>2. QED
    BY <1>3, <2>1 DEF Tick
<1>4. ASSUME NEW c \in Client, StartClient(c)
      PROVE  /\ client' \in [Client -> {"off", "waiting", "found", "failed"}]
             /\ owns' \in [Client -> BOOLEAN] /\ steady' \in [Client -> BOOLEAN]
             /\ UNCHANGED <<waited, lost>>
  <2>1. PICK taken \in BOOLEAN : owns' = [owns EXCEPT ![c] = ~taken]
    BY <1>4 DEF StartClient
  <2>2. QED
    BY <1>4, <2>1 DEF StartClient, Announcing
<1>5. ASSUME NEW c \in Client, GiveUp(c)
      PROVE  /\ client' \in [Client -> {"off", "waiting", "found", "failed"}]
             /\ owns' \in [Client -> BOOLEAN] /\ steady' \in [Client -> BOOLEAN]
             /\ waited' \in [Client -> 0..Timeout] /\ lost' \in [Client -> 0..MaxLost]
  BY <1>5, EndsWaitType, DiscoveryAssumption DEF GiveUp
<1>6. QED
  BY <1>1, <1>2, <1>3, <1>4, <1>5 DEF Next

LEMMA TypeStep ==
    ASSUME TypeOK, [Next]_vars
    PROVE  TypeOK'
<1>1. CASE Next
  <2>1. ProcessTypeOK'
    <3>1. CASE \/ Server \/ Announce
               \/ Tick /\ UdpWakes
      BY <3>1, MainType, ConsoleType DEF Server, Announce
    <3>2. CASE UNCHANGED processVars
      BY <3>2 DEF TypeOK, ProcessTypeOK, processVars, console, socket
    <3>3. QED
      BY <1>1, <3>1, <3>2 DEF Next, Tick, StartClient, GiveUp
  <2>2. port' = port
    BY <1>1 DEF Next, Server, Announce, Tick, StartClient, GiveUp
  <2>3. QED
    BY <1>1, <2>1, <2>2, ClientType DEF TypeOK
<1>2. CASE UNCHANGED vars
  BY <1>2 DEF TypeOK, ProcessTypeOK, vars, processVars, clients, console, socket
<1>3. QED
  BY <1>1, <1>2

LEMMA TypeInit ==
    ASSUME Init
    PROVE  TypeOK
<1>1. pc \in [Thread -> Location]
  BY DEF Init, ProcessInit, Thread, Location
<1>2. tasks = <<>> /\ shutdown = FALSE /\ refresh = FALSE /\ fd = FALSE /\ bound = FALSE
  BY DEF Init, ProcessInit
<1>3. tasks \in Seq(Effect)
  BY <1>2
<1>4. ProcessTypeOK
  BY <1>1, <1>2, <1>3 DEF Init, ProcessInit, ProcessTypeOK
<1>5. QED
  BY <1>4, DiscoveryAssumption DEF Init, TypeOK

(* The types of the process and of the clients, whatever fails             *)
(* (servermain.cpp, Server.cpp 116-187, clientmain.cpp 53-82).             *)
THEOREM TypeCorrect == Spec => []TypeOK
  BY TypeInit, TypeStep, PTL DEF Spec

-----------------------------------------------------------------------------
(* Started. *)
LEMMA ServerThreadStarted ==
    ASSUME TypeOK, Started, ServerThread \/ Send \/ PeerReads
    PROVE  Started'
<1> USE DEF TypeOK, ProcessTypeOK, Thread, Goto, console, socket, Started
<1>1. CASE Create
  BY <1>1 DEF Create
<1>2. CASE CreateError
  BY <1>2 DEF CreateError
<1>3. CASE Bind
  BY <1>3 DEF Bind
<1>4. CASE Listen
  BY <1>4 DEF Listen
<1>5. CASE ListenError
  BY <1>5 DEF ListenError
<1>6. CASE StartUdp
  BY <1>6 DEF StartUdp
<1>7. CASE ServerLoop
  BY <1>7 DEF ServerLoop
<1>8. CASE Send \/ PeerReads
  BY <1>8 DEF Send, PeerReads
<1>9. QED
  BY <1>1, <1>2, <1>3, <1>4, <1>5, <1>6, <1>7, <1>8 DEF ServerThread

(* The other threads leave the server's alone, and a shutdown is for good. *)
LEMMA OthersStarted ==
    ASSUME TypeOK, Started, Main \/ UdpEnds \/ UdpSends \/ UdpWakes \/ ConsoleThreads \/ TypeExit
    PROVE  Started'
<1>1. /\ pc'["server"] = pc["server"] /\ (pc'["udp"] = pc["udp"] \/ pc["udp"] # "off")
      /\ UNCHANGED <<fd, bound>>
  BY DEF TypeOK, ProcessTypeOK, Thread, Goto, console, socket, Main, UdpEnds, UdpSends, UdpWakes,
         ConsoleThreads, PushTask, Render, Check, Read, RunTask, EndInput, TypeExit
<1>2. shutdown => shutdown'
  BY DEF console, Main, UdpEnds, UdpSends, UdpWakes, ConsoleThreads, PushTask, Render, Check,
         Read, RunTask, EndInput, TypeExit
<1>3. \/ pc'["main"] = pc["main"] /\ serving' = serving
      \/ shutdown /\ pc["main"] = "loop" /\ serving' = serving
      \/ pc["main"] # "loop"
  BY DEF TypeOK, ProcessTypeOK, Thread, Goto, console, socket, Main, UdpEnds, UdpSends, UdpWakes,
         ConsoleThreads, PushTask, Render, Check, Read, RunTask, EndInput, TypeExit
<1>4. QED
  BY <1>1, <1>2, <1>3 DEF Started

LEMMA StartedStep ==
    ASSUME TypeOK, Started, [Next]_vars
    PROVE  Started'
<1>1. CASE UNCHANGED processVars
  BY <1>1 DEF Started, processVars, console, socket
<1>2. CASE Server \/ Announce \/ (Tick /\ UdpWakes)
  BY <1>2, ServerThreadStarted, OthersStarted DEF Server, Announce
<1>3. QED
  BY <1>1, <1>2 DEF Next, vars, Tick, StartClient, GiveUp

(* A client is sent to the server only while the server listens on the     *)
(* port it announces, or, if its bind has failed, on another that the      *)
(* kernel chose; never after create or listen has failed                   *)
(* (Server.cpp 116-136, 159-187).                                          *)
THEOREM AnnouncedIsServed == Spec => AnnouncesWhatItServes
<1>1. Init => Started
  BY DEF Init, ProcessInit, Started, Thread
<1>2. TypeOK /\ Started /\ [Next]_vars => Started'
  BY StartedStep
<1>3. TypeOK /\ Started /\ [Next]_vars =>
        [\A c \in Client : client'[c] = "found" /\ client[c] # "found" =>
            serving = "port" \/ (~bound /\ serving = "other")]_vars
  <2>1. SUFFICES ASSUME TypeOK, Started, [Next]_vars, NEW c \in Client,
                        client'[c] = "found", client[c] # "found"
                 PROVE  serving = "port" \/ (~bound /\ serving = "other")
    OBVIOUS
  <2>2. Announce
    BY <2>1 DEF Next, vars, clients, Server, Tick, StartClient, GiveUp, EndsWait, TypeOK
  <2>3. ~shutdown /\ pc["udp"] = "loop"
    BY <2>2 DEF Announce, UdpSends, Goto
  <2>4. QED
    BY <2>1, <2>3 DEF Started
<1>4. QED
  BY <1>1, <1>2, <1>3, TypeCorrect, PTL DEF Spec, AnnouncesWhatItServes

-----------------------------------------------------------------------------
(* What a client has waited. *)
LEMMA CountedStep ==
    ASSUME TypeOK, Counted, [Next]_vars
    PROVE  Counted'
<1> USE DEF Counted
<1>0. \A c \in Client : waited[c] \in Int /\ lost[c] \in Int
  BY DEF TypeOK
<1>1. CASE UNCHANGED vars
  BY <1>1 DEF vars, processVars, console, clients
<1>2. CASE Server
  <2>1. /\ UNCHANGED <<client, waited, lost, owns, port>>
        /\ \A c \in Client : steady'[c] => steady[c] /\ (client[c] = "waiting" => ~shutdown')
    BY <1>2 DEF Server
  <2>2. pc'["udp"] = pc["udp"] \/ pc'["udp"] = "loop" \/ shutdown
    BY <1>2 DEF Server, TypeOK, ProcessTypeOK, Thread, Goto, Main, ServerThread, Create, CreateError,
       Bind, Listen, ListenError, StartUdp, ServerLoop, Send, PeerReads, UdpEnds, ConsoleThreads,
       PushTask, Render, Check, Read, RunTask, EndInput, TypeExit
  <2>3. QED
    BY <1>0, <2>1, <2>2
<1>3. CASE Announce
  <2>1. PICK missed \in SUBSET {c \in Client : Hears(c) /\ lost[c] < MaxLost} :
           LET got == {c \in Client : Hears(c)} \ missed
           IN  /\ EndsWait(got, "found")
               /\ lost' = [c \in Client |-> CASE c \in missed -> lost[c] + 1
                                              [] c \in got -> 0
                                              [] OTHER -> lost[c]]
    BY <1>3 DEF Announce
  <2>2. /\ UNCHANGED <<port, shutdown>>
        /\ pc["udp"] = "loop" /\ pc'["udp"] = "sleep"
    BY <1>3 DEF Announce, UdpSends, Goto, console, TypeOK, ProcessTypeOK, Thread
  <2>3. ASSUME NEW c \in Client
        PROVE  \/ client'[c] = "found"
               \/ /\ c \in missed /\ lost'[c] = lost[c] + 1
                  /\ client'[c] = client[c] /\ owns'[c] = owns[c]
                  /\ waited'[c] = waited[c] /\ steady'[c] = steady[c]
               \/ /\ ~Hears(c) /\ lost'[c] = lost[c]
                  /\ client'[c] = client[c] /\ owns'[c] = owns[c]
                  /\ waited'[c] = waited[c] /\ steady'[c] = steady[c]
    BY <2>1 DEF EndsWait, TypeOK
  <2>4. \A c \in missed : client[c] = "waiting"
    BY <2>1 DEF Hears
  <2>5. QED
    BY <1>0, <2>2, <2>3, <2>4 DEF Hears
<1>4. CASE Tick
  <2>1. /\ waited' = [c \in Client |-> IF client[c] = "waiting" THEN waited[c] + 1 ELSE waited[c]]
        /\ UNCHANGED <<client, owns, port, lost, steady, shutdown>>
        /\ pc["udp"] = "sleep" => pc'["udp"] = "loop"
        /\ pc["udp"] # "loop"
    BY <1>4 DEF Tick, UdpWakes, Goto, processVars, console, TypeOK, ProcessTypeOK, Thread
  <2>2. QED
    BY <1>0, <2>1
<1>5. ASSUME NEW d \in Client, StartClient(d)
      PROVE  Counted'
  <2>1. /\ client' = [client EXCEPT ![d] = "waiting"] /\ client[d] = "off"
        /\ steady' = [steady EXCEPT ![d] = Announcing]
        /\ UNCHANGED <<waited, lost, port, pc, shutdown>>
        /\ \A c \in Client : c # d => owns'[c] = owns[c]
    BY <1>5 DEF StartClient, processVars, console, TypeOK
  <2>2. \A c \in Client : c # d => client'[c] = client[c] /\ steady'[c] = steady[c]
    BY <2>1 DEF TypeOK
  <2>3. steady'[d] => Announcing
    BY <2>1 DEF TypeOK
  <2>4. waited[d] <= lost[d] + (IF pc["udp"] = "loop" THEN 1 ELSE 0) /\ client'[d] = "waiting"
    BY <2>1 DEF TypeOK
  <2>5. QED
    BY <2>1, <2>2, <2>3, <2>4 DEF Announcing
<1>6. ASSUME NEW d \in Client, GiveUp(d)
      PROVE  Counted'
  <2>1. UNCHANGED <<port, pc, shutdown>>
    BY <1>6 DEF GiveUp, processVars, console
  <2>2. \A c \in Client :
           \/ client'[c] = "failed"
           \/ /\ client'[c] = client[c] /\ owns'[c] = owns[c] /\ lost'[c] = lost[c]
              /\ waited'[c] = waited[c] /\ steady'[c] = steady[c]
    BY <1>6 DEF GiveUp, EndsWait, TypeOK
  <2>3. QED
    BY <2>1, <2>2
<1>7. QED
  BY <1>1, <1>2, <1>3, <1>4, <1>5, <1>6 DEF Next

(* A client whose bind succeeded and who listens to the server's port, and *)
(* that waits while the server announces itself, gives up only if the      *)
(* network lost a datagram in each of its seconds but one, whatever the    *)
(* port, the other clients and the process do                              *)
(* (Server.cpp 179-186, clientmain.cpp 63-79).                             *)
THEOREM ClientIsFound == Spec => ClientFindsServer
<1>1. Init => Counted
  BY DEF Init, Counted
<1>2. TypeOK /\ Counted /\ [Next]_vars => Counted'
  BY CountedStep
<1>3. TypeOK /\ Counted =>
        \A c \in Client : GiveUp(c) /\ steady[c] /\ owns[c] /\ port = ClientPort =>
            lost[c] >= Timeout - 1
  <2>1. SUFFICES ASSUME TypeOK, Counted, NEW c \in Client,
                        GiveUp(c), steady[c], owns[c], port = ClientPort
                 PROVE  lost[c] >= Timeout - 1
    OBVIOUS
  <2>2. client[c] = "waiting" /\ waited[c] = Timeout
    BY <2>1 DEF GiveUp
  <2>3. waited[c] <= lost[c] + 1 /\ lost[c] \in Nat /\ Timeout \in Nat
    BY <2>1, <2>2, DiscoveryAssumption DEF Counted, TypeOK
  <2>4. QED
    BY <2>2, <2>3
<1>4. QED
  BY <1>1, <1>2, <1>3, TypeCorrect, PTL DEF Spec, ClientFindsServer

-----------------------------------------------------------------------------
(* The renderer never waits behind a shutdown without a redraw to come: it *)
(* was asked for, or the thread that runs the tasks has yet to ask for it  *)
(* (Console.cpp 420-425 and 458-467, Server.cpp 119-129).                  *)
RedrawIsAhead ==
    shutdown /\ pc["renderer"] = "wait" /\ ~refresh =>
        pc["input"] = "execute" /\ \E i \in task..Len(tasks) : tasks[i] = "refresh"

(* What the renderer has registered: each redraw stands behind a flag, the *)
(* flags that were passed have been set, and the renderer waits only when  *)
(* it has registered both.                                                 *)
InTasks(e) == \E i \in 1..Len(tasks) : tasks[i] = e
FlagFirst == \A j \in 1..Len(tasks) :
    tasks[j] = "refresh" => \E i \in 1..(j - 1) : tasks[i] = "flag"
FlagPassed == \A i \in 1..Len(tasks) :
    pc["input"] = "execute" /\ tasks[i] = "flag" /\ i < task => shutdown
HasPushed ==
    /\ pc["renderer"] = "pushRefresh" => InTasks("flag")
    /\ pc["renderer"] \in {"loop", "wait"} => InTasks("refresh")
Redrawn == FlagFirst /\ FlagPassed /\ HasPushed /\ RedrawIsAhead

LEMMA RedrawnInit == Init => Redrawn
<1> SUFFICES ASSUME Init PROVE Redrawn
  OBVIOUS
<1>1. tasks = <<>> /\ shutdown = FALSE /\ pc["renderer"] = "pushFlag"
  BY DEF Init, ProcessInit, Thread
<1>2. QED
  BY <1>1 DEF Redrawn, FlagFirst, FlagPassed, HasPushed, RedrawIsAhead

(* A step that leaves the tasks and the input thread alone, and makes      *)
(* nobody wait behind a shutdown.                                          *)
LEMMA AwakeStep ==
    ASSUME Redrawn, UNCHANGED <<tasks, task>>, pc'["input"] = pc["input"],
           shutdown => shutdown',
           pc'["renderer"] = "pushRefresh" => pc["renderer"] = "pushRefresh",
           pc'["renderer"] \in {"loop", "wait"} => pc["renderer"] \in {"loop", "wait"},
           shutdown' /\ pc'["renderer"] = "wait" /\ ~refresh' =>
               shutdown /\ pc["renderer"] = "wait" /\ ~refresh
    PROVE  Redrawn'
<1>1. FlagFirst' /\ FlagPassed' /\ HasPushed'
  BY DEF Redrawn, FlagFirst, FlagPassed, HasPushed, InTasks
<1>2. RedrawIsAhead'
  BY DEF Redrawn, RedrawIsAhead
<1>3. QED
  BY <1>1, <1>2 DEF Redrawn

(* A task is pushed while none is run: then nobody waits. *)
LEMMA PushTaskRedrawn ==
    ASSUME TypeOK, Redrawn, PushTask
    PROVE  Redrawn'
<1>1. PICK e \in Effect : tasks' = Append(tasks, e) /\ (e = "flag" \/ InTasks("flag"))
                          /\ pc["renderer"] = (IF e = "flag" THEN "pushFlag" ELSE "pushRefresh")
                          /\ pc' = [pc EXCEPT !["renderer"] = IF e = "flag" THEN "pushRefresh" ELSE "loop"]
  BY DEF PushTask, Goto, Redrawn, HasPushed, Effect
<1>2. pc["input"] # "execute" /\ pc'["input"] = pc["input"]
      /\ pc'["renderer"] = IF e = "flag" THEN "pushRefresh" ELSE "loop"
  BY <1>1 DEF PushTask, TasksAreFree, TypeOK, ProcessTypeOK, Thread
<1>3. /\ Len(tasks') = Len(tasks) + 1 /\ Len(tasks) \in Nat /\ tasks'[Len(tasks) + 1] = e
      /\ \A i \in 1..Len(tasks) : tasks'[i] = tasks[i]
  BY <1>1 DEF TypeOK, ProcessTypeOK
<1>4. FlagFirst'
  <2>1. SUFFICES ASSUME NEW j \in 1..Len(tasks'), tasks'[j] = "refresh"
                 PROVE  \E i \in 1..(j - 1) : tasks'[i] = "flag"
    BY DEF FlagFirst
  <2>2. CASE j = Len(tasks) + 1
    <3>1. PICK i \in 1..Len(tasks) : tasks[i] = "flag"
      BY <1>1, <1>3, <2>1, <2>2 DEF InTasks
    <3>2. i \in 1..(j - 1) /\ tasks'[i] = "flag"
      BY <1>3, <2>2, <3>1
    <3>3. QED
      BY <3>2
  <2>3. CASE j # Len(tasks) + 1
    <3>1. j \in 1..Len(tasks) /\ tasks[j] = "refresh"
      BY <1>3, <2>1, <2>3
    <3>2. PICK i \in 1..(j - 1) : tasks[i] = "flag"
      BY <3>1 DEF Redrawn, FlagFirst
    <3>3. tasks'[i] = "flag"
      BY <1>3, <3>1, <3>2
    <3>4. QED
      BY <3>2, <3>3
  <2>4. QED
    BY <2>2, <2>3
<1>5. FlagPassed' /\ RedrawIsAhead'
  BY <1>2 DEF FlagPassed, RedrawIsAhead
<1>6. InTasks(e)'
  <2>1. Len(tasks) + 1 \in 1..Len(tasks')
    BY <1>3
  <2>2. QED
    BY <1>3, <2>1 DEF InTasks
<1>7. HasPushed'
  BY <1>1, <1>2, <1>6 DEF HasPushed, Effect
<1>8. QED
  BY <1>4, <1>5, <1>7 DEF Redrawn

(* The first flag stands in front of the redraw, which is not passed       *)
(* without being asked for.                                                *)
LEMMA RunTaskRedrawn ==
    ASSUME TypeOK, Redrawn, RunTask
    PROVE  Redrawn'
<1>1. /\ UNCHANGED <<tasks, pc>> /\ pc["input"] = "execute"
      /\ task \in Nat /\ task <= Len(tasks) /\ task' = task + 1 /\ Len(tasks) \in Nat
      /\ shutdown' = (shutdown \/ tasks[task] = "flag")
      /\ refresh' = (refresh \/ tasks[task] = "refresh")
  BY DEF TypeOK, ProcessTypeOK, RunTask
<1>2. FlagFirst' /\ HasPushed'
  BY <1>1 DEF Redrawn, FlagFirst, HasPushed, InTasks
<1>3. FlagPassed'
  <2>1. SUFFICES ASSUME NEW i \in 1..Len(tasks), tasks[i] = "flag", i < task + 1
                 PROVE  shutdown'
    BY <1>1 DEF FlagPassed
  <2>2. CASE i = task
    BY <1>1, <2>1, <2>2
  <2>3. CASE i < task
    BY <1>1, <2>1, <2>3 DEF Redrawn, FlagPassed
  <2>4. QED
    BY <1>1, <2>1, <2>2, <2>3
<1>4. RedrawIsAhead'
  <2>1. SUFFICES ASSUME shutdown', pc["renderer"] = "wait", ~refresh'
                 PROVE  \E j \in (task + 1)..Len(tasks) : tasks[j] = "refresh"
    BY <1>1 DEF RedrawIsAhead
  <2>2. ~refresh /\ tasks[task] # "refresh" /\ InTasks("refresh")
    BY <1>1, <2>1 DEF Redrawn, HasPushed
  <2>3. CASE shutdown
    <3>1. PICK j \in task..Len(tasks) : tasks[j] = "refresh"
      BY <2>1, <2>2, <2>3 DEF Redrawn, RedrawIsAhead
    <3>2. j \in (task + 1)..Len(tasks)
      BY <1>1, <2>2, <3>1
    <3>3. QED
      BY <3>1, <3>2
  <2>4. CASE ~shutdown
    <3>1. PICK j \in 1..Len(tasks) : tasks[j] = "refresh"
      BY <2>2 DEF InTasks
    <3>2. PICK i \in 1..(j - 1) : tasks[i] = "flag"
      BY <3>1 DEF Redrawn, FlagFirst
    <3>3. ~(i < task)
      BY <1>1, <2>4, <3>1, <3>2 DEF Redrawn, FlagPassed
    <3>4. j \in (task + 1)..Len(tasks)
      BY <1>1, <3>1, <3>2, <3>3
    <3>5. QED
      BY <3>1, <3>4
  <2>5. QED
    BY <2>3, <2>4
<1>5. QED
  BY <1>2, <1>3, <1>4 DEF Redrawn

(* The input thread starts to run the tasks, ends it, or ends. *)
LEMMA InputRedrawn ==
    ASSUME TypeOK, Redrawn, Read \/ TypeExit \/ EndInput
    PROVE  Redrawn'
<1>1. UNCHANGED <<tasks, shutdown, refresh>> /\ pc'["renderer"] = pc["renderer"]
  BY DEF TypeOK, ProcessTypeOK, Thread, Read, TypeExit, EndInput, console, Goto
<1>2. FlagFirst' /\ HasPushed'
  BY <1>1 DEF Redrawn, FlagFirst, HasPushed, InTasks
<1>3. pc'["input"] # "execute" \/ task' = 1
  BY DEF TypeOK, ProcessTypeOK, Thread, Read, TypeExit, EndInput, Goto
<1>4. FlagPassed'
  BY <1>1, <1>3 DEF FlagPassed
<1>5. ~(pc["input"] = "execute" /\ \E i \in task..Len(tasks) : tasks[i] = "refresh")
  <2>1. pc["input"] # "execute" \/ task > Len(tasks)
    BY DEF Read, TypeExit, EndInput, Goto
  <2>2. task \in Nat /\ Len(tasks) \in Nat
    BY DEF TypeOK, ProcessTypeOK
  <2>3. QED
    BY <2>1, <2>2
<1>6. RedrawIsAhead'
  BY <1>1, <1>5 DEF Redrawn, RedrawIsAhead
<1>7. QED
  BY <1>2, <1>4, <1>6 DEF Redrawn

(* The error handlers ask for a redraw when they have set the flag; the    *)
(* renderer looks at the flag before it waits.                             *)
LEMMA OthersRedrawn ==
    ASSUME TypeOK, Redrawn,
           \/ Main \/ ServerThread \/ Send \/ PeerReads
           \/ UdpEnds \/ UdpSends \/ UdpWakes \/ Render \/ Check
    PROVE  Redrawn'
<1> USE DEF Goto, console
<1>1. CASE Render
  <2>1. /\ pc["renderer"] \notin {"wait", "pushRefresh"} \/ pc'["renderer"] = "loop"
        /\ pc'["renderer"] = "wait" => ~shutdown
        /\ pc'["renderer"] # "pushRefresh"
        /\ pc'["renderer"] \in {"loop", "wait"} => pc["renderer"] \in {"loop", "wait"}
        /\ pc'["input"] = pc["input"]
    BY <1>1 DEF Render, TypeOK, ProcessTypeOK, Thread
  <2>2. UNCHANGED <<tasks, task, shutdown>>
    BY <1>1 DEF Render
  <2>3. QED
    BY <2>1, <2>2, AwakeStep
<1>2. ASSUME UNCHANGED <<tasks, task>>, shutdown => shutdown', shutdown' /\ ~shutdown => refresh',
             refresh => refresh', pc'["renderer"] = pc["renderer"], pc'["input"] = pc["input"]
      PROVE  Redrawn'
  BY <1>2, AwakeStep
<1>3. CASE \/ Main \/ Send \/ PeerReads \/ UdpEnds \/ UdpSends \/ UdpWakes \/ Check
  <2>1. pc'["renderer"] = pc["renderer"] /\ pc'["input"] = pc["input"]
    BY <1>3 DEF Main, Send, PeerReads, UdpEnds, UdpSends, UdpWakes, Check, TypeOK, ProcessTypeOK, Thread
  <2>2. UNCHANGED <<tasks, task, shutdown>> /\ (refresh => refresh')
    BY <1>3 DEF Main, Send, PeerReads, UdpEnds, UdpSends, UdpWakes, Check
  <2>3. QED
    BY <1>2, <2>1, <2>2
<1>4. CASE ServerThread
  <2>1. pc'["renderer"] = pc["renderer"] /\ pc'["input"] = pc["input"]
    BY <1>4 DEF ServerThread, Create, CreateError, Bind, Listen, ListenError, StartUdp, ServerLoop,
       TypeOK, ProcessTypeOK, Thread
  <2>2. UNCHANGED <<tasks, task>>
    BY <1>4 DEF ServerThread, Create, CreateError, Bind, Listen, ListenError, StartUdp, ServerLoop
  <2>3. refresh => refresh'
    <3>1. CASE Create \/ CreateError
      BY <3>1 DEF Create, CreateError
    <3>2. CASE Bind \/ Listen \/ ListenError
      BY <3>2 DEF Bind, Listen, ListenError
    <3>3. CASE StartUdp \/ ServerLoop
      BY <3>3 DEF StartUdp, ServerLoop
    <3>4. QED
      BY <1>4, <3>1, <3>2, <3>3 DEF ServerThread
  <2>4. UNCHANGED shutdown \/ (shutdown' /\ refresh')
    BY <1>4 DEF ServerThread, Create, CreateError, Bind, Listen, ListenError, StartUdp, ServerLoop
  <2>5. QED
    BY <1>2, <2>1, <2>2, <2>3, <2>4
<1>5. QED
  BY <1>1, <1>3, <1>4

(* A shutdown never leaves the server's renderer waiting, whether $exit or *)
(* a call that failed has set the flag, and however far the renderer had   *)
(* come with the registration of its tasks (Console.cpp 420-425 and        *)
(* 458-467, Server.cpp 116-136).                                           *)
THEOREM RedrawComes == Spec => []RedrawIsAhead
<1>1. TypeOK /\ Redrawn /\ [Next]_vars => Redrawn'
  <2> SUFFICES ASSUME TypeOK, Redrawn, [Next]_vars PROVE Redrawn'
    OBVIOUS
  <2>1. CASE UNCHANGED processVars
    BY <2>1, AwakeStep DEF processVars, console
  <2>2. CASE Server \/ Announce \/ (Tick /\ UdpWakes)
    BY <2>2, PushTaskRedrawn, RunTaskRedrawn, InputRedrawn, OthersRedrawn
    DEF Server, Announce, ConsoleThreads
  <2>3. QED
    BY <2>1, <2>2 DEF Next, vars, Tick, StartClient, GiveUp
<1>2. Redrawn => RedrawIsAhead
  BY DEF Redrawn
<1>3. QED
  BY <1>1, <1>2, RedrawnInit, TypeCorrect, PTL DEF Spec
=============================================================================
