--------------------------- MODULE ClientSession ----------------------------
(***************************************************************************)
(* A client process from start to end: the main thread of clientmain.cpp,  *)
(* the net thread and the sender thread of Client.cpp, the renderer and    *)
(* the input thread of Console.cpp.  They hand over through RingBuffers    *)
(* and SyncPoints, modelled here by what RingBuffer and SyncPoint show of  *)
(* them, and are to be stopped by the tasks of ShutdownTasks.cpp.          *)
(*                                                                         *)
(* Outside: the user, and a server that answers every frame, hangs up      *)
(* after an $exit, and may say what other users say, be full, or vanish.   *)
(* Left out: $getlist and $getlog, which change what is displayed and not  *)
(* who waits for whom.                                                     *)
(***************************************************************************)
EXTENDS Naturals, Sequences

CONSTANTS Typed,      (* the lines the user may type                          *)
          Faults,     (* what may go wrong in this run                        *)
          MaxTyped,   (* bound: number of lines typed                         *)
          MaxUnread   (* bound: frames of other users that wait to be read    *)

Line == {"register", "text", "exit"}
NoLine == "none"
Thread == {"main", "net", "sender", "renderer", "input"}
NoThread == "none"

ASSUME SessionAssumption ==
    /\ Typed \subseteq Line
    /\ Faults \subseteq {"discovery", "create", "connect", "unlisted", "full",
                   "vanish"}
    /\ MaxTyped \in Nat /\ MaxUnread \in Nat

VARIABLES
    process,        (* "running"; "exited" by main's return, "terminated" by  *)
                    (* std::terminate, or "killed" by SIGPIPE                 *)
    pc, ret,        (* where each thread is, and where it returns after       *)
                    (* ShutdownTasks::execute                                 *)
    shutdown,       (* console.shutdown                                       *)
    refresh,        (* console.refresh_text holds a value                     *)
    ringBuffer,     (* console.ring_buffer: input thread to main              *)
    sendBuffer,     (* client.send_buffer: main to sender                     *)
    sync,           (* the client's SyncPoints; "empty" is nullptr            *)
    registered,     (* main's local variable                                  *)
    line,           (* the input thread's buffer                              *)
    tasks,          (* ShutdownTasks::tasks, as the effects they have         *)
    mtx, task,      (* its mutex, and the next task of the thread holding it  *)
    echo,           (* the terminal is as it was before the program           *)
    conn,           (* the client's socket: "none" without a connection, "up",*)
                    (* "eof" when the server has closed it, "reset" when it   *)
                    (* answers with RST, "invalid" without a descriptor       *)
    incoming,       (* frames received and not read                           *)
    toServer,       (* frames sent                                            *)
    heard,          (* how many of them the server has served                 *)
    heardBack,      (* history: receive_str returned a frame after $register  *)
    typed           (* number of lines typed                                  *)

vars == <<process, pc, ret, shutdown, refresh, ringBuffer, sendBuffer, sync, registered,
          line, tasks, mtx, task, echo, conn, incoming, toServer, heard, heardBack,
          typed>>
console == <<shutdown, refresh, ringBuffer, echo>>
handshake == <<sendBuffer, sync, registered>>
shutdownTasks == <<tasks, mtx, task>>
network == <<conn, incoming, toServer, heard, heardBack>>
user == <<line, typed>>

Slot == {"addr", "username", "created", "established", "registered"}
Location == {"off", "discover", "start", "pushTask", "loop", "rx", "created", "established",
             "registered", "joinNet", "joinRenderer", "joinInput", "joinBoth", "create",
             "createError", "afterCreate", "addr", "connect", "afterConnect", "username", "answer",
             "afterAnswer", "recv", "joinSender", "joinAgain", "pushFlag", "pushRefresh",
             "wait", "read", "push", "execute", "tasks", "done"}
Effect == {"tty", "flag", "refresh", "wakeMain"}

TypeOK ==
    /\ process \in {"running", "exited", "terminated", "killed"}
    /\ pc \in [Thread -> Location] /\ ret \in [Thread -> Location]
    /\ {shutdown, refresh, registered, echo, heardBack} \subseteq BOOLEAN
    /\ ringBuffer \in Seq(Line) /\ sendBuffer \in Seq(Line) /\ toServer \in Seq(Line)
    /\ sync \in [Slot -> {"empty", "yes", "no"}]
    /\ line \in Line \cup {NoLine}
    /\ tasks \in Seq(Effect) /\ mtx \in Thread \cup {NoThread} /\ task \in Nat
    /\ conn \in {"none", "up", "eof", "reset", "invalid"} /\ incoming \in Seq({"text", "full"})
    /\ {heard, typed} \subseteq Nat

(* main has pushed its first task and started the console's two threads. *)
Init ==
    /\ process = "running"
    /\ pc = [t \in Thread |-> CASE t = "main" -> "discover" [] t = "renderer" -> "pushFlag"
                                [] t = "input" -> "loop" [] OTHER -> "off"]
    /\ ret = [t \in Thread |-> "off"]
    /\ shutdown = FALSE /\ refresh = FALSE /\ registered = FALSE
    /\ echo = FALSE /\ heardBack = FALSE
    /\ ringBuffer = <<>> /\ sendBuffer = <<>> /\ toServer = <<>>
    /\ sync = [s \in Slot |-> "empty"]
    /\ line = NoLine
    /\ tasks = <<"tty">> /\ mtx = NoThread /\ task = 1
    /\ conn = "none" /\ incoming = <<>>
    /\ heard = 0 /\ typed = 0

Goto(t, l) == pc' = [pc EXCEPT ![t] = l] /\ UNCHANGED <<process, ret>>
Ended == process # "running"
End(how) == process' = how /\ UNCHANGED <<pc, ret>>

-----------------------------------------------------------------------------
(* ShutdownTasks: push_task and execute hold the mutex, execute while all  *)
(* tasks run.  Another thread may act between two of them.                 *)
Execute(t, back) ==
    /\ pc' = [pc EXCEPT ![t] = "execute"] /\ ret' = [ret EXCEPT ![t] = back]
    /\ UNCHANGED process

(* Fault: only the last task is kept. *)
PushTask_Replaces(t, effects, l) ==
    /\ mtx = NoThread
    /\ tasks' = effects
    /\ Goto(t, l)
    /\ UNCHANGED <<mtx, task, console, handshake, network, user>>

PushTask(t, effects, l) ==
    /\ mtx = NoThread
    /\ tasks' = tasks \o effects
    /\ Goto(t, l)
    /\ UNCHANGED <<mtx, task, console, handshake, network, user>>

LockTasks(t) ==
    /\ pc[t] = "execute" /\ mtx = NoThread
    /\ mtx' = t /\ task' = 1
    /\ Goto(t, "tasks")
    /\ UNCHANGED <<tasks, console, handshake, network, user>>

(* One effect of a task: the terminal's old settings, shutdown.store(true),*)
(* refresh_text.resolve(true), or ring_buffer.tx("$exit").                 *)
RunTask(t) ==
    /\ pc[t] = "tasks" /\ task <= Len(tasks)
    /\ task' = task + 1
    /\ echo' = (echo \/ tasks[task] = "tty")
    /\ shutdown' = (shutdown \/ tasks[task] = "flag")
    /\ refresh' = (refresh \/ tasks[task] = "refresh")
    /\ ringBuffer' = IF tasks[task] = "wakeMain" THEN Append(ringBuffer, "exit") ELSE ringBuffer
    /\ UNCHANGED <<process, pc, ret, tasks, mtx, handshake, network, user>>

UnlockTasks(t) ==
    /\ pc[t] = "tasks" /\ task > Len(tasks)
    /\ mtx' = NoThread /\ task' = 1
    /\ pc' = [pc EXCEPT ![t] = ret[t]] /\ ret' = [ret EXCEPT ![t] = "off"]
    /\ UNCHANGED <<process, tasks, console, handshake, network, user>>

Tasks(t) == LockTasks(t) \/ RunTask(t) \/ UnlockTasks(t)

-----------------------------------------------------------------------------
(* The main thread.  recvfrom gives the server's address, or times out:    *)
(* then main joins the console's threads, and so does its DeferExec.       *)
Discover ==
    /\ pc["main"] = "discover"
    /\ \/ Goto("main", "start")
       \/ "discovery" \in Faults /\ Execute("main", "joinBoth")
    /\ refresh' = TRUE
    /\ UNCHANGED <<shutdown, ringBuffer, echo, shutdownTasks, handshake, network, user>>

JoinBoth ==
    /\ pc["main"] = "joinBoth"
    /\ pc["renderer"] = "done" /\ pc["input"] = "done"
    /\ End("terminated")
    /\ UNCHANGED <<console, shutdownTasks, handshake, network, user>>

StartNet ==
    /\ pc["main"] = "start"
    /\ pc' = [pc EXCEPT !["main"] = "pushTask", !["net"] = "create"]
    /\ sync' = [sync EXCEPT !["addr"] = "yes"]
    /\ UNCHANGED <<process, ret, sendBuffer, registered, console, shutdownTasks, network, user>>

(* Fault: sets the flag and does not wake main. *)
MainPushTask_NoWake == pc["main"] = "pushTask" /\ PushTask("main", <<"flag">>, "loop")

MainPushTask == pc["main"] = "pushTask" /\ PushTask("main", <<"flag", "wakeMain">>, "loop")

MainLoop ==
    /\ pc["main"] = "loop"
    /\ Goto("main", IF shutdown THEN "joinNet" ELSE "rx")
    /\ UNCHANGED <<console, shutdownTasks, handshake, network, user>>

(* A line goes to the sender, or starts the registration, or is refused.   *)
MainRx ==
    /\ pc["main"] = "rx" /\ ringBuffer # <<>>
    /\ ringBuffer' = Tail(ringBuffer)
    /\ \/ /\ registered /\ sendBuffer' = Append(sendBuffer, Head(ringBuffer))
          /\ Goto("main", "loop") /\ UNCHANGED <<sync, refresh>>
       \/ /\ ~registered /\ Head(ringBuffer) = "register"
          /\ sync' = [sync EXCEPT !["username"] = "yes"]
          /\ Goto("main", "created") /\ UNCHANGED <<sendBuffer, refresh>>
       \/ /\ ~registered /\ Head(ringBuffer) # "register" /\ refresh' = TRUE
          /\ Goto("main", "loop") /\ UNCHANGED <<sendBuffer, sync>>
    /\ UNCHANGED <<shutdown, echo, registered, shutdownTasks, network, user>>

(* The three retrieves of the registration, in this order.                 *)
Retrieve(s, next) ==
    /\ pc["main"] = s /\ sync[s] # "empty"
    /\ sync' = [sync EXCEPT ![s] = "empty"]
    /\ Goto("main", IF sync[s] = "yes" THEN next ELSE "loop")
    /\ registered' = (s = "registered" /\ sync[s] = "yes")
    /\ UNCHANGED <<sendBuffer, console, shutdownTasks, network, user>>

AwaitRegistration ==
    \/ Retrieve("created", "established")
    \/ Retrieve("established", "registered")
    \/ Retrieve("registered", "loop")

(* The destructors of main's two DeferExecs, and the end of the process.   *)
JoinThreads ==
    /\ \/ pc["main"] = "joinNet" /\ pc["net"] = "done" /\ Goto("main", "joinRenderer")
       \/ pc["main"] = "joinRenderer" /\ pc["renderer"] = "done" /\ Goto("main", "joinInput")
       \/ pc["main"] = "joinInput" /\ pc["input"] = "done" /\ End("exited")
    /\ UNCHANGED <<console, shutdownTasks, handshake, network, user>>

Main ==
    Discover \/ JoinBoth \/ StartNet \/ MainPushTask \/ MainLoop \/ MainRx
    \/ AwaitRegistration \/ JoinThreads \/ Tasks("main")

-----------------------------------------------------------------------------
(* The net thread: run_client.                                             *)
Resolve(s, v) == sync' = [sync EXCEPT ![s] = v] /\ UNCHANGED <<sendBuffer, registered>>

Create ==
    /\ pc["net"] = "create"
    /\ \/ /\ Resolve("created", "yes") /\ Goto("net", "afterCreate")
          /\ UNCHANGED <<refresh, conn>>
       \/ /\ "create" \in Faults
          /\ Resolve("created", "no") /\ Execute("net", "createError")
          /\ refresh' = TRUE /\ conn' = "invalid"
    /\ UNCHANGED <<shutdown, ringBuffer, echo, shutdownTasks, incoming, toServer, heard,
                   heardBack, user>>

(* The create error handler's last line, behind the tasks.                 *)
CreateError ==
    /\ pc["net"] = "createError"
    /\ refresh' = TRUE
    /\ Goto("net", "afterCreate")
    /\ UNCHANGED <<shutdown, ringBuffer, echo, shutdownTasks, handshake, network, user>>

(* The handler of every connect error resolves sync_socket_created.  The   *)
(* call fails for sure on a socket that was not created.  An error that    *)
(* Errors.h does not list, as a host that cannot be reached, runs the      *)
(* handler of a success (Socket.h 540-544), and there is no connection.    *)
Connect ==
    /\ pc["net"] = "connect"
    /\ \/ /\ conn = "none" /\ Resolve("established", "yes") /\ Goto("net", "afterConnect")
          /\ \/ conn' = "up" /\ UNCHANGED incoming
             \/ "full" \in Faults /\ conn' = "eof" /\ incoming' = <<"full">>
             \/ "unlisted" \in Faults /\ UNCHANGED <<conn, incoming>>
          /\ UNCHANGED refresh
       \/ /\ "connect" \in Faults \/ conn = "invalid"
          /\ Resolve("created", "no") /\ Execute("net", "afterConnect") /\ refresh' = TRUE
          /\ UNCHANGED <<conn, incoming>>
    /\ UNCHANGED <<shutdown, ringBuffer, echo, shutdownTasks, toServer, heard, heardBack, user>>

(* if (shutdown) return; and the head of the message loop.                 *)
NetChecks ==
    /\ \/ pc["net"] = "afterCreate" /\ Goto("net", IF shutdown THEN "done" ELSE "addr")
       \/ pc["net"] = "afterConnect" /\ Goto("net", IF shutdown THEN "done" ELSE "username")
       \/ pc["net"] = "loop" /\ Goto("net", IF shutdown THEN "joinSender" ELSE "recv")
    /\ UNCHANGED <<console, shutdownTasks, handshake, network, user>>

NetAddr ==
    /\ pc["net"] = "addr" /\ sync["addr"] # "empty"
    /\ Resolve("addr", "empty")
    /\ Goto("net", "connect")
    /\ UNCHANGED <<console, shutdownTasks, network, user>>

(* full_send of the thread t, which then goes on at l.  A closed connection*)
(* takes one more frame and is reset.  Behind that, and without any, send  *)
(* fails and its handler only shows a message; but where there is a socket *)
(* the failure raises SIGPIPE (Socket.h:311 has no MSG_NOSIGNAL), unless   *)
(* the RST is still on its way or the system has ENOTCONN for it.          *)
SendFrame(t, m, l) ==
    /\ toServer' = IF conn = "up" THEN Append(toServer, m) ELSE toServer
    /\ conn' = IF conn = "eof" THEN "reset" ELSE conn
    /\ \/ Goto(t, l)
       \/ conn \in {"none", "reset"} /\ End("killed")

(* Fault: does not wait for a frame of the server. *)
NetUsername_NoWait ==
    /\ pc["net"] = "username" /\ sync["username"] # "empty"
    /\ Resolve("username", "empty")
    /\ SendFrame("net", "register", "afterAnswer")
    /\ UNCHANGED <<console, shutdownTasks, incoming, heard, heardBack, user>>

(* Fault: sends the name without "$register ". *)
NetUsername_NoPrefix ==
    /\ pc["net"] = "username" /\ sync["username"] # "empty"
    /\ Resolve("username", "empty")
    /\ SendFrame("net", "name", "answer")
    /\ UNCHANGED <<console, shutdownTasks, incoming, heard, heardBack, user>>

NetUsername ==
    /\ pc["net"] = "username" /\ sync["username"] # "empty"
    /\ Resolve("username", "empty")
    /\ SendFrame("net", "register", "answer")
    /\ UNCHANGED <<console, shutdownTasks, incoming, heard, heardBack, user>>

(* receive_str and its handlers: a message is shown, SRV_FULL and the end  *)
(* of the stream (or an error, without a connection) run the tasks.        *)
Receive(at, next) ==
    /\ pc["net"] = at
    /\ \/ /\ incoming # <<>> /\ incoming' = Tail(incoming)
          /\ heardBack' = (heardBack \/ at = "answer")
          /\ IF Head(incoming) = "full" THEN Execute("net", next) ELSE Goto("net", next)
       \/ /\ incoming = <<>> /\ conn # "up"
          /\ Execute("net", next) /\ UNCHANGED <<incoming, heardBack>>
    /\ refresh' = TRUE
    /\ UNCHANGED <<shutdown, ringBuffer, echo, shutdownTasks, handshake, conn, toServer,
                   heard, user>>

NetReceive == Receive("answer", "afterAnswer") \/ Receive("recv", "loop")

NetRegistered ==
    /\ pc["net"] = "afterAnswer"
    /\ IF shutdown
       THEN Resolve("registered", "no") /\ Goto("net", "done")
       ELSE /\ Resolve("registered", "yes")
            /\ pc' = [pc EXCEPT !["net"] = "loop", !["sender"] = "loop"]
            /\ UNCHANGED <<process, ret>>
    /\ UNCHANGED <<console, shutdownTasks, network, user>>

(* sender.join(), and then the same join by the DeferExec: joining a       *)
(* thread that was joined throws, which in a destructor means terminate.   *)
JoinSender ==
    /\ \/ pc["net"] = "joinSender" /\ pc["sender"] = "done" /\ Goto("net", "joinAgain")
       \/ pc["net"] = "joinAgain" /\ End("terminated")
    /\ UNCHANGED <<console, shutdownTasks, handshake, network, user>>

Net ==
    Create \/ CreateError \/ Connect \/ NetChecks \/ NetAddr \/ NetUsername \/ NetReceive \/ NetRegistered
    \/ JoinSender \/ Tasks("net")

SenderLoop ==
    /\ pc["sender"] = "loop"
    /\ Goto("sender", IF shutdown THEN "done" ELSE "rx")
    /\ UNCHANGED <<console, shutdownTasks, handshake, network, user>>

SenderRx ==
    /\ pc["sender"] = "rx" /\ sendBuffer # <<>>
    /\ sendBuffer' = Tail(sendBuffer)
    /\ SendFrame("sender", Head(sendBuffer), "loop")
    /\ UNCHANGED <<console, shutdownTasks, sync, registered, incoming, heard, heardBack, user>>

Sender == SenderLoop \/ SenderRx

-----------------------------------------------------------------------------
(* The console's renderer: it pushes two tasks, then draws and waits for   *)
(* refresh_text until it finds shutdown set.  The window-size checker it   *)
(* starts, and joins at its end, may ask for a refresh at any time before. *)

(* Fault: wakes the renderer before setting the flag. *)
RenderPushTask_Swapped ==
    \/ pc["renderer"] = "pushFlag" /\ PushTask("renderer", <<"refresh">>, "pushRefresh")
    \/ pc["renderer"] = "pushRefresh" /\ PushTask("renderer", <<"flag">>, "loop")

RenderPushTask ==
    \/ pc["renderer"] = "pushFlag" /\ PushTask("renderer", <<"flag">>, "pushRefresh")
    \/ pc["renderer"] = "pushRefresh" /\ PushTask("renderer", <<"refresh">>, "loop")

RenderLoop ==
    /\ pc["renderer"] = "loop"
    /\ Goto("renderer", IF shutdown THEN "done" ELSE "wait")
    /\ UNCHANGED <<console, shutdownTasks, handshake, network, user>>

RenderWait ==
    /\ pc["renderer"] = "wait" /\ refresh
    /\ refresh' = FALSE
    /\ Goto("renderer", "loop")
    /\ UNCHANGED <<shutdown, ringBuffer, echo, shutdownTasks, handshake, network, user>>

Renderer == RenderPushTask \/ RenderLoop \/ RenderWait

Resize ==
    /\ pc["renderer"] # "done" /\ ~refresh /\ refresh' = TRUE
    /\ UNCHANGED <<process, pc, ret, shutdown, ringBuffer, echo, shutdownTasks, handshake,
                   network, user>>

(* The input thread polls the keyboard, a second at a time.  At the end of *)
(* a line, $exit runs the tasks first; every line goes to main.            *)
InputLoop ==
    /\ pc["input"] = "loop"
    /\ Goto("input", IF shutdown THEN "done" ELSE "read")
    /\ UNCHANGED <<console, shutdownTasks, handshake, network, user>>

InputTimeout ==
    /\ pc["input"] = "read"
    /\ Goto("input", "loop")
    /\ UNCHANGED <<console, shutdownTasks, handshake, network, user>>

UserTypes(l) ==
    /\ pc["input"] = "read" /\ typed < MaxTyped
    /\ line' = l /\ typed' = typed + 1
    /\ IF l = "exit" THEN Execute("input", "push") ELSE Goto("input", "push")
    /\ UNCHANGED <<console, shutdownTasks, handshake, network>>

InputPush ==
    /\ pc["input"] = "push"
    /\ ringBuffer' = Append(ringBuffer, line)
    /\ line' = NoLine
    /\ Goto("input", "loop")
    /\ UNCHANGED <<shutdown, refresh, echo, shutdownTasks, handshake, network, typed>>

Input == InputLoop \/ InputTimeout \/ InputPush \/ Tasks("input")

-----------------------------------------------------------------------------
(* The server as a client sees it.  Closing a connection on which there is *)
(* something to read resets it.                                            *)
ServerServes ==
    /\ conn = "up" /\ heard < Len(toServer)
    /\ heard' = heard + 1
    /\ incoming' = Append(incoming, "text")
    /\ conn' = CASE toServer[heard + 1] # "exit" -> conn
                 [] heard + 1 = Len(toServer) -> "eof"
                 [] OTHER -> "reset"
    /\ UNCHANGED <<process, pc, ret, console, shutdownTasks, handshake, toServer, heardBack, user>>

OthersTalk ==
    /\ conn = "up" /\ Len(incoming) < MaxUnread
    /\ incoming' = Append(incoming, "text")
    /\ UNCHANGED <<process, pc, ret, console, shutdownTasks, handshake, conn, toServer, heard,
                   heardBack, user>>

Vanish ==
    /\ "vanish" \in Faults /\ conn = "up"
    /\ conn' = IF heard = Len(toServer) THEN "eof" ELSE "reset"
    /\ UNCHANGED <<process, pc, ret, console, shutdownTasks, handshake, incoming, toServer,
                   heard, heardBack, user>>

Environment == Resize \/ (\E l \in Typed : UserTypes(l)) \/ ServerServes \/ OthersTalk \/ Vanish

Next == process = "running" /\ (Main \/ Net \/ Sender \/ Renderer \/ Input \/ Environment)

Spec == Init /\ [][Next]_vars

(* Every thread that can go on does; the server serves what it received.   *)
(* Nothing makes the user type, other users talk, or the window change.    *)
FairSpec ==
    /\ Spec
    /\ WF_vars(process = "running" /\ Main)
    /\ WF_vars(process = "running" /\ Net)
    /\ WF_vars(process = "running" /\ Sender)
    /\ WF_vars(process = "running" /\ Renderer)
    /\ WF_vars(process = "running" /\ Input)
    /\ WF_vars(process = "running" /\ ServerServes)

-----------------------------------------------------------------------------
(* The terminal gets its settings back before main returns and before a    *)
(* destructor terminates the process, wherever the start or the session    *)
(* broke off (clientmain.cpp 18-20).  A signal gives no time for it.       *)
TerminalIsRestored == process \in {"exited", "terminated"} => echo

(* The first frame of a session is its $register, whatever was typed and   *)
(* when, and nothing else leaves before receive_str has returned a frame   *)
(* behind it (Client.cpp 128-147).  That frame may be what another user    *)
(* said: the client does not tell it from the answer.                      *)
RegisteredFirst ==
    /\ Len(toServer) > 0 => toServer[1] = "register"
    /\ Len(toServer) > 1 => heardBack

(* A thread that waits although shutdown is set has its wake-up still to   *)
(* come: the task that gives it is registered, and the thread that runs    *)
(* the tasks has not passed it.  In whatever order main and the renderer   *)
(* register theirs, each sets the flag before it wakes (clientmain.cpp     *)
(* 85-91, Console.cpp 420-425 and 458-467).                                *)
Ahead(e) == mtx # NoThread /\ \E i \in task..Len(tasks) : tasks[i] = e
WakeUpIsAhead ==
    /\ shutdown /\ pc["renderer"] = "wait" /\ ~refresh => Ahead("refresh")
    /\ shutdown /\ pc["main"] = "rx" /\ ringBuffer = <<>> => Ahead("wakeMain")

(* A shutdown, whoever starts it and whatever the threads have registered  *)
(* by then, leaves neither the renderer waiting for a refresh nor main for *)
(* a line: the flag is set before the wake-up, and main's own task wakes   *)
(* main (Console.cpp 420-425, 458-467; clientmain.cpp 85-91).              *)
ShutdownWakesThreads ==
    shutdown ~> (pc["renderer"] = "done" /\ pc["main"] # "rx") \/ Ended

(* README.md:20 "deadlocks have been fixed using ShutdownTasks hooks": a   *)
(* shutdown ends the process, which waits for all its threads.             *)
ShutdownEndsProcess == shutdown ~> Ended

(* README.md:20 "Client and server processes now gracefully disconnect":   *)
(* the process returns from main, and is neither terminated on the way nor *)
(* killed by the signal of a send.                                         *)
GracefulExit == process \notin {"terminated", "killed"}

(* clientmain.cpp:13 "Get original terminal input/output structure", to    *)
(* set it again: the terminal is restored however the process ends.        *)
TerminalNeverLeftRaw == Ended => echo

(* The client is registered with the server once it counts itself so       *)
(* (Client.cpp 130-135): nothing behind the $register leaves before the    *)
(* server has served it.                                                   *)
AnsweredFirst == Len(toServer) > 1 => heard > 0
=============================================================================
