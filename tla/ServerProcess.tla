--------------------------- MODULE ServerProcess ----------------------------
(***************************************************************************)
(* The server's process around its loop: main of servermain.cpp, the       *)
(* server thread and the UDP broadcaster of Server.cpp, the renderer, the  *)
(* window-size checker and the input thread of Console.cpp; and how they   *)
(* stop.  What the loop does with its sockets is in Server: here it is a   *)
(* thread that looks at console.shutdown every two seconds, unless a send  *)
(* holds it.                                                               *)
(*                                                                         *)
(* Nobody but the renderer registers tasks for a shutdown, and nobody but  *)
(* the input thread executes them.                                         *)
(***************************************************************************)
EXTENDS Naturals, Sequences

CONSTANT Faults      (* calls that may fail: "create", "bind", "listen"       *)

ASSUME ProcessAssumption == Faults \subseteq {"create", "bind", "listen"}

VARIABLES
    pc,          (* where each thread is                                      *)
    shutdown,    (* console.shutdown                                          *)
    refresh,     (* refresh_text holds a value                                *)
    tasks,       (* ShutdownTasks::tasks, as their effects                    *)
    task,        (* the input thread's next task, which it runs locked        *)
    fd,          (* the listening socket is one                               *)
    bound,       (* ... and has the port that was asked for                   *)
    serving      (* "none", "port", or "other" when the kernel chose one      *)

console == <<shutdown, refresh, tasks, task>>
socket == <<fd, bound, serving>>
processVars == <<pc, console, socket>>

Thread == {"main", "server", "udp", "renderer", "checker", "input"}
Location == {"off", "loop", "joinServer", "joinInput", "joinRenderer", "create", "createError",
             "bind", "listen", "listenError", "startUdp", "send", "joinUdp", "sleep",
             "pushFlag", "pushRefresh", "wait", "joinChecker", "read", "execute", "done"}
Effect == {"flag", "refresh"}

ProcessTypeOK ==
    /\ pc \in [Thread -> Location]
    /\ {shutdown, refresh, fd, bound} \subseteq BOOLEAN
    /\ tasks \in Seq(Effect) /\ task \in Nat
    /\ serving \in {"none", "port", "other"}

(* main has started its three threads. *)
ProcessInit ==
    /\ pc = [t \in Thread |-> CASE t = "server" -> "create" [] t = "renderer" -> "pushFlag"
                                [] t = "udp" -> "off" [] OTHER -> "loop"]
    /\ shutdown = FALSE /\ refresh = FALSE /\ tasks = <<>> /\ task = 0
    /\ fd = FALSE /\ bound = FALSE /\ serving = "none"

Goto(t, from, to) == pc[t] = from /\ pc' = [pc EXCEPT ![t] = to]
TasksAreFree == pc["input"] # "execute"
Ended == pc["main"] = "done"

-----------------------------------------------------------------------------
(* main: it looks at the flag every two seconds, and joins three threads.  *)
(* At its end the sockets are closed.                                      *)
Main ==
    /\ \/ shutdown /\ Goto("main", "loop", "joinServer") /\ UNCHANGED serving
       \/ pc["server"] = "done" /\ Goto("main", "joinServer", "joinInput") /\ UNCHANGED serving
       \/ pc["input"] = "done" /\ Goto("main", "joinInput", "joinRenderer") /\ UNCHANGED serving
       \/ pc["renderer"] = "done" /\ Goto("main", "joinRenderer", "done") /\ serving' = "none"
    /\ UNCHANGED <<console, fd, bound>>

-----------------------------------------------------------------------------
(* The server thread.                                                      *)
Create ==
    /\ \/ Goto("server", "create", "bind") /\ fd' = TRUE
       \/ "create" \in Faults /\ Goto("server", "create", "createError") /\ UNCHANGED fd
    /\ UNCHANGED <<shutdown, tasks, task, bound, serving>>
    /\ refresh' = (refresh \/ fd')

(* Both error handlers set the flag and then push a message, which asks    *)
(* for a redraw; the thread goes on in either case.                        *)
CreateError ==
    /\ Goto("server", "createError", "bind")
    /\ shutdown' = TRUE /\ refresh' = TRUE
    /\ UNCHANGED <<tasks, task, socket>>

(* bind fails without a socket; no handler is installed for that. *)
Bind ==
    /\ Goto("server", "bind", "listen")
    /\ bound' \in IF fd THEN {TRUE} \cup (IF "bind" \in Faults THEN {FALSE} ELSE {}) ELSE {FALSE}
    /\ UNCHANGED <<console, fd, serving>>

Listen ==
    /\ \/ /\ fd /\ Goto("server", "listen", "startUdp")
          /\ serving' = IF bound THEN "port" ELSE "other"
          /\ refresh' = TRUE
       \/ /\ ~fd \/ "listen" \in Faults
          /\ Goto("server", "listen", "listenError")
          /\ UNCHANGED <<serving, refresh>>
    /\ UNCHANGED <<shutdown, tasks, task, fd, bound>>

(* Fault: goes on without a word. *)
ListenError_Silent ==
    /\ Goto("server", "listenError", "startUdp")
    /\ refresh' = TRUE
    /\ UNCHANGED <<shutdown, tasks, task, socket>>

ListenError ==
    /\ Goto("server", "listenError", "startUdp")
    /\ shutdown' = TRUE /\ refresh' = TRUE
    /\ UNCHANGED <<tasks, task, socket>>

StartUdp ==
    /\ pc["server"] = "startUdp"
    /\ pc' = [pc EXCEPT !["server"] = "loop", !["udp"] = "loop"]
    /\ UNCHANGED <<console, socket>>

(* Leaves the loop, and joins the broadcaster.  A message of the loop asks *)
(* for a redraw.                                                           *)
ServerLoop ==
    /\ \/ shutdown /\ Goto("server", "loop", "joinUdp")
       \/ pc["udp"] = "done" /\ Goto("server", "joinUdp", "done")
    /\ UNCHANGED <<console, socket>>

(* A handler sends: if the peer's buffer is full, the thread stays there   *)
(* until the peer reads.                                                   *)
Send ==
    /\ ~shutdown /\ Goto("server", "loop", "send")
    /\ UNCHANGED <<console, socket>>

PeerReads ==
    /\ Goto("server", "send", "loop")
    /\ UNCHANGED <<console, socket>>

ServerThread ==
    Create \/ CreateError \/ Bind \/ Listen \/ ListenError \/ StartUdp \/ ServerLoop

(* The broadcaster, but for the moment it sends: see Discovery. *)
UdpEnds ==
    /\ shutdown /\ Goto("udp", "loop", "done")
    /\ UNCHANGED <<console, socket>>

UdpSends ==
    /\ ~shutdown /\ Goto("udp", "loop", "sleep")
    /\ UNCHANGED <<console, socket>>

(* Fault: announces the server once. *)
UdpWakes_Ends ==
    /\ Goto("udp", "sleep", "done")
    /\ UNCHANGED <<console, socket>>

UdpWakes ==
    /\ Goto("udp", "sleep", "loop")
    /\ UNCHANGED <<console, socket>>

-----------------------------------------------------------------------------
(* The renderer and the checker, which it joins.                           *)
(* Fault: the redraw before the flag. *)
PushTask_Swapped ==
    /\ TasksAreFree
    /\ \/ Goto("renderer", "pushFlag", "pushRefresh") /\ tasks' = Append(tasks, "refresh")
       \/ Goto("renderer", "pushRefresh", "loop") /\ tasks' = Append(tasks, "flag")
    /\ UNCHANGED <<shutdown, refresh, task, socket>>

PushTask ==
    /\ TasksAreFree
    /\ \/ Goto("renderer", "pushFlag", "pushRefresh") /\ tasks' = Append(tasks, "flag")
       \/ Goto("renderer", "pushRefresh", "loop") /\ tasks' = Append(tasks, "refresh")
    /\ UNCHANGED <<shutdown, refresh, task, socket>>

Render ==
    /\ \/ Goto("renderer", "loop", IF shutdown THEN "joinChecker" ELSE "wait") /\ UNCHANGED refresh
       \/ refresh /\ Goto("renderer", "wait", "loop") /\ refresh' = FALSE
       \/ pc["checker"] = "done" /\ Goto("renderer", "joinChecker", "done") /\ UNCHANGED refresh
    /\ UNCHANGED <<shutdown, tasks, task, socket>>

Check ==
    /\ pc["checker"] = "loop"
    /\ \/ shutdown /\ Goto("checker", "loop", "done") /\ UNCHANGED refresh
       \/ ~shutdown /\ refresh' = TRUE /\ UNCHANGED pc
    /\ UNCHANGED <<shutdown, tasks, task, socket>>

-----------------------------------------------------------------------------
(* The input thread looks at the flag, and reads for a second at most.     *)
(* $exit runs the tasks that are there by then, if any, one after another, *)
(* other threads in between.                                               *)
Read ==
    /\ \/ ~shutdown /\ Goto("input", "loop", "read")
       \/ Goto("input", "read", "loop")
    /\ UNCHANGED <<console, socket>>

TypeExit ==
    /\ Goto("input", "read", "execute") /\ task' = 1
    /\ UNCHANGED <<shutdown, refresh, tasks, socket>>

RunTask ==
    /\ pc["input"] = "execute" /\ task <= Len(tasks)
    /\ task' = task + 1
    /\ shutdown' = (shutdown \/ tasks[task] = "flag")
    /\ refresh' = (refresh \/ tasks[task] = "refresh")
    /\ UNCHANGED <<pc, tasks, socket>>

EndInput ==
    /\ \/ task > Len(tasks) /\ Goto("input", "execute", "loop") /\ task' = 0
       \/ shutdown /\ Goto("input", "loop", "done") /\ UNCHANGED task
    /\ UNCHANGED <<shutdown, refresh, tasks, socket>>

ConsoleThreads == PushTask \/ Render \/ Check \/ Read \/ RunTask \/ EndInput
=============================================================================
