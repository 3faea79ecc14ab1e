------------------------ MODULE ClientSessionProofs ------------------------
(***************************************************************************)
(* The client's session for any lines typed, any faults and any bounds:    *)
(* its types, that the terminal is restored unless a signal ends it, that  *)
(* a registration comes first, and that a shutdown leaves neither the      *)
(* renderer nor main waiting without a wake-up on its way.                 *)
(***************************************************************************)
EXTENDS ClientSession, TLAPS

(* A queue stays a queue of the same kind. *)
LEMMA TailType ==
    ASSUME NEW S, NEW s \in Seq(S), s # <<>>
    PROVE  Tail(s) \in Seq(S)
  OBVIOUS

LEMMA AppendType ==
    ASSUME NEW S, NEW s \in Seq(S), NEW x \in S
    PROVE  Append(s, x) \in Seq(S)
  OBVIOUS

(* The types hold in the initial state. *)
LEMMA TypeInit ==
    ASSUME Init
    PROVE  TypeOK
<1>1. pc \in [Thread -> Location] /\ ret \in [Thread -> Location]
  BY DEF Init, Thread, Location
<1>2. {shutdown, refresh, registered, echo, heardBack} \subseteq BOOLEAN
  BY DEF Init
<1>3. tasks \in Seq(Effect) /\ mtx \in Thread \cup {NoThread} /\ task \in Nat
  BY DEF Init, Effect
<1>4. ringBuffer \in Seq(Line) /\ sendBuffer \in Seq(Line) /\ toServer \in Seq(Line)
  BY DEF Init
<1>5. sync \in [Slot -> {"empty", "yes", "no"}] /\ incoming \in Seq({"text", "full"})
  BY DEF Init
<1>6. QED
  BY <1>1, <1>2, <1>3, <1>4, <1>5 DEF Init, TypeOK

(* Where the threads are after a step. *)
Placed ==
    /\ pc' \in [Thread -> Location] /\ ret' \in [Thread -> Location]
    /\ process' \in {"running", "exited", "terminated", "killed"}

(* A thread that goes on is at one of the places. *)
LEMMA GotoPlaced ==
    ASSUME TypeOK, NEW t \in Thread, NEW l \in Location, Goto(t, l) \/ Execute(t, l)
    PROVE  Placed
<1>1. "execute" \in Location
  BY DEF Location
<1>2. pc' \in [Thread -> Location] /\ ret' \in [Thread -> Location] /\ process' = process
  BY <1>1 DEF TypeOK, Goto, Execute
<1>3. QED
  BY <1>2 DEF TypeOK, Placed

(* The steps of ShutdownTasks keep the types. *)
LEMMA TasksType ==
    ASSUME TypeOK, NEW t \in Thread, Tasks(t)
    PROVE  TypeOK'
<1>1. CASE LockTasks(t)
  BY <1>1 DEF TypeOK, LockTasks, Goto, console, handshake, network, user, Location
<1>2. CASE RunTask(t)
  <2>1. ringBuffer' \in Seq(Line)
    BY <1>2 DEF TypeOK, RunTask, Line
  <2>2. {shutdown', refresh', echo'} \subseteq BOOLEAN
    BY <1>2 DEF RunTask
  <2>3. task' \in Nat
    BY <1>2 DEF TypeOK, RunTask
  <2>4. QED
    BY <1>2, <2>1, <2>2, <2>3 DEF TypeOK, RunTask, handshake, network, user
<1>3. CASE UnlockTasks(t)
  BY <1>3 DEF TypeOK, UnlockTasks, console, handshake, network, user, Location
<1>4. QED
  BY <1>1, <1>2, <1>3 DEF Tasks

LEMMA PushTaskType ==
    ASSUME TypeOK, NEW t \in Thread, NEW effects \in Seq(Effect), NEW l \in Location,
           PushTask(t, effects, l)
    PROVE  TypeOK'
<1>1. Placed
  BY DEF TypeOK, PushTask, Goto, Placed
<1>2. tasks' \in Seq(Effect)
  BY DEF TypeOK, PushTask
<1>3. QED
  BY <1>1, <1>2 DEF TypeOK, PushTask, Placed, console, handshake, network, user

(* A frame sent is one of the lines, and the thread goes on, or the process*)
(* ends by the signal.                                                     *)
LEMMA SendFrameType ==
    ASSUME TypeOK, NEW t \in Thread, NEW m \in Line, NEW l \in Location, SendFrame(t, m, l)
    PROVE  /\ toServer' \in Seq(Line) /\ conn' \in {"none", "up", "eof", "reset", "invalid"}
           /\ Placed
<1>1. toServer' \in Seq(Line) /\ conn' \in {"none", "up", "eof", "reset", "invalid"}
  BY DEF TypeOK, SendFrame
<1>2. Goto(t, l) \/ End("killed")
  BY DEF SendFrame
<1>3. Placed
  BY <1>2, GotoPlaced DEF TypeOK, End, Placed
<1>4. QED
  BY <1>1, <1>3

-----------------------------------------------------------------------------
(* main's steps keep the types. *)
LEMMA MainType ==
    ASSUME TypeOK, Main
    PROVE  TypeOK'
<1> USE DEF Location, Thread
<1>1. CASE Discover
  BY <1>1 DEF TypeOK, Discover, Goto, Execute, shutdownTasks, handshake, network, user
<1>2. CASE JoinBoth
  BY <1>2 DEF TypeOK, JoinBoth, End, console, shutdownTasks, handshake, network, user
<1>3. CASE StartNet
  <2>1. pc' \in [Thread -> Location] /\ sync' \in [Slot -> {"empty", "yes", "no"}]
    BY <1>3 DEF TypeOK, StartNet, Slot
  <2>2. QED
    BY <1>3, <2>1 DEF TypeOK, StartNet, console, shutdownTasks, network, user
<1>4. CASE MainPushTask
  <2>1. <<"flag", "wakeMain">> \in Seq(Effect)
    BY DEF Effect
  <2>2. QED
    BY <1>4, <2>1, PushTaskType DEF MainPushTask
<1>5. CASE MainLoop
  BY <1>5 DEF TypeOK, MainLoop, Goto, console, shutdownTasks, handshake, network, user
<1>6. CASE MainRx
  <2>1. ringBuffer' \in Seq(Line) /\ Head(ringBuffer) \in Line
    BY <1>6 DEF TypeOK, MainRx
  <2>2. sendBuffer' \in Seq(Line)
    <3>1. sendBuffer' \in {sendBuffer, Append(sendBuffer, Head(ringBuffer))}
      BY <1>6 DEF MainRx
    <3>2. sendBuffer \in Seq(Line)
      BY DEF TypeOK
    <3>3. Append(sendBuffer, Head(ringBuffer)) \in Seq(Line)
      BY <2>1, <3>2, AppendType
    <3>4. QED
      BY <3>1, <3>2, <3>3
  <2>3. sync' \in [Slot -> {"empty", "yes", "no"}]
    BY <1>6 DEF TypeOK, MainRx, Slot
  <2>4. refresh' \in BOOLEAN
    BY <1>6 DEF TypeOK, MainRx
  <2>5. Placed
    BY <1>6 DEF TypeOK, MainRx, Goto, Placed
  <2>6. QED
    BY <1>6, <2>1, <2>2, <2>3, <2>4, <2>5 DEF TypeOK, MainRx, Placed, shutdownTasks, network, user
<1>7. CASE AwaitRegistration
  <2>1. PICK s \in Slot, l \in Location : Retrieve(s, l)
    BY <1>7 DEF AwaitRegistration, Slot
  <2>2. sync' \in [Slot -> {"empty", "yes", "no"}] /\ registered' \in BOOLEAN
    BY <2>1 DEF TypeOK, Retrieve
  <2>3. Placed
    BY <2>1 DEF TypeOK, Retrieve, Goto, Placed
  <2>4. QED
    BY <2>1, <2>2, <2>3 DEF TypeOK, Retrieve, Placed, console, shutdownTasks, network, user
<1>8. CASE JoinThreads
  BY <1>8 DEF TypeOK, JoinThreads, Goto, End, console, shutdownTasks, handshake, network, user
<1>9. CASE Tasks("main")
  BY <1>9, TasksType
<1>10. QED
  BY <1>1, <1>2, <1>3, <1>4, <1>5, <1>6, <1>7, <1>8, <1>9 DEF Main

(* The net thread's steps keep the types. *)
LEMMA NetType ==
    ASSUME TypeOK, Net
    PROVE  TypeOK'
<1> USE DEF Location, Thread
<1>1. CASE Create
  <2>1. sync' \in [Slot -> {"empty", "yes", "no"}]
    BY <1>1 DEF TypeOK, Create, Resolve, Slot
  <2>2. refresh' \in BOOLEAN /\ conn' \in {"none", "up", "eof", "reset", "invalid"}
    BY <1>1 DEF TypeOK, Create
  <2>3. Placed
    BY <1>1 DEF TypeOK, Create, Goto, Execute, Placed
  <2>4. QED
    BY <1>1, <2>1, <2>2, <2>3 DEF TypeOK, Create, Resolve, Placed, shutdownTasks, user
<1>2. CASE CreateError
  BY <1>2 DEF TypeOK, CreateError, Goto, shutdownTasks, handshake, network, user
<1>3. CASE Connect
  <2>1. sync' \in [Slot -> {"empty", "yes", "no"}]
    BY <1>3 DEF TypeOK, Connect, Resolve, Slot
  <2>2. incoming' \in Seq({"text", "full"})
    <3>1. <<"full">> \in Seq({"text", "full"})
      OBVIOUS
    <3>2. incoming' \in {incoming, <<"full">>}
      BY <1>3 DEF Connect
    <3>3. QED
      BY <3>1, <3>2 DEF TypeOK
  <2>3. refresh' \in BOOLEAN /\ conn' \in {"none", "up", "eof", "reset", "invalid"}
    BY <1>3 DEF TypeOK, Connect
  <2>4. Placed
    BY <1>3 DEF TypeOK, Connect, Goto, Execute, Placed
  <2>5. QED
    BY <1>3, <2>1, <2>2, <2>3, <2>4 DEF TypeOK, Connect, Resolve, Placed, shutdownTasks, user
<1>4. CASE NetChecks
  BY <1>4 DEF TypeOK, NetChecks, Goto, console, shutdownTasks, handshake, network, user
<1>5. CASE NetAddr
  <2>1. sync' \in [Slot -> {"empty", "yes", "no"}]
    BY <1>5 DEF TypeOK, NetAddr, Resolve, Slot
  <2>2. QED
    BY <1>5, <2>1 DEF TypeOK, NetAddr, Resolve, Goto, console, shutdownTasks, network, user
<1>6. CASE NetUsername
  <2>1. sync' \in [Slot -> {"empty", "yes", "no"}]
    BY <1>6 DEF TypeOK, NetUsername, Resolve, Slot
  <2>2. /\ toServer' \in Seq(Line) /\ conn' \in {"none", "up", "eof", "reset", "invalid"}
        /\ Placed
    BY <1>6, SendFrameType DEF NetUsername, Line
  <2>3. QED
    BY <1>6, <2>1, <2>2 DEF TypeOK, NetUsername, Resolve, Placed, console, shutdownTasks, user
<1>7. CASE NetReceive
  <2>1. PICK at, next \in Location : Receive(at, next)
    BY <1>7 DEF NetReceive
  <2>2. incoming' \in Seq({"text", "full"}) /\ heardBack' \in BOOLEAN
    <3>1. incoming' = incoming \/ (incoming # <<>> /\ incoming' = Tail(incoming))
      BY <2>1 DEF Receive
    <3>2. incoming' \in Seq({"text", "full"})
      <4>1. incoming \in Seq({"text", "full"})
        BY DEF TypeOK
      <4>2. incoming # <<>> => Tail(incoming) \in Seq({"text", "full"})
        BY <4>1, TailType
      <4>3. QED
        BY <3>1, <4>1, <4>2
    <3>3. heardBack' \in BOOLEAN
      BY <2>1 DEF TypeOK, Receive
    <3>4. QED
      BY <3>2, <3>3
  <2>3. Placed
    <3>1. Goto("net", next) \/ Execute("net", next)
      BY <2>1 DEF Receive
    <3>2. QED
      BY <2>1, <3>1, GotoPlaced
  <2>4. QED
    BY <2>1, <2>2, <2>3 DEF TypeOK, Receive, Placed, shutdownTasks, handshake, user
<1>8. CASE NetRegistered
  <2>1. sync' \in [Slot -> {"empty", "yes", "no"}]
    BY <1>8 DEF TypeOK, NetRegistered, Resolve, Slot
  <2>2. Placed
    <3>1. CASE shutdown
      BY <1>8, <3>1, GotoPlaced DEF NetRegistered
    <3>2. CASE ~shutdown
      <4>1. /\ pc' = [pc EXCEPT !["net"] = "loop", !["sender"] = "loop"]
            /\ UNCHANGED <<process, ret>>
        BY <1>8, <3>2 DEF NetRegistered
      <4>2. QED
        BY <4>1 DEF TypeOK, Placed
    <3>3. QED
      BY <3>1, <3>2
  <2>3. UNCHANGED <<console, shutdownTasks, network, user, sendBuffer, registered>>
    BY <1>8 DEF NetRegistered, Resolve
  <2>4. QED
    BY <2>1, <2>2, <2>3 DEF TypeOK, Placed, console, shutdownTasks, network, user
<1>9. CASE JoinSender
  BY <1>9 DEF TypeOK, JoinSender, Goto, End, console, shutdownTasks, handshake, network, user
<1>10. CASE Tasks("net")
  BY <1>10, TasksType
<1>11. QED
  BY <1>1, <1>2, <1>3, <1>4, <1>5, <1>6, <1>7, <1>8, <1>9, <1>10 DEF Net

(* The steps of the other threads, the user and the server do too. *)
LEMMA OthersType ==
    ASSUME TypeOK, pc["input"] = "push" => line \in Line,
           Sender \/ Renderer \/ Input \/ Environment
    PROVE  TypeOK'
<1> USE DEF Location, Thread
<1>1. CASE SenderLoop
  BY <1>1 DEF TypeOK, SenderLoop, Goto, console, shutdownTasks, handshake, network, user
<1>2. CASE SenderRx
  <2>1. Head(sendBuffer) \in Line /\ sendBuffer' \in Seq(Line)
    BY <1>2 DEF TypeOK, SenderRx
  <2>2. /\ toServer' \in Seq(Line) /\ conn' \in {"none", "up", "eof", "reset", "invalid"}
        /\ Placed
    BY <1>2, <2>1, SendFrameType DEF SenderRx
  <2>3. QED
    BY <1>2, <2>1, <2>2 DEF TypeOK, SenderRx, Placed, console, shutdownTasks, user
<1>3. CASE RenderPushTask
  <2>1. <<"flag">> \in Seq(Effect) /\ <<"refresh">> \in Seq(Effect)
    BY DEF Effect
  <2>2. QED
    BY <1>3, <2>1, PushTaskType DEF RenderPushTask
<1>4. CASE RenderLoop
  BY <1>4 DEF TypeOK, RenderLoop, Goto, console, shutdownTasks, handshake, network, user
<1>5. CASE RenderWait
  BY <1>5 DEF TypeOK, RenderWait, Goto, shutdownTasks, handshake, network, user
<1>6. CASE InputLoop \/ InputTimeout
  BY <1>6 DEF TypeOK, InputLoop, InputTimeout, Goto, console, shutdownTasks, handshake, network,
              user
<1>7. CASE InputPush
  <2>1. line \in Line /\ ringBuffer' \in Seq(Line)
    BY <1>7 DEF TypeOK, InputPush
  <2>2. QED
    BY <1>7, <2>1 DEF TypeOK, InputPush, Goto, shutdownTasks, handshake, network
<1>8. CASE Tasks("input")
  BY <1>8, TasksType
<1>9. CASE Resize
  BY <1>9 DEF TypeOK, Resize, shutdownTasks, handshake, network, user
<1>10. ASSUME NEW l \in Typed, UserTypes(l)
       PROVE  TypeOK'
  BY <1>10, SessionAssumption DEF TypeOK, UserTypes, Goto, Execute, console, shutdownTasks,
     handshake, network
<1>11. CASE ServerServes \/ OthersTalk \/ Vanish
  <2>1. incoming' \in Seq({"text", "full"}) /\ heard' \in Nat
    <3>1. Append(incoming, "text") \in Seq({"text", "full"})
      BY DEF TypeOK
    <3>2. incoming' \in {incoming, Append(incoming, "text")} /\ heard' \in {heard, heard + 1}
      BY <1>11 DEF ServerServes, OthersTalk, Vanish, network
    <3>3. incoming' \in Seq({"text", "full"})
      BY <3>1, <3>2 DEF TypeOK
    <3>4. heard' \in Nat
      BY <3>2 DEF TypeOK
    <3>5. QED
      BY <3>3, <3>4
  <2>2. UNCHANGED <<process, pc, ret, console, shutdownTasks, handshake, toServer, heardBack, user>>
    BY <1>11 DEF ServerServes, OthersTalk, Vanish
  <2>3. conn' \in {conn, "eof", "reset"}
    BY <1>11 DEF ServerServes, OthersTalk, Vanish
  <2>4. QED
    BY <2>1, <2>2, <2>3 DEF TypeOK, console, shutdownTasks, handshake, user
<1>12. QED
  BY <1>1, <1>2, <1>3, <1>4, <1>5, <1>6, <1>7, <1>8, <1>9, <1>10, <1>11
     DEF Sender, Renderer, Input, Environment

-----------------------------------------------------------------------------
(* Where a thread inside of ShutdownTasks::execute goes on, else where it  *)
(* is.                                                                     *)
At(t) == IF pc[t] \in {"execute", "tasks"} THEN ret[t] ELSE pc[t]

(* Only main, the net thread and the input thread run the tasks, and from  *)
(* a few places.                                                           *)
Returns ==
    /\ \A t \in Thread : pc[t] \notin {"execute", "tasks"} => ret[t] = "off"
    /\ ret["main"] \in {"off", "joinBoth"}
    /\ ret["net"] \in {"off", "createError", "afterConnect", "afterAnswer", "loop"}
    /\ ret["input"] \in {"off", "push"}
    /\ ret["sender"] = "off" /\ ret["renderer"] = "off"

LineHeld == At("input") = "push" => line \in Line

(* The terminal's task is the first one: whoever has seen the flag set, or *)
(* is behind the first task, is behind it.                                 *)
Ending == {"joinNet", "joinRenderer", "joinInput", "joinSender", "joinAgain"}
Restored ==
    /\ tasks # <<>> /\ tasks[1] = "tty" /\ task >= 1
    /\ task > 1 \/ shutdown \/ process \in {"exited", "terminated"} => echo
    /\ \A t \in Thread : pc[t] \in Ending => echo
    /\ pc["main"] = "joinBoth" => echo

(* What has been sent when the net thread is where it is.                  *)
Early == {"off", "create", "createError", "afterCreate", "addr", "connect", "afterConnect",
          "username"}
Talk ==
    /\ pc["main"] \in {"discover", "start"} => pc["net"] = "off"
    /\ At("net") \in Early => toServer = <<>> /\ pc["sender"] = "off"
    /\ At("net") \in {"answer", "afterAnswer"} =>
          /\ pc["sender"] = "off" /\ Len(toServer) <= 1
          /\ conn = "up" => Len(toServer) = 1
    /\ (At("net") = "afterAnswer" \/ pc["sender"] # "off") /\ conn = "up" =>
          Len(toServer) >= 1 /\ heardBack
    /\ RegisteredFirst

IInv == TypeOK /\ Returns /\ LineHeld /\ Restored /\ Talk

(* The strengthened invariant holds at the start. *)
LEMMA InvariantInit == Init => IInv
<1> SUFFICES ASSUME Init PROVE IInv
  OBVIOUS
<1>1. TypeOK
  BY TypeInit
<1>2. /\ pc["main"] = "discover" /\ pc["net"] = "off" /\ pc["sender"] = "off"
      /\ pc["renderer"] = "pushFlag" /\ pc["input"] = "loop"
      /\ \A t \in Thread : ret[t] = "off"
  BY DEF Init, Thread
<1>3. Returns /\ LineHeld
  BY <1>2 DEF Returns, LineHeld, At, Thread
<1>4. Restored
  BY <1>2 DEF Init, Restored, Ended, Ending, Thread
<1>5. Talk
  BY <1>2 DEF Init, Talk, At, RegisteredFirst
<1>6. QED
  BY <1>1, <1>3, <1>4, <1>5 DEF IInv

-----------------------------------------------------------------------------
(* The steps that run tasks move nobody but the thread itself, and only    *)
(* where it was going.                                                     *)
LEMMA TasksMove ==
    ASSUME TypeOK, Returns, NEW t \in {"main", "net", "input"}, Tasks(t)
    PROVE  /\ Returns' /\ \A u \in Thread : At(u)' = At(u)
           /\ \A u \in Thread : u # t => pc'[u] = pc[u]
<1>1. CASE LockTasks(t)
  <2>1. pc' = [pc EXCEPT ![t] = "tasks"] /\ ret' = ret /\ pc[t] = "execute"
    BY <1>1 DEF LockTasks, Goto
  <2>2. QED
    BY <2>1 DEF TypeOK, Returns, At
<1>2. CASE RunTask(t)
  BY <1>2 DEF RunTask, Returns, At
<1>3. CASE UnlockTasks(t)
  <2>1. /\ pc' = [pc EXCEPT ![t] = ret[t]] /\ ret' = [ret EXCEPT ![t] = "off"]
        /\ pc[t] = "tasks"
    BY <1>3 DEF UnlockTasks
  <2>2. \A u \in Thread : u # t => pc'[u] = pc[u] /\ ret'[u] = ret[u]
    BY <2>1 DEF TypeOK
  <2>3. pc'[t] = ret[t] /\ ret'[t] = "off"
    BY <2>1 DEF TypeOK, Thread
  <2>4. ret[t] \notin {"execute", "tasks"}
    BY DEF Returns
  <2>5. Returns'
    BY <2>1, <2>2, <2>3, <2>4 DEF Returns, Thread
  <2>6. At(t)' = At(t)
    BY <2>1, <2>3, <2>4 DEF At
  <2>7. \A u \in Thread : u # t => At(u)' = At(u)
    BY <2>2 DEF At
  <2>8. QED
    BY <2>2, <2>5, <2>6, <2>7
<1>4. QED
  BY <1>1, <1>2, <1>3 DEF Tasks

(* A thread that is not running tasks goes on, or starts to run them.      *)
LEMMA GotoReturns ==
    ASSUME TypeOK, Returns, NEW t \in Thread, pc[t] \notin {"execute", "tasks"},
           NEW l \in Location \ {"execute", "tasks"}, Goto(t, l)
    PROVE  /\ Returns' /\ At(t)' = l
           /\ \A u \in Thread : u # t => At(u)' = At(u) /\ pc'[u] = pc[u]
  BY DEF TypeOK, Returns, Goto, At

LEMMA ExecuteReturns ==
    ASSUME TypeOK, Returns, NEW t \in Thread, NEW l \in Location, Execute(t, l),
           <<t, l>> \in {<<"main", "joinBoth">>, <<"net", "createError">>,
                         <<"net", "afterConnect">>, <<"net", "afterAnswer">>, <<"net", "loop">>,
                         <<"input", "push">>}
    PROVE  /\ Returns' /\ At(t)' = l /\ pc'[t] = "execute"
           /\ \A u \in Thread : u # t => At(u)' = At(u) /\ pc'[u] = pc[u]
<1>1. /\ pc'[t] = "execute" /\ ret'[t] = l
      /\ \A u \in Thread : u # t => ret'[u] = ret[u] /\ pc'[u] = pc[u]
  BY DEF TypeOK, Execute
<1>2. QED
  BY <1>1 DEF Returns, At, Thread

(* Nobody moves. *)
LEMMA StayReturns ==
    ASSUME Returns, UNCHANGED <<pc, ret>>
    PROVE  Returns' /\ \A u \in Thread : At(u)' = At(u) /\ pc'[u] = pc[u]
  BY DEF Returns, At

-----------------------------------------------------------------------------
(* The only places from which the tasks are run are those of Returns. *)
LEMMA ReturnsStep ==
    ASSUME TypeOK, Returns, Talk, Next
    PROVE  Returns'
<1> USE DEF Location, Thread
<1>1. CASE Tasks("main") \/ Tasks("net") \/ Tasks("input")
  BY <1>1, TasksMove
<1>2. CASE Discover
  BY <1>2, GotoReturns, ExecuteReturns DEF Discover
<1>3. CASE MainPushTask \/ MainLoop \/ MainRx
  BY <1>3, GotoReturns DEF MainPushTask, PushTask, MainLoop, MainRx
<1>4. CASE AwaitRegistration
  BY <1>4, GotoReturns DEF AwaitRegistration, Retrieve
<1>5. CASE JoinBoth \/ JoinThreads \/ JoinSender
  BY <1>5, GotoReturns, StayReturns DEF JoinBoth, JoinThreads, JoinSender, End
<1>6. CASE StartNet
  BY <1>6 DEF StartNet, TypeOK, Returns, Talk
<1>7. CASE NetRegistered
  <2>1. CASE shutdown
    BY <1>7, <2>1, GotoReturns DEF NetRegistered
  <2>2. CASE ~shutdown
    BY <1>7, <2>2 DEF NetRegistered, TypeOK, Returns
  <2>3. QED
    BY <2>1, <2>2
<1>8. CASE Create \/ Connect
  BY <1>8, GotoReturns, ExecuteReturns DEF Create, Connect
<1>9. CASE NetReceive
  BY <1>9, GotoReturns, ExecuteReturns DEF NetReceive, Receive
<1>10. CASE CreateError \/ NetChecks \/ NetAddr \/ NetUsername
  BY <1>10, GotoReturns, StayReturns DEF CreateError, NetChecks, NetAddr, NetUsername, SendFrame, End
<1>11. CASE Sender \/ Renderer
  BY <1>11, GotoReturns, StayReturns DEF Sender, SenderLoop, SenderRx, SendFrame, End, Renderer,
     RenderPushTask, PushTask, RenderLoop, RenderWait
<1>12. CASE InputLoop \/ InputTimeout \/ InputPush
  BY <1>12, GotoReturns DEF InputLoop, InputTimeout, InputPush
<1>13. ASSUME NEW l \in Typed, UserTypes(l)
       PROVE  Returns'
  BY <1>13, GotoReturns, ExecuteReturns DEF UserTypes
<1>14. CASE Resize \/ ServerServes \/ OthersTalk \/ Vanish
  BY <1>14, StayReturns DEF Resize, ServerServes, OthersTalk, Vanish
<1>15. QED
  BY <1>1, <1>2, <1>3, <1>4, <1>5, <1>6, <1>7, <1>8, <1>9, <1>10, <1>11, <1>12, <1>13, <1>14
     DEF Next, Main, Net, Input, Environment

(* A step that does not touch the tasks, the flag, the terminal and the    *)
(* process, and takes nobody to the end.                                   *)
LEMMA CalmStep ==
    ASSUME Restored, UNCHANGED <<tasks, task, shutdown, echo>>,
           process' = process \/ process' = "killed",
           \A t \in Thread : pc'[t] = pc[t] \/ pc'[t] \notin Ending \cup {"joinBoth"}
    PROVE  Restored'
  BY DEF Restored, Ended, Thread

(* The flag is set and the process ends behind the terminal's task only. *)
LEMMA RestoredStep ==
    ASSUME TypeOK, Returns, Restored, Next
    PROVE  Restored'
<1> USE DEF Thread
<1>1. ASSUME NEW t \in {"main", "net", "input"}, Tasks(t)
      PROVE  Restored'
  <2>1. CASE LockTasks(t)
    BY <1>1, <2>1 DEF LockTasks, Goto, Restored, TypeOK, Ended, Ending, console
  <2>2. CASE RunTask(t)
    <3>1. /\ UNCHANGED <<process, pc, tasks>> /\ task' = task + 1 /\ task <= Len(tasks)
          /\ echo' = (echo \/ tasks[task] = "tty")
          /\ shutdown' = (shutdown \/ tasks[task] = "flag")
      BY <2>2 DEF RunTask
    <3>2. echo'
      <4>1. CASE task = 1
        BY <3>1, <4>1 DEF Restored
      <4>2. CASE task # 1
        BY <3>1, <4>2 DEF Restored, TypeOK
      <4>3. QED
        BY <4>1, <4>2
    <3>3. QED
      BY <3>1, <3>2 DEF Restored, TypeOK
  <2>3. CASE UnlockTasks(t)
    <3>1. task > Len(tasks) /\ UNCHANGED <<process, tasks, echo, shutdown>> /\ task' = 1
      BY <2>3 DEF UnlockTasks, console
    <3>2. echo
      BY <3>1 DEF Restored, TypeOK
    <3>3. QED
      BY <3>1, <3>2 DEF Restored
  <2>4. QED
    BY <1>1, <2>1, <2>2, <2>3 DEF Tasks
<1>2. CASE MainPushTask \/ RenderPushTask
  <2>1. PICK t \in Thread, effects \in Seq(Effect), l \in Location \ (Ending \cup {"joinBoth"}) :
            PushTask(t, effects, l)
    <3>1. /\ <<"flag", "wakeMain">> \in Seq(Effect)
          /\ <<"flag">> \in Seq(Effect) /\ <<"refresh">> \in Seq(Effect)
      BY DEF Effect
    <3>2. {"loop", "pushRefresh"} \subseteq Location \ (Ending \cup {"joinBoth"})
      BY DEF Location, Ending
    <3>3. QED
      BY <1>2, <3>1, <3>2 DEF MainPushTask, RenderPushTask
  <2>2. tasks' # <<>> /\ tasks'[1] = tasks[1]
    BY <2>1 DEF PushTask, Restored, TypeOK
  <2>3. QED
    BY <2>1, <2>2 DEF PushTask, Goto, Restored, TypeOK, Ended, console
<1>3. CASE MainLoop \/ NetChecks
  BY <1>3 DEF MainLoop, NetChecks, Goto, Restored, TypeOK, Ended, console, shutdownTasks, Ending
<1>4. CASE JoinBoth \/ JoinThreads \/ JoinSender
  BY <1>4 DEF JoinBoth, JoinThreads, JoinSender, Goto, End, Restored, TypeOK, Ended, console,
     shutdownTasks, Ending
<1>5. CASE Discover \/ StartNet \/ MainRx \/ AwaitRegistration
  <2>1. \A t \in Thread : pc'[t] = pc[t] \/ pc'[t] \notin Ending \cup {"joinBoth"}
    BY <1>5 DEF Discover, StartNet, MainRx, AwaitRegistration, Retrieve, Goto, Execute, TypeOK,
       Ending
  <2>2. UNCHANGED <<tasks, task, shutdown, echo, process>>
    BY <1>5 DEF Discover, StartNet, MainRx, AwaitRegistration, Retrieve, Goto, Execute,
       console, shutdownTasks
  <2>3. QED
    BY <2>1, <2>2, CalmStep
<1>6. CASE Create \/ CreateError \/ Connect \/ NetAddr \/ NetUsername \/ NetReceive
           \/ NetRegistered
  <2>1. \A t \in Thread : pc'[t] = pc[t] \/ pc'[t] \notin Ending \cup {"joinBoth"}
    BY <1>6 DEF Create, CreateError, Connect, NetAddr, NetUsername, SendFrame, NetReceive, Receive,
       NetRegistered, Goto, Execute, End, TypeOK, Ending
  <2>2. /\ UNCHANGED <<tasks, task, shutdown, echo>>
        /\ process' = process \/ process' = "killed"
    BY <1>6 DEF Create, CreateError, Connect, NetAddr, NetUsername, SendFrame, NetReceive, Receive,
       NetRegistered, Goto, Execute, End, console, shutdownTasks
  <2>3. QED
    BY <2>1, <2>2, CalmStep
<1>7. CASE Sender \/ RenderLoop \/ RenderWait \/ InputLoop \/ InputTimeout \/ InputPush
  <2>1. \A t \in Thread : pc'[t] = pc[t] \/ pc'[t] \notin Ending \cup {"joinBoth"}
    BY <1>7 DEF Sender, SenderLoop, SenderRx, SendFrame, RenderLoop, RenderWait, InputLoop,
       InputTimeout, InputPush, Goto, End, TypeOK, Ending
  <2>2. /\ UNCHANGED <<tasks, task, shutdown, echo>>
        /\ process' = process \/ process' = "killed"
    BY <1>7 DEF Sender, SenderLoop, SenderRx, SendFrame, RenderLoop, RenderWait, InputLoop,
       InputTimeout, InputPush, Goto, End, console, shutdownTasks
  <2>3. QED
    BY <2>1, <2>2, CalmStep
<1>8. CASE Environment
  <2>1. \A t \in Thread : pc'[t] = pc[t] \/ pc'[t] \notin Ending \cup {"joinBoth"}
    BY <1>8 DEF Environment, Resize, UserTypes, ServerServes, OthersTalk, Vanish, Goto, Execute,
       TypeOK, Ending
  <2>2. UNCHANGED <<tasks, task, shutdown, echo, process>>
    BY <1>8 DEF Environment, Resize, UserTypes, ServerServes, OthersTalk, Vanish, Goto, Execute,
       console, shutdownTasks
  <2>3. QED
    BY <2>1, <2>2, CalmStep
<1>9. QED
  BY <1>1, <1>2, <1>3, <1>4, <1>5, <1>6, <1>7, <1>8
     DEF Next, Main, Net, Input, Renderer

(* The line is there until the input thread has pushed it. *)
LEMMA LineHeldStep ==
    ASSUME TypeOK, Returns, LineHeld, Next
    PROVE  LineHeld'
<1> USE DEF Thread
<1>1. CASE Tasks("main") \/ Tasks("net") \/ Tasks("input")
  <2>1. At("input")' = At("input")
    BY <1>1, TasksMove
  <2>2. UNCHANGED line
    BY <1>1 DEF Tasks, LockTasks, RunTask, UnlockTasks, user
  <2>3. QED
    BY <2>1, <2>2 DEF LineHeld
<1>2. CASE Discover \/ JoinBoth \/ StartNet \/ MainPushTask \/ MainLoop \/ MainRx
           \/ AwaitRegistration \/ JoinThreads
  <2>1. UNCHANGED <<pc["input"], ret["input"], line>>
    BY <1>2 DEF TypeOK, Discover, JoinBoth, StartNet, MainPushTask, PushTask, MainLoop, MainRx,
       AwaitRegistration, Retrieve, JoinThreads, Goto, Execute, End, user
  <2>2. QED
    BY <2>1 DEF LineHeld, At
<1>3. CASE Create \/ CreateError \/ Connect \/ NetChecks \/ NetAddr \/ NetUsername \/ NetReceive
           \/ NetRegistered \/ JoinSender
  <2>1. UNCHANGED <<pc["input"], ret["input"], line>>
    BY <1>3 DEF TypeOK, Create, CreateError, Connect, NetChecks, NetAddr, NetUsername,
       SendFrame, NetReceive, Receive, NetRegistered, JoinSender, Goto, Execute, End, user
  <2>2. QED
    BY <2>1 DEF LineHeld, At
<1>4. CASE Sender \/ Renderer \/ Resize \/ ServerServes \/ OthersTalk \/ Vanish
  <2>1. UNCHANGED <<pc["input"], ret["input"], line>>
    BY <1>4 DEF TypeOK, Sender, SenderLoop, SenderRx, SendFrame, Renderer, RenderPushTask, PushTask,
       RenderLoop, RenderWait, Resize, ServerServes, OthersTalk, Vanish, Goto, End, user
  <2>2. QED
    BY <2>1 DEF LineHeld, At
<1>5. CASE InputLoop \/ InputTimeout \/ InputPush
  <2>1. At("input")' # "push"
    BY <1>5 DEF TypeOK, InputLoop, InputTimeout, InputPush, Goto, At
  <2>2. QED
    BY <2>1 DEF LineHeld
<1>6. ASSUME NEW l \in Typed, UserTypes(l)
      PROVE  LineHeld'
  BY <1>6, SessionAssumption DEF UserTypes, LineHeld
<1>7. QED
  BY <1>1, <1>2, <1>3, <1>4, <1>5, <1>6 DEF Next, Main, Net, Input, Environment

-----------------------------------------------------------------------------
(* A step that leaves the net thread, what was sent and what was heard     *)
(* as they are.                                                            *)
LEMMA QuietStep ==
    ASSUME TypeOK, Talk, At("net")' = At("net"), UNCHANGED <<toServer, heardBack>>,
           conn' = conn \/ conn' # "up",
           pc'["sender"] = pc["sender"] \/ pc["sender"] # "off",
           pc'["main"] \in {"discover", "start"} =>
               pc["main"] \in {"discover", "start"} /\ pc'["net"] = pc["net"]
    PROVE  Talk'
  BY DEF Talk, RegisteredFirst

(* Only the registration is sent until a frame has come behind it. *)
LEMMA TalkStep ==
    ASSUME TypeOK, Returns, Talk, Next
    PROVE  Talk'
<1> USE DEF Thread
<1>1. CASE Tasks("main") \/ Tasks("net") \/ Tasks("input")
  <2>1. /\ At("net")' = At("net") /\ At("main")' = At("main")
        /\ pc'["sender"] = pc["sender"] /\ (Tasks("main") \/ pc'["main"] = pc["main"])
    BY <1>1, TasksMove
  <2>2. UNCHANGED <<toServer, heardBack, conn>>
    BY <1>1 DEF Tasks, LockTasks, RunTask, UnlockTasks, network
  <2>3. pc'["main"] \notin {"discover", "start"} \/ UNCHANGED <<pc["main"], pc["net"]>>
    BY <1>1 DEF Tasks, LockTasks, RunTask, UnlockTasks, Goto, TypeOK, Returns, Talk
  <2>4. QED
    BY <2>1, <2>2, <2>3, QuietStep
<1>2. CASE Discover \/ JoinBoth \/ MainPushTask \/ MainLoop \/ MainRx \/ AwaitRegistration
           \/ JoinThreads
  <2>1. /\ UNCHANGED <<pc["net"], ret["net"], pc["sender"], toServer, heardBack, conn>>
        /\ pc'["main"] \in {"discover", "start"} => pc["main"] \in {"discover", "start"}
    BY <1>2 DEF TypeOK, Discover, JoinBoth, MainPushTask, PushTask, MainLoop, MainRx,
       AwaitRegistration, Retrieve, JoinThreads, Goto, Execute, End, network
  <2>2. QED
    BY <2>1, QuietStep DEF At
<1>3. CASE SenderLoop \/ Renderer \/ InputLoop \/ InputTimeout \/ InputPush
  <2>1. /\ UNCHANGED <<pc["net"], ret["net"], pc["main"], toServer, heardBack, conn>>
        /\ pc'["sender"] = pc["sender"] \/ pc["sender"] # "off"
    BY <1>3 DEF TypeOK, SenderLoop, Renderer, RenderPushTask, PushTask, RenderLoop, RenderWait,
       InputLoop, InputTimeout, InputPush, Goto, network
  <2>2. QED
    BY <2>1, QuietStep DEF At
<1>4. CASE Environment
  <2>1. /\ UNCHANGED <<pc["net"], ret["net"], pc["main"], pc["sender"], toServer, heardBack>>
        /\ conn' = conn \/ conn' # "up"
    BY <1>4 DEF TypeOK, Environment, Resize, UserTypes, ServerServes, OthersTalk, Vanish, Goto,
       Execute, network
  <2>2. QED
    BY <2>1, QuietStep DEF At
<1>5. CASE SenderRx
  <2>1. /\ UNCHANGED <<pc["net"], ret["net"], pc["main"], heardBack>>
        /\ pc["sender"] = "rx" /\ pc'["sender"] \in {"rx", "loop"}
        /\ conn' = conn \/ (conn = "eof" /\ conn' = "reset")
        /\ toServer' = IF conn = "up" THEN Append(toServer, Head(sendBuffer)) ELSE toServer
    BY <1>5 DEF TypeOK, SenderRx, SendFrame, Goto, End
  <2>2. /\ toServer' # <<>> => toServer # <<>> /\ toServer'[1] = toServer[1]
        /\ conn = "up" => Len(toServer') = Len(toServer) + 1
    BY <2>1 DEF TypeOK, Talk
  <2>3. QED
    BY <2>1, <2>2 DEF TypeOK, Talk, At, RegisteredFirst
<1>6. CASE StartNet
  <2>1. /\ pc["net"] = "off" /\ pc'["net"] = "create" /\ pc'["main"] = "pushTask"
        /\ UNCHANGED <<pc["sender"], toServer, heardBack, conn>>
    BY <1>6 DEF TypeOK, StartNet, Talk, network
  <2>2. At("net") = "off" /\ At("net")' = "create"
    BY <2>1 DEF At
  <2>3. QED
    BY <2>1, <2>2 DEF Talk, Early, RegisteredFirst
<1>7. CASE Create \/ CreateError \/ Connect \/ NetAddr
  <2>1. At("net") \in Early /\ At("net")' \in Early
    BY <1>7 DEF TypeOK, Create, CreateError, Connect, NetAddr, Goto, Execute, At, Early
  <2>2. UNCHANGED <<pc["main"], pc["sender"], toServer, heardBack>> /\ pc["net"] # "off"
    BY <1>7 DEF TypeOK, Create, CreateError, Connect, NetAddr, Goto, Execute, network
  <2>3. QED
    BY <2>1, <2>2 DEF Talk, Early, RegisteredFirst
<1>8. CASE NetChecks
  <2>1. /\ UNCHANGED <<pc["main"], pc["sender"], toServer, heardBack, conn>>
        /\ \/ pc["net"] = "afterCreate" /\ At("net")' \in {"done", "addr"}
           \/ pc["net"] = "afterConnect" /\ At("net")' \in {"done", "username"}
           \/ pc["net"] = "loop" /\ At("net")' \in {"joinSender", "recv"}
    BY <1>8 DEF TypeOK, NetChecks, Goto, At, network
  <2>2. QED
    BY <2>1 DEF Talk, At, Early, RegisteredFirst
<1>9. CASE NetUsername
  <2>1. /\ UNCHANGED <<pc["main"], pc["sender"], heardBack>>
        /\ pc["net"] = "username"
        /\ conn' = conn \/ (conn = "eof" /\ conn' = "reset")
        /\ toServer' = IF conn = "up" THEN Append(toServer, "register") ELSE toServer
        /\ \/ At("net")' = "answer"
           \/ At("net")' = "username" /\ conn # "up"
    BY <1>9 DEF TypeOK, NetUsername, SendFrame, Goto, End, At
  <2>2. toServer = <<>> /\ pc["sender"] = "off"
    BY <2>1 DEF Talk, At, Early
  <2>3. /\ Len(toServer') <= 1 /\ (conn' = "up" => Len(toServer') = 1)
        /\ Len(toServer') > 0 => toServer'[1] = "register"
        /\ conn # "up" => toServer' = <<>>
    BY <2>1, <2>2
  <2>4. QED
    BY <2>1, <2>2, <2>3 DEF Talk, Early, RegisteredFirst
<1>10. CASE NetReceive
  <2>1. UNCHANGED <<pc["main"], pc["sender"], toServer, conn>> /\ pc["net"] # "off"
    BY <1>10 DEF TypeOK, NetReceive, Receive, Goto, Execute, network
  <2>2. \/ At("net") = "answer" /\ At("net")' = "afterAnswer" /\ (heardBack' \/ conn # "up")
        \/ At("net") = "recv" /\ At("net")' = "loop" /\ (heardBack => heardBack')
    BY <1>10 DEF TypeOK, NetReceive, Receive, Goto, Execute, At
  <2>3. heardBack => heardBack'
    BY <1>10 DEF NetReceive, Receive
  <2>4. QED
    BY <2>1, <2>2, <2>3 DEF Talk, Early, RegisteredFirst, TypeOK
<1>11. CASE NetRegistered
  <2>1. /\ UNCHANGED <<pc["main"], toServer, heardBack, conn>>
        /\ pc["net"] = "afterAnswer"
        /\ \/ At("net")' = "done" /\ pc'["sender"] = pc["sender"]
           \/ At("net")' = "loop" /\ pc'["sender"] = "loop"
    BY <1>11 DEF TypeOK, NetRegistered, Goto, At, network
  <2>2. At("net") = "afterAnswer"
    BY <2>1 DEF At
  <2>3. QED
    BY <2>1, <2>2 DEF Talk, Early, RegisteredFirst, TypeOK
<1>12. CASE JoinSender
  <2>1. /\ UNCHANGED <<pc["main"], pc["sender"], toServer, heardBack, conn>>
        /\ pc["net"] \in {"joinSender", "joinAgain"} /\ pc'["net"] = "joinAgain"
    BY <1>12 DEF TypeOK, JoinSender, Goto, End, network
  <2>2. QED
    BY <2>1 DEF Talk, At, Early, RegisteredFirst
<1>13. QED
  BY <1>1, <1>2, <1>3, <1>4, <1>5, <1>6, <1>7, <1>8, <1>9, <1>10, <1>11, <1>12
     DEF Next, Main, Net, Sender, Input

(* The strengthened invariant is inductive. *)
LEMMA InvariantStep == IInv /\ [Next]_vars => IInv'
<1>1. IInv /\ UNCHANGED vars => IInv'
  BY DEF IInv, TypeOK, Returns, LineHeld, Restored, Talk, At, Ended, RegisteredFirst, vars
<1>2. ASSUME IInv, Next
      PROVE  IInv'
  <2>1. TypeOK'
    <3>1. pc["input"] = "push" => line \in Line
      BY <1>2 DEF IInv, LineHeld, At
    <3>2. QED
      BY <1>2, <3>1, MainType, NetType, OthersType DEF IInv, Next
  <2>2. QED
    BY <1>2, <2>1, ReturnsStep, LineHeldStep, RestoredStep, TalkStep DEF IInv
<1>3. QED
  BY <1>1, <1>2

LEMMA InductiveInvariant == Spec => []IInv
  BY InvariantInit, InvariantStep, PTL DEF Spec

(* Every variable keeps its type, whatever is typed and whatever fails. *)
THEOREM TypeCorrect == Spec => []TypeOK
<1>1. IInv => TypeOK
  BY DEF IInv
<1>2. QED
  BY <1>1, InductiveInvariant, PTL

(* The terminal has its settings back when main returns or the process is  *)
(* terminated, wherever it broke off: its task is the first that anybody   *)
(* runs, and only who has run it comes there (clientmain.cpp 18-20).       *)
THEOREM TerminalComesBack == Spec => []TerminalIsRestored
<1>1. IInv => TerminalIsRestored
  BY DEF IInv, Restored, TerminalIsRestored
<1>2. QED
  BY <1>1, InductiveInvariant, PTL

(* Nothing is sent before the registration, and nothing behind it before   *)
(* the server has sent a frame, be it the answer or what another user said *)
(* (Client.cpp 128-147).                                                   *)
THEOREM RegistrationComesFirst == Spec => []RegisteredFirst
<1>1. IInv => RegisteredFirst
  BY DEF IInv, Talk
<1>2. QED
  BY <1>1, InductiveInvariant, PTL

-----------------------------------------------------------------------------
(* Who has registered what: each wake-up stands behind a flag, the flags   *)
(* that were passed have been set, and a thread is past the registration   *)
(* of its tasks before it can wait.                                        *)
Behind == {"loop", "rx", "created", "established", "registered", "joinNet", "joinRenderer",
           "joinInput"}
InTasks(e) == \E i \in 1..Len(tasks) : tasks[i] = e
FlagFirst == \A j \in 1..Len(tasks) :
    tasks[j] \in {"refresh", "wakeMain"} => \E i \in 1..(j - 1) : tasks[i] = "flag"
FlagPassed == \A i \in 1..Len(tasks) :
    mtx # NoThread /\ tasks[i] = "flag" /\ i < task => shutdown
HasPushed ==
    /\ pc["renderer"] = "pushRefresh" => InTasks("flag")
    /\ pc["renderer"] \in {"loop", "wait"} => InTasks("refresh")
    /\ pc["main"] \in Behind => InTasks("wakeMain")

(* Whoever runs the tasks holds their mutex. *)
Holds == \A t \in Thread : pc[t] = "tasks" => mtx = t

Wakes == Holds /\ FlagFirst /\ FlagPassed /\ HasPushed /\ WakeUpIsAhead

LEMMA WakesInit == Init => Wakes
<1> SUFFICES ASSUME Init PROVE Wakes
  OBVIOUS
<1>1. tasks = <<"tty">> /\ mtx = NoThread
  BY DEF Init
<1>2. pc["main"] = "discover" /\ pc["renderer"] = "pushFlag"
  BY DEF Init, Thread
<1>3. FlagFirst /\ FlagPassed
  BY <1>1 DEF FlagFirst, FlagPassed
<1>4. HasPushed /\ WakeUpIsAhead
  BY <1>2 DEF HasPushed, WakeUpIsAhead, Behind
<1>5. Holds
  BY DEF Init, Holds, Thread
<1>6. QED
  BY <1>3, <1>4, <1>5 DEF Wakes

(* A step that leaves the tasks and the flag alone, and lets nobody pass   *)
(* the registration of its tasks or start to wait behind a shutdown.       *)
StaysAwake ==
    /\ \A t \in Thread : pc'[t] = "tasks" => pc[t] = "tasks"
    /\ pc'["renderer"] = "pushRefresh" => pc["renderer"] = "pushRefresh"
    /\ pc'["renderer"] \in {"loop", "wait"} => pc["renderer"] \in {"loop", "wait"}
    /\ pc'["main"] \in Behind => pc["main"] \in Behind
    /\ shutdown /\ pc'["renderer"] = "wait" /\ ~refresh' => pc["renderer"] = "wait" /\ ~refresh
    /\ shutdown /\ pc'["main"] = "rx" /\ ringBuffer' = <<>> =>
          pc["main"] = "rx" /\ ringBuffer = <<>>

LEMMA AwakeStep ==
    ASSUME Wakes, StaysAwake, UNCHANGED <<tasks, mtx, task, shutdown>>
    PROVE  Wakes'
<1>1. FlagFirst' /\ FlagPassed'
  BY DEF Wakes, FlagFirst, FlagPassed
<1>2. HasPushed'
  BY DEF Wakes, HasPushed, InTasks, StaysAwake
<1>3. Ahead("refresh")' = Ahead("refresh") /\ Ahead("wakeMain")' = Ahead("wakeMain")
  BY DEF Ahead
<1>4. WakeUpIsAhead'
  BY <1>3 DEF Wakes, WakeUpIsAhead, StaysAwake
<1>5. Holds'
  BY DEF Wakes, Holds, StaysAwake
<1>6. QED
  BY <1>1, <1>2, <1>4, <1>5 DEF Wakes

(* Where nobody runs the tasks, nobody waits behind a shutdown. *)
LEMMA NobodyAhead ==
    ASSUME Wakes, mtx = NoThread
    PROVE  /\ shutdown /\ pc["renderer"] = "wait" => refresh
           /\ shutdown /\ pc["main"] = "rx" => ringBuffer # <<>>
  BY DEF Wakes, WakeUpIsAhead, Ahead

(* The first flag that is passed stands in front of every wake-up, and a   *)
(* wake-up that is passed has woken.                                       *)
LEMMA RunTaskWakes ==
    ASSUME TypeOK, Wakes, NEW t \in Thread, RunTask(t)
    PROVE  Wakes'
<1>1. /\ UNCHANGED <<tasks, mtx, pc>> /\ mtx # NoThread
      /\ task \in Nat /\ task <= Len(tasks) /\ task' = task + 1 /\ Len(tasks) \in Nat
      /\ shutdown' = (shutdown \/ tasks[task] = "flag")
      /\ refresh' = (refresh \/ tasks[task] = "refresh")
      /\ ringBuffer' = IF tasks[task] = "wakeMain" THEN Append(ringBuffer, "exit") ELSE ringBuffer
  BY DEF TypeOK, RunTask, Wakes, Holds, Thread, NoThread
<1>2. FlagFirst' /\ HasPushed'
  BY <1>1 DEF Wakes, FlagFirst, HasPushed, InTasks
<1>10. Holds'
  BY <1>1 DEF Wakes, Holds
<1>3. FlagPassed'
  <2>1. SUFFICES ASSUME NEW i \in 1..Len(tasks), tasks[i] = "flag", i < task + 1
                 PROVE  shutdown'
    BY <1>1 DEF FlagPassed
  <2>2. CASE i = task
    BY <1>1, <2>1, <2>2
  <2>3. CASE i < task
    BY <1>1, <2>1, <2>3 DEF Wakes, FlagPassed
  <2>4. QED
    BY <1>1, <2>1, <2>2, <2>3
<1>4. ASSUME NEW e \in {"refresh", "wakeMain"}, InTasks(e), ~shutdown, shutdown'
      PROVE  \E j \in (task + 1)..Len(tasks) : tasks[j] = e
  <2>1. PICK j \in 1..Len(tasks) : tasks[j] = e
    BY <1>4 DEF InTasks
  <2>2. PICK i \in 1..(j - 1) : tasks[i] = "flag"
    BY <2>1 DEF Wakes, FlagFirst
  <2>3. ~(i < task)
    BY <1>1, <1>4, <2>1, <2>2 DEF Wakes, FlagPassed
  <2>4. j \in (task + 1)..Len(tasks)
    BY <1>1, <2>1, <2>2, <2>3
  <2>5. QED
    BY <2>1, <2>4
<1>5. ASSUME NEW e \in {"refresh", "wakeMain"}, Ahead(e), tasks[task] # e
      PROVE  \E j \in (task + 1)..Len(tasks) : tasks[j] = e
  BY <1>1, <1>5 DEF Ahead
<1>6. ASSUME NEW e \in {"refresh", "wakeMain"}, \E j \in (task + 1)..Len(tasks) : tasks[j] = e
      PROVE  Ahead(e)'
  BY <1>1, <1>6 DEF Ahead
<1>7. shutdown' /\ pc'["renderer"] = "wait" /\ ~refresh' => Ahead("refresh")'
  <2>1. SUFFICES ASSUME shutdown', pc["renderer"] = "wait", ~refresh'
                 PROVE  Ahead("refresh")'
    BY <1>1
  <2>2. ~refresh /\ tasks[task] # "refresh" /\ InTasks("refresh")
    BY <1>1, <2>1 DEF Wakes, HasPushed
  <2>3. CASE shutdown
    BY <1>5, <1>6, <2>1, <2>2, <2>3 DEF Wakes, WakeUpIsAhead
  <2>4. CASE ~shutdown
    BY <1>4, <1>6, <2>1, <2>2, <2>4
  <2>5. QED
    BY <2>3, <2>4
<1>8. shutdown' /\ pc'["main"] = "rx" /\ ringBuffer' = <<>> => Ahead("wakeMain")'
  <2>1. SUFFICES ASSUME shutdown', pc["main"] = "rx", ringBuffer' = <<>>
                 PROVE  Ahead("wakeMain")'
    BY <1>1
  <2>2. ringBuffer = <<>> /\ tasks[task] # "wakeMain"
    <3>1. ringBuffer \in Seq(Line)
      BY DEF TypeOK
    <3>2. Append(ringBuffer, "exit") # <<>>
      BY <3>1
    <3>3. QED
      BY <1>1, <2>1, <3>2
  <2>3. InTasks("wakeMain")
    BY <2>1 DEF Wakes, HasPushed, Behind
  <2>4. CASE shutdown
    BY <1>5, <1>6, <2>1, <2>2, <2>4 DEF Wakes, WakeUpIsAhead
  <2>5. CASE ~shutdown
    BY <1>4, <1>6, <2>1, <2>3, <2>5
  <2>6. QED
    BY <2>4, <2>5
<1>9. QED
  BY <1>2, <1>3, <1>7, <1>8, <1>10 DEF Wakes, WakeUpIsAhead


(* Pushing a task, and taking or giving back their mutex. *)
LEMMA PushTaskWakes ==
    ASSUME TypeOK, Wakes, NEW t \in {"main", "renderer"}, NEW effects \in Seq(Effect),
           NEW l \in Location, PushTask(t, effects, l),
           \/ t = "main" /\ effects = <<"flag", "wakeMain">> /\ l = "loop"
           \/ t = "renderer" /\ effects = <<"flag">> /\ l = "pushRefresh"
           \/ t = "renderer" /\ effects = <<"refresh">> /\ l = "loop" /\ InTasks("flag")
    PROVE  Wakes'
<1>1. /\ tasks' = tasks \o effects /\ mtx = NoThread /\ mtx' = NoThread
      /\ pc' = [pc EXCEPT ![t] = l] /\ UNCHANGED <<shutdown, refresh, ringBuffer>>
      /\ tasks \in Seq(Effect)
  BY DEF PushTask, Goto, TypeOK, console
<1>2. /\ Len(tasks') = Len(tasks) + Len(effects) /\ Len(tasks) \in Nat /\ Len(effects) \in Nat
      /\ \A i \in 1..Len(tasks) : tasks'[i] = tasks[i]
      /\ \A i \in 1..Len(effects) : tasks'[Len(tasks) + i] = effects[i]
  BY <1>1
<1>3. pc'[t] = l /\ \A u \in Thread : u # t => pc'[u] = pc[u]
  BY <1>1 DEF TypeOK, Thread
<1>4. ASSUME NEW e, InTasks(e)
      PROVE  InTasks(e)'
  BY <1>2, <1>4 DEF InTasks
<1>5. FlagFirst'
  <2>1. SUFFICES ASSUME NEW j \in 1..Len(tasks'), tasks'[j] \in {"refresh", "wakeMain"}
                 PROVE  \E i \in 1..(j - 1) : tasks'[i] = "flag"
    BY DEF FlagFirst
  <2>2. CASE j <= Len(tasks)
    <3>1. PICK i \in 1..(j - 1) : tasks[i] = "flag"
      BY <1>2, <2>1, <2>2 DEF Wakes, FlagFirst
    <3>2. tasks'[i] = "flag"
      BY <1>2, <2>2, <3>1
    <3>3. QED
      BY <3>1, <3>2
  <2>3. CASE j > Len(tasks)
    <3>1. j = Len(tasks) + (j - Len(tasks)) /\ j - Len(tasks) \in 1..Len(effects)
      BY <1>2, <2>1, <2>3
    <3>2. tasks'[j] = effects[j - Len(tasks)]
      BY <1>2, <3>1
    <3>3. CASE effects = <<"flag", "wakeMain">>
      <4>1. tasks'[Len(tasks) + 1] = "flag" /\ j = Len(tasks) + 2
        BY <1>2, <2>1, <3>1, <3>2, <3>3
      <4>2. QED
        BY <1>2, <4>1
    <3>4. CASE effects = <<"flag">>
      BY <1>2, <2>1, <3>1, <3>2, <3>4
    <3>5. CASE InTasks("flag")
      <4>1. PICK i \in 1..Len(tasks) : tasks[i] = "flag"
        BY <3>5 DEF InTasks
      <4>2. tasks'[i] = "flag" /\ i \in 1..(j - 1)
        BY <1>2, <2>3, <4>1
      <4>3. QED
        BY <4>2
    <3>6. QED
      BY <3>3, <3>4, <3>5
  <2>4. QED
    BY <1>2, <2>1, <2>2, <2>3
<1>6. FlagPassed'
  BY <1>1 DEF FlagPassed
<1>7. ASSUME NEW e, NEW i \in 1..Len(effects), effects[i] = e
      PROVE  InTasks(e)'
  <2>1. tasks'[Len(tasks) + i] = e /\ Len(tasks) + i \in 1..Len(tasks')
    BY <1>2, <1>7
  <2>2. QED
    BY <2>1 DEF InTasks
<1>8. HasPushed' /\ Holds' /\ WakeUpIsAhead'
  <2>1. CASE t = "main" /\ effects = <<"flag", "wakeMain">> /\ l = "loop"
    <3>1. InTasks("wakeMain")'
      BY <1>7, <2>1
    <3>2. pc'["main"] = "loop" /\ pc'["renderer"] = pc["renderer"]
      BY <1>3, <2>1 DEF Thread
    <3>3. HasPushed'
      BY <1>4, <3>1, <3>2 DEF Wakes, HasPushed
    <3>4. WakeUpIsAhead'
      BY <1>1, <3>2, NobodyAhead DEF WakeUpIsAhead
    <3>5. Holds'
      BY <1>1, <1>3, <2>1 DEF Wakes, Holds
    <3>6. QED
      BY <3>3, <3>4, <3>5
  <2>2. CASE t = "renderer" /\ effects = <<"flag">> /\ l = "pushRefresh"
    <3>1. InTasks("flag")'
      BY <1>7, <2>2
    <3>2. pc'["renderer"] = "pushRefresh" /\ pc'["main"] = pc["main"]
      BY <1>3, <2>2 DEF Thread
    <3>3. HasPushed'
      BY <1>4, <3>1, <3>2 DEF Wakes, HasPushed
    <3>4. WakeUpIsAhead'
      BY <1>1, <3>2, NobodyAhead DEF WakeUpIsAhead
    <3>5. Holds'
      BY <1>1, <1>3, <2>2 DEF Wakes, Holds
    <3>6. QED
      BY <3>3, <3>4, <3>5
  <2>3. CASE t = "renderer" /\ effects = <<"refresh">> /\ l = "loop"
    <3>1. InTasks("refresh")'
      BY <1>7, <2>3
    <3>2. pc'["renderer"] = "loop" /\ pc'["main"] = pc["main"]
      BY <1>3, <2>3 DEF Thread
    <3>3. HasPushed'
      BY <1>4, <3>1, <3>2 DEF Wakes, HasPushed
    <3>4. WakeUpIsAhead'
      BY <1>1, <3>2, NobodyAhead DEF WakeUpIsAhead
    <3>5. Holds'
      BY <1>1, <1>3, <2>3 DEF Wakes, Holds
    <3>6. QED
      BY <3>3, <3>4, <3>5
  <2>4. QED
    BY <2>1, <2>2, <2>3
<1>9. QED
  BY <1>5, <1>6, <1>8 DEF Wakes

LEMMA MutexWakes ==
    ASSUME TypeOK, Returns, Wakes, NEW t \in {"main", "net", "input"},
           LockTasks(t) \/ UnlockTasks(t)
    PROVE  Wakes'
<1>1. UNCHANGED <<tasks, shutdown, refresh, ringBuffer>> /\ t \in Thread /\ t # "renderer"
  BY DEF LockTasks, UnlockTasks, console, Thread
<1>2. FlagFirst'
  BY <1>1 DEF Wakes, FlagFirst
<1>3. pc'["renderer"] = pc["renderer"] /\ (pc'["main"] \in Behind => pc["main"] \in Behind)
  BY <1>1 DEF LockTasks, UnlockTasks, Goto, TypeOK, Returns, Behind, Thread
<1>4. HasPushed'
  BY <1>1, <1>3 DEF Wakes, HasPushed, InTasks
<1>5. CASE LockTasks(t)
  <2>1. mtx = NoThread /\ mtx' = t /\ task' = 1 /\ pc'[t] = "tasks"
    BY <1>1, <1>5 DEF LockTasks, Goto, TypeOK
  <2>2. FlagPassed'
    BY <1>1, <2>1 DEF FlagPassed
  <2>3. \A u \in Thread : u # t => pc'[u] = pc[u]
    BY <1>1, <1>5 DEF LockTasks, Goto, TypeOK
  <2>4. Holds'
    BY <2>1, <2>3 DEF Wakes, Holds, Thread, NoThread
  <2>5. pc'["main"] = "rx" => pc["main"] = "rx"
    BY <2>1, <2>3 DEF Thread
  <2>6. WakeUpIsAhead'
    BY <1>1, <1>3, <2>1, <2>5, NobodyAhead DEF WakeUpIsAhead
  <2>7. QED
    BY <1>2, <1>4, <2>2, <2>4, <2>6 DEF Wakes
<1>6. CASE UnlockTasks(t)
  <2>1. /\ mtx' = NoThread /\ task > Len(tasks) /\ pc[t] = "tasks" /\ pc'[t] = ret[t]
        /\ \A u \in Thread : u # t => pc'[u] = pc[u]
    BY <1>1, <1>6 DEF UnlockTasks, TypeOK
  <2>2. FlagPassed'
    BY <2>1 DEF FlagPassed
  <2>3. mtx = t
    BY <1>1, <2>1 DEF Wakes, Holds
  <2>4. ret[t] \notin {"tasks", "rx"}
    BY DEF Returns
  <2>5. Holds'
    BY <2>1, <2>3, <2>4 DEF Wakes, Holds
  <2>6. pc'["main"] = "rx" => pc["main"] = "rx"
    BY <2>1, <2>4 DEF Thread
  <2>7. ~Ahead("refresh") /\ ~Ahead("wakeMain")
    BY <2>1 DEF Ahead, TypeOK
  <2>8. WakeUpIsAhead'
    BY <1>1, <1>3, <2>6, <2>7 DEF Wakes, WakeUpIsAhead
  <2>9. QED
    BY <1>2, <1>4, <2>2, <2>5, <2>8 DEF Wakes
<1>7. QED
  BY <1>5, <1>6

(* Whoever waits when shutdown is set is woken: no step loses it. *)
LEMMA WakesStep ==
    ASSUME IInv, Wakes, Next
    PROVE  Wakes'
<1> USE DEF Thread
<1>0. TypeOK /\ Returns
  BY DEF IInv
<1>1. ASSUME NEW t \in {"main", "net", "input"}, Tasks(t)
      PROVE  Wakes'
  BY <1>0, <1>1, RunTaskWakes, MutexWakes DEF Tasks
<1>2. CASE MainPushTask
  <2>1. <<"flag", "wakeMain">> \in Seq(Effect) /\ "loop" \in Location
    BY DEF Effect, Location
  <2>2. QED
    BY <1>0, <1>2, <2>1, PushTaskWakes DEF MainPushTask
<1>3. CASE RenderPushTask
  <2>1. /\ <<"flag">> \in Seq(Effect) /\ <<"refresh">> \in Seq(Effect)
        /\ {"loop", "pushRefresh"} \subseteq Location
    BY DEF Effect, Location
  <2>2. pc["renderer"] = "pushRefresh" => InTasks("flag")
    BY DEF Wakes, HasPushed
  <2>3. CASE PushTask("renderer", <<"flag">>, "pushRefresh")
    BY <1>0, <2>1, <2>3, PushTaskWakes
  <2>4. CASE pc["renderer"] = "pushRefresh" /\ PushTask("renderer", <<"refresh">>, "loop")
    BY <1>0, <2>1, <2>2, <2>4, PushTaskWakes
  <2>5. QED
    BY <1>3, <2>3, <2>4 DEF RenderPushTask
<1>4. CASE Discover \/ JoinBoth \/ StartNet \/ MainLoop \/ MainRx \/ AwaitRegistration
           \/ JoinThreads
  <2>1. UNCHANGED <<tasks, mtx, task, shutdown>>
    BY <1>4 DEF Discover, JoinBoth, StartNet, MainLoop, MainRx, AwaitRegistration, Retrieve,
       JoinThreads, console, shutdownTasks
  <2>2. StaysAwake
    <3>1. CASE Discover
      BY <1>0, <3>1 DEF StaysAwake, TypeOK, Behind, Discover, Goto, Execute
    <3>2. CASE JoinBoth
      BY <1>0, <3>2 DEF StaysAwake, TypeOK, Behind, JoinBoth, End, console
    <3>3. CASE StartNet
      BY <1>0, <3>3 DEF StaysAwake, TypeOK, Behind, StartNet, console
    <3>4. CASE MainLoop
      BY <1>0, <3>4 DEF StaysAwake, TypeOK, Behind, MainLoop, Goto, console
    <3>5. CASE MainRx
      <4>1. /\ pc["main"] = "rx" /\ (refresh => refresh')
            /\ pc'["main"] \in {"loop", "created"} /\ \A t \in Thread \ {"main"} : pc'[t] = pc[t]
        BY <1>0, <3>5 DEF MainRx, Goto, TypeOK
      <4>2. QED
        BY <4>1 DEF StaysAwake, Behind
    <3>6. CASE AwaitRegistration
      <4>1. /\ pc["main"] \in Behind /\ UNCHANGED <<refresh, ringBuffer>>
            /\ pc'["main"] \in {"established", "registered", "loop"}
            /\ \A t \in Thread \ {"main"} : pc'[t] = pc[t]
        BY <1>0, <3>6 DEF AwaitRegistration, Retrieve, Goto, TypeOK, console, Behind
      <4>2. QED
        BY <4>1 DEF StaysAwake, Behind
    <3>7. CASE JoinThreads
      BY <1>0, <3>7 DEF StaysAwake, TypeOK, Behind, JoinThreads, Goto, End, console
    <3>8. QED
      BY <1>4, <3>1, <3>2, <3>3, <3>4, <3>5, <3>6, <3>7
  <2>3. QED
    BY <2>1, <2>2, AwakeStep
<1>5. CASE Create \/ CreateError \/ Connect \/ NetChecks \/ NetAddr \/ NetUsername \/ NetReceive
           \/ NetRegistered \/ JoinSender
  <2>1. UNCHANGED <<tasks, mtx, task, shutdown, ringBuffer>> /\ (refresh => refresh')
    BY <1>5 DEF Create, CreateError, Connect, NetChecks, NetAddr, NetUsername, NetReceive, Receive,
       NetRegistered, JoinSender, console, shutdownTasks
  <2>2. pc'["main"] = pc["main"] /\ pc'["renderer"] = pc["renderer"]
    BY <1>0, <1>5 DEF TypeOK, Create, CreateError, Connect, NetChecks, NetAddr, NetUsername,
       SendFrame, NetReceive, Receive, NetRegistered, JoinSender, Goto, Execute, End
  <2>3. \A t \in Thread : pc'[t] = "tasks" => pc[t] = "tasks"
    BY <1>0, <1>5 DEF TypeOK, Create, CreateError, Connect, NetChecks, NetAddr, NetUsername,
       SendFrame, NetReceive, Receive, NetRegistered, JoinSender, Goto, Execute, End
  <2>4. QED
    BY <2>1, <2>2, <2>3, AwakeStep DEF StaysAwake
<1>6. CASE Sender \/ InputLoop \/ InputTimeout \/ InputPush
  <2>1. UNCHANGED <<tasks, mtx, task, shutdown, refresh>>
    BY <1>6 DEF Sender, SenderLoop, SenderRx, InputLoop, InputTimeout, InputPush, console,
       shutdownTasks
  <2>2. ringBuffer' = <<>> => ringBuffer = <<>>
    <3>1. CASE InputPush
      <4>1. ringBuffer' = Append(ringBuffer, line) /\ ringBuffer \in Seq(Line)
        BY <1>0, <3>1 DEF TypeOK, InputPush
      <4>2. ringBuffer' # <<>>
        BY <4>1
      <4>3. QED
        BY <4>2
    <3>2. CASE Sender \/ InputLoop \/ InputTimeout
      BY <3>2 DEF Sender, SenderLoop, SenderRx, InputLoop, InputTimeout, console
    <3>3. QED
      BY <1>6, <3>1, <3>2
  <2>3. /\ pc'["main"] = pc["main"] /\ pc'["renderer"] = pc["renderer"]
        /\ \A t \in Thread : pc'[t] = "tasks" => pc[t] = "tasks"
    BY <1>0, <1>6 DEF TypeOK, Sender, SenderLoop, SenderRx, SendFrame, InputLoop, InputTimeout,
       InputPush, Goto, End
  <2>4. QED
    BY <2>1, <2>2, <2>3, AwakeStep DEF StaysAwake
<1>7. CASE RenderLoop \/ RenderWait
  <2>1. UNCHANGED <<tasks, mtx, task, shutdown, ringBuffer>>
    BY <1>7 DEF RenderLoop, RenderWait, console, shutdownTasks
  <2>2. /\ \A t \in Thread \ {"renderer"} : pc'[t] = pc[t]
        /\ pc["renderer"] \in {"loop", "wait"} /\ pc'["renderer"] \in {"loop", "wait", "done"}
        /\ pc'["renderer"] = "wait" => ~shutdown
    BY <1>0, <1>7 DEF TypeOK, RenderLoop, RenderWait, Goto
  <2>3. StaysAwake
    BY <2>1, <2>2 DEF StaysAwake
  <2>4. QED
    BY <2>1, <2>3, AwakeStep
<1>8. CASE Environment
  <2>1. UNCHANGED <<tasks, mtx, task, shutdown, ringBuffer>> /\ (refresh => refresh')
    BY <1>8 DEF Environment, Resize, UserTypes, ServerServes, OthersTalk, Vanish, console,
       shutdownTasks
  <2>2. /\ pc'["main"] = pc["main"] /\ pc'["renderer"] = pc["renderer"]
        /\ \A t \in Thread : pc'[t] = "tasks" => pc[t] = "tasks"
    BY <1>0, <1>8 DEF TypeOK, Environment, Resize, UserTypes, ServerServes, OthersTalk, Vanish,
       Goto, Execute
  <2>3. QED
    BY <2>1, <2>2, AwakeStep DEF StaysAwake
<1>9. QED
  BY <1>1, <1>2, <1>3, <1>4, <1>5, <1>6, <1>7, <1>8
     DEF Next, Main, Net, Renderer, Input

(* Neither the renderer nor main is left waiting by a shutdown: whatever   *)
(* the order in which they register their tasks, and whoever runs them,    *)
(* the wake-up comes behind the flag (clientmain.cpp 85-91, Console.cpp    *)
(* 420-425 and 458-467).                                                   *)
THEOREM WakeUpComes == Spec => []WakeUpIsAhead
<1>1. Wakes /\ UNCHANGED vars => Wakes'
  BY DEF Wakes, Holds, FlagFirst, FlagPassed, HasPushed, InTasks, WakeUpIsAhead, Ahead, vars
<1>2. Wakes /\ IInv /\ [Next]_vars => Wakes'
  BY <1>1, WakesStep
<1>3. Wakes => WakeUpIsAhead
  BY DEF Wakes
<1>4. QED
  BY <1>2, <1>3, WakesInit, InductiveInvariant, PTL DEF Spec
=============================================================================
