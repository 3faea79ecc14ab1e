-------------------------- MODULE AlternateScreen ---------------------------
(***************************************************************************)
(* $getlist and $getlog: their answer is shown on a screen of its own,     *)
(* which the key q leaves.  Client.cpp implements it with the hooks of     *)
(* Console.h: group 0 of the input hooks edits the line, group 1 waits for *)
(* q; group 0 of the render hooks clears, group 1 draws the messages.  The *)
(* sender thread switches them and replaces the receive handler, the input *)
(* thread switches them back, the net thread runs the handler and replaces *)
(* it at the end of the answer, the renderer runs the render hooks.  None  *)
(* of this is under a lock: a step is one load or store of shared state.   *)
(*                                                                         *)
(* Whoever runs the hooks sorts them first, and they are in order.  The    *)
(* sort of libc++ leaves them alone; that of libstdc++ moves the last out  *)
(* and back, over what another thread has written to it in the mean time.  *)
(* The program is built with either.  A handler that is replaced while it  *)
(* runs is run to its end.  The start and the end of the threads are in    *)
(* ClientSession.                                                          *)
(***************************************************************************)
EXTENDS InputLine

CONSTANTS Request,    (* the characters that begin a $getlist or a $getlog    *)
          MaxLines,   (* bound: lines of an answer                            *)
          MaxEvents   (* bound: keys that are read and messages of others     *)

ASSUME ScreenAssumption ==
    /\ Request \subseteq Char /\ "q" \in Char
    /\ {MaxLines, MaxEvents} \subseteq Nat

VARIABLES
    library,        (* the standard library the client is built with          *)
    named,          (* the server has the client in users                     *)
    inputHooks,     (* group -> active                                        *)
    renderHooks,    (* group -> active                                        *)
    input, key,     (* where the input thread is; what it read                *)
    inputCopy,      (* the groups that are active in its copy of the hooks,   *)
                    (* or in what the sort has moved out                      *)
    sender,         (* where the sender thread is                             *)
    sendBuffer,     (* lines that main passed on, after registration          *)
    net, frame,     (* where the net thread is; the frame it handles, and the *)
    picked,         (* handler it runs                                        *)
    handler,        (* receive_handlers[SUCCESS]                              *)
    incoming,       (* frames received and not read                           *)
    messages,       (* Console::messages                                      *)
    refresh,        (* refresh_text holds a value                             *)
    renderer,       (* where the renderer is                                  *)
    renderCopy,     (* the groups that are active in its copy of the hooks    *)
    drawn,          (* the messages in the string stream, or None             *)
    display,        (* the terminal                                           *)
    hasty,          (* history: the user did not wait for an answer's end     *)
    refused,        (* history: the last request was answered by an error     *)
    events          (* counted for the bound                                  *)

hooks == <<inputHooks, renderHooks>>
inputThread == <<input, key, inputCopy>>
senderThread == <<sender, sendBuffer>>
netThread == <<net, frame, picked>>
renderThread == <<renderer, renderCopy, drawn>>
setup == <<library, named, refused>>
vars == <<setup, line, hooks, inputThread, senderThread, netThread, handler,
          incoming, messages, refresh, renderThread, display, hasty, events>>

Group == {0, 1}
Frame == {"chat", "line", "done"}
Library == {"libc++", "libstdc++"}
None == 0 - 1

TypeOK ==
    /\ LineTypeOK
    /\ library \in Library
    /\ inputHooks \in [Group -> BOOLEAN] /\ renderHooks \in [Group -> BOOLEAN]
    /\ input \in {"read", "sort", "putBack", "copy0", "copy1", "edit",
                 "leave1", "leave2", "leave3", "leave4", "redraw", "restore"}
    /\ key \in Keys \cup {<<>>}
    /\ inputCopy \subseteq Group /\ renderCopy \subseteq Group
    /\ sender \in {"off", "rx", "enter2", "enter3", "enter4", "clear", "handler", "send"}
    /\ sendBuffer \in Seq(Seq(Char))
    /\ net \in {"push", "hide", "receive", "handle"}
    /\ frame \in Frame /\ {picked, handler} \subseteq {"chat", "collect"}
    /\ incoming \in Seq(Frame) /\ messages \in Seq(Frame)
    /\ renderer \in {"sort", "putBack", "copy0", "copy1", "print", "wait"}
    /\ drawn \in Nat \cup {None}
    /\ display \in [window : Nat \cup {None}, answer : Nat, prompt : BOOLEAN]
    /\ {refresh, hasty, named, refused} \subseteq BOOLEAN
    /\ events \in Nat

(* The client counts as registered; its net thread is about to push the    *)
(* hook for q, which is active until it says otherwise.  The server has it *)
(* in users, unless it has sent $register with an empty name.              *)
Init ==
    /\ EmptyLine
    /\ library \in Library
    /\ named \in BOOLEAN /\ refused = FALSE
    /\ inputHooks = [g \in Group |-> g = 0] /\ renderHooks = [g \in Group |-> TRUE]
    /\ input = "read" /\ key = <<>> /\ inputCopy = {}
    /\ sender = "off" /\ sendBuffer = <<>>
    /\ net = "push" /\ frame = "chat" /\ picked = "chat" /\ handler = "chat"
    /\ incoming = <<>> /\ messages = <<>>
    /\ refresh = FALSE
    /\ renderer = "wait" /\ renderCopy = {} /\ drawn = None
    /\ display = [window |-> 0, answer |-> 0, prompt |-> FALSE]
    /\ hasty = FALSE
    /\ events = 0

set_active(h, group, to) == [h EXCEPT ![group] = to]

(* One call of set_active, as the sender and the hook for q make them. *)
Set(which, group, to) == [which |-> which, group |-> group, to |-> to]

Switch(s) ==
    \/ /\ s.which = "input" /\ inputHooks' = set_active(inputHooks, s.group, s.to)
       /\ UNCHANGED renderHooks
    \/ /\ s.which = "render" /\ renderHooks' = set_active(renderHooks, s.group, s.to)
       /\ UNCHANGED inputHooks

IsRequest(l) == Head(l) \in Request

(* From the line that asks for an answer to the answer's end; without an   *)
(* end, when the request is refused, to the q that gives it up.            *)
UnderWay ==
    \/ \E i \in 1..Len(sendBuffer) : IsRequest(sendBuffer[i])
    \/ sender \notin {"off", "rx"}
    \/ handler = "collect"

-----------------------------------------------------------------------------
(* The input thread: a read, the sort, a copy of the hooks one by one, and *)
(* then the hooks that are active in the copy.                             *)
AfterWaking == IF library = "libstdc++" THEN "sort" ELSE "copy0"

ReadKey(k) ==
    /\ input = "read" /\ events < MaxEvents
    /\ input' = AfterWaking /\ key' = k /\ events' = events + 1
    /\ UNCHANGED <<setup, line, hooks, inputCopy, senderThread, netThread, handler,
                   incoming, messages, refresh, renderThread, display, hasty>>

(* std::sort moves the last of the hooks out, when there is more than one, *)
(* and moves it back.                                                      *)
MoveInputHook ==
    /\ \/ /\ input = "sort" /\ net = "push" /\ input' = "copy0"
          /\ UNCHANGED <<inputHooks, inputCopy>>
       \/ /\ input = "sort" /\ net # "push" /\ input' = "putBack"
          /\ inputCopy' = {g \in {1} : inputHooks[g]}
          /\ UNCHANGED inputHooks
       \/ /\ input = "putBack" /\ input' = "copy0"
          /\ inputHooks' = set_active(inputHooks, 1, 1 \in inputCopy) /\ inputCopy' = {}
    /\ UNCHANGED <<setup, line, renderHooks, key, senderThread, netThread, handler,
                   incoming, messages, refresh, renderThread, display, hasty, events>>

CopyInputHook(g) ==
    /\ input = IF g = 0 THEN "copy0" ELSE "copy1"
    /\ inputCopy' = IF inputHooks[g] THEN inputCopy \cup {g} ELSE inputCopy
    /\ input' = IF g = 0 THEN "copy1" ELSE "edit"
    /\ UNCHANGED <<setup, line, hooks, key, senderThread, netThread, handler, incoming,
                   messages, refresh, renderThread, display, hasty, events>>

(* What main passes on when it gets the line: the two queues are one. *)
SubmitLine ==
    IF buffer = <<>>
    THEN UNCHANGED <<line, sendBuffer, hasty>>
    ELSE /\ sendBuffer' = Append(sendBuffer, buffer)
         /\ hasty' = (hasty \/ (IsRequest(buffer) /\ UnderWay))
         /\ ClearLine

Edit ==
    /\ input = "edit"
    /\ input' = IF 1 \in inputCopy /\ Head(key) = "q" THEN "leave1" ELSE "read"
    /\ IF 0 \in inputCopy
       THEN \/ key = <<Backspace>> /\ Erase /\ UNCHANGED <<sendBuffer, hasty>>
            \/ key = <<Enter>> /\ SubmitLine
            \/ key \in Seq(Char) /\ Insert(key) /\ UNCHANGED <<sendBuffer, hasty>>
       ELSE UNCHANGED <<line, sendBuffer, hasty>>
    /\ inputCopy' = {} /\ key' = <<>>
    /\ UNCHANGED <<setup, hooks, sender, netThread, handler, incoming, messages, refresh,
                   renderThread, display, events>>

(* The hook for q: it switches four groups, asks for a redraw and puts the *)
(* handler of messages back.                                               *)
(* Fault: activates the drawing twice, and not the clearing before it. *)
Leaving_Slip ==
    <<Set("input", 0, TRUE), Set("input", 1, FALSE),
      Set("render", 1, TRUE), Set("render", 1, TRUE)>>

Leaving ==
    <<Set("input", 0, TRUE), Set("input", 1, FALSE),
      Set("render", 1, TRUE), Set("render", 0, TRUE)>>

LeaveAt == <<"leave1", "leave2", "leave3", "leave4", "redraw">>

LeaveScreen ==
    /\ \E n \in 1..4 : input = LeaveAt[n] /\ input' = LeaveAt[n + 1] /\ Switch(Leaving[n])
    /\ hasty' = (hasty \/ (input = "leave1" /\ UnderWay))
    /\ UNCHANGED <<setup, line, key, inputCopy, senderThread, netThread, handler, incoming,
                   messages, refresh, renderThread, display, events>>

Redraw ==
    /\ input = "redraw" /\ input' = "restore"
    /\ refresh' = TRUE
    /\ UNCHANGED <<setup, line, hooks, key, inputCopy, senderThread, netThread, handler,
                   incoming, messages, renderThread, display, hasty, events>>

RestoreHandler ==
    /\ input = "restore" /\ input' = "read"
    /\ handler' = "chat"
    /\ UNCHANGED <<setup, line, hooks, key, inputCopy, senderThread, netThread, incoming,
                   messages, refresh, renderThread, display, hasty, events>>

-----------------------------------------------------------------------------
(* The sender.  What it sends is answered at once: whether the network or  *)
(* the net thread is slow makes no difference.  The server sends an answer *)
(* without anything in between (Server.AnswerIsContiguous) and a line of   *)
(* text back to all.                                                       *)
Lines(n) == [i \in 1..(n + 1) |-> IF i <= n THEN "line" ELSE "done"]

(* A request of a client that is not in users is answered by an error, and *)
(* by no signal of an end; an answer may be the signal alone.              *)
AnswerOf(l) ==
    IF ~IsRequest(l) THEN {<<"chat">>}
    ELSE IF named THEN {Lines(n) : n \in 0..MaxLines} ELSE {<<"line">>}

(* A text of a client that is not in users is answered by an error to it   *)
(* alone, unless the text is another $register.                            *)
SendText ==
    /\ sender = "rx" /\ sendBuffer # <<>> /\ ~IsRequest(Head(sendBuffer))
    /\ \E a \in AnswerOf(Head(sendBuffer)) : incoming' = incoming \o a
    /\ named' \in {named, TRUE}
    /\ sendBuffer' = Tail(sendBuffer)
    /\ UNCHANGED <<library, refused, line, hooks, inputThread, sender, netThread, handler,
                   messages, refresh, renderThread, display, hasty, events>>

(* The switch to the alternate screen; the request stays at the head of    *)
(* the buffer until it is sent.                                            *)
Entering ==
    <<Set("input", 0, FALSE),
      Set("render", 1, FALSE), Set("render", 0, FALSE), Set("input", 1, TRUE)>>

EnterAt == <<"rx", "enter2", "enter3", "enter4", "clear">>

EnterScreen ==
    /\ sendBuffer # <<>> /\ IsRequest(Head(sendBuffer))
    /\ \E n \in 1..4 : sender = EnterAt[n] /\ sender' = EnterAt[n + 1] /\ Switch(Entering[n])
    /\ UNCHANGED <<setup, line, inputThread, sendBuffer, netThread, handler, incoming,
                   messages, refresh, renderThread, display, hasty, events>>

Blank == [window |-> None, answer |-> 0, prompt |-> FALSE]

ClearDisplay ==
    /\ sender = "clear" /\ sender' = "handler"
    /\ display' = Blank
    /\ UNCHANGED <<setup, line, hooks, inputThread, sendBuffer, netThread, handler,
                   incoming, messages, refresh, renderThread, hasty, events>>

(* Fault: sends the request first. *)
SetHandler_AfterSend ==
    /\ \/ /\ sender = "handler" /\ sender' = "send"
          /\ \E a \in AnswerOf(Head(sendBuffer)) : incoming' = incoming \o a
          /\ refused' = ~named
          /\ UNCHANGED <<handler, sendBuffer>>
       \/ /\ sender = "send" /\ sender' = "rx"
          /\ handler' = "collect" /\ sendBuffer' = Tail(sendBuffer)
          /\ UNCHANGED <<incoming, refused>>
    /\ UNCHANGED <<library, named, line, hooks, inputThread, netThread, messages, refresh,
                   renderThread, display, hasty, events>>

SetHandler ==
    /\ sender = "handler" /\ sender' = "send"
    /\ handler' = "collect"
    /\ UNCHANGED <<setup, line, hooks, inputThread, sendBuffer, netThread, incoming,
                   messages, refresh, renderThread, display, hasty, events>>

SendRequest ==
    /\ sender = "send" /\ sender' = "rx"
    /\ \E a \in AnswerOf(Head(sendBuffer)) : incoming' = incoming \o a
    /\ refused' = ~named
    /\ sendBuffer' = Tail(sendBuffer)
    /\ UNCHANGED <<library, named, line, hooks, inputThread, netThread, handler, messages,
                   refresh, renderThread, display, hasty, events>>

Sender == SendText \/ EnterScreen \/ ClearDisplay \/ SetHandler \/ SendRequest

-----------------------------------------------------------------------------
(* The net thread: it pushes the hook for q, hides it, starts the sender,  *)
(* and receives.                                                           *)
PushHook ==
    /\ net = "push" /\ net' = "hide"
    /\ inputHooks' = set_active(inputHooks, 1, TRUE)
    /\ UNCHANGED <<setup, line, renderHooks, inputThread, senderThread, frame, picked,
                   handler, incoming, messages, refresh, renderThread, display, hasty,
                   events>>

(* Fault: starts the sender before the hook is hidden. *)
HideHook_AfterStart ==
    /\ \/ net = "push" /\ sender = "off" /\ sender' = "rx" /\ UNCHANGED <<net, inputHooks>>
       \/ /\ net = "hide" /\ net' = "receive" /\ UNCHANGED sender
          /\ inputHooks' = set_active(inputHooks, 1, FALSE)
    /\ UNCHANGED <<setup, line, renderHooks, inputThread, sendBuffer, frame, picked,
                   handler, incoming, messages, refresh, renderThread, display, hasty,
                   events>>

HideHook ==
    /\ net = "hide" /\ net' = "receive"
    /\ inputHooks' = set_active(inputHooks, 1, FALSE)
    /\ sender' = "rx"
    /\ UNCHANGED <<setup, line, renderHooks, inputThread, sendBuffer, frame, picked,
                   handler, incoming, messages, refresh, renderThread, display, hasty,
                   events>>

Receive ==
    /\ net = "receive" /\ incoming # <<>>
    /\ net' = "handle"
    /\ frame' = Head(incoming) /\ picked' = handler
    /\ incoming' = Tail(incoming)
    /\ UNCHANGED <<setup, line, hooks, inputThread, senderThread, handler, messages,
                   refresh, renderThread, display, hasty, events>>

(* recv_success_handler: push_message. *)
ShowMessage ==
    /\ net = "handle" /\ picked = "chat"
    /\ net' = "receive" /\ frame' = "chat" /\ picked' = "chat"
    /\ messages' = Append(messages, frame) /\ refresh' = TRUE
    /\ UNCHANGED <<setup, line, hooks, inputThread, senderThread, handler, incoming,
                   renderThread, display, hasty, events>>

(* The handler of the alternate screen. *)
(* Fault: does not go back to the handler of messages. *)
Collect_ForEver ==
    /\ net = "handle" /\ picked = "collect"
    /\ net' = "receive" /\ frame' = "chat" /\ picked' = "chat"
    /\ IF frame = "done"
       THEN display' = [display EXCEPT !.prompt = TRUE]
       ELSE display' = [display EXCEPT !.answer = @ + 1]
    /\ UNCHANGED <<setup, line, hooks, inputThread, senderThread, handler, incoming,
                   messages, refresh, renderThread, hasty, events>>

Collect ==
    /\ net = "handle" /\ picked = "collect"
    /\ net' = "receive" /\ frame' = "chat" /\ picked' = "chat"
    /\ IF frame = "done"
       THEN handler' = "chat" /\ display' = [display EXCEPT !.prompt = TRUE]
       ELSE UNCHANGED handler /\ display' = [display EXCEPT !.answer = @ + 1]
    /\ UNCHANGED <<setup, line, hooks, inputThread, senderThread, incoming, messages,
                   refresh, renderThread, hasty, events>>

Net == PushHook \/ HideHook \/ Receive \/ ShowMessage \/ Collect

(* Somebody else says something. *)
OthersTalk ==
    /\ events < MaxEvents /\ events' = events + 1
    /\ incoming' = Append(incoming, "chat")
    /\ UNCHANGED <<setup, line, hooks, inputThread, senderThread, netThread, handler,
                   messages, refresh, renderThread, display, hasty>>

-----------------------------------------------------------------------------
(* The renderer: the sort, a copy of the hooks one by one, the hooks that  *)
(* are active in the copy, of which the second reads the messages, and the *)
(* insertion of what they wrote into the terminal.                         *)
AwaitRefresh ==
    /\ renderer = "wait" /\ refresh
    /\ renderer' = AfterWaking /\ refresh' = FALSE
    /\ UNCHANGED <<setup, line, hooks, inputThread, senderThread, netThread, handler,
                   incoming, messages, renderCopy, drawn, display, hasty, events>>

MoveRenderHook ==
    /\ \/ /\ renderer = "sort" /\ renderer' = "putBack"
          /\ renderCopy' = {g \in {1} : renderHooks[g]}
          /\ UNCHANGED renderHooks
       \/ /\ renderer = "putBack" /\ renderer' = "copy0"
          /\ renderHooks' = set_active(renderHooks, 1, 1 \in renderCopy) /\ renderCopy' = {}
    /\ UNCHANGED <<setup, line, inputHooks, inputThread, senderThread, netThread, handler,
                   incoming, messages, refresh, drawn, display, hasty, events>>

CopyRenderHook(g) ==
    /\ renderer = IF g = 0 THEN "copy0" ELSE "copy1"
    /\ renderCopy' = IF renderHooks[g] THEN renderCopy \cup {g} ELSE renderCopy
    /\ drawn' = IF g = 1 /\ renderHooks[g] THEN Len(messages) ELSE None
    /\ renderer' = IF g = 0 THEN "copy1" ELSE "print"
    /\ UNCHANGED <<setup, line, hooks, inputThread, senderThread, netThread, handler,
                   incoming, messages, refresh, display, hasty, events>>

Flush ==
    /\ renderer = "print" /\ renderer' = "wait"
    /\ LET cleared == IF 0 \in renderCopy THEN Blank ELSE display
       IN  display' = [window |-> IF drawn = None THEN cleared.window ELSE drawn,
                       answer |-> cleared.answer, prompt |-> cleared.prompt]
    /\ renderCopy' = {} /\ drawn' = None
    /\ UNCHANGED <<setup, line, hooks, inputThread, senderThread, netThread, handler,
                   incoming, messages, refresh, hasty, events>>

-----------------------------------------------------------------------------
Input ==
    \/ MoveInputHook \/ (\E g \in Group : CopyInputHook(g)) \/ Edit
    \/ LeaveScreen \/ Redraw \/ RestoreHandler
Renderer == AwaitRefresh \/ MoveRenderHook \/ (\E g \in Group : CopyRenderHook(g)) \/ Flush

Next == (\E k \in Keys : ReadKey(k)) \/ Input \/ Sender \/ Net \/ Renderer \/ OthersTalk

Spec == Init /\ [][Next]_vars

(* The threads run; nothing makes the user type or others talk. *)
FairSpec == Spec /\ WF_vars(Input) /\ WF_vars(Sender) /\ WF_vars(Net) /\ WF_vars(Renderer)

-----------------------------------------------------------------------------
(* No thread has anything to do until a key is pressed or a frame comes. *)
Quiet ==
    /\ input = "read" /\ sender = "rx" /\ sendBuffer = <<>>
    /\ net = "receive" /\ incoming = <<>>
    /\ renderer = "wait" /\ ~refresh

(* Three threads switch four flags one by one, and at the end they agree,  *)
(* in a build whose sort leaves the hooks alone: either the line is edited *)
(* and the messages are drawn, or the screen is the answer's and waits for *)
(* q.  In no other case would a key be able to bring the client back       *)
(* (Client.cpp 136-156).                                                   *)
ModesAgree ==
    library = "libc++" /\ Quiet /\ ~hasty =>
        /\ inputHooks[0] = ~inputHooks[1]
        /\ inputHooks[0] = renderHooks[0] /\ inputHooks[0] = renderHooks[1]

(* Lines of an answer, and the signal of its end, are never taken for      *)
(* messages (Client.cpp 161-169).                                          *)
SignalIsHidden == ~hasty => \A i \in 1..Len(messages) : messages[i] = "chat"

(* After q the window is back, with all the messages that came in the mean *)
(* time, and the answer gone, in a build whose sort leaves the hooks alone *)
(* (Client.cpp 137-143).                                                   *)
ScreenComesBack ==
    library = "libc++" /\ Quiet /\ ~hasty /\ inputHooks[0] =>
        display = [window |-> Len(messages), answer |-> 0, prompt |-> FALSE]

(* As long as the handler collects an answer its end is still to come, if  *)
(* the server has not refused one: the request is about to be sent, or the *)
(* signal of the end is on its way, or the net thread has it and runs that *)
(* handler.  This holds of a user in a hurry too, whose answers overlap    *)
(* (Client.cpp 157-173).                                                   *)
EndIsAhead ==
    handler = "collect" /\ ~refused =>
        \/ sender = "send"
        \/ \E i \in 1..Len(incoming) : incoming[i] = "done"
        \/ net = "handle" /\ frame = "done" /\ picked = "collect"

(* Every answer comes to its end, even when the user did not wait for it,  *)
(* or the request is refused (Client.cpp 161-168).                         *)
AnswerEnds == handler = "collect" /\ ~refused ~> handler = "chat" \/ refused

-----------------------------------------------------------------------------
(* What does not hold.  The client waits for SRV_DONE_SEND whatever it has *)
(* asked for (Client.cpp:162); one that is not in users, for the name of   *)
(* its $register was empty, is sent an error without it (Server.cpp:43),   *)
(* and the handler collects all that comes after.                          *)
EveryAnswerEnds == handler = "collect" ~> handler = "chat"

(* Client.cpp:151 "disable normal hooks": a renderer that has copied the   *)
(* hooks before still prints, over the answer or instead of it.            *)
AnswerStays == Quiet /\ ~hasty /\ inputHooks[1] => display.window = None

(* Client.cpp:164 "Press q to return": in a build with libstdc++ the sort  *)
(* of a key that is read while the sender switches takes its set_active    *)
(* back, and no hook is left.                                              *)
KeyboardWorks == Quiet /\ ~hasty => inputHooks[0] \/ inputHooks[1]

(* The same of a user in a hurry in either build: the next request may be  *)
(* set up while q switches back.                                           *)
KeyboardWorksInAHurry == library = "libc++" /\ Quiet => inputHooks[0] \/ inputHooks[1]
=============================================================================
