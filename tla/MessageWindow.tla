--------------------------- MODULE MessageWindow ----------------------------
(***************************************************************************)
(* The message window of Console.cpp: which of the messages the renderer   *)
(* shows.  Four threads share its state: the renderer draws when           *)
(* refresh_text is resolved, the window-size checker measures the terminal *)
(* every second, the input thread scrolls, and whoever has a message       *)
(* pushes it.  Only the renderer and the pushers take messages_mtx; the    *)
(* rest is atomics, of which the threads see each other's single loads and *)
(* stores, and one size that is read without the lock.                     *)
(*                                                                         *)
(* Heights are msg_window_size(), which is _console_height less 9.  The    *)
(* terminal's width, the title and the letters are left out.               *)
(***************************************************************************)
EXTENDS Integers

CONSTANTS Heights,      (* sizes the window may have                          *)
          MaxMessages,  (* bound: messages pushed                             *)
          MaxKeys,      (* bound: arrow keys pressed                          *)
          MaxResizes    (* bound: changes of the terminal's size              *)

ASSUME WindowAssumption ==
    /\ Heights \subseteq Nat \ {0} /\ Heights # {}
    /\ {MaxMessages, MaxKeys, MaxResizes} \subseteq Nat

(* msg_window_size() before the first measurement: -1 less 9. *)
Unmeasured == 0 - 10

VARIABLES
    size,           (* messages.size()                                        *)
    pushing,        (* a thread is in push_back, under messages_mtx           *)
    height,         (* msg_window_size()                                      *)
    scrollPos,      (* _message_window_scroll_position                        *)
    autoscroll,     (* _message_window_autoscroll                             *)
    refresh,        (* refresh_text holds a value                             *)
    renderer,       (* "draw", then with the lock "follow", "print"; "wait"   *)
    checker, seen,  (* "measure" or "compare"; its local window_height        *)
    input, end,     (* "read", or where in an arrow key's branch; its local   *)
    tty,            (* the terminal's size, outside                           *)
    screen,         (* what the renderer drew last                            *)
    keys, resizes   (* counted for the bounds                                 *)

vars == <<size, pushing, height, scrollPos, autoscroll, refresh, renderer, checker, seen,
          input, end, tty, screen, keys, resizes>>

(* The scroll position may come to be one above the top, never more: the   *)
(* input thread tests it, a renderer that decided to follow sets it to 0,  *)
(* and the input thread subtracts (Console.cpp 433-435, 499-501).          *)
Position == Nat \cup {0 - 1}

TypeOK ==
    /\ size \in Nat /\ pushing \in BOOLEAN
    /\ height \in Heights \cup {Unmeasured} /\ seen \in Heights \cup {Unmeasured}
    /\ scrollPos \in Position /\ end \in Int
    /\ autoscroll \in BOOLEAN /\ refresh \in BOOLEAN
    /\ renderer \in {"draw", "follow", "print", "wait"}
    /\ checker \in {"measure", "compare"}
    /\ input \in {"read", "up", "subtract", "add", "addTorn", "bottom", "resolve"}
    /\ tty \in Heights
    /\ screen \in [pos : Position, size : Nat, height : Heights \cup {Unmeasured}]
    /\ keys \in Nat /\ resizes \in Nat

(* The client measures the terminal before it starts the threads, the      *)
(* server does not.  Both put a first message in the vector.               *)
Init ==
    /\ size = 1 /\ pushing = FALSE
    /\ tty \in Heights /\ height \in {tty, Unmeasured} /\ seen = Unmeasured
    /\ scrollPos = 0 /\ autoscroll = TRUE /\ refresh = FALSE
    /\ renderer = "draw" /\ checker = "measure"
    /\ input = "read" /\ end = 0
    /\ screen = [pos |-> 0, size |-> 0, height |-> Unmeasured]
    /\ keys = 0 /\ resizes = 0

-----------------------------------------------------------------------------
(* The renderer.                                                           *)
Locked == pushing \/ renderer \in {"follow", "print"}

(* Where the last message is the last but one row of the window. *)
Bottom(n, h) == IF n > h - 1 THEN n - (h - 1) ELSE 0

(* The drawing hook takes the lock and looks whether it follows the end.   *)
BeginDraw ==
    /\ renderer = "draw" /\ ~Locked
    /\ renderer' = IF autoscroll THEN "follow" ELSE "print"
    /\ UNCHANGED <<size, pushing, height, scrollPos, autoscroll, refresh, checker, seen,
                   input, end, tty, screen, keys, resizes>>

(* Fault: two rows are taken off the window's height, as draw_scroll_bar   *)
(* does (Console.cpp:349), so that the position is two messages too far.   *)
Follow_WrongHeight ==
    /\ renderer = "follow"
    /\ scrollPos' = Bottom(size, height - 2)
    /\ renderer' = "print"
    /\ UNCHANGED <<size, pushing, height, autoscroll, refresh, checker, seen, input, end,
                   tty, screen, keys, resizes>>

Follow ==
    /\ renderer = "follow"
    /\ scrollPos' = Bottom(size, height)
    /\ renderer' = "print"
    /\ UNCHANGED <<size, pushing, height, autoscroll, refresh, checker, seen, input, end,
                   tty, screen, keys, resizes>>

(* draw_messages, the unlock, and the insertion into the terminal. *)
Flush ==
    /\ renderer = "print"
    /\ screen' = [pos |-> scrollPos, size |-> size, height |-> height]
    /\ renderer' = "wait"
    /\ UNCHANGED <<size, pushing, height, scrollPos, autoscroll, refresh, checker, seen,
                   input, end, tty, keys, resizes>>

AwaitRefresh ==
    /\ renderer = "wait" /\ refresh
    /\ refresh' = FALSE
    /\ renderer' = "draw"
    /\ UNCHANGED <<size, pushing, height, scrollPos, autoscroll, checker, seen, input, end,
                   tty, screen, keys, resizes>>

Renderer == BeginDraw \/ Follow \/ Flush \/ AwaitRefresh

(* The messages the renderer reads: it goes through the rows and stops     *)
(* behind messages.size(), with a comparison that is unsigned.             *)
RowsRead(s) == {r \in s.pos .. s.pos + s.height - 1 : s.pos >= 0 /\ r <= s.size}

-----------------------------------------------------------------------------
(* The window-size checker: update_console_size, then the comparison with  *)
(* what it saw last.                                                       *)
Measure ==
    /\ checker = "measure" /\ checker' = "compare"
    /\ height' = tty
    /\ UNCHANGED <<size, pushing, scrollPos, autoscroll, refresh, renderer, seen, input, end,
                   tty, screen, keys, resizes>>

(* Fault: does not ask for a refresh. *)
Compare_Silent ==
    /\ checker = "compare" /\ checker' = "measure"
    /\ seen' = height
    /\ UNCHANGED <<size, pushing, height, scrollPos, autoscroll, refresh, renderer, input,
                   end, tty, screen, keys, resizes>>

Compare ==
    /\ checker = "compare" /\ checker' = "measure"
    /\ seen' = height
    /\ refresh' = (refresh \/ height # seen)
    /\ UNCHANGED <<size, pushing, height, scrollPos, autoscroll, renderer, input, end, tty,
                   screen, keys, resizes>>

Checker == Measure \/ Compare

-----------------------------------------------------------------------------
(* push_message, and main's emplace_back with the same lock and resolve.   *)
PushBegins ==
    /\ ~Locked /\ size < MaxMessages
    /\ pushing' = TRUE
    /\ UNCHANGED <<size, height, scrollPos, autoscroll, refresh, renderer, checker, seen,
                   input, end, tty, screen, keys, resizes>>

(* Fault: asks for a refresh only when the window was full. *)
PushEnds_OnlyIfFull ==
    /\ pushing /\ pushing' = FALSE
    /\ size' = size + 1
    /\ refresh' = (refresh \/ size >= height)
    /\ UNCHANGED <<height, scrollPos, autoscroll, renderer, checker, seen, input, end, tty,
                   screen, keys, resizes>>

PushEnds ==
    /\ pushing /\ pushing' = FALSE
    /\ size' = size + 1
    /\ refresh' = TRUE
    /\ UNCHANGED <<height, scrollPos, autoscroll, renderer, checker, seen, input, end, tty,
                   screen, keys, resizes>>

-----------------------------------------------------------------------------
(* The input thread's two arrow keys, one load or store at a time.         *)
ArrowUp ==
    /\ input = "read" /\ keys < MaxKeys
    /\ keys' = keys + 1
    /\ autoscroll' = FALSE
    /\ input' = "up"
    /\ UNCHANGED <<size, pushing, height, scrollPos, refresh, renderer, checker, seen, end,
                   tty, screen, resizes>>

(* Fault: does not look whether it is at the top. *)
TestTop_Missing ==
    /\ input = "up"
    /\ input' = "subtract"
    /\ UNCHANGED <<size, pushing, height, scrollPos, autoscroll, refresh, renderer, checker,
                   seen, end, tty, screen, keys, resizes>>

TestTop ==
    /\ input = "up"
    /\ input' = IF scrollPos > 0 THEN "subtract" ELSE "read"
    /\ UNCHANGED <<size, pushing, height, scrollPos, autoscroll, refresh, renderer, checker,
                   seen, end, tty, screen, keys, resizes>>

Subtract ==
    /\ input = "subtract" /\ input' = "resolve"
    /\ scrollPos' = scrollPos - 1
    /\ UNCHANGED <<size, pushing, height, autoscroll, refresh, renderer, checker, seen, end,
                   tty, screen, keys, resizes>>

(* The down key does nothing while the window follows the end.  The number *)
(* of messages is read without the lock: a thread in push_back may have    *)
(* moved one end of the vector and not yet the other, and the difference   *)
(* be anything, so that the comparison may go either way.                  *)
ArrowDown ==
    /\ input = "read" /\ keys < MaxKeys /\ ~autoscroll
    /\ keys' = keys + 1
    /\ \/ input' = "add" /\ end' = size - height
       \/ pushing /\ input' = "addTorn" /\ end' = 0
    /\ UNCHANGED <<size, pushing, height, scrollPos, autoscroll, refresh, renderer, checker,
                   seen, tty, screen, resizes>>

Add ==
    /\ \/ input = "add" /\ input' = IF scrollPos = end THEN "bottom" ELSE "resolve"
       \/ input = "addTorn" /\ input' \in {"bottom", "resolve"}
    /\ scrollPos' = scrollPos + 1
    /\ end' = 0
    /\ UNCHANGED <<size, pushing, height, autoscroll, refresh, renderer, checker, seen,
                   tty, screen, keys, resizes>>

ReachBottom ==
    /\ input = "bottom" /\ input' = "resolve"
    /\ autoscroll' = TRUE
    /\ UNCHANGED <<size, pushing, height, scrollPos, refresh, renderer, checker, seen, end,
                   tty, screen, keys, resizes>>

KeyEnds ==
    /\ input = "resolve" /\ input' = "read"
    /\ refresh' = TRUE
    /\ UNCHANGED <<size, pushing, height, scrollPos, autoscroll, renderer, checker, seen,
                   end, tty, screen, keys, resizes>>

Scroll == TestTop \/ Subtract \/ Add \/ ReachBottom \/ KeyEnds

Resize ==
    /\ resizes < MaxResizes /\ resizes' = resizes + 1
    /\ tty' \in Heights \ {tty}
    /\ UNCHANGED <<size, pushing, height, scrollPos, autoscroll, refresh, renderer, checker,
                   seen, input, end, screen, keys>>

Next ==
    Renderer \/ Checker \/ PushBegins \/ PushEnds \/ ArrowUp \/ ArrowDown \/ Scroll \/ Resize

Spec == Init /\ [][Next]_vars

(* The threads run; nothing makes others talk, or the user press a key.    *)
FairSpec ==
    /\ Spec
    /\ WF_vars(Renderer) /\ WF_vars(Checker) /\ WF_vars(PushEnds) /\ WF_vars(Scroll)

-----------------------------------------------------------------------------
(* Nobody has anything to do until something happens outside. *)
Quiet ==
    /\ renderer = "wait" /\ ~refresh /\ ~pushing
    /\ input = "read" /\ checker = "measure" /\ seen = height

(* No request for a redraw is lost: whatever the order in which the four   *)
(* threads changed what is shown and asked for a refresh, the screen shows *)
(* it once they are done (Console.cpp 412-416, 458-467, 495-515, 548-552). *)
ScreenIsCurrent ==
    Quiet => screen = [pos |-> scrollPos, size |-> size, height |-> height]

(* While the window follows the end, the last message is on the screen     *)
(* once the threads are done, whatever keys, messages and resizes came     *)
(* between the renderer's look at the flag and its store of the position   *)
(* (Console.cpp 433-435, 508-512).                                         *)
FollowsLatest ==
    Quiet /\ autoscroll /\ screen.height > 1 => size - 1 \in RowsRead(screen)

(* Every message is drawn in the end, although the renderer competes for   *)
(* the lock with those that push.                                          *)
EveryMessageIsDrawn == \A n \in 1..MaxMessages : size >= n ~> screen.size >= n

-----------------------------------------------------------------------------
(* Where this module and the comments of the code disagree: each of these  *)
(* is violated.                                                            *)

(* Console.cpp:507 "bottom of message window should have last message":    *)
(* the rows of the window are messages there are.                          *)
RowsExist == \A r \in RowsRead(screen) : r < size

(* Console.cpp:498 "can't scroll passed zero".                             *)
StopsAtTop == scrollPos >= 0

(* Console.cpp:511 "if the position will display the latest message, turn  *)
(* on autoscroll": a window with room for all messages is left by the up   *)
(* key, and by no number of down keys resumed.                             *)
DownResumes == [][input = "add" /\ size <= scrollPos' + height => input' = "bottom"]_vars
=============================================================================
