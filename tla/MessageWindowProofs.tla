------------------------ MODULE MessageWindowProofs -------------------------
(***************************************************************************)
(* For any heights and any number of messages, keys and resizes: the types *)
(* with the bound of the scroll position, no lost redraw, and the latest   *)
(* message on the screen.                                                  *)
(***************************************************************************)
EXTENDS MessageWindow, TLAPS

(* messages_mtx excludes, and there is always a message. *)
Lock == ~(pushing /\ renderer \in {"follow", "print"}) /\ size >= 1

(* In an arrow key's branch, until it resumes following, the window does   *)
(* not follow; and a position that is going to be decreased is one.        *)
Key ==
    /\ autoscroll => input \in {"read", "resolve"}
    /\ input = "subtract" => scrollPos >= 0

(* Between two rounds the checker has seen the height there is. *)
Measured == checker = "measure" => seen \in {height, Unmeasured}

(* A renderer that waits without a request has drawn what there is, but    *)
(* for what the input thread or the checker is about to ask for.           *)
Drawn ==
    renderer = "wait" /\ ~refresh =>
        /\ screen.size = size
        /\ screen.height = height \/ height # seen
        /\ screen.pos = scrollPos \/ input \in {"bottom", "resolve"}

(* The same of the decision to follow: nobody set autoscroll since without *)
(* a request that is still there.                                          *)
Following ==
    autoscroll /\ ~refresh /\ input = "read" /\ height = seen =>
        /\ renderer = "print" => scrollPos = Bottom(size, height)
        /\ renderer = "wait" => screen.pos = Bottom(size, height)

IInv == TypeOK /\ Lock /\ Key /\ Measured /\ Drawn /\ Following

(* The position that shows the last message is never above the top. *)
LEMMA BottomIsAPosition == TypeOK => Bottom(size, height) \in Nat
<1> SUFFICES ASSUME TypeOK PROVE Bottom(size, height) \in Nat
    OBVIOUS
<1>1. size \in Nat /\ height \in Int
      BY WindowAssumption DEF TypeOK, Unmeasured
<1>2. QED BY <1>1 DEF Bottom

(* A height that was measured is none of before the first measurement. *)
LEMMA MeasurementIsKnown == TypeOK => tty # Unmeasured
BY WindowAssumption DEF TypeOK, Unmeasured

(* The start, measured or not. *)
LEMMA InitIInv == Init => IInv
<1> SUFFICES ASSUME Init PROVE IInv
    OBVIOUS
<1>1. screen \in [pos : Position, size : Nat, height : Heights \cup {Unmeasured}]
      BY DEF Init, Position
<1>2. size \in Nat /\ scrollPos \in Position /\ end \in Int /\ keys \in Nat /\ resizes \in Nat
      BY DEF Init, Position
<1>3. TypeOK
      BY <1>1, <1>2 DEF Init, TypeOK
<1>4. QED BY <1>3 DEF Init, IInv, Lock, Key, Measured, Drawn, Following

(* Only the test of the up key and the bound of Bottom keep the position   *)
(* from falling further.                                                   *)
LEMMA TypeStep == TypeOK /\ Key /\ [Next]_vars => TypeOK'
<1> SUFFICES ASSUME TypeOK, Key, [Next]_vars PROVE TypeOK'
    OBVIOUS
<1>1. CASE BeginDraw \/ AwaitRefresh \/ Measure
      BY <1>1 DEF TypeOK, BeginDraw, AwaitRefresh, Measure
<1>2. CASE Follow
  <2>1. scrollPos' \in Position
        BY <1>2, BottomIsAPosition DEF Follow, Position
  <2>2. QED BY <1>2, <2>1 DEF TypeOK, Follow
<1>3. CASE Flush
  <2>1. screen' \in [pos : Position, size : Nat, height : Heights \cup {Unmeasured}]
        BY <1>3 DEF TypeOK, Flush
  <2>2. QED BY <1>3, <2>1 DEF TypeOK, Flush
<1>4. CASE Compare
      BY <1>4 DEF TypeOK, Compare
<1>5. CASE PushBegins \/ PushEnds
  <2>1. size' \in Nat
        BY <1>5 DEF TypeOK, PushBegins, PushEnds
  <2>2. QED BY <1>5, <2>1 DEF TypeOK, PushBegins, PushEnds
<1>6. CASE ArrowUp \/ TestTop \/ ReachBottom \/ KeyEnds
  <2>1. keys' \in Nat
        BY <1>6 DEF TypeOK, ArrowUp, TestTop, ReachBottom, KeyEnds
  <2>2. QED BY <1>6, <2>1 DEF TypeOK, ArrowUp, TestTop, ReachBottom, KeyEnds
<1>7. CASE ArrowDown
  <2>1. end' \in Int
        BY <1>7, WindowAssumption DEF TypeOK, ArrowDown, Unmeasured
  <2>2. keys' \in Nat
        BY <1>7 DEF TypeOK, ArrowDown
  <2>3. QED BY <1>7, <2>1, <2>2 DEF TypeOK, ArrowDown
<1>8. CASE Subtract \/ Add
  <2>1. scrollPos' \in Position
        BY <1>8 DEF TypeOK, Key, Position, Subtract, Add
  <2>2. QED BY <1>8, <2>1 DEF TypeOK, Subtract, Add
<1>9. CASE Resize
      BY <1>9 DEF TypeOK, Resize
<1>10. CASE UNCHANGED vars
      BY <1>10 DEF TypeOK, vars
<1>11. QED BY <1>1, <1>2, <1>3, <1>4, <1>5, <1>6, <1>7, <1>8, <1>9, <1>10
           DEF Next, Renderer, Checker, Scroll

(* The renderer and the pushers take messages_mtx. *)
LEMMA LockStep == TypeOK /\ Lock /\ [Next]_vars => Lock'
<1> SUFFICES ASSUME TypeOK, Lock, [Next]_vars PROVE Lock'
    OBVIOUS
<1> USE DEF TypeOK, Lock, Locked
<1>1. CASE Renderer
      BY <1>1 DEF Renderer, BeginDraw, Follow, Flush, AwaitRefresh
<1>2. CASE PushBegins \/ PushEnds
      BY <1>2 DEF PushBegins, PushEnds
<1>3. CASE Checker \/ ArrowUp \/ ArrowDown \/ Scroll \/ Resize \/ UNCHANGED vars
      BY <1>3 DEF Checker, Measure, Compare, ArrowUp, ArrowDown, Scroll, TestTop, Subtract,
                  Add, ReachBottom, KeyEnds, Resize, vars
<1>4. QED BY <1>1, <1>2, <1>3 DEF Next, Renderer, Checker

(* Only the input thread switches following on and off. *)
LEMMA KeyStep == TypeOK /\ Key /\ [Next]_vars => Key'
<1> SUFFICES ASSUME TypeOK, Key, [Next]_vars PROVE Key'
    OBVIOUS
<1> USE DEF TypeOK, Position, Key
<1>1. CASE Renderer
  <2>1. Bottom(size, height) \in Nat
        BY BottomIsAPosition
  <2>2. QED BY <1>1, <2>1 DEF Renderer, BeginDraw, Follow, Flush, AwaitRefresh
<1>2. CASE ArrowUp \/ ArrowDown
      BY <1>2 DEF ArrowUp, ArrowDown
<1>3. CASE Scroll
      BY <1>3 DEF Scroll, TestTop, Subtract, Add, ReachBottom, KeyEnds
<1>4. CASE Checker \/ PushBegins \/ PushEnds \/ Resize \/ UNCHANGED vars
      BY <1>4 DEF Checker, Measure, Compare, PushBegins, PushEnds, Resize, vars
<1>5. QED BY <1>1, <1>2, <1>3, <1>4 DEF Next, Renderer, Checker

(* Nobody but the checker measures. *)
LEMMA MeasuredStep == TypeOK /\ Measured /\ [Next]_vars => Measured'
<1> SUFFICES ASSUME TypeOK, Measured, [Next]_vars PROVE Measured'
    OBVIOUS
<1> USE DEF TypeOK, Measured
<1>1. CASE Checker
      BY <1>1 DEF Checker, Measure, Compare
<1>2. CASE Renderer \/ PushBegins \/ PushEnds
      BY <1>2 DEF Renderer, BeginDraw, Follow, Flush, AwaitRefresh, PushBegins, PushEnds
<1>3. CASE ArrowUp \/ ArrowDown \/ Scroll \/ Resize \/ UNCHANGED vars
      BY <1>3 DEF ArrowUp, ArrowDown, Scroll, TestTop, Subtract, Add, ReachBottom, KeyEnds,
                  Resize, vars
<1>4. QED BY <1>1, <1>2, <1>3 DEF Next, Renderer, Checker

(* Every step that changes what is shown leaves a request, or is one that  *)
(* is going to. *)
LEMMA DrawnStep == TypeOK /\ Measured /\ Drawn /\ [Next]_vars => Drawn'
<1> SUFFICES ASSUME TypeOK, Measured, Drawn, [Next]_vars PROVE Drawn'
    OBVIOUS
<1> USE DEF TypeOK, Drawn
<1>1. CASE Renderer
      BY <1>1 DEF Renderer, BeginDraw, Follow, Flush, AwaitRefresh
<1>2. CASE Measure
  <2>1. height' = height \/ height' # seen
        BY <1>2, MeasurementIsKnown DEF Measure, Measured
  <2>2. QED BY <1>2, <2>1 DEF Measure
<1>3. CASE Compare
      BY <1>3 DEF Compare
<1>4. CASE PushBegins \/ PushEnds
      BY <1>4 DEF PushBegins, PushEnds
<1>5. CASE ArrowUp \/ ArrowDown
      BY <1>5 DEF ArrowUp, ArrowDown
<1>6. CASE Scroll
      BY <1>6 DEF Scroll, TestTop, Subtract, Add, ReachBottom, KeyEnds
<1>7. CASE Resize \/ UNCHANGED vars
      BY <1>7 DEF Resize, vars
<1>8. QED BY <1>1, <1>2, <1>3, <1>4, <1>5, <1>6, <1>7 DEF Next, Renderer, Checker

(* A message, a key or a height that makes the position wrong comes with a *)
(* request. *)
LEMMA FollowingStep ==
    TypeOK /\ Lock /\ Key /\ Measured /\ Following /\ [Next]_vars => Following'
<1> SUFFICES ASSUME TypeOK, Lock, Key, Measured, Following, [Next]_vars PROVE Following'
    OBVIOUS
<1> USE DEF TypeOK, Following
<1>1. CASE BeginDraw
      BY <1>1 DEF BeginDraw
<1>2. CASE Follow \/ Flush \/ AwaitRefresh
  <2>1. CASE Follow
        BY <2>1 DEF Follow
  <2>2. CASE Flush
        BY <2>2 DEF Flush
  <2>3. CASE AwaitRefresh
        BY <2>3 DEF AwaitRefresh
  <2>4. QED BY <1>2, <2>1, <2>2, <2>3
<1>3. CASE Measure
  <2>1. height' = height \/ height' # seen
        BY <1>3, MeasurementIsKnown DEF Measure, Measured
  <2>2. QED BY <1>3, <2>1 DEF Measure
<1>4. CASE Compare
      BY <1>4 DEF Compare
<1>5. CASE PushBegins \/ PushEnds
      BY <1>5 DEF PushBegins, PushEnds, Lock, Bottom
<1>6. CASE ArrowUp \/ ArrowDown
      BY <1>6 DEF ArrowUp, ArrowDown, Bottom
<1>7. CASE Scroll
      BY <1>7 DEF Scroll, TestTop, Subtract, Add, ReachBottom, KeyEnds, Key, Bottom
<1>8. CASE Resize \/ UNCHANGED vars
      BY <1>8 DEF Resize, vars, Bottom
<1>9. QED BY <1>1, <1>2, <1>3, <1>4, <1>5, <1>6, <1>7, <1>8
          DEF Next, Renderer, Checker

(* The invariant holds in every reachable state. *)
LEMMA Inductive == Spec => []IInv
<1>1. IInv /\ [Next]_vars => IInv'
      BY TypeStep, LockStep, KeyStep, MeasuredStep, DrawnStep, FollowingStep DEF IInv
<1>2. QED BY InitIInv, <1>1, PTL DEF Spec

-----------------------------------------------------------------------------
(* The types, and with them that the scroll position is never further than *)
(* one above the top, although the renderer and the input thread change it *)
(* without a lock (Console.cpp 433-435, 499-501).                          *)
THEOREM TypeCorrect == Spec => []TypeOK
<1>1. IInv => TypeOK
      BY DEF IInv
<1>2. QED BY Inductive, <1>1, PTL

(* No request for a redraw is lost (Console.cpp 412-416, 458-467, 495-515, *)
(* 548-552).                                                               *)
THEOREM NoLostRedraw == Spec => []ScreenIsCurrent
<1>1. IInv => ScreenIsCurrent
      BY DEF IInv, TypeOK, Drawn, ScreenIsCurrent, Quiet
<1>2. QED BY Inductive, <1>1, PTL

(* A window that follows shows the latest message (Console.cpp 433-435,    *)
(* 508-512).                                                               *)
THEOREM LatestIsShown == Spec => []FollowsLatest
<1>1. ASSUME IInv PROVE FollowsLatest
  <2> SUFFICES ASSUME Quiet, autoscroll, screen.height > 1
               PROVE  size - 1 \in RowsRead(screen)
      BY DEF FollowsLatest
  <2>1. screen.size = size /\ screen.height = height /\ screen.pos = Bottom(size, height)
        BY <1>1 DEF IInv, Quiet, Drawn, Following
  <2>2. size \in Nat /\ size >= 1 /\ height \in Int
        BY <1>1, WindowAssumption DEF IInv, TypeOK, Lock, Unmeasured
  <2>3. QED BY <2>1, <2>2 DEF RowsRead, Bottom
<1>2. QED BY Inductive, <1>1, PTL
=============================================================================
