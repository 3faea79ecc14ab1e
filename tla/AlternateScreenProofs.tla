----------------------- MODULE AlternateScreenProofs -----------------------
(***************************************************************************)
(* Of a user who waits for his answers, for any keys, any length of an     *)
(* answer, any size of the line and any messages of others: the end of an  *)
(* answer is never shown as a message, for the handler that the net thread *)
(* finds is that of the frame it has received; the flags of the hooks      *)
(* agree when no thread is switching them; and after q the window is back. *)
(* Of every user: that an answer which is collected, and was not refused,  *)
(* has its end before it, and the types.                                   *)
(***************************************************************************)
EXTENDS AlternateScreen, SequenceTheorems, TLAPS

(* What the argument needs of the types. *)
Shape ==
    /\ LineTypeOK
    /\ sendBuffer \in Seq(Seq(Char))
    /\ incoming \in Seq(Frame) /\ messages \in Seq(Frame) /\ frame \in Frame
    /\ {picked, handler} \subseteq {"chat", "collect"}
    /\ net \in {"push", "hide", "receive", "handle"}
    /\ hasty \in BOOLEAN /\ named \in BOOLEAN /\ refused \in BOOLEAN

Clean(queue) == \A i \in 1..Len(queue) : queue[i] = "chat"
Asked == \E i \in 1..Len(sendBuffer) : IsRequest(sendBuffer[i])
Leaves == {"leave2", "leave3", "leave4", "redraw", "restore"}

(* The sender is busy with the request at the head of its buffer. *)
Busy == sender \notin {"off", "rx"} => sendBuffer # <<>> /\ IsRequest(Head(sendBuffer))

(* There is a key when the hooks are run. *)
Held == input \in {"sort", "putBack", "copy0", "copy1", "edit"} => key # <<>>

(* A user who waits: the hook for q finds no answer under way, and only    *)
(* one is asked for at a time.                                             *)
Waits ==
    ~hasty =>
        /\ input \in Leaves => ~UnderWay
        /\ \A i, j \in 1..Len(sendBuffer) :
              IsRequest(sendBuffer[i]) /\ IsRequest(sendBuffer[j]) => i = j

(* Where the frames of an answer are: nowhere, while it is being asked for *)
(* or when the handler is that of messages; else in front of nothing but   *)
(* messages.                                                               *)
Placed ==
    ~hasty =>
        /\ handler = "chat" => Clean(incoming)
        /\ Asked => Clean(incoming) /\ (net = "handle" => frame = "chat")
        /\ sender = "send" => handler = "collect"
        /\ \A i, j \in 1..Len(incoming) : i < j /\ incoming[i] = "done" => incoming[j] = "chat"
        /\ net = "handle" =>
              /\ picked = "chat" => frame = "chat"
              /\ frame = "done" => Clean(incoming)
              /\ frame # "chat" => handler = "collect"

IInv == Shape /\ Busy /\ Held /\ Waits /\ Placed /\ SignalIsHidden

-----------------------------------------------------------------------------
(* Queues. *)
LEMMA TailIs ==
    ASSUME NEW S, NEW q \in Seq(S), q # <<>>
    PROVE  /\ Tail(q) \in Seq(S) /\ Head(q) = q[1] /\ Head(q) \in S
           /\ Len(q) \in Nat \ {0} /\ Len(Tail(q)) = Len(q) - 1
           /\ \A i \in 1..Len(Tail(q)) : i + 1 \in 1..Len(q) /\ Tail(q)[i] = q[i + 1]
  OBVIOUS

LEMMA AppendIs ==
    ASSUME NEW S, NEW q \in Seq(S), NEW x \in S
    PROVE  /\ Append(q, x) \in Seq(S) /\ Len(Append(q, x)) = Len(q) + 1 /\ Len(q) \in Nat
           /\ \A i \in 1..Len(q) : Append(q, x)[i] = q[i]
           /\ Append(q, x)[Len(q) + 1] = x
           /\ q # <<>> => Head(Append(q, x)) = Head(q)
  OBVIOUS

(* An answer ends at its only signal. *)
LEMMA AnswerIs ==
    ASSUME NEW l, NEW a \in AnswerOf(l)
    PROVE  /\ a \in Seq(Frame) /\ a # <<>>
           /\ \A i, j \in 1..Len(a) : i < j => a[i] # "done"
           /\ ~IsRequest(l) => a = <<"chat">>
<1>1. CASE IsRequest(l) /\ named
  <2>1. PICK n \in 0..MaxLines : a = [i \in 1..(n + 1) |-> IF i <= n THEN "line" ELSE "done"]
    BY <1>1 DEF AnswerOf, Lines
  <2>2. n + 1 \in Nat /\ n \in Nat /\ a \in [1..(n + 1) -> Frame]
    BY <2>1, ScreenAssumption DEF Frame
  <2>3. a \in Seq(Frame) /\ Len(a) = n + 1
    BY <2>2
  <2>4. \A i, j \in 1..Len(a) : i < j => a[i] = "line"
    BY <2>1, <2>2, <2>3
  <2>5. a # <<>>
    BY <2>2, <2>3
  <2>6. \A i, j \in 1..Len(a) : i < j => a[i] # "done"
    BY <2>4
  <2>7. QED
    BY <1>1, <2>3, <2>5, <2>6
<1>2. CASE IsRequest(l) /\ ~named
  <2>1. a = <<"line">>
    BY <1>2 DEF AnswerOf
  <2>2. "line" \in Frame
    BY DEF Frame
  <2>3. a \in Seq(Frame) /\ a # <<>> /\ Len(a) = 1
    BY <2>1, <2>2
  <2>4. QED
    BY <1>2, <2>1, <2>3
<1>3. CASE ~IsRequest(l)
  <2>1. a = <<"chat">>
    BY <1>3 DEF AnswerOf
  <2>2. "chat" \in Frame
    BY DEF Frame
  <2>3. a \in Seq(Frame) /\ a # <<>> /\ Len(a) = 1
    BY <2>1, <2>2
  <2>4. QED
    BY <2>1, <2>3
<1>4. QED
  BY <1>1, <1>2, <1>3

(* What follows a queue of nothing but messages. *)
LEMMA CleanThen ==
    ASSUME NEW q \in Seq(Frame), NEW l, NEW a \in AnswerOf(l)
    PROVE  /\ q \o a \in Seq(Frame)
           /\ ~IsRequest(l) => q \o a = Append(q, "chat")
           /\ Clean(q) => \A i, j \in 1..Len(q \o a) :
                              i < j /\ (q \o a)[i] = "done" => (q \o a)[j] = "chat"
<1>1. /\ a \in Seq(Frame) /\ \A i, j \in 1..Len(a) : i < j => a[i] # "done"
      /\ ~IsRequest(l) => a = <<"chat">>
  BY AnswerIs
<1>2. /\ q \o a \in Seq(Frame) /\ Len(q \o a) = Len(q) + Len(a)
      /\ \A i \in 1..(Len(q) + Len(a)) :
            (q \o a)[i] = IF i <= Len(q) THEN q[i] ELSE a[i - Len(q)]
  BY <1>1, ConcatProperties
<1>3. ~IsRequest(l) => q \o a = Append(q, "chat")
  BY <1>1, AppendIsConcat DEF Frame
<1>4. ASSUME Clean(q), NEW i \in 1..Len(q \o a), NEW j \in 1..Len(q \o a), i < j,
             (q \o a)[i] = "done"
      PROVE  FALSE
  <2>1. Len(q) \in Nat /\ Len(a) \in Nat
    BY <1>1
  <2>2. i > Len(q)
    BY <1>2, <1>4, <2>1 DEF Clean
  <2>3. i - Len(q) \in 1..Len(a) /\ j - Len(q) \in 1..Len(a) /\ a[i - Len(q)] = "done"
    BY <1>2, <1>4, <2>1, <2>2
  <2>4. QED
    BY <1>1, <1>4, <2>1, <2>3
<1>5. QED
  BY <1>2, <1>3, <1>4

-----------------------------------------------------------------------------
(* A step that leaves the frames and the lines where they are, asks for    *)
(* nothing and does not start to leave the screen.                         *)
LEMMA QuietStep ==
    ASSUME IInv, Busy', Held', UnderWay' => UnderWay, sender' = "send" => sender = "send",
           net' \in {"push", "hide", "receive", "handle"}, net' = "handle" => net = "handle",
           input' \in Leaves => input \in Leaves,
           UNCHANGED <<line, sendBuffer, incoming, messages, frame, picked, handler, hasty,
                       named, refused>>
    PROVE  IInv'
<1>1. UNCHANGED <<buffer, position>>
  BY DEF line
<1>2. Shape'
  BY <1>1 DEF IInv, Shape, LineTypeOK
<1>3. Waits' /\ SignalIsHidden'
  BY DEF IInv, Waits, SignalIsHidden
<1>4. Placed'
  BY DEF IInv, Placed, Asked, Clean
<1>5. QED
  BY <1>2, <1>3, <1>4 DEF IInv

(* The input thread, up to its hooks, and the renderer disturb nothing. *)
LEMMA IdleSteps ==
    ASSUME IInv,
           \/ \E k \in Keys : ReadKey(k)
           \/ MoveInputHook \/ \E g \in Group : CopyInputHook(g)
           \/ Redraw \/ Renderer \/ PushHook \/ HideHook \/ EnterScreen \/ ClearDisplay
    PROVE  IInv'
<1>1. CASE \/ (\E k \in Keys : ReadKey(k)) \/ (\E g \in Group : CopyInputHook(g))
           \/ MoveInputHook \/ Redraw \/ Renderer
  <2>1. UNCHANGED <<line, sendBuffer, incoming, messages, frame, picked, handler, hasty,
                    sender, net, named, refused>>
    BY <1>1 DEF ReadKey, MoveInputHook, CopyInputHook, Redraw, Renderer, AwaitRefresh,
       MoveRenderHook, CopyRenderHook, Flush, senderThread, netThread, setup
  <2>2. input' \in Leaves => input \in Leaves
    BY <1>1 DEF ReadKey, AfterWaking, MoveInputHook, CopyInputHook, Redraw, Renderer,
       AwaitRefresh, MoveRenderHook, CopyRenderHook, Flush, inputThread, Leaves
  <2>3. Busy' /\ (UnderWay' => UnderWay)
    BY <2>1 DEF IInv, Busy, UnderWay
  <2>4. Held'
    BY <1>1 DEF ReadKey, MoveInputHook, CopyInputHook, Redraw, Renderer, AwaitRefresh,
       MoveRenderHook, CopyRenderHook, Flush, inputThread, Keys, Held, IInv
  <2>5. QED
    BY <2>1, <2>2, <2>3, <2>4, QuietStep DEF IInv, Shape
<1>2. CASE PushHook \/ HideHook
  <2>1. /\ UNCHANGED <<line, sendBuffer, incoming, messages, frame, picked, handler, hasty,
                       input, named, refused>>
        /\ UNCHANGED key /\ net' \in {"hide", "receive"} /\ (sender' = sender \/ sender' = "rx")
    BY <1>2 DEF PushHook, HideHook, senderThread, inputThread, setup
  <2>2. Busy' /\ Held' /\ (UnderWay' => UnderWay) /\ (sender' = "send" => sender = "send")
    BY <2>1 DEF IInv, Busy, Held, UnderWay
  <2>3. QED
    BY <2>1, <2>2, QuietStep
<1>3. CASE EnterScreen \/ ClearDisplay
  <2>1. /\ UNCHANGED <<line, sendBuffer, incoming, messages, frame, picked, handler, hasty,
                       input, key, net, named, refused>>
        /\ sender' # "send" /\ sendBuffer # <<>> /\ IsRequest(Head(sendBuffer))
    BY <1>3 DEF EnterScreen, ClearDisplay, EnterAt, netThread, inputThread, setup, IInv, Busy
  <2>2. UnderWay
    BY <2>1, TailIs DEF UnderWay, IInv, Shape
  <2>3. Busy' /\ Held'
    BY <2>1 DEF IInv, Busy, Held
  <2>4. QED
    BY <2>1, <2>2, <2>3, QuietStep DEF IInv, Shape
<1>4. QED
  BY <1>1, <1>2, <1>3

(* The hook for q finds no answer under way, so that it puts back the      *)
(* handler that is there.                                                  *)
LEMMA LeavingSteps ==
    ASSUME IInv, LeaveScreen \/ RestoreHandler
    PROVE  IInv'
<1>1. /\ UNCHANGED <<buffer, position, sendBuffer, incoming, messages, frame, picked, net, sender,
                     named, refused>>
      /\ hasty' \in BOOLEAN /\ (~hasty' => ~hasty) /\ handler' \in {handler, "chat"}
  BY DEF LeaveScreen, RestoreHandler, line, senderThread, netThread, setup, IInv, Shape
<1>2. ~hasty' => handler' = handler /\ (input' \in Leaves => ~UnderWay)
  <2>1. CASE LeaveScreen
    <3>1. PICK n \in 1..4 : input = LeaveAt[n] /\ input' = LeaveAt[n + 1]
      BY <2>1 DEF LeaveScreen
    <3>2. input = "leave1" \/ input \in Leaves
      BY <3>1 DEF LeaveAt, Leaves
    <3>3. QED
      BY <2>1, <3>2 DEF LeaveScreen, IInv, Waits
  <2>2. CASE RestoreHandler
    <3>1. input \in Leaves /\ input' \notin Leaves /\ handler' = "chat" /\ hasty' = hasty
      BY <2>2 DEF RestoreHandler, Leaves
    <3>2. QED
      BY <3>1 DEF IInv, Waits, UnderWay, Shape
  <2>3. QED
    BY <2>1, <2>2
<1>3. Shape' /\ Busy' /\ SignalIsHidden'
  BY <1>1 DEF IInv, Shape, LineTypeOK, Busy, SignalIsHidden
<1>4. Held'
  <2>1. input' \notin {"sort", "putBack", "copy0", "copy1", "edit"}
    BY DEF LeaveScreen, RestoreHandler, LeaveAt
  <2>2. QED
    BY <2>1 DEF Held
<1>5. Waits'
  BY <1>1, <1>2 DEF IInv, Waits, UnderWay
<1>6. Placed'
  BY <1>1, <1>2 DEF IInv, Placed, Asked, Clean
<1>7. QED
  BY <1>3, <1>4, <1>5, <1>6 DEF IInv

(* The input thread edits the line; a new line that asks for an answer     *)
(* finds the last one over.                                                *)
LEMMA EditStep ==
    ASSUME IInv, Edit
    PROVE  IInv'
<1>1. /\ UNCHANGED <<sender, net, frame, picked, handler, incoming, messages, named, refused>>
      /\ input' \in {"leave1", "read"}
      /\ key # <<>>
  BY DEF Edit, netThread, setup, IInv, Held
<1>2. /\ buffer \in Seq(Char) /\ Len(buffer) < Size /\ position \in 0..Len(buffer)
      /\ Size \in Nat /\ Len(buffer) \in Nat
  BY LineAssumption DEF IInv, Shape, LineTypeOK
<1>3. CASE /\ UNCHANGED <<sendBuffer, hasty>>
           /\ UNCHANGED line \/ Erase \/ \E keys \in Seq(Char) \ {<<>>} : Insert(keys)
  <2>1. LineTypeOK'
    <3>1. CASE UNCHANGED line
      BY <1>2, <3>1 DEF line, LineTypeOK
    <3>2. CASE Erase
      <4>1. CASE position > 0
        <5>1. position' = position - 1 /\ buffer' = SubSeq(buffer, 1, position - 1)
          BY <3>2, <4>1 DEF Erase
        <5>2. buffer' \in Seq(Char) /\ Len(buffer') = position - 1
          BY <1>2, <4>1, <5>1
        <5>3. QED
          BY <1>2, <4>1, <5>1, <5>2 DEF LineTypeOK
      <4>2. CASE ~(position > 0)
        BY <1>2, <3>2, <4>2 DEF Erase, line, LineTypeOK
      <4>3. QED
        BY <4>1, <4>2
    <3>3. ASSUME NEW keys \in Seq(Char), keys # <<>>, Insert(keys)
          PROVE  LineTypeOK'
      <4>1. /\ position + Len(keys) < Size /\ position' = position + 1
            /\ buffer' = SubSeq(buffer, 1, position) \o keys
        BY <3>3 DEF Insert
      <4>2. SubSeq(buffer, 1, position) \in Seq(Char) /\ Len(SubSeq(buffer, 1, position)) = position
        BY <1>2
      <4>3. buffer' \in Seq(Char) /\ Len(buffer') = position + Len(keys)
        BY <4>1, <4>2, ConcatProperties
      <4>4. Len(keys) \in Nat \ {0}
        BY <3>3
      <4>5. QED
        BY <1>2, <4>1, <4>3, <4>4 DEF LineTypeOK
    <3>4. QED
      BY <1>3, <3>1, <3>2, <3>3
  <2>2. Shape' /\ Busy' /\ Held' /\ Waits' /\ SignalIsHidden'
    BY <1>1, <1>3, <2>1 DEF IInv, Shape, Busy, Held, Waits, Leaves, SignalIsHidden
  <2>3. Placed'
    BY <1>1, <1>3 DEF IInv, Placed, Asked, Clean
  <2>4. QED
    BY <2>2, <2>3 DEF IInv
<1>4. CASE /\ sendBuffer' = Append(sendBuffer, buffer)
           /\ hasty' = (hasty \/ (IsRequest(buffer) /\ UnderWay))
           /\ ClearLine
  <2>1. LineTypeOK'
    BY <1>4, LineAssumption DEF ClearLine, LineTypeOK
  <2>2. /\ sendBuffer' \in Seq(Seq(Char)) /\ Len(sendBuffer') = Len(sendBuffer) + 1
        /\ Len(sendBuffer) \in Nat
        /\ \A i \in 1..Len(sendBuffer) : sendBuffer'[i] = sendBuffer[i]
        /\ sendBuffer'[Len(sendBuffer) + 1] = buffer
        /\ sendBuffer # <<>> => Head(sendBuffer') = Head(sendBuffer)
    BY <1>2, <1>4, AppendIs DEF IInv, Shape
  <2>3. sendBuffer' # <<>>
    BY <2>2
  <2>4. Shape'
    BY <1>1, <1>4, <2>1, <2>2 DEF IInv, Shape
  <2>5. Busy' /\ Held' /\ SignalIsHidden'
    BY <1>1, <1>4, <2>2, <2>3 DEF IInv, Busy, Held, SignalIsHidden
  <2>6. CASE hasty'
    BY <2>4, <2>5, <2>6 DEF IInv, Waits, Placed
  <2>7. CASE ~hasty' /\ ~IsRequest(buffer)
    <3>1. ~hasty
      BY <1>4, <2>7
    <3>2. Asked' => Asked
      <4>1. ASSUME NEW i \in 1..Len(sendBuffer'), IsRequest(sendBuffer'[i])
            PROVE  i \in 1..Len(sendBuffer) /\ IsRequest(sendBuffer[i])
        <5>1. i # Len(sendBuffer) + 1
          BY <2>2, <2>7, <4>1
        <5>2. i \in 1..Len(sendBuffer)
          BY <2>2, <5>1
        <5>3. QED
          BY <2>2, <4>1, <5>2
      <4>2. QED
        BY <4>1 DEF Asked, IsRequest
    <3>3. Waits'
      <4>1. \A i \in 1..Len(sendBuffer') :
                IsRequest(sendBuffer'[i]) =>
                    i \in 1..Len(sendBuffer) /\ sendBuffer'[i] = sendBuffer[i]
        BY <2>2, <2>7
      <4>2. QED
        BY <1>1, <3>1, <4>1 DEF IInv, Waits, Leaves
    <3>4. Placed'
      BY <1>1, <3>1, <3>2 DEF IInv, Placed, Clean
    <3>5. QED
      BY <2>4, <2>5, <3>3, <3>4 DEF IInv
  <2>8. CASE ~hasty' /\ IsRequest(buffer)
    <3>1. ~hasty /\ ~UnderWay
      BY <1>4, <2>8
    <3>2. /\ \A i \in 1..Len(sendBuffer) : ~IsRequest(sendBuffer[i])
          /\ sender \in {"off", "rx"} /\ handler = "chat"
      BY <3>1 DEF UnderWay, IInv, Shape
    <3>3. Waits'
      <4>1. \A i \in 1..Len(sendBuffer') : IsRequest(sendBuffer'[i]) => i = Len(sendBuffer) + 1
        <5>1. ASSUME NEW i \in 1..Len(sendBuffer'), i # Len(sendBuffer) + 1
              PROVE  ~IsRequest(sendBuffer'[i])
          <6>1. i \in 1..Len(sendBuffer)
            BY <2>2, <5>1
          <6>2. QED
            BY <2>2, <3>2, <6>1
        <5>2. QED
          BY <5>1
      <4>2. QED
        BY <1>1, <4>1 DEF Waits, Leaves
    <3>4. Clean(incoming) /\ (net = "handle" => frame = "chat")
      BY <3>1, <3>2 DEF IInv, Placed
    <3>5. Placed'
      BY <1>1, <3>1, <3>2, <3>4 DEF IInv, Placed, Clean
    <3>6. QED
      BY <2>4, <2>5, <3>3, <3>5 DEF IInv
  <2>9. QED
    BY <2>6, <2>7, <2>8
<1>5. QED
  <2>1. CASE 0 \in inputCopy /\ key = <<Enter>> /\ SubmitLine
    BY <1>3, <1>4, <2>1 DEF SubmitLine
  <2>2. CASE 0 \in inputCopy /\ key = <<Backspace>> /\ Erase /\ UNCHANGED <<sendBuffer, hasty>>
    BY <1>3, <2>2
  <2>3. CASE 0 \in inputCopy /\ key \in Seq(Char) /\ Insert(key) /\ UNCHANGED <<sendBuffer, hasty>>
    BY <1>1, <1>3, <2>3
  <2>4. CASE 0 \notin inputCopy
    BY <1>3, <2>4 DEF Edit
  <2>5. QED
    BY <2>1, <2>2, <2>3, <2>4 DEF Edit

-----------------------------------------------------------------------------
(* Somebody's message goes behind what there is. *)
LEMMA ChatArrives ==
    ASSUME Shape, Placed, incoming' = Append(incoming, "chat"), hasty' = hasty,
           UNCHANGED <<handler, net, frame, picked>>, Asked' => Asked,
           sender' = "send" => sender = "send"
    PROVE  Placed' /\ incoming' \in Seq(Frame)
<1>1. "chat" \in Frame /\ incoming \in Seq(Frame)
  BY DEF Shape, Frame
<1>2. /\ incoming' \in Seq(Frame) /\ Len(incoming') = Len(incoming) + 1 /\ Len(incoming) \in Nat
      /\ \A i \in 1..Len(incoming) : incoming'[i] = incoming[i]
      /\ incoming'[Len(incoming) + 1] = "chat"
  BY <1>1, AppendIs
<1>3. \A i \in 1..Len(incoming') : incoming'[i] = "chat" \/ (i \in 1..Len(incoming)
                                                            /\ incoming'[i] = incoming[i])
  BY <1>2
<1>4. Clean(incoming) => Clean(incoming')
  BY <1>3 DEF Clean
<1>5. ~hasty => \A i, j \in 1..Len(incoming') :
                    i < j /\ incoming'[i] = "done" => incoming'[j] = "chat"
  BY <1>3 DEF Placed
<1>6. Placed'
  BY <1>4, <1>5 DEF Placed, Clean
<1>7. QED
  BY <1>2, <1>6

(* The first line leaves the sender's buffer. *)
LEMMA Unqueue ==
    ASSUME Shape, Waits, sendBuffer # <<>>, sendBuffer' = Tail(sendBuffer)
    PROVE  /\ sendBuffer' \in Seq(Seq(Char))
           /\ Asked' => Asked
           /\ ~hasty /\ IsRequest(Head(sendBuffer)) => ~Asked'
           /\ ~hasty => \A i, j \in 1..Len(sendBuffer') :
                            IsRequest(sendBuffer'[i]) /\ IsRequest(sendBuffer'[j]) => i = j
<1>1. /\ sendBuffer' \in Seq(Seq(Char)) /\ Head(sendBuffer) = sendBuffer[1]
      /\ Len(sendBuffer) \in Nat \ {0} /\ Len(sendBuffer') = Len(sendBuffer) - 1
      /\ \A i \in 1..Len(sendBuffer') :
            i + 1 \in 1..Len(sendBuffer) /\ sendBuffer'[i] = sendBuffer[i + 1]
  BY TailIs DEF Shape
<1>2. ASSUME NEW i \in 1..Len(sendBuffer'), IsRequest(sendBuffer'[i])
      PROVE  /\ i + 1 \in 1..Len(sendBuffer) /\ IsRequest(sendBuffer[i + 1])
             /\ i \in Nat /\ i # 0
  BY <1>1, <1>2
<1>3. Asked' => Asked
  BY <1>2 DEF Asked, IsRequest
<1>4. ASSUME ~hasty, IsRequest(Head(sendBuffer)), Asked'
      PROVE  FALSE
  <2>1. PICK i \in 1..Len(sendBuffer') : IsRequest(sendBuffer'[i])
    BY <1>4 DEF Asked, IsRequest
  <2>2. 1 \in 1..Len(sendBuffer) /\ IsRequest(sendBuffer[1])
    BY <1>1, <1>4
  <2>3. i + 1 = 1
    BY <1>2, <1>4, <2>1, <2>2 DEF Waits
  <2>4. QED
    BY <1>2, <2>1, <2>3
<1>5. ASSUME ~hasty, NEW i \in 1..Len(sendBuffer'), NEW j \in 1..Len(sendBuffer'),
             IsRequest(sendBuffer'[i]), IsRequest(sendBuffer'[j])
      PROVE  i = j
  <2>1. i + 1 = j + 1
    BY <1>2, <1>5 DEF Waits
  <2>2. QED
    BY <1>2, <1>5, <2>1
<1>6. QED
  BY <1>1, <1>3, <1>4, <1>5

(* The sender: the handler is there before the request leaves, and no      *)
(* other answer.                                                           *)
LEMMA SenderSteps ==
    ASSUME IInv, SendText \/ SetHandler \/ SendRequest
    PROVE  IInv'
<1>1. /\ UNCHANGED <<buffer, position, input, key, net, frame, picked, messages, hasty>>
      /\ named' \in BOOLEAN /\ refused' \in BOOLEAN
  BY DEF SendText, SetHandler, SendRequest, line, inputThread, netThread, setup, IInv, Shape
<1>2. Held' /\ SignalIsHidden'
  BY <1>1 DEF IInv, Held, SignalIsHidden
<1>3. CASE SetHandler
  <2>1. /\ sender = "handler" /\ sender' = "send" /\ handler' = "collect"
        /\ UNCHANGED <<sendBuffer, incoming>>
    BY <1>3 DEF SetHandler
  <2>2. Shape' /\ Busy' /\ UnderWay
    BY <1>1, <2>1 DEF IInv, Shape, LineTypeOK, Busy, UnderWay
  <2>3. Waits'
    BY <1>1, <2>1, <2>2 DEF IInv, Waits
  <2>4. ~hasty => Asked
    BY <2>1, TailIs DEF IInv, Shape, Busy, Asked
  <2>5. Placed'
    BY <1>1, <2>1, <2>4 DEF IInv, Placed, Asked, Clean
  <2>6. QED
    BY <1>2, <2>2, <2>3, <2>5 DEF IInv
<1>4. CASE SendText
  <2>1. /\ sender = "rx" /\ sendBuffer # <<>> /\ ~IsRequest(Head(sendBuffer))
        /\ UNCHANGED <<sender, handler>> /\ sendBuffer' = Tail(sendBuffer)
    BY <1>4 DEF SendText
  <2>2. incoming' = Append(incoming, "chat")
    <3>1. PICK a \in AnswerOf(Head(sendBuffer)) : incoming' = incoming \o a
      BY <1>4 DEF SendText
    <3>2. QED
      BY <2>1, <3>1, CleanThen DEF IInv, Shape
  <2>3. /\ sendBuffer' \in Seq(Seq(Char)) /\ (Asked' => Asked)
        /\ ~hasty => \A i, j \in 1..Len(sendBuffer') :
                         IsRequest(sendBuffer'[i]) /\ IsRequest(sendBuffer'[j]) => i = j
    BY <2>1, Unqueue DEF IInv
  <2>4. Placed' /\ incoming' \in Seq(Frame)
    BY <1>1, <2>1, <2>2, <2>3, ChatArrives DEF IInv
  <2>5. Shape' /\ Busy'
    BY <1>1, <2>1, <2>3, <2>4 DEF IInv, Shape, LineTypeOK, Busy
  <2>6. UnderWay' => UnderWay
    <3>1. UnderWay <=> Asked \/ sender \notin {"off", "rx"} \/ handler = "collect"
      BY DEF UnderWay, Asked
    <3>2. UnderWay' <=> Asked' \/ sender' \notin {"off", "rx"} \/ handler' = "collect"
      BY DEF UnderWay, Asked
    <3>3. QED
      BY <2>1, <2>3, <3>1, <3>2
  <2>7. Waits'
    BY <1>1, <2>3, <2>6 DEF IInv, Waits, IsRequest
  <2>8. QED
    BY <1>2, <2>4, <2>5, <2>7 DEF IInv
<1>5. CASE SendRequest
  <2>1. /\ sender = "send" /\ sender' = "rx" /\ UNCHANGED handler
        /\ sendBuffer' = Tail(sendBuffer)
        /\ sendBuffer # <<>> /\ IsRequest(Head(sendBuffer))
    BY <1>5 DEF SendRequest, IInv, Busy
  <2>2. PICK a \in AnswerOf(Head(sendBuffer)) : incoming' = incoming \o a
    BY <1>5 DEF SendRequest
  <2>3. /\ incoming' \in Seq(Frame)
        /\ Clean(incoming) => \A i, j \in 1..Len(incoming') :
                                  i < j /\ incoming'[i] = "done" => incoming'[j] = "chat"
    BY <2>2, CleanThen DEF IInv, Shape
  <2>4. /\ sendBuffer' \in Seq(Seq(Char)) /\ (~hasty => ~Asked')
        /\ ~hasty => \A i, j \in 1..Len(sendBuffer') :
                         IsRequest(sendBuffer'[i]) /\ IsRequest(sendBuffer'[j]) => i = j
    BY <2>1, Unqueue DEF IInv
  <2>5. Shape' /\ Busy'
    BY <1>1, <2>1, <2>3, <2>4 DEF IInv, Shape, LineTypeOK, Busy
  <2>6. UnderWay
    BY <2>1 DEF UnderWay
  <2>7. Waits'
    BY <1>1, <2>4, <2>6 DEF IInv, Waits, IsRequest
  <2>8. Asked
    BY <2>1, TailIs DEF IInv, Shape, Asked
  <2>9. ~hasty => /\ Clean(incoming) /\ handler = "collect"
                  /\ net = "handle" => frame = "chat"
    BY <2>1, <2>8 DEF IInv, Placed
  <2>10. Placed'
    BY <1>1, <2>1, <2>3, <2>4, <2>9 DEF Placed
  <2>11. QED
    BY <1>2, <2>5, <2>7, <2>10 DEF IInv
<1>6. QED
  BY <1>3, <1>4, <1>5

-----------------------------------------------------------------------------
(* The net thread receives a frame, and finds its handler. *)
LEMMA ReceiveStep ==
    ASSUME IInv, Receive
    PROVE  IInv'
<1>1. /\ UNCHANGED <<buffer, position, input, key, sender, sendBuffer, handler, messages, hasty,
                     named, refused>>
      /\ net = "receive" /\ net' = "handle" /\ incoming # <<>>
      /\ frame' = Head(incoming) /\ picked' = handler /\ incoming' = Tail(incoming)
  BY DEF Receive, line, inputThread, senderThread, setup
<1>2. /\ incoming' \in Seq(Frame) /\ frame' = incoming[1] /\ frame' \in Frame
      /\ Len(incoming) \in Nat \ {0} /\ Len(incoming') = Len(incoming) - 1
      /\ \A i \in 1..Len(incoming') : i + 1 \in 1..Len(incoming) /\ incoming'[i] = incoming[i + 1]
  BY <1>1, TailIs DEF IInv, Shape
<1>3. Shape' /\ Busy' /\ Held' /\ SignalIsHidden'
  BY <1>1, <1>2 DEF IInv, Shape, LineTypeOK, Busy, Held, SignalIsHidden
<1>4. Waits'
  BY <1>1 DEF IInv, Waits, UnderWay
<1>5. 1 \in 1..Len(incoming) /\ \A i \in 1..Len(incoming') : 1 < i + 1
  BY <1>2
<1>6. Clean(incoming) => Clean(incoming') /\ frame' = "chat"
  BY <1>2, <1>5 DEF Clean
<1>7. ~hasty /\ frame' = "done" => Clean(incoming')
  <2>1. ~hasty => \A i, j \in 1..Len(incoming) :
                      i < j /\ incoming[i] = "done" => incoming[j] = "chat"
    BY DEF IInv, Placed
  <2>2. QED
    BY <1>2, <1>5, <2>1 DEF Clean
<1>8. ~hasty => \A i, j \in 1..Len(incoming') :
                    i < j /\ incoming'[i] = "done" => incoming'[j] = "chat"
  <2>1. SUFFICES ASSUME ~hasty, NEW i \in 1..Len(incoming'), NEW j \in 1..Len(incoming'),
                        i < j, incoming'[i] = "done"
                 PROVE  incoming'[j] = "chat"
    OBVIOUS
  <2>2. i + 1 < j + 1
    BY <2>1
  <2>3. QED
    BY <1>2, <2>1, <2>2 DEF IInv, Placed
<1>9. Placed'
  <2>1. CASE hasty
    BY <1>1, <2>1 DEF Placed
  <2>2. CASE ~hasty
    <3>1. handler = "chat" => Clean(incoming') /\ frame' = "chat"
      BY <1>6, <2>2 DEF IInv, Placed
    <3>2. Asked' => Clean(incoming') /\ frame' = "chat"
      BY <1>1, <1>6, <2>2 DEF IInv, Placed, Asked
    <3>3. handler \in {"chat", "collect"}
      BY DEF IInv, Shape
    <3>4. sender' = "send" => handler' = "collect"
      BY <1>1, <2>2 DEF IInv, Placed
    <3>5. QED
      BY <1>1, <1>7, <1>8, <2>2, <3>1, <3>2, <3>3, <3>4 DEF Placed
  <2>3. QED
    BY <2>1, <2>2
<1>10. QED
  BY <1>3, <1>4, <1>9 DEF IInv

(* The handler of messages shows messages only. *)
LEMMA ShowStep ==
    ASSUME IInv, ShowMessage
    PROVE  IInv'
<1>1. /\ UNCHANGED <<buffer, position, input, key, sender, sendBuffer, handler, incoming, hasty,
                     named, refused>>
      /\ net = "handle" /\ net' = "receive" /\ picked = "chat"
      /\ frame' = "chat" /\ picked' = "chat" /\ messages' = Append(messages, frame)
  BY DEF ShowMessage, line, inputThread, senderThread, setup
<1>2. /\ messages' \in Seq(Frame) /\ Len(messages') = Len(messages) + 1 /\ Len(messages) \in Nat
      /\ \A i \in 1..Len(messages) : messages'[i] = messages[i]
      /\ messages'[Len(messages) + 1] = frame
  BY <1>1, AppendIs DEF IInv, Shape
<1>3. SignalIsHidden'
  <2>1. ~hasty => frame = "chat"
    BY <1>1 DEF IInv, Placed
  <2>2. \A i \in 1..Len(messages') : i \in 1..Len(messages) \/ i = Len(messages) + 1
    BY <1>2
  <2>3. QED
    BY <1>1, <1>2, <2>1, <2>2 DEF IInv, SignalIsHidden
<1>4. Shape' /\ Busy' /\ Held'
  BY <1>1, <1>2 DEF IInv, Shape, LineTypeOK, Busy, Held, Frame
<1>5. Waits'
  BY <1>1 DEF IInv, Waits, UnderWay
<1>6. Placed'
  BY <1>1 DEF IInv, Placed, Asked, Clean
<1>7. QED
  BY <1>3, <1>4, <1>5, <1>6 DEF IInv

(* The handler of an answer gives way at its end, when nothing of it is    *)
(* left.                                                                   *)
LEMMA CollectStep ==
    ASSUME IInv, Collect
    PROVE  IInv'
<1>1. /\ UNCHANGED <<buffer, position, input, key, sender, sendBuffer, incoming, messages, hasty,
                     named, refused>>
      /\ net = "handle" /\ net' = "receive" /\ frame' = "chat" /\ picked' = "chat"
      /\ handler' = IF frame = "done" THEN "chat" ELSE handler
  BY DEF Collect, line, inputThread, senderThread, setup
<1>2. Shape' /\ Busy' /\ Held' /\ SignalIsHidden'
  BY <1>1 DEF IInv, Shape, LineTypeOK, Busy, Held, SignalIsHidden, Frame
<1>3. Waits'
  BY <1>1 DEF IInv, Waits, UnderWay
<1>4. sender = "send" => Asked
  BY TailIs DEF IInv, Shape, Busy, Asked
<1>5. Placed'
  BY <1>1, <1>4 DEF IInv, Placed, Asked, Clean
<1>6. QED
  BY <1>2, <1>3, <1>5 DEF IInv

(* Somebody else says something. *)
LEMMA TalkStep ==
    ASSUME IInv, OthersTalk
    PROVE  IInv'
<1>1. /\ UNCHANGED <<buffer, position, input, key, sender, sendBuffer, net, frame, picked,
                     handler, messages, hasty, named, refused>>
      /\ incoming' = Append(incoming, "chat")
  BY DEF OthersTalk, line, inputThread, senderThread, netThread, setup
<1>2. Asked' => Asked
  BY <1>1 DEF Asked
<1>3. Placed' /\ incoming' \in Seq(Frame)
  BY <1>1, <1>2, ChatArrives DEF IInv
<1>4. Shape' /\ Busy' /\ Held' /\ SignalIsHidden'
  BY <1>1, <1>3 DEF IInv, Shape, LineTypeOK, Busy, Held, SignalIsHidden
<1>5. Waits'
  BY <1>1 DEF IInv, Waits, UnderWay
<1>6. QED
  BY <1>3, <1>4, <1>5 DEF IInv

-----------------------------------------------------------------------------
(* The strengthened invariant holds at the start, and is inductive. *)
LEMMA InvariantInit == Init => IInv
<1> SUFFICES ASSUME Init PROVE IInv
  OBVIOUS
<1>1. Shape
  <2>1. LineTypeOK
    BY LineAssumption DEF Init, EmptyLine, LineTypeOK
  <2>2. sendBuffer \in Seq(Seq(Char)) /\ incoming \in Seq(Frame) /\ messages \in Seq(Frame)
    BY DEF Init
  <2>3. QED
    BY <2>1, <2>2 DEF Init, Shape, Frame
<1>2. Len(sendBuffer) = 0 /\ Len(incoming) = 0 /\ Len(messages) = 0
  BY DEF Init
<1>3. Busy /\ Held /\ SignalIsHidden
  BY <1>2 DEF Init, Busy, Held, SignalIsHidden
<1>4. Waits
  BY <1>2 DEF Init, Waits, Leaves
<1>5. Placed
  BY <1>2 DEF Init, Placed, Clean, Asked
<1>6. QED
  BY <1>1, <1>3, <1>4, <1>5 DEF IInv

LEMMA InvariantStep == IInv /\ [Next]_vars => IInv'
<1>1. ASSUME IInv, UNCHANGED vars
      PROVE  IInv'
  <2>1. UNCHANGED <<line, sendBuffer, incoming, messages, frame, picked, handler, hasty, input,
                    key, net, sender, named, refused>>
    BY <1>1 DEF vars, inputThread, senderThread, netThread, setup
  <2>2. Busy' /\ Held' /\ (UnderWay' => UnderWay)
    BY <1>1, <2>1 DEF IInv, Busy, Held, UnderWay
  <2>3. QED
    BY <1>1, <2>1, <2>2, QuietStep DEF IInv, Shape
<1>2. ASSUME IInv, Next
      PROVE  IInv'
  BY <1>2, IdleSteps, LeavingSteps, EditStep, SenderSteps, ReceiveStep, ShowStep, CollectStep,
     TalkStep DEF Next, Input, Sender, Net
<1>3. QED
  BY <1>1, <1>2

(* The lines of an answer, and the signal of its end, are never taken for  *)
(* messages (Client.cpp 161-169).                                          *)
THEOREM AnswerIsNoMessage == Spec => []SignalIsHidden
<1>1. IInv => SignalIsHidden
  BY DEF IInv
<1>2. QED
  BY <1>1, InvariantInit, InvariantStep, PTL DEF Spec

-----------------------------------------------------------------------------
(* The four flags.  At any moment they are those of editing or those of    *)
(* the answer's screen, but for the ones that the sender, or the hook for  *)
(* q, has already switched; and the two are not on their way together.     *)
Entered == <<{"enter2", "enter3", "enter4", "clear", "handler", "send"},
             {"enter3", "enter4", "clear", "handler", "send"},
             {"enter4", "clear", "handler", "send"},
             {"clear", "handler", "send"}>>
Left == <<{"leave2", "leave3", "leave4", "redraw", "restore"},
          {"leave3", "leave4", "redraw", "restore"},
          {"leave4", "redraw", "restore"},
          {"redraw", "restore"}>>

Modes(editing) ==
    /\ inputHooks[0] <=> sender \notin Entered[1] /\ (input \in Left[1] \/ editing)
    /\ renderHooks[1] <=> sender \notin Entered[2] /\ (input \in Left[3] \/ editing)
    /\ renderHooks[0] <=> sender \notin Entered[3] /\ (input \in Left[4] \/ editing)
    /\ inputHooks[1] <=> sender \in Entered[4] \/ (input \notin Left[2] /\ ~editing)

(* A user who waits, and a sort that leaves the hooks alone. *)
Calm == ~hasty /\ library = "libc++"

Switching ==
    /\ library = "libc++" =>
          input \notin {"sort", "putBack"} /\ renderer \notin {"sort", "putBack"}
    /\ inputHooks \in [Group -> BOOLEAN] /\ renderHooks \in [Group -> BOOLEAN]
    /\ net \in {"push", "hide"} =>
          /\ sender = "off"
          /\ Calm => inputHooks[0] /\ renderHooks[0] /\ renderHooks[1]
    /\ sender \in {"off", "rx"} \cup Entered[1]
    /\ Calm /\ net \notin {"push", "hide"} => \E editing \in BOOLEAN : Modes(editing)

(* No flag is switched, and nobody comes to switch the next. *)
LEMMA SameModes ==
    ASSUME Switching, UNCHANGED hooks, Calm' => Calm, library' = library,
           input' \in {"sort", "putBack"} => library # "libc++",
           renderer' \in {"sort", "putBack"} => library # "libc++",
           net' \in {"push", "hide"} <=> net \in {"push", "hide"},
           sender' \in {"off", "rx"} \cup Entered[1], sender' = sender \/ sender # "off",
           \A n \in 1..4 : /\ sender' \in Entered[n] <=> sender \in Entered[n]
                           /\ input' \in Left[n] <=> input \in Left[n]
    PROVE  Switching'
<1>1. UNCHANGED <<inputHooks, renderHooks>>
  BY DEF hooks
<1>2. ASSUME NEW e \in BOOLEAN, Modes(e)
      PROVE  Modes(e)'
  BY <1>1, <1>2 DEF Modes
<1>3. QED
  BY <1>1, <1>2 DEF Switching

(* The four switches of the sender. *)
LEMMA EnterModes ==
    ASSUME IInv, Switching, EnterScreen
    PROVE  Switching'
<1>1. PICK n \in 1..4 : sender = EnterAt[n] /\ sender' = EnterAt[n + 1] /\ Switch(Entering[n])
  BY DEF EnterScreen
<1>2. UNCHANGED <<input, net, hasty, library, renderer>>
  BY DEF EnterScreen, inputThread, netThread, renderThread, setup
<1>3. sender # "off" /\ sender' \in Entered[1]
  BY <1>1 DEF EnterAt, Entered
<1>4. net \notin {"push", "hide"}
  BY <1>3 DEF Switching
<1>5. ~hasty => input \notin Leaves
  <2>1. UnderWay
    BY TailIs DEF EnterScreen, UnderWay, IInv, Shape
  <2>2. QED
    BY <2>1 DEF IInv, Waits
<1>6. ~hasty => /\ input \notin Left[1] /\ input \notin Left[2]
                /\ input \notin Left[3] /\ input \notin Left[4]
  BY <1>5 DEF Left, Leaves
<1>7. /\ inputHooks' \in [Group -> BOOLEAN] /\ renderHooks' \in [Group -> BOOLEAN]
      /\ \A e \in BOOLEAN : ~hasty /\ Modes(e) => Modes(e)'
  <2>1. CASE n = 1
    <3>1. sender = "rx" /\ sender' = "enter2"
      BY <1>1, <2>1 DEF EnterAt
    <3>2. /\ inputHooks' \in [Group -> BOOLEAN] /\ renderHooks' \in [Group -> BOOLEAN]
          /\ inputHooks'[0] = FALSE /\ inputHooks'[1] = inputHooks[1]
          /\ renderHooks'[0] = renderHooks[0] /\ renderHooks'[1] = renderHooks[1]
      <4>1. Entering[n] = [which |-> "input", group |-> 0, to |-> FALSE]
        BY <2>1 DEF Entering, Set
      <4>2. Entering[n].which = "input" /\ Entering[n].group = 0 /\ Entering[n].to = FALSE
        BY <4>1
      <4>3. /\ inputHooks' = [inputHooks EXCEPT ![0] = FALSE]
            /\ renderHooks' = renderHooks
        BY <1>1, <4>2 DEF Switch, set_active
      <4>4. QED
        BY <4>3 DEF Switching, Group
    <3>3. /\ sender \notin Entered[1] /\ sender \notin Entered[2]
          /\ sender \notin Entered[3] /\ sender \notin Entered[4]
      BY <3>1 DEF Entered
    <3>4. /\ sender' \in Entered[1] /\ sender' \notin Entered[2]
          /\ sender' \notin Entered[3] /\ sender' \notin Entered[4]
      BY <3>1 DEF Entered
    <3>5. QED
      BY <1>2, <1>6, <3>2, <3>3, <3>4 DEF Modes
  <2>2. CASE n = 2
    <3>1. sender = "enter2" /\ sender' = "enter3"
      BY <1>1, <2>2 DEF EnterAt
    <3>2. /\ inputHooks' \in [Group -> BOOLEAN] /\ renderHooks' \in [Group -> BOOLEAN]
          /\ inputHooks'[0] = inputHooks[0] /\ inputHooks'[1] = inputHooks[1]
          /\ renderHooks'[0] = renderHooks[0] /\ renderHooks'[1] = FALSE
      <4>1. Entering[n] = [which |-> "render", group |-> 1, to |-> FALSE]
        BY <2>2 DEF Entering, Set
      <4>2. Entering[n].which = "render" /\ Entering[n].group = 1 /\ Entering[n].to = FALSE
        BY <4>1
      <4>3. /\ inputHooks' = inputHooks
            /\ renderHooks' = [renderHooks EXCEPT ![1] = FALSE]
        BY <1>1, <4>2 DEF Switch, set_active
      <4>4. QED
        BY <4>3 DEF Switching, Group
    <3>3. /\ sender \in Entered[1] /\ sender \notin Entered[2]
          /\ sender \notin Entered[3] /\ sender \notin Entered[4]
      BY <3>1 DEF Entered
    <3>4. /\ sender' \in Entered[1] /\ sender' \in Entered[2]
          /\ sender' \notin Entered[3] /\ sender' \notin Entered[4]
      BY <3>1 DEF Entered
    <3>5. QED
      BY <1>2, <1>6, <3>2, <3>3, <3>4 DEF Modes
  <2>3. CASE n = 3
    <3>1. sender = "enter3" /\ sender' = "enter4"
      BY <1>1, <2>3 DEF EnterAt
    <3>2. /\ inputHooks' \in [Group -> BOOLEAN] /\ renderHooks' \in [Group -> BOOLEAN]
          /\ inputHooks'[0] = inputHooks[0] /\ inputHooks'[1] = inputHooks[1]
          /\ renderHooks'[0] = FALSE /\ renderHooks'[1] = renderHooks[1]
      <4>1. Entering[n] = [which |-> "render", group |-> 0, to |-> FALSE]
        BY <2>3 DEF Entering, Set
      <4>2. Entering[n].which = "render" /\ Entering[n].group = 0 /\ Entering[n].to = FALSE
        BY <4>1
      <4>3. /\ inputHooks' = inputHooks
            /\ renderHooks' = [renderHooks EXCEPT ![0] = FALSE]
        BY <1>1, <4>2 DEF Switch, set_active
      <4>4. QED
        BY <4>3 DEF Switching, Group
    <3>3. /\ sender \in Entered[1] /\ sender \in Entered[2]
          /\ sender \notin Entered[3] /\ sender \notin Entered[4]
      BY <3>1 DEF Entered
    <3>4. /\ sender' \in Entered[1] /\ sender' \in Entered[2]
          /\ sender' \in Entered[3] /\ sender' \notin Entered[4]
      BY <3>1 DEF Entered
    <3>5. QED
      BY <1>2, <1>6, <3>2, <3>3, <3>4 DEF Modes
  <2>4. CASE n = 4
    <3>1. sender = "enter4" /\ sender' = "clear"
      BY <1>1, <2>4 DEF EnterAt
    <3>2. /\ inputHooks' \in [Group -> BOOLEAN] /\ renderHooks' \in [Group -> BOOLEAN]
          /\ inputHooks'[0] = inputHooks[0] /\ inputHooks'[1] = TRUE
          /\ renderHooks'[0] = renderHooks[0] /\ renderHooks'[1] = renderHooks[1]
      <4>1. Entering[n] = [which |-> "input", group |-> 1, to |-> TRUE]
        BY <2>4 DEF Entering, Set
      <4>2. Entering[n].which = "input" /\ Entering[n].group = 1 /\ Entering[n].to = TRUE
        BY <4>1
      <4>3. /\ inputHooks' = [inputHooks EXCEPT ![1] = TRUE]
            /\ renderHooks' = renderHooks
        BY <1>1, <4>2 DEF Switch, set_active
      <4>4. QED
        BY <4>3 DEF Switching, Group
    <3>3. /\ sender \in Entered[1] /\ sender \in Entered[2]
          /\ sender \in Entered[3] /\ sender \notin Entered[4]
      BY <3>1 DEF Entered
    <3>4. /\ sender' \in Entered[1] /\ sender' \in Entered[2]
          /\ sender' \in Entered[3] /\ sender' \in Entered[4]
      BY <3>1 DEF Entered
    <3>5. QED
      BY <1>2, <1>6, <3>2, <3>3, <3>4 DEF Modes
  <2>5. QED
    BY <2>1, <2>2, <2>3, <2>4
<1>8. QED
  BY <1>2, <1>3, <1>4, <1>7 DEF Switching, Calm

(* The four switches of the hook for q. *)
LEMMA LeaveModes ==
    ASSUME IInv, Switching, LeaveScreen
    PROVE  Switching'
<1>1. PICK n \in 1..4 : input = LeaveAt[n] /\ input' = LeaveAt[n + 1] /\ Switch(Leaving[n])
  BY DEF LeaveScreen
<1>2. UNCHANGED <<sender, net, library, renderer>> /\ (~hasty' => ~hasty)
  BY DEF LeaveScreen, senderThread, netThread, renderThread, setup
<1>3. ~hasty' => sender \in {"off", "rx"}
  <2>1. ~hasty' => ~UnderWay
    <3>1. input = "leave1" \/ input \in Leaves
      BY <1>1 DEF LeaveAt, Leaves
    <3>2. QED
      BY <1>2, <3>1 DEF LeaveScreen, IInv, Waits
  <2>2. QED
    BY <2>1 DEF UnderWay
<1>4. ~hasty' => /\ sender \notin Entered[1] /\ sender \notin Entered[2]
                 /\ sender \notin Entered[3] /\ sender \notin Entered[4]
  BY <1>3 DEF Entered
<1>5. /\ inputHooks' \in [Group -> BOOLEAN] /\ renderHooks' \in [Group -> BOOLEAN]
      /\ inputHooks[0] => inputHooks'[0]
      /\ renderHooks[0] => renderHooks'[0]
      /\ renderHooks[1] => renderHooks'[1]
      /\ \A e \in BOOLEAN : ~hasty' /\ Modes(e) => Modes(e)'
  <2>1. CASE n = 1
    <3>1. input = "leave1" /\ input' = "leave2"
      BY <1>1, <2>1 DEF LeaveAt
    <3>2. /\ inputHooks' \in [Group -> BOOLEAN] /\ renderHooks' \in [Group -> BOOLEAN]
          /\ inputHooks'[0] = TRUE /\ inputHooks'[1] = inputHooks[1]
          /\ renderHooks'[0] = renderHooks[0] /\ renderHooks'[1] = renderHooks[1]
      <4>1. Leaving[n] = [which |-> "input", group |-> 0, to |-> TRUE]
        BY <2>1 DEF Leaving, Set
      <4>2. Leaving[n].which = "input" /\ Leaving[n].group = 0 /\ Leaving[n].to = TRUE
        BY <4>1
      <4>3. /\ inputHooks' = [inputHooks EXCEPT ![0] = TRUE]
            /\ renderHooks' = renderHooks
        BY <1>1, <4>2 DEF Switch, set_active
      <4>4. QED
        BY <4>3 DEF Switching, Group
    <3>3. /\ input \notin Left[1] /\ input \notin Left[2]
          /\ input \notin Left[3] /\ input \notin Left[4]
      BY <3>1 DEF Left
    <3>4. /\ input' \in Left[1] /\ input' \notin Left[2]
          /\ input' \notin Left[3] /\ input' \notin Left[4]
      BY <3>1 DEF Left
    <3>5. QED
      BY <1>2, <1>4, <3>2, <3>3, <3>4 DEF Modes
  <2>2. CASE n = 2
    <3>1. input = "leave2" /\ input' = "leave3"
      BY <1>1, <2>2 DEF LeaveAt
    <3>2. /\ inputHooks' \in [Group -> BOOLEAN] /\ renderHooks' \in [Group -> BOOLEAN]
          /\ inputHooks'[0] = inputHooks[0] /\ inputHooks'[1] = FALSE
          /\ renderHooks'[0] = renderHooks[0] /\ renderHooks'[1] = renderHooks[1]
      <4>1. Leaving[n] = [which |-> "input", group |-> 1, to |-> FALSE]
        BY <2>2 DEF Leaving, Set
      <4>2. Leaving[n].which = "input" /\ Leaving[n].group = 1 /\ Leaving[n].to = FALSE
        BY <4>1
      <4>3. /\ inputHooks' = [inputHooks EXCEPT ![1] = FALSE]
            /\ renderHooks' = renderHooks
        BY <1>1, <4>2 DEF Switch, set_active
      <4>4. QED
        BY <4>3 DEF Switching, Group
    <3>3. input \in Left[1] /\ input \notin Left[2] /\ input \notin Left[3] /\ input \notin Left[4]
      BY <3>1 DEF Left
    <3>4. input' \in Left[1] /\ input' \in Left[2] /\ input' \notin Left[3] /\ input' \notin Left[4]
      BY <3>1 DEF Left
    <3>5. QED
      BY <1>2, <1>4, <3>2, <3>3, <3>4 DEF Modes
  <2>3. CASE n = 3
    <3>1. input = "leave3" /\ input' = "leave4"
      BY <1>1, <2>3 DEF LeaveAt
    <3>2. /\ inputHooks' \in [Group -> BOOLEAN] /\ renderHooks' \in [Group -> BOOLEAN]
          /\ inputHooks'[0] = inputHooks[0] /\ inputHooks'[1] = inputHooks[1]
          /\ renderHooks'[0] = renderHooks[0] /\ renderHooks'[1] = TRUE
      <4>1. Leaving[n] = [which |-> "render", group |-> 1, to |-> TRUE]
        BY <2>3 DEF Leaving, Set
      <4>2. Leaving[n].which = "render" /\ Leaving[n].group = 1 /\ Leaving[n].to = TRUE
        BY <4>1
      <4>3. /\ inputHooks' = inputHooks
            /\ renderHooks' = [renderHooks EXCEPT ![1] = TRUE]
        BY <1>1, <4>2 DEF Switch, set_active
      <4>4. QED
        BY <4>3 DEF Switching, Group
    <3>3. input \in Left[1] /\ input \in Left[2] /\ input \notin Left[3] /\ input \notin Left[4]
      BY <3>1 DEF Left
    <3>4. input' \in Left[1] /\ input' \in Left[2] /\ input' \in Left[3] /\ input' \notin Left[4]
      BY <3>1 DEF Left
    <3>5. QED
      BY <1>2, <1>4, <3>2, <3>3, <3>4 DEF Modes
  <2>4. CASE n = 4
    <3>1. input = "leave4" /\ input' = "redraw"
      BY <1>1, <2>4 DEF LeaveAt
    <3>2. /\ inputHooks' \in [Group -> BOOLEAN] /\ renderHooks' \in [Group -> BOOLEAN]
          /\ inputHooks'[0] = inputHooks[0] /\ inputHooks'[1] = inputHooks[1]
          /\ renderHooks'[0] = TRUE /\ renderHooks'[1] = renderHooks[1]
      <4>1. Leaving[n] = [which |-> "render", group |-> 0, to |-> TRUE]
        BY <2>4 DEF Leaving, Set
      <4>2. Leaving[n].which = "render" /\ Leaving[n].group = 0 /\ Leaving[n].to = TRUE
        BY <4>1
      <4>3. /\ inputHooks' = inputHooks
            /\ renderHooks' = [renderHooks EXCEPT ![0] = TRUE]
        BY <1>1, <4>2 DEF Switch, set_active
      <4>4. QED
        BY <4>3 DEF Switching, Group
    <3>3. input \in Left[1] /\ input \in Left[2] /\ input \in Left[3] /\ input \notin Left[4]
      BY <3>1 DEF Left
    <3>4. input' \in Left[1] /\ input' \in Left[2] /\ input' \in Left[3] /\ input' \in Left[4]
      BY <3>1 DEF Left
    <3>5. QED
      BY <1>2, <1>4, <3>2, <3>3, <3>4 DEF Modes
  <2>5. QED
    BY <2>1, <2>2, <2>3, <2>4
<1>6. input' \notin {"sort", "putBack"}
  BY <1>1 DEF LeaveAt
<1>7. QED
  BY <1>2, <1>5, <1>6 DEF Switching, Calm

(* Both are over. *)
LEMMA RestoredModes ==
    ASSUME IInv, Switching, RestoreHandler
    PROVE  Switching'
<1>1. /\ input = "restore" /\ input' = "read"
      /\ UNCHANGED <<sender, net, hasty, library, renderer, inputHooks, renderHooks>>
  BY DEF RestoreHandler, senderThread, netThread, renderThread, setup, hooks
<1>2. ~hasty => sender \in {"off", "rx"}
  BY <1>1 DEF IInv, Waits, Leaves, UnderWay
<1>3. ~hasty => \A m \in 1..4 : sender \notin Entered[m]
  BY <1>2 DEF Entered
<1>4. \A m \in 1..4 : input \in Left[m] /\ input' \notin Left[m]
  BY <1>1 DEF Left
<1>5. ASSUME ~hasty, NEW e \in BOOLEAN, Modes(e)
      PROVE  Modes(TRUE)'
  BY <1>1, <1>3, <1>4, <1>5 DEF Modes
<1>6. QED
  BY <1>1, <1>5 DEF Switching, Calm

LEMMA RequestedModes ==
    ASSUME IInv, Switching, SendRequest
    PROVE  Switching'
<1>1. /\ sender = "send" /\ sender' = "rx"
      /\ UNCHANGED <<input, net, hasty, library, renderer, inputHooks, renderHooks>>
  BY DEF SendRequest, inputThread, netThread, renderThread, hooks
<1>2. ~hasty => input \notin Leaves
  BY <1>1 DEF IInv, Waits, UnderWay
<1>3. ~hasty => \A m \in 1..4 : input \notin Left[m]
  BY <1>2 DEF Left, Leaves
<1>4. \A m \in 1..4 : sender \in Entered[m] /\ sender' \notin Entered[m]
  BY <1>1 DEF Entered
<1>5. ASSUME ~hasty, NEW e \in BOOLEAN, Modes(e)
      PROVE  Modes(FALSE)'
  BY <1>1, <1>3, <1>4, <1>5 DEF Modes
<1>6. QED
  BY <1>1, <1>5 DEF Switching, Calm

(* Before the sender has started, the line is edited whatever the hook for *)
(* q says.                                                                 *)
LEMMA HookModes ==
    ASSUME Switching, PushHook \/ HideHook
    PROVE  Switching'
<1>1. UNCHANGED <<input, hasty, library, renderer, renderHooks>>
  BY DEF PushHook, HideHook, inputThread, renderThread, setup
<1>2. PICK to \in BOOLEAN : inputHooks' = [inputHooks EXCEPT ![1] = to] /\ (HideHook => ~to)
  BY DEF PushHook, HideHook, set_active
<1>3. /\ inputHooks' \in [Group -> BOOLEAN] /\ renderHooks' \in [Group -> BOOLEAN]
      /\ inputHooks'[0] = inputHooks[0] /\ inputHooks'[1] = to
  BY <1>1, <1>2 DEF Switching, Group
<1>4. net \in {"push", "hide"}
  BY DEF PushHook, HideHook
<1>5. CASE PushHook
  <2>1. net' = "hide" /\ sender' = sender
    BY <1>5 DEF PushHook, senderThread
  <2>2. QED
    BY <1>1, <1>3, <1>4, <2>1 DEF Switching, Calm
<1>6. CASE HideHook
  <2>1. net' = "receive" /\ sender' = "rx"
    BY <1>6 DEF HideHook
  <2>2. \A m \in 1..4 : sender' \notin Entered[m]
    BY <2>1 DEF Entered
  <2>3. Calm' => Modes(TRUE)'
    BY <1>1, <1>2, <1>3, <1>4, <1>6, <2>2 DEF Modes, Switching, Calm
  <2>4. QED
    BY <1>1, <1>3, <2>1, <2>3 DEF Switching
<1>7. QED
  BY <1>5, <1>6

(* The others have nothing to do with it. *)
LEMMA InputModes ==
    ASSUME Switching,
           \/ \E k \in Keys : ReadKey(k)
           \/ \E g \in Group : CopyInputHook(g)
           \/ Edit
           \/ Redraw
    PROVE  Switching'
<1>1. UNCHANGED <<hooks, sender, net, library, renderer>> /\ (Calm' => Calm)
  <2>1. UNCHANGED <<hooks, sender, net, library, renderer>>
    BY DEF ReadKey, CopyInputHook, Edit, Redraw, hooks, senderThread, netThread, renderThread,
       setup
  <2>2. CASE Edit
    <3>1. \/ UNCHANGED hasty
          \/ SubmitLine
      BY <2>2 DEF Edit
    <3>2. UNCHANGED hasty \/ hasty' = (hasty \/ (IsRequest(buffer) /\ UnderWay))
      BY <3>1 DEF SubmitLine
    <3>3. Calm' => Calm
      BY <2>1, <3>2 DEF Calm
    <3>4. QED
      BY <2>1, <3>3
  <2>3. CASE ~Edit
    BY <2>1, <2>3 DEF ReadKey, CopyInputHook, Redraw, Calm
  <2>4. QED
    BY <2>2, <2>3
<1>2. \/ input = "redraw" /\ input' = "restore"
      \/ /\ input \in {"read", "copy0", "copy1", "edit"}
         /\ input' \in {AfterWaking, "read", "copy1", "edit", "leave1"}
  BY DEF ReadKey, CopyInputHook, Edit, Redraw, Group
<1>3. /\ \A m \in 1..4 : input' \in Left[m] <=> input \in Left[m]
      /\ input' \in {"sort", "putBack"} => library # "libc++"
  BY <1>2 DEF Left, AfterWaking
<1>4. QED
  BY <1>1, <1>3, SameModes DEF Switching

(* The sorts that move a hook are those of the other library. *)
LEMMA SortModes ==
    ASSUME Switching, MoveInputHook \/ MoveRenderHook
    PROVE  Switching'
<1>1. /\ library # "libc++" /\ UNCHANGED <<library, sender, net>>
  BY DEF MoveInputHook, MoveRenderHook, Switching, setup, senderThread, netThread
<1>2. \/ UNCHANGED hooks
      \/ inputHooks' = [inputHooks EXCEPT ![1] = (1 \in inputCopy)] /\ UNCHANGED renderHooks
      \/ renderHooks' = [renderHooks EXCEPT ![1] = (1 \in renderCopy)] /\ UNCHANGED inputHooks
  BY DEF MoveInputHook, MoveRenderHook, set_active, hooks
<1>3. (1 \in inputCopy) \in BOOLEAN /\ (1 \in renderCopy) \in BOOLEAN
  OBVIOUS
<1>4. inputHooks' \in [Group -> BOOLEAN] /\ renderHooks' \in [Group -> BOOLEAN]
  BY <1>2, <1>3 DEF Switching, hooks
<1>5. QED
  BY <1>1, <1>4 DEF Switching, Calm

LEMMA OtherModes ==
    ASSUME Switching,
           \/ SendText \/ ClearDisplay \/ SetHandler \/ Receive \/ ShowMessage \/ Collect
           \/ OthersTalk \/ AwaitRefresh \/ (\E g \in Group : CopyRenderHook(g)) \/ Flush
           \/ UNCHANGED vars
    PROVE  Switching'
<1>1. UNCHANGED <<hooks, input, hasty, library>>
  BY DEF SendText, ClearDisplay, SetHandler, Receive, ShowMessage, Collect, OthersTalk,
         AwaitRefresh, CopyRenderHook, Flush, vars, inputThread, setup
<1>2. \/ sender' = sender
      \/ (sender = "clear" /\ sender' = "handler") \/ (sender = "handler" /\ sender' = "send")
  BY DEF SendText, ClearDisplay, SetHandler, Receive, ShowMessage, Collect, OthersTalk,
         AwaitRefresh, CopyRenderHook, Flush, vars, senderThread
<1>3. net' = net \/ {net, net'} \subseteq {"receive", "handle"}
  BY DEF SendText, ClearDisplay, SetHandler, Receive, ShowMessage, Collect, OthersTalk,
         AwaitRefresh, CopyRenderHook, Flush, vars, netThread
<1>4. renderer' = renderer \/ renderer' \in {AfterWaking, "copy1", "print", "wait"}
  BY DEF SendText, ClearDisplay, SetHandler, Receive, ShowMessage, Collect, OthersTalk,
         AwaitRefresh, CopyRenderHook, Flush, vars, renderThread, Group
<1>5. /\ \A m \in 1..4 : sender' \in Entered[m] <=> sender \in Entered[m]
      /\ sender' \in {"off", "rx"} \cup Entered[1]
      /\ sender' = sender \/ sender # "off"
  BY <1>2 DEF Entered, Switching
<1>6. net' \in {"push", "hide"} <=> net \in {"push", "hide"}
  BY <1>3
<1>7. /\ input' \in {"sort", "putBack"} => library # "libc++"
      /\ renderer' \in {"sort", "putBack"} => library # "libc++"
  BY <1>1, <1>4 DEF Switching, AfterWaking
<1>8. QED
  BY <1>1, <1>5, <1>6, <1>7, SameModes DEF Calm

(* The modes at any moment. *)
LEMMA SwitchingHolds == Spec => []Switching
<1>1. Init => Switching
  BY DEF Init, Switching, Group
<1>2. IInv /\ Switching /\ [Next]_vars => Switching'
  BY EnterModes, LeaveModes, RestoredModes, RequestedModes, HookModes, InputModes, SortModes,
     OtherModes DEF Next, Input, Sender, Net, Renderer
<1>3. QED
  BY <1>1, <1>2, InvariantInit, InvariantStep, PTL DEF Spec

(* Three threads switch four flags one by one, and when nothing is on its  *)
(* way they agree, in a build whose sort leaves the hooks alone: the line  *)
(* is edited and the messages are drawn, or the screen is the answer's and *)
(* waits for q (Client.cpp 136-156).                                       *)
THEOREM ModesComeTogether == Spec => []ModesAgree
<1>1. Switching => ModesAgree
  <2>1. SUFFICES ASSUME Switching, Quiet, ~hasty, library = "libc++"
                 PROVE  /\ inputHooks[0] = ~inputHooks[1]
                        /\ inputHooks[0] = renderHooks[0] /\ inputHooks[0] = renderHooks[1]
    BY DEF ModesAgree
  <2>2. PICK e \in BOOLEAN : Modes(e)
    BY <2>1 DEF Switching, Quiet, Calm
  <2>3. \A m \in 1..4 : sender \notin Entered[m] /\ input \notin Left[m]
    BY <2>1 DEF Quiet, Entered, Left
  <2>4. /\ inputHooks[0] \in BOOLEAN /\ inputHooks[1] \in BOOLEAN
        /\ renderHooks[0] \in BOOLEAN /\ renderHooks[1] \in BOOLEAN
    BY <2>1 DEF Switching, Group
  <2>5. /\ inputHooks[0] <=> e
        /\ inputHooks[1] <=> ~e
        /\ renderHooks[0] <=> e
        /\ renderHooks[1] <=> e
    BY <2>2, <2>3 DEF Modes
  <2>6. QED
    BY <2>4, <2>5
<1>2. QED
  BY <1>1, SwitchingHolds, PTL

-----------------------------------------------------------------------------
(* What the terminal shows.  The line is edited and nothing of it, or of   *)
(* the screen, is being switched.                                          *)
Editing ==
    /\ inputHooks[0] /\ sender \in {"off", "rx"}
    /\ input \notin {"leave2", "leave3", "leave4", "redraw"}

(* While an answer is awaited the line is not edited; who was picked to    *)
(* collect a frame is still the handler.                                   *)
Collecting ==
    Calm =>
        /\ handler = "collect" => ~inputHooks[0]
        /\ net = "handle" /\ picked = "collect" => handler = "collect"

Window == [window |-> Len(messages), answer |-> 0, prompt |-> FALSE]

(* Unless a redraw has been asked for, the window is on the screen, or the *)
(* renderer is about to put it there.                                      *)
Current ==
    Calm /\ Editing /\ ~refresh =>
        /\ renderer = "wait" => display = Window
        /\ renderer = "copy1" => 0 \in renderCopy
        /\ renderer = "print" => 0 \in renderCopy /\ drawn = Len(messages)

(* Who edits draws. *)
LEMMA EditingDraws ==
    ASSUME IInv, Switching, Calm, Editing
    PROVE  renderHooks[0] /\ renderHooks[1]
<1>1. CASE net \in {"push", "hide"}
  BY <1>1 DEF Switching
<1>2. CASE net \notin {"push", "hide"}
  <2>1. PICK e \in BOOLEAN : Modes(e)
    BY <1>2 DEF Switching
  <2>2. \A m \in 1..4 : sender \notin Entered[m]
    BY DEF Editing, Entered
  <2>3. CASE input = "restore"
    <3>1. input \in Left[3] /\ input \in Left[4]
      BY <2>3 DEF Left
    <3>2. QED
      BY <2>1, <2>2, <3>1 DEF Modes, Switching, Group
  <2>4. CASE input # "restore"
    <3>1. input \notin Left[1]
      BY <2>4 DEF Left, Editing
    <3>2. QED
      BY <2>1, <2>2, <3>1 DEF Modes, Switching, Group, Editing
  <2>5. QED
    BY <2>3, <2>4
<1>3. QED
  BY <1>1, <1>2

(* Who asks has stopped editing. *)
LEMMA AskingHides ==
    ASSUME IInv, Switching, Calm, sender \in Entered[1]
    PROVE  ~inputHooks[0]
<1>1. net \notin {"push", "hide"}
  BY DEF Switching, Entered
<1>2. PICK e \in BOOLEAN : Modes(e)
  BY <1>1 DEF Switching
<1>3. QED
  BY <1>2 DEF Modes, Switching, Group

(* No hook is moved. *)
LEMMA NoneMoved ==
    ASSUME Switching, Calm PROVE ~MoveInputHook /\ ~MoveRenderHook
  BY DEF Switching, Calm, MoveInputHook, MoveRenderHook

(* A user in a hurry stays one, and a build what it is. *)
LEMMA CalmStays ==
    ASSUME [Next]_vars, Calm' PROVE Calm
<1>1. CASE Edit
  <2>1. UNCHANGED hasty \/ hasty' = (hasty \/ (IsRequest(buffer) /\ UnderWay))
    BY <1>1 DEF Edit, SubmitLine
  <2>2. UNCHANGED library
    BY <1>1 DEF Edit, setup
  <2>3. ~hasty' => ~hasty
    BY <2>1
  <2>4. QED
    BY <2>2, <2>3 DEF Calm
<1>2. CASE LeaveScreen
  BY <1>2 DEF LeaveScreen, setup, Calm
<1>3. CASE UNCHANGED <<hasty, library>>
  BY <1>3 DEF Calm
<1>4. QED
  BY <1>1, <1>2, <1>3 DEF Next, Input, Sender, Net, Renderer, ReadKey, MoveInputHook,
     CopyInputHook, Redraw, RestoreHandler, SendText, EnterScreen, ClearDisplay, SetHandler,
     SendRequest, PushHook, HideHook, Receive, ShowMessage, Collect, OthersTalk, AwaitRefresh,
     MoveRenderHook, CopyRenderHook, Flush, vars, setup

LEMMA CollectingStep ==
    ASSUME IInv, Switching, Collecting, [Next]_vars PROVE Collecting'
<1> SUFFICES ASSUME Calm' PROVE Collecting'
  BY DEF Collecting
<1>1. Calm /\ ~hasty /\ ~hasty'
  BY CalmStays DEF Calm
<1>2. CASE UNCHANGED <<inputHooks, net, picked, handler>>
  BY <1>1, <1>2 DEF Collecting
<1>3. CASE LeaveScreen
  <2>1. input = "leave1" \/ input \in Leaves
    BY <1>3 DEF LeaveScreen, LeaveAt, Leaves
  <2>2. ~UnderWay
    BY <1>1, <1>3, <2>1 DEF LeaveScreen, IInv, Waits
  <2>3. UNCHANGED <<net, picked, handler>> /\ handler # "collect"
    BY <1>3, <2>2 DEF LeaveScreen, netThread, UnderWay
  <2>4. QED
    BY <1>1, <2>3 DEF Collecting
<1>4. CASE RestoreHandler
  <2>1. input \in Leaves /\ handler' = "chat" /\ UNCHANGED <<net, picked>>
    BY <1>4 DEF RestoreHandler, Leaves, netThread
  <2>2. handler # "collect"
    BY <1>1, <2>1 DEF IInv, Waits, UnderWay
  <2>3. QED
    BY <1>1, <2>1, <2>2 DEF Collecting
<1>5. CASE EnterScreen
  <2>1. PICK n \in 1..4 : Switch(Entering[n])
    BY <1>5 DEF EnterScreen
  <2>2. UNCHANGED <<net, picked, handler>>
    BY <1>5 DEF EnterScreen, netThread
  <2>3. inputHooks'[0] => inputHooks[0]
    BY <2>1 DEF Switch, Entering, Set, set_active, Switching, Group
  <2>4. QED
    BY <1>1, <2>2, <2>3 DEF Collecting
<1>6. CASE SetHandler
  <2>1. sender \in Entered[1] /\ handler' = "collect" /\ UNCHANGED inputHooks
    BY <1>6 DEF SetHandler, Entered, hooks
  <2>2. ~inputHooks[0]
    BY <1>1, <2>1, AskingHides
  <2>3. QED
    BY <2>1, <2>2 DEF Collecting
<1>7. CASE PushHook \/ HideHook
  <2>1. inputHooks'[0] = inputHooks[0]
    BY <1>7 DEF PushHook, HideHook, set_active, Switching, Group
  <2>2. net' # "handle" /\ UNCHANGED handler
    BY <1>7 DEF PushHook, HideHook
  <2>3. QED
    BY <1>1, <2>1, <2>2 DEF Collecting
<1>8. CASE Receive
  <2>1. picked' = handler /\ UNCHANGED <<inputHooks, handler>>
    BY <1>8 DEF Receive, hooks
  <2>2. QED
    BY <1>1, <2>1 DEF Collecting
<1>9. CASE ShowMessage \/ Collect
  <2>1. net' = "receive" /\ UNCHANGED inputHooks /\ (handler' = "collect" => handler = "collect")
    BY <1>9 DEF ShowMessage, Collect, hooks
  <2>2. QED
    BY <1>1, <2>1 DEF Collecting
<1>10. CASE \/ \E k \in Keys : ReadKey(k)
            \/ \E g \in Group : CopyInputHook(g)
            \/ Edit \/ Redraw \/ SendText \/ ClearDisplay \/ SendRequest \/ OthersTalk \/ Renderer
            \/ UNCHANGED vars
  <2>1. UNCHANGED <<inputHooks, net, picked, handler>>
    BY <1>10 DEF ReadKey, CopyInputHook, Edit, Redraw, SendText, ClearDisplay, SendRequest,
       OthersTalk, Renderer, AwaitRefresh, MoveRenderHook, CopyRenderHook, Flush, vars, hooks,
       netThread
  <2>2. QED
    BY <1>2, <2>1
<1>11. QED
  BY <1>1, <1>3, <1>4, <1>5, <1>6, <1>7, <1>8, <1>9, <1>10, NoneMoved
     DEF Next, Input, Sender, Net

(* Everybody but the renderer leaves the screen alone while it is edited,  *)
(* or asks for a redraw.                                                   *)
LEMMA ScreenStays ==
    ASSUME Current, Calm, Editing' => Editing, refresh' = refresh,
           UNCHANGED <<messages, display, renderThread>>
    PROVE  Current'
<1>1. UNCHANGED <<renderer, renderCopy, drawn>>
  BY DEF renderThread
<1>2. Window' = Window
  BY DEF Window
<1>3. QED
  BY <1>1, <1>2 DEF Current

LEMMA OthersDisturbNothing ==
    ASSUME IInv, Switching, Collecting, Current, Calm,
           Next \/ UNCHANGED vars, ~Renderer
    PROVE  Current'
<1>1. CASE ShowMessage \/ Redraw
  <2>1. refresh'
    BY <1>1 DEF ShowMessage, Redraw
  <2>2. QED
    BY <2>1 DEF Current
<1>2. CASE Collect
  <2>1. net = "handle" /\ picked = "collect" /\ UNCHANGED inputHooks
    BY <1>2 DEF Collect, hooks
  <2>2. ~Editing'
    BY <2>1 DEF Collecting, Editing
  <2>3. QED
    BY <2>2 DEF Current
<1>3. CASE ClearDisplay
  <2>1. ~Editing'
    BY <1>3 DEF ClearDisplay, Editing
  <2>2. QED
    BY <2>1 DEF Current
<1>4. CASE \/ \E k \in Keys : ReadKey(k)
           \/ \E g \in Group : CopyInputHook(g)
           \/ Edit \/ LeaveScreen \/ RestoreHandler
  <2>1. /\ UNCHANGED <<messages, display, renderThread, sender>> /\ refresh' = refresh
        /\ LeaveScreen \/ UNCHANGED inputHooks
    BY <1>4 DEF ReadKey, CopyInputHook, Edit, LeaveScreen, RestoreHandler, senderThread, hooks
  <2>2. \/ input' \in {"leave2", "leave3", "leave4", "redraw"}
        \/ ~LeaveScreen /\ input \notin {"leave2", "leave3", "leave4", "redraw"}
    BY <1>4 DEF ReadKey, CopyInputHook, Edit, LeaveScreen, RestoreHandler, LeaveAt, Group
  <2>3. Editing' => Editing
    BY <2>1, <2>2 DEF Editing
  <2>4. QED
    BY <2>1, <2>3, ScreenStays
<1>5. CASE SendText \/ EnterScreen \/ SetHandler \/ SendRequest
  <2>1. /\ UNCHANGED <<messages, display, renderThread, input>> /\ refresh' = refresh
    BY <1>5 DEF SendText, EnterScreen, SetHandler, SendRequest, inputThread
  <2>2. \/ sender' \notin {"off", "rx"}
        \/ sender' = sender /\ UNCHANGED inputHooks
        \/ sender \in Entered[1] /\ UNCHANGED inputHooks
    <3>1. CASE EnterScreen
      BY <3>1 DEF EnterScreen, EnterAt
    <3>2. CASE SendText \/ SetHandler \/ SendRequest
      BY <3>2 DEF SendText, SetHandler, SendRequest, Entered, hooks
    <3>3. QED
      BY <1>5, <3>1, <3>2
  <2>3. Editing' => Editing
    BY <2>1, <2>2, AskingHides DEF Editing
  <2>4. QED
    BY <2>1, <2>3, ScreenStays
<1>6. CASE PushHook \/ HideHook
  <2>1. /\ UNCHANGED <<messages, display, renderThread, input>> /\ refresh' = refresh
    BY <1>6 DEF PushHook, HideHook, inputThread
  <2>2. inputHooks'[0] = inputHooks[0] /\ sender = "off"
    BY <1>6 DEF PushHook, HideHook, set_active, Switching, Group
  <2>3. Editing' => Editing
    BY <2>1, <2>2 DEF Editing
  <2>4. QED
    BY <2>1, <2>3, ScreenStays
<1>7. CASE Receive \/ OthersTalk \/ UNCHANGED vars
  <2>1. /\ UNCHANGED <<messages, display, renderThread, input, sender, inputHooks>>
        /\ refresh' = refresh
    BY <1>7 DEF Receive, OthersTalk, vars, inputThread, senderThread, hooks
  <2>2. Editing' => Editing
    BY <2>1 DEF Editing
  <2>3. QED
    BY <2>1, <2>2, ScreenStays
<1>8. QED
  BY <1>1, <1>2, <1>3, <1>4, <1>5, <1>6, <1>7, NoneMoved
     DEF Next, Input, Sender, Net

(* The renderer copies both hooks of whoever edits, and shows all that     *)
(* there is.                                                               *)
LEMMA RendererDraws ==
    ASSUME IInv, Switching, Current, Calm, Renderer
    PROVE  Current'
<1>0. ~MoveRenderHook
  BY NoneMoved
<1>1. UNCHANGED <<inputHooks, renderHooks, sender, input, messages>>
  BY <1>0 DEF Renderer, AwaitRefresh, CopyRenderHook, Flush, hooks, senderThread, inputThread
<1>2. (Editing' <=> Editing) /\ Window' = Window /\ Len(messages) \in Nat
  BY <1>1 DEF Editing, Window, IInv, Shape
<1>3. SUFFICES ASSUME Editing, ~refresh'
               PROVE  /\ renderer' = "wait" => display' = Window
                      /\ renderer' = "copy1" => 0 \in renderCopy'
                      /\ renderer' = "print" => 0 \in renderCopy' /\ drawn' = Len(messages)
  BY <1>1, <1>2 DEF Current
<1>4. renderHooks[0] /\ renderHooks[1]
  BY <1>3, EditingDraws
<1>5. CASE AwaitRefresh
  BY <1>5 DEF AwaitRefresh, AfterWaking, Calm
<1>6. ASSUME NEW g \in Group, CopyRenderHook(g)
      PROVE  /\ renderer' = "wait" => display' = Window
             /\ renderer' = "copy1" => 0 \in renderCopy'
             /\ renderer' = "print" => 0 \in renderCopy' /\ drawn' = Len(messages)
  <2>1. CASE g = 0
    BY <1>4, <1>6, <2>1 DEF CopyRenderHook
  <2>2. CASE g = 1
    <3>1. 0 \in renderCopy
      BY <1>3, <1>6, <2>2 DEF CopyRenderHook, Current
    <3>2. QED
      BY <1>4, <1>6, <2>2, <3>1 DEF CopyRenderHook
  <2>3. QED
    BY <2>1, <2>2 DEF Group
<1>7. CASE Flush
  <2>1. 0 \in renderCopy /\ drawn = Len(messages) /\ drawn # None
    BY <1>2, <1>3, <1>7 DEF Flush, Current, None
  <2>2. /\ renderer' = "wait"
        /\ display' = [window |-> drawn, answer |-> Blank.answer, prompt |-> Blank.prompt]
    BY <1>7, <2>1 DEF Flush
  <2>3. QED
    BY <2>1, <2>2 DEF Blank, Window
<1>8. QED
  BY <1>0, <1>5, <1>6, <1>7 DEF Renderer

(* After q the window is back, with all the messages that came in the mean *)
(* time, and the answer gone, in a build whose sort leaves the hooks alone *)
(* (Client.cpp 137-143).                                                   *)
THEOREM WindowComesBack == Spec => []ScreenComesBack
<1>1. Init => Collecting /\ Current
  <2> SUFFICES ASSUME Init PROVE Collecting /\ Current
    OBVIOUS
  <2>1. Len(messages) = 0
    BY DEF Init
  <2>2. QED
    BY <2>1 DEF Init, Collecting, Current, Window
<1>2. IInv /\ Switching /\ Collecting /\ Current /\ [Next]_vars => Collecting' /\ Current'
  <2> SUFFICES ASSUME IInv, Switching, Collecting, Current, [Next]_vars
               PROVE  Collecting' /\ Current'
    OBVIOUS
  <2>1. Collecting'
    BY CollectingStep
  <2>2. CASE ~Calm'
    BY <2>1, <2>2 DEF Current
  <2>3. CASE Calm'
    <3>1. Calm
      BY <2>3, CalmStays
    <3>2. CASE Renderer
      BY <2>1, <3>1, <3>2, RendererDraws
    <3>3. CASE ~Renderer
      BY <2>1, <3>1, <3>3, OthersDisturbNothing
    <3>4. QED
      BY <3>2, <3>3
  <2>4. QED
    BY <2>2, <2>3
<1>3. Current => ScreenComesBack
  BY DEF Current, ScreenComesBack, Quiet, Editing, Window, Calm
<1>4. QED
  BY <1>1, <1>2, <1>3, InvariantInit, InvariantStep, SwitchingHolds, PTL DEF Spec

-----------------------------------------------------------------------------
(* The end of an answer, of every user: what is collected and was not      *)
(* refused has an end, and it is the handler of the answer that finds it.  *)
Ends == \E i \in 1..Len(incoming) : incoming[i] = "done"

(* An answer to a request that is not refused ends with the signal. *)
LEMMA AnswerHasEnd ==
    ASSUME NEW l, IsRequest(l), named, NEW a \in AnswerOf(l)
    PROVE  a \in Seq(Frame) /\ \E i \in 1..Len(a) : a[i] = "done"
<1>1. PICK n \in 0..MaxLines : a = [i \in 1..(n + 1) |-> IF i <= n THEN "line" ELSE "done"]
  BY DEF AnswerOf, Lines
<1>2. n + 1 \in Nat /\ n \in Nat /\ a \in [1..(n + 1) -> Frame]
  BY <1>1, ScreenAssumption DEF Frame
<1>3. a \in Seq(Frame) /\ Len(a) = n + 1
  BY <1>2
<1>4. n + 1 \in 1..Len(a) /\ a[n + 1] = "done"
  BY <1>1, <1>2, <1>3
<1>5. QED
  BY <1>3, <1>4

(* Frames that are appended leave the end where it is. *)
LEMMA EndStays ==
    ASSUME NEW q \in Seq(Frame), NEW a \in Seq(Frame)
    PROVE  /\ (\E i \in 1..Len(q) : q[i] = "done") =>
                  \E i \in 1..Len(q \o a) : (q \o a)[i] = "done"
           /\ (\E i \in 1..Len(a) : a[i] = "done") =>
                  \E i \in 1..Len(q \o a) : (q \o a)[i] = "done"
<1>1. /\ Len(q \o a) = Len(q) + Len(a) /\ Len(q) \in Nat /\ Len(a) \in Nat
      /\ \A i \in 1..(Len(q) + Len(a)) :
            (q \o a)[i] = IF i <= Len(q) THEN q[i] ELSE a[i - Len(q)]
  BY ConcatProperties
<1>2. ASSUME NEW i \in 1..Len(q), q[i] = "done"
      PROVE  i \in 1..Len(q \o a) /\ (q \o a)[i] = "done"
  BY <1>1, <1>2
<1>3. ASSUME NEW i \in 1..Len(a), a[i] = "done"
      PROVE  Len(q) + i \in 1..Len(q \o a) /\ (q \o a)[Len(q) + i] = "done"
  BY <1>1, <1>3
<1>4. QED
  BY <1>2, <1>3

LEMMA EndStep ==
    ASSUME IInv, Switching, EndIsAhead, [Next]_vars
    PROVE  EndIsAhead'
<1>0. Shape /\ Busy
  BY DEF IInv
<1>1. CASE \/ \E k \in Keys : ReadKey(k)
           \/ MoveInputHook \/ \E g \in Group : CopyInputHook(g)
           \/ Edit \/ LeaveScreen \/ Redraw \/ Renderer \/ UNCHANGED vars
  <2>1. UNCHANGED <<handler, sender, incoming, net, frame, picked, refused>>
    BY <1>1 DEF ReadKey, MoveInputHook, CopyInputHook, Edit, LeaveScreen, Redraw, Renderer,
       AwaitRefresh, MoveRenderHook, CopyRenderHook, Flush, vars, senderThread, netThread, setup
  <2>2. QED
    BY <2>1 DEF EndIsAhead
<1>2. CASE RestoreHandler
  BY <1>2 DEF RestoreHandler, EndIsAhead
<1>3. CASE SetHandler
  BY <1>3 DEF SetHandler, EndIsAhead
<1>4. CASE EnterScreen \/ ClearDisplay
  <2>1. sender # "send" /\ UNCHANGED <<handler, incoming, net, frame, picked, refused>>
    BY <1>4 DEF EnterScreen, EnterAt, ClearDisplay, netThread, setup
  <2>2. QED
    BY <2>1 DEF EndIsAhead
<1>5. CASE SendRequest
  <2>1. PICK a \in AnswerOf(Head(sendBuffer)) : incoming' = incoming \o a
    BY <1>5 DEF SendRequest
  <2>2. IsRequest(Head(sendBuffer))
    BY <1>0, <1>5 DEF SendRequest, Busy
  <2>3. CASE refused'
    BY <2>3 DEF EndIsAhead
  <2>4. CASE ~refused'
    <3>1. named
      BY <1>5, <2>4 DEF SendRequest
    <3>2. a \in Seq(Frame) /\ \E i \in 1..Len(a) : a[i] = "done"
      BY <2>2, <3>1, AnswerHasEnd
    <3>3. Ends'
      BY <1>0, <2>1, <3>2, EndStays DEF Ends, Shape
    <3>4. QED
      BY <3>3 DEF EndIsAhead, Ends
  <2>5. QED
    BY <2>3, <2>4
<1>6. CASE SendText \/ OthersTalk
  <2>1. PICK a \in Seq(Frame) : incoming' = incoming \o a
    <3>1. CASE SendText
      BY <3>1, AnswerIs DEF SendText
    <3>2. CASE OthersTalk
      <4>1. "chat" \in Frame /\ incoming \in Seq(Frame)
        BY <1>0 DEF Shape, Frame
      <4>2. incoming' = incoming \o <<"chat">> /\ <<"chat">> \in Seq(Frame)
        BY <3>2, <4>1, AppendIsConcat DEF OthersTalk
      <4>3. QED
        BY <4>2
    <3>3. QED
      BY <1>6, <3>1, <3>2
  <2>2. UNCHANGED <<handler, sender, net, frame, picked, refused>>
    BY <1>6 DEF SendText, OthersTalk, netThread, senderThread, setup
  <2>3. Ends => Ends'
    BY <1>0, <2>1, EndStays DEF Ends, Shape
  <2>4. QED
    BY <2>2, <2>3 DEF EndIsAhead, Ends
<1>7. CASE PushHook \/ HideHook
  <2>1. net # "handle" /\ sender # "send" /\ UNCHANGED <<handler, incoming, refused>>
    BY <1>7 DEF PushHook, HideHook, Switching, setup
  <2>2. QED
    BY <2>1 DEF EndIsAhead
<1>8. CASE Receive
  <2>1. /\ net = "receive" /\ net' = "handle" /\ frame' = Head(incoming) /\ picked' = handler
        /\ incoming # <<>> /\ incoming' = Tail(incoming)
        /\ UNCHANGED <<handler, sender, refused>>
    BY <1>8 DEF Receive, senderThread, setup
  <2>2. ASSUME Ends
        PROVE  frame' = "done" \/ Ends'
    <3>1. PICK i \in 1..Len(incoming) : incoming[i] = "done"
      BY <2>2 DEF Ends
    <3>2. /\ Head(incoming) = incoming[1] /\ Len(incoming) \in Nat \ {0}
          /\ Len(Tail(incoming)) = Len(incoming) - 1
          /\ \A j \in 1..Len(Tail(incoming)) : Tail(incoming)[j] = incoming[j + 1]
      BY <1>0, <2>1, TailIs DEF Shape
    <3>3. CASE i = 1
      BY <2>1, <3>1, <3>2, <3>3
    <3>4. CASE i # 1
      <4>1. i - 1 \in 1..Len(Tail(incoming)) /\ (i - 1) + 1 = i
        BY <3>1, <3>2, <3>4
      <4>2. Tail(incoming)[i - 1] = "done"
        BY <3>1, <3>2, <4>1
      <4>3. QED
        BY <2>1, <4>1, <4>2 DEF Ends
    <3>5. QED
      BY <3>3, <3>4
  <2>3. QED
    BY <2>1, <2>2 DEF EndIsAhead, Ends
<1>9. CASE ShowMessage
  BY <1>9 DEF ShowMessage, EndIsAhead, senderThread, setup
<1>10. CASE Collect
  <2>1. UNCHANGED <<sender, incoming, refused>> /\ (frame = "done" => handler' = "chat")
        /\ (frame # "done" => handler' = handler)
    BY <1>10 DEF Collect, senderThread, setup
  <2>2. QED
    BY <2>1 DEF EndIsAhead
<1>11. QED
  BY <1>1, <1>2, <1>3, <1>4, <1>5, <1>6, <1>7, <1>8, <1>9, <1>10
     DEF Next, Input, Sender, Net

(* Whatever the user does, an answer that is collected has its end before  *)
(* it, unless the server has refused it: the screen's handler is never     *)
(* left waiting for a signal that went to the handler of messages          *)
(* (Client.cpp 157-173).                                                   *)
THEOREM EndComes == Spec => []EndIsAhead
<1>1. Init => EndIsAhead
  BY DEF Init, EndIsAhead
<1>2. IInv /\ Switching /\ EndIsAhead /\ [Next]_vars => EndIsAhead'
  BY EndStep
<1>3. QED
  BY <1>1, <1>2, InvariantInit, InvariantStep, SwitchingHolds, PTL DEF Spec

-----------------------------------------------------------------------------
(* The rest of the type invariant. *)
Places ==
    /\ input \in {"read", "sort", "putBack", "copy0", "copy1", "edit", "leave1"} \cup Leaves
    /\ renderer \in {"sort", "putBack", "copy0", "copy1", "print", "wait"}
Copies == inputCopy \subseteq Group /\ renderCopy \subseteq Group
Drawings ==
    /\ drawn \in Nat \cup {None}
    /\ display \in [window : Nat \cup {None}, answer : Nat, prompt : BOOLEAN]
    /\ refresh \in BOOLEAN
Presses == key \in Keys \cup {<<>>} /\ events \in Nat /\ library \in Library

LEMMA PlacesStep ==
    ASSUME Places, Copies, [Next]_vars
    PROVE  Places' /\ Copies'
<1>1. CASE \/ \E k \in Keys : ReadKey(k)
           \/ MoveInputHook \/ \E g \in Group : CopyInputHook(g)
           \/ Edit \/ Redraw \/ RestoreHandler
  BY <1>1 DEF ReadKey, AfterWaking, MoveInputHook, CopyInputHook, Edit, Redraw, RestoreHandler,
     Places, Copies, Leaves, Group, renderThread
<1>2. CASE LeaveScreen
  <2>1. input' \in Leaves /\ UNCHANGED <<inputCopy, renderThread>>
    BY <1>2 DEF LeaveScreen, LeaveAt, Leaves
  <2>2. QED
    BY <2>1 DEF Places, Copies, renderThread
<1>3. CASE Renderer
  <2>1. UNCHANGED inputThread
    BY <1>3 DEF Renderer, AwaitRefresh, MoveRenderHook, CopyRenderHook, Flush
  <2>2. /\ renderer' \in {"sort", "putBack", "copy0", "copy1", "print", "wait"}
        /\ renderCopy' \subseteq Group
    BY <1>3 DEF Renderer, AwaitRefresh, AfterWaking, MoveRenderHook, CopyRenderHook, Flush,
       Copies, Group
  <2>3. QED
    BY <2>1, <2>2 DEF Places, Copies, inputThread
<1>4. CASE Sender \/ Net \/ OthersTalk \/ UNCHANGED vars
  <2>1. UNCHANGED <<inputThread, renderThread>>
    BY <1>4 DEF Sender, SendText, EnterScreen, ClearDisplay, SetHandler, SendRequest, Net,
       PushHook, HideHook, Receive, ShowMessage, Collect, OthersTalk, vars
  <2>2. QED
    BY <2>1 DEF Places, Copies, inputThread, renderThread
<1>5. QED
  BY <1>1, <1>2, <1>3, <1>4 DEF Next, Input

LEMMA DrawingsStep ==
    ASSUME IInv, Drawings, [Next]_vars
    PROVE  Drawings'
<1>1. CASE Renderer
  <2>1. Len(messages) \in Nat
    BY DEF IInv, Shape
  <2>2. CASE AwaitRefresh
    BY <2>2 DEF AwaitRefresh, Drawings
  <2>3. CASE \E g \in Group : CopyRenderHook(g)
    BY <2>1, <2>3 DEF CopyRenderHook, Drawings
  <2>4. CASE Flush
    BY <2>4 DEF Flush, Drawings, Blank
  <2>5. CASE MoveRenderHook
    BY <2>5 DEF MoveRenderHook, Drawings
  <2>6. QED
    BY <1>1, <2>2, <2>3, <2>4, <2>5 DEF Renderer
<1>2. CASE ClearDisplay
  BY <1>2 DEF ClearDisplay, Drawings, Blank, renderThread
<1>3. CASE Collect
  <2>1. UNCHANGED <<drawn, refresh>>
    BY <1>3 DEF Collect, renderThread
  <2>2. CASE frame = "done"
    <3>1. display' = [display EXCEPT !.prompt = TRUE]
      BY <1>3, <2>2 DEF Collect
    <3>2. display' \in [window : Nat \cup {None}, answer : Nat, prompt : BOOLEAN]
      BY <3>1 DEF Drawings
    <3>3. QED
      BY <2>1, <3>2 DEF Drawings
  <2>3. CASE frame # "done"
    <3>1. display' = [display EXCEPT !.answer = @ + 1]
      BY <1>3, <2>3 DEF Collect
    <3>2. display.answer + 1 \in Nat
      BY DEF Drawings
    <3>3. display' \in [window : Nat \cup {None}, answer : Nat, prompt : BOOLEAN]
      BY <3>1, <3>2 DEF Drawings
    <3>4. QED
      BY <2>1, <3>3 DEF Drawings
  <2>4. QED
    BY <2>2, <2>3
<1>4. CASE ShowMessage \/ Redraw
  BY <1>4 DEF ShowMessage, Redraw, Drawings, renderThread
<1>5. CASE \/ \E k \in Keys : ReadKey(k)
           \/ MoveInputHook \/ \E g \in Group : CopyInputHook(g)
           \/ Edit \/ LeaveScreen \/ RestoreHandler
           \/ SendText \/ EnterScreen \/ SetHandler \/ SendRequest
           \/ PushHook \/ HideHook \/ Receive \/ OthersTalk \/ UNCHANGED vars
  <2>1. UNCHANGED <<renderThread, display, refresh>>
    BY <1>5 DEF ReadKey, MoveInputHook, CopyInputHook, Edit, LeaveScreen, RestoreHandler,
       SendText, EnterScreen, SetHandler, SendRequest, PushHook, HideHook, Receive, OthersTalk, vars
  <2>2. QED
    BY <2>1 DEF Drawings, renderThread
<1>6. QED
  BY <1>1, <1>2, <1>3, <1>4, <1>5 DEF Next, Input, Sender, Net

LEMMA PressesStep ==
    ASSUME Presses, [Next]_vars
    PROVE  Presses'
<1>1. CASE \E k \in Keys : ReadKey(k)
  BY <1>1 DEF ReadKey, Presses, setup
<1>2. CASE OthersTalk
  BY <1>2 DEF OthersTalk, Presses, inputThread, setup
<1>3. CASE Edit
  BY <1>3 DEF Edit, Presses, setup
<1>4. CASE \/ MoveInputHook \/ \E g \in Group : CopyInputHook(g)
           \/ LeaveScreen \/ Redraw \/ RestoreHandler
           \/ Sender \/ Net \/ Renderer \/ UNCHANGED vars
  <2>1. UNCHANGED <<key, events, library>>
    BY <1>4 DEF MoveInputHook, CopyInputHook, LeaveScreen, Redraw, RestoreHandler, Sender,
       SendText, EnterScreen, ClearDisplay, SetHandler, SendRequest, Net, PushHook, HideHook,
       Receive, ShowMessage, Collect, Renderer, AwaitRefresh, MoveRenderHook, CopyRenderHook,
       Flush, vars, inputThread, setup
  <2>2. QED
    BY <2>1 DEF Presses
<1>5. QED
  BY <1>1, <1>2, <1>3, <1>4 DEF Next, Input

LEMMA TypesHold == Spec => [](IInv /\ Places /\ Copies /\ Drawings /\ Presses)
<1>1. Init => Places /\ Copies /\ Drawings /\ Presses
  <2> SUFFICES ASSUME Init PROVE Places /\ Copies /\ Drawings /\ Presses
    OBVIOUS
  <2>1. Places /\ Copies
    BY DEF Init, Places, Copies
  <2>2. Drawings
    BY DEF Init, Drawings
  <2>3. Presses
    BY DEF Init, Presses
  <2>4. QED
    BY <2>1, <2>2, <2>3
<1>2. QED
  BY <1>1, InvariantInit, InvariantStep, PlacesStep, DrawingsStep, PressesStep, PTL DEF Spec

(* Every variable keeps its type; of the line, that the cursor is in it    *)
(* and that it leaves room for its NUL (Console.cpp 473-495).              *)
THEOREM TypeCorrect == Spec => []TypeOK
<1>1. IInv /\ Switching /\ Places /\ Copies /\ Drawings /\ Presses => TypeOK
  BY DEF IInv, Shape, Switching, Places, Copies, Drawings, Presses, TypeOK, Leaves, Entered
<1>2. QED
  BY <1>1, SwitchingHolds, TypesHold, PTL
=============================================================================
