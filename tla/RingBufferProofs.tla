-------------------------- MODULE RingBufferProofs --------------------------
(***************************************************************************)
(* Proofs about RingBuffer for any number of producers, consumers and      *)
(* messages: no lost wake-up, nothing lost or reordered, and the buffer    *)
(* implements Channel.                                                     *)
(***************************************************************************)
EXTENDS RingBuffer, SequenceTheorems, TLAPS

(* Moving the head of the buffer to the end of the received messages keeps *)
(* the concatenation of the two.                                           *)
LEMMA ShiftHead ==
    ASSUME NEW S, NEW r \in Seq(S), NEW b \in Seq(S), b # <<>>
    PROVE  Append(r, Head(b)) \o Tail(b) = r \o b
<1>1. Head(b) \in S /\ Tail(b) \in Seq(S)
  BY HeadTailProperties
<1>2. Append(r, Head(b)) \in Seq(S) /\ Append(r, Head(b)) \o Tail(b) \in Seq(S)
  BY <1>1, AppendProperties, ConcatProperties
<1>3. r \o b \in Seq(S) /\ Len(b) \in Nat \ {0} /\ Len(r) \in Nat
  BY ConcatProperties, EmptySeq, LenProperties
<1>4. Len(Append(r, Head(b)) \o Tail(b)) = Len(r \o b)
  BY <1>1, <1>2, <1>3, AppendProperties, ConcatProperties, HeadTailProperties
<1>5. ASSUME NEW i \in 1..Len(r \o b)
      PROVE  (Append(r, Head(b)) \o Tail(b))[i] = (r \o b)[i]
  <2>1. Len(Append(r, Head(b))) = Len(r) + 1 /\ Len(Tail(b)) = Len(b) - 1
    BY <1>1, AppendProperties, HeadTailProperties
  <2>2. i \in 1..(Len(r) + Len(b))
    BY <1>3, <1>5, ConcatProperties
  <2>3. CASE i <= Len(r)
    BY <1>1, <1>2, <1>3, <2>1, <2>2, <2>3, AppendProperties, ConcatProperties
  <2>4. CASE i = Len(r) + 1
    <3>1. (Append(r, Head(b)) \o Tail(b))[i] = Head(b)
      BY <1>1, <1>2, <1>3, <2>1, <2>2, <2>4, AppendProperties, ConcatProperties
    <3>2. (r \o b)[i] = b[1]
      BY <1>3, <2>2, <2>4, ConcatProperties
    <3>3. QED
      BY <3>1, <3>2, <1>3
  <2>5. CASE i > Len(r) + 1
    <3>1. (Append(r, Head(b)) \o Tail(b))[i] = Tail(b)[i - (Len(r) + 1)]
      BY <1>1, <1>2, <1>3, <2>1, <2>2, <2>5, ConcatProperties
    <3>2. (r \o b)[i] = b[i - Len(r)]
      BY <1>3, <2>2, <2>5, ConcatProperties
    <3>3. i - (Len(r) + 1) \in 1..Len(Tail(b))
      BY <1>3, <2>1, <2>2, <2>5
    <3>4. Tail(b)[i - (Len(r) + 1)] = b[i - (Len(r) + 1) + 1]
      BY <3>3, HeadTailProperties
    <3>5. QED
      BY <3>1, <3>2, <3>4, <1>3, <2>2
  <2>6. QED
    BY <1>3, <2>2, <2>3, <2>4, <2>5
<1>6. QED
  BY <1>2, <1>3, <1>4, <1>5, SeqEqual

-----------------------------------------------------------------------------
(* Every variable keeps its type. *)
THEOREM TypeCorrect == Spec => []TypeOK
<1>1. Init => TypeOK
  BY DEF Init, TypeOK
<1>2. TypeOK /\ [Next]_vars => TypeOK'
  <2> SUFFICES ASSUME TypeOK, [Next]_vars PROVE TypeOK'
    OBVIOUS
  <2> USE DEF TypeOK
  <2>1. ASSUME NEW m \in Msg, tx(m) PROVE TypeOK'
    BY <2>1, AppendProperties DEF tx, NotifyAll
  <2>2. ASSUME NEW c \in Consumer, Pop(c) PROVE TypeOK'
    BY <2>2, AppendProperties, HeadTailProperties DEF Pop
  <2>3. ASSUME NEW c \in Consumer, Sleep(c) \/ SpuriousWakeup(c) PROVE TypeOK'
    BY <2>3 DEF Sleep, SpuriousWakeup
  <2>4. CASE UNCHANGED vars
    BY <2>4 DEF vars
  <2>5. QED
    BY <2>1, <2>2, <2>3, <2>4 DEF Next, rx
<1>3. QED
  BY <1>1, <1>2, PTL DEF Spec

(* No consumer sleeps un-notified while the buffer holds a message, however *)
(* many producers and consumers share it.                                   *)
THEOREM NoLostWakeup == Spec => []NoSleepOnData
<1>1. Init => NoSleepOnData
  BY DEF Init, NoSleepOnData
<1>2. TypeOK /\ NoSleepOnData /\ [Next]_vars => NoSleepOnData'
  <2> SUFFICES ASSUME TypeOK, NoSleepOnData, [Next]_vars PROVE NoSleepOnData'
    OBVIOUS
  <2> USE DEF TypeOK, NoSleepOnData
  <2>1. ASSUME NEW m \in Msg, tx(m) PROVE NoSleepOnData'
    BY <2>1 DEF tx, NotifyAll
  <2>2. ASSUME NEW c \in Consumer, Pop(c) PROVE NoSleepOnData'
    BY <2>2 DEF Pop
  <2>3. ASSUME NEW c \in Consumer, Sleep(c) \/ SpuriousWakeup(c) PROVE NoSleepOnData'
    BY <2>3 DEF Sleep, SpuriousWakeup
  <2>4. CASE UNCHANGED vars
    BY <2>4 DEF vars
  <2>5. QED
    BY <2>1, <2>2, <2>3, <2>4 DEF Next, rx
<1>3. QED
  BY <1>1, <1>2, TypeCorrect, PTL DEF Spec

(* What was sent is what was received followed by the buffer's content. *)
THEOREM NothingLostOrReordered == Spec => []ExactlyOnceInOrder
<1>1. Init => ExactlyOnceInOrder
  BY DEF Init, ExactlyOnceInOrder
<1>2. TypeOK /\ ExactlyOnceInOrder /\ [Next]_vars => ExactlyOnceInOrder'
  <2> SUFFICES ASSUME TypeOK, ExactlyOnceInOrder, [Next]_vars
               PROVE  ExactlyOnceInOrder'
    OBVIOUS
  <2> USE DEF TypeOK, ExactlyOnceInOrder
  <2>1. ASSUME NEW m \in Msg, tx(m) PROVE ExactlyOnceInOrder'
    <3>1. Append(sent, m) = (received \o buffer) \o <<m>>
      BY AppendIsConcat
    <3>2. <<m>> \in Seq(Msg)
      OBVIOUS
    <3>3. (received \o buffer) \o <<m>> = received \o (buffer \o <<m>>)
      BY <3>2, ConcatAssociative
    <3>4. QED
      BY <2>1, <3>1, <3>3, AppendIsConcat DEF tx
  <2>2. ASSUME NEW c \in Consumer, Pop(c) PROVE ExactlyOnceInOrder'
    BY <2>2, ShiftHead DEF Pop
  <2>3. ASSUME NEW c \in Consumer, Sleep(c) \/ SpuriousWakeup(c)
        PROVE  ExactlyOnceInOrder'
    BY <2>3 DEF Sleep, SpuriousWakeup
  <2>4. CASE UNCHANGED vars
    BY <2>4 DEF vars
  <2>5. QED
    BY <2>1, <2>2, <2>3, <2>4 DEF Next, rx
<1>3. QED
  BY <1>1, <1>2, TypeCorrect, PTL DEF Spec

(* The buffer is a channel: a tx is a Send, the return of an rx a Receive, *)
(* and falling asleep or waking up changes nothing a user can see.         *)
THEOREM Implementation == Spec => ImplementsChannel
<1>1. Init => Promise!Init
  BY DEF Init, Promise!Init
<1>2. TypeOK /\ ExactlyOnceInOrder /\ [Next]_vars
         => [Promise!Next]_(Promise!channelVars)
  <2> SUFFICES ASSUME TypeOK, ExactlyOnceInOrder, [Next]_vars
               PROVE  [Promise!Next]_(Promise!channelVars)
    OBVIOUS
  <2> USE DEF TypeOK, ExactlyOnceInOrder
  <2>1. ASSUME NEW m \in Msg, tx(m) PROVE Promise!Send(m)
    BY <2>1 DEF tx, Promise!Send
  <2>2. ASSUME NEW c \in Consumer, Pop(c) PROVE Promise!Receive
    <3>1. Len(buffer) \in Nat \ {0} /\ Len(received) \in Nat
      BY <2>2, EmptySeq, LenProperties DEF Pop
    <3>2. Len(sent) = Len(received) + Len(buffer)
      BY ConcatProperties
    <3>3. sent[Len(received) + 1] = buffer[1]
      BY <3>1, ConcatProperties
    <3>4. QED
      BY <2>2, <3>1, <3>2, <3>3 DEF Pop, Promise!Receive
  <2>3. ASSUME NEW c \in Consumer, Sleep(c) \/ SpuriousWakeup(c)
        PROVE  UNCHANGED Promise!channelVars
    BY <2>3 DEF Sleep, SpuriousWakeup, Promise!channelVars
  <2>4. CASE UNCHANGED vars
    BY <2>4 DEF vars, Promise!channelVars
  <2>5. QED
    BY <2>1, <2>2, <2>3, <2>4 DEF Next, rx, Promise!Next
<1>3. QED
  BY <1>1, <1>2, TypeCorrect, NothingLostOrReordered, PTL
  DEF Spec, ImplementsChannel, Promise!Spec
=============================================================================
