-------------------------- MODULE LibSocketProofs --------------------------
(***************************************************************************)
(* Proofs about LibSocket.  Framing, for every width of the size, any      *)
(* lengths, any number of messages and any boundaries: no size is negative *)
(* before a message that is too long has been sent; and the connection     *)
(* implements Channel up to the first such message and the first payload   *)
(* of which a recv finds only a part.  Dispatch, for every <errno.h> that  *)
(* leaves SUCCESS and DISCONNECTING a number of their own: successes are   *)
(* not taken for failures, nor listed errors for successes.                *)
(***************************************************************************)
EXTENDS Framing, Dispatch, SequenceTheorems, WellFoundedInduction, TLAPS

(* A size that fits is written as it is. *)
LEMMA SizeFits == ASSUME NEW n \in 0..SizeMax PROVE Signed(n) = n
<1>1. SizeMax \in Nat \ {0} /\ n \in Nat /\ n < Modulus /\ Modulus \in Nat \ {0}
  BY FramingAssumption DEF Modulus
<1>2. n % Modulus = n
  BY <1>1
<1>3. QED
  BY <1>1, <1>2 DEF Signed

(* Every size is cut to a byte. *)
LEMMA SizeIsByte == ASSUME NEW n \in Int PROVE Signed(n) \in Byte
<1>1. SizeMax \in Nat \ {0} /\ Modulus \in Nat \ {0} /\ Modulus = 2 * (SizeMax + 1)
  BY FramingAssumption DEF Modulus
<1>2. n % Modulus \in 0..(Modulus - 1)
  BY <1>1
<1>3. QED
  BY <1>1, <1>2 DEF Signed, Byte

LEMMA LetterIsByte == Letter \in Byte /\ NUL \in Byte /\ Letter # NUL
BY FramingAssumption DEF Letter, NUL, Byte

LEMMA MessageType ==
    ASSUME NEW n \in Nat \ {0}
    PROVE  Message(n) \in Seq(Byte) /\ Len(Message(n)) = n
<1>1. Message(n) \in [1..n -> Byte]
  BY LetterIsByte DEF Message
<1>2. QED
  BY <1>1, SeqDef

LEMMA FrameType ==
    ASSUME NEW n \in Nat \ {0}
    PROVE  Frame(n) \in Seq(Byte)
<1>1. Header(n) \in Byte
  BY SizeIsByte DEF Header
<1>2. <<Header(n)>> \in Seq(Byte) /\ <<NUL>> \in Seq(Byte) /\ Message(n) \in Seq(Byte)
  BY <1>1, LetterIsByte, MessageType
<1>3. <<Header(n)>> \o Message(n) \in Seq(Byte)
  BY <1>2, ConcatProperties
<1>4. QED
  BY <1>2, <1>3, ConcatProperties DEF Frame

(* A set of positions has a first one. *)
LEMMA FirstPosition ==
    ASSUME NEW s \in SUBSET Nat, s # {}
    PROVE  Min(s) \in s
<1>1. \E x \in s : \A y \in s : ~(<<y, x>> \in OpToRel(<, Nat))
  BY NatLessThanWellFounded, WFMin
<1>2. PICK x \in s : \A y \in s : ~(y < x)
  BY <1>1 DEF OpToRel
<1>3. \A y \in s : x =< y
  BY <1>2
<1>4. QED
  BY <1>3 DEF Min

LEMMA CStringType ==
    ASSUME NEW bytes \in Seq(Byte)
    PROVE  CString(bytes) \in Seq(Byte)
<1> DEFINE nuls == {j \in DOMAIN bytes : bytes[j] = NUL}
<1>1. CASE nuls = {}
  BY <1>1 DEF CString
<1>2. CASE nuls # {}
  <2>1. DOMAIN bytes = 1..Len(bytes) /\ Len(bytes) \in Nat
    BY LenProperties
  <2>2. Min(nuls) \in 1..Len(bytes)
    <3>1. nuls \in SUBSET Nat /\ nuls \subseteq 1..Len(bytes)
      BY <2>1
    <3>2. QED
      BY <3>1, <1>2, FirstPosition
  <2>3. SubSeq(bytes, 1, Min(nuls) - 1) \in Seq(Byte)
    <3>1. \A i \in 1..(Min(nuls) - 1) : bytes[i] \in Byte
      BY <2>1, <2>2, ElementOfSeq
    <3>2. Min(nuls) - 1 \in Int
      BY <2>2
    <3> HIDE DEF nuls
    <3>3. QED
      BY <3>1, <3>2, SubSeqProperties
  <2>4. QED
    BY <1>2, <2>3 DEF CString
<1>3. QED
  BY <1>1, <1>2

LEMMA PartType ==
    ASSUME NEW S, NEW s \in Seq(S), NEW k \in Nat \ {0}, NEW l \in 0..Len(s)
    PROVE  SubSeq(s, k, l) \in Seq(S)
<1>1. Len(s) \in Nat /\ k \in Int /\ l \in Int
  BY LenProperties
<1>2. \A i \in k..l : s[i] \in S
  BY <1>1, ElementOfSeq
<1>3. QED
  BY <1>1, <1>2, SubSeqProperties

LEMMA TwoParts ==
    ASSUME NEW S, NEW s \in Seq(S), NEW n \in 1..Len(s)
    PROVE  SubSeq(s, 1, n) \in Seq(S) /\ SubSeq(s, n + 1, Len(s)) \in Seq(S)
<1>1. Len(s) \in Nat /\ n \in 0..Len(s) /\ Len(s) \in 0..Len(s) /\ n + 1 \in Nat \ {0}
  BY LenProperties
<1>2. SubSeq(s, 1, n) \in Seq(S)
  BY <1>1, PartType
<1>3. SubSeq(s, n + 1, Len(s)) \in Seq(S)
  BY <1>1, PartType
<1>4. QED
  BY <1>2, <1>3

(* One recv takes all it wants when that much has arrived. *)
LEMMA RecvTakes ==
    ASSUME NEW m \in Nat \ {0}, NEW l \in Nat \ {0}
    PROVE  /\ Min({m, l}) \in 1..l
           /\ m <= l => Min({m, l}) = m
<1>1. \E x \in {m, l} : \A y \in {m, l} : x =< y
  OBVIOUS
<1>2. Min({m, l}) \in {m, l} /\ Min({m, l}) <= m /\ Min({m, l}) <= l
  BY <1>1 DEF Min
<1>3. QED
  BY <1>2

-----------------------------------------------------------------------------
(* Both recv of receive_str keep the types: the size is read from a byte,  *)
(* and is not negative when the body is read.                              *)
LEMMA ReadSizeTypes ==
    ASSUME TypeOK, ReadSize
    PROVE  TypeOK'
<1> USE DEF TypeOK
<1>1. Head(arrived) \in Byte /\ Tail(arrived) \in Seq(Byte)
  BY HeadTailProperties DEF ReadSize
<1>2. size' \in 0..SizeMax
  BY <1>1, FramingAssumption DEF ReadSize, Byte
<1>3. undefined' \in BOOLEAN
  <2>1. undefined' = TRUE \/ undefined' = FALSE
    BY DEF ReadSize
  <2>2. QED
    BY <2>1
<1>4. QED
  BY <1>1, <1>2, <1>3 DEF ReadSize, history

(* What the one recv takes, and what it leaves. *)
LEMMA BodyTypes ==
    ASSUME TypeOK, RecvBody
    PROVE  /\ Taken \in 1..Len(arrived) /\ arrived' \in Seq(Byte)
           /\ CString(SubSeq(arrived, 1, Taken)) \in Seq(Byte)
           /\ received' \in Seq(Seq(Byte))
           /\ Len(received') \in {Len(received), Len(received) + 1}
           /\ \A i \in 1..Len(received) : received'[i] = received[i]
           /\ Len(received) \in Nat
<1> DEFINE payload == CString(SubSeq(arrived, 1, Taken))
<1>1. /\ size \in Nat \ {0} /\ arrived # <<>> /\ arrived \in Seq(Byte)
      /\ received' = IF payload = <<>> THEN received ELSE Append(received, payload)
      /\ arrived' = SubSeq(arrived, Taken + 1, Len(arrived))
  BY FramingAssumption DEF RecvBody, TypeOK
<1>2. Taken \in 1..Len(arrived)
  <2>1. Len(arrived) \in Nat \ {0}
    BY <1>1, EmptySeq
  <2>2. QED
    BY <1>1, <2>1, RecvTakes DEF Taken
<1>3. SubSeq(arrived, 1, Taken) \in Seq(Byte) /\ arrived' \in Seq(Byte)
  BY <1>1, <1>2, TwoParts
<1>4. payload \in Seq(Byte)
  BY <1>3, CStringType
<1>5. received \in Seq(Seq(Byte)) /\ Len(received) \in Nat
  BY LenProperties DEF TypeOK
<1> HIDE DEF payload
<1>6. CASE payload = <<>>
  <2>1. received' = received
    BY <1>1, <1>6
  <2>2. QED
    BY <1>2, <1>3, <1>4, <1>5, <2>1 DEF payload
<1>7. CASE payload # <<>>
  <2>1. received' = Append(received, payload)
    BY <1>1, <1>7
  <2>2. /\ received' \in Seq(Seq(Byte)) /\ Len(received') = Len(received) + 1
        /\ \A i \in 1..Len(received) : received'[i] = received[i]
    BY <1>4, <1>5, <2>1, AppendProperties
  <2>3. QED
    BY <1>2, <1>3, <1>4, <1>5, <2>2 DEF payload
<1>8. QED
  BY <1>6, <1>7

LEMMA ReadBodyTypes ==
    ASSUME TypeOK, ReadBody
    PROVE  TypeOK'
<1>1. RecvBody /\ size' = 0
  BY DEF ReadBody
<1>2. /\ arrived' \in Seq(Byte) /\ received' \in Seq(Seq(Byte))
      /\ Len(received') \in {Len(received), Len(received) + 1} /\ Len(received) \in Nat
  BY <1>1, BodyTypes
<1>3. /\ UNCHANGED <<wire, undefined, sent, intact>>
      /\ short' = (short \/ Len(arrived) < size)
      /\ whole' = IF short' THEN whole ELSE Len(received')
  BY <1>1 DEF RecvBody
<1>4. short' \in BOOLEAN
  BY <1>3 DEF TypeOK
<1>5. whole' \in 0..Len(received')
  BY <1>2, <1>3 DEF TypeOK
<1>6. QED
  BY <1>1, <1>2, <1>3, <1>4, <1>5, FramingAssumption DEF TypeOK

(* A message goes behind all others. *)
LEMMA SendTypes ==
    ASSUME TypeOK, NEW n \in Length, full_send(n)
    PROVE  /\ TypeOK'
           /\ Message(n) \in Messages /\ Len(Message(n)) = n /\ n \in Nat \ {0}
           /\ Len(sent') = Len(sent) + 1 /\ sent'[Len(sent) + 1] = Message(n)
           /\ \A i \in 1..Len(sent) : sent'[i] = sent[i]
           /\ Len(sent) \in Nat /\ intact \in Nat /\ intact' \in Nat
<1>1. n \in Nat \ {0} /\ Message(n) \in Messages
  BY FramingAssumption DEF Messages
<1>2. wire' \in Seq(Byte)
  <2>1. Frame(n) \in Seq(Byte) /\ wire \in Seq(Byte)
    BY <1>1, FrameType DEF TypeOK
  <2>2. wire \o Frame(n) \in Seq(Byte)
    BY <2>1, ConcatProperties
  <2>3. QED
    BY <2>1, <2>2 DEF full_send
<1>3. /\ sent \in Seq(Messages) /\ sent' = Append(sent, Message(n)) /\ Len(sent) \in Nat
  BY LenProperties DEF TypeOK, full_send
<1>4. /\ sent' \in Seq(Messages) /\ Len(sent') = Len(sent) + 1
      /\ sent'[Len(sent) + 1] = Message(n)
      /\ \A i \in 1..Len(sent) : sent'[i] = sent[i]
  BY <1>1, <1>3, AppendProperties
<1>5. intact' \in 0..Len(sent') /\ intact \in Nat /\ intact' \in Nat
  BY <1>3, <1>4 DEF TypeOK, full_send
<1>6. /\ UNCHANGED <<arrived, size, undefined, received, short, whole>>
      /\ Len(Message(n)) = n
  BY <1>1, MessageType DEF full_send
<1>7. TypeOK'
  BY <1>2, <1>4, <1>5, <1>6 DEF TypeOK
<1>8. QED
  BY <1>1, <1>3, <1>4, <1>5, <1>6, <1>7

LEMMA ArriveTypes ==
    ASSUME TypeOK, Arrive
    PROVE  /\ TypeOK'
           /\ Head(wire) \in Byte /\ Tail(wire) \in Seq(Byte)
<1>1. wire # <<>> /\ arrived' = Append(arrived, Head(wire)) /\ wire' = Tail(wire)
      /\ UNCHANGED <<size, undefined, history>>
  BY DEF Arrive
<1>2. Head(wire) \in Byte /\ Tail(wire) \in Seq(Byte)
  BY <1>1, HeadTailProperties DEF TypeOK
<1>3. arrived' \in Seq(Byte)
  BY <1>1, <1>2, AppendProperties DEF TypeOK
<1>4. QED
  BY <1>1, <1>2, <1>3 DEF TypeOK, history

LEMMA TypeInit == ASSUME Init PROVE TypeOK
<1>1. wire = <<>> /\ arrived = <<>> /\ sent = <<>> /\ received = <<>>
      /\ size = 0 /\ undefined = FALSE /\ intact = 0 /\ short = FALSE /\ whole = 0
  BY DEF Init
<1>2. \A S : <<>> \in Seq(S) /\ Len(<<>>) = 0
  BY EmptySeq
<1>3. size \in 0..SizeMax
  BY <1>1, FramingAssumption
<1>4. intact \in 0..Len(sent) /\ whole \in 0..Len(received)
  BY <1>1, <1>2
<1>5. QED
  BY <1>1, <1>2, <1>3, <1>4 DEF TypeOK

LEMMA TypeStep == ASSUME TypeOK, [Next]_vars PROVE TypeOK'
<1>1. ASSUME NEW n \in Length, full_send(n) PROVE TypeOK'
  BY <1>1, SendTypes
<1>2. CASE Arrive
  BY <1>2, ArriveTypes
<1>3. CASE receive_str
  BY <1>3, ReadSizeTypes, ReadBodyTypes DEF receive_str
<1>4. CASE UNCHANGED vars
  BY <1>4 DEF TypeOK, vars, program, history
<1>5. QED
  BY <1>1, <1>2, <1>3, <1>4 DEF Next

(* Whatever the lengths and the boundaries, every variable keeps its type: *)
(* receive_str never waits for more than SizeMax bytes.                    *)
THEOREM TypeCorrect == Spec => []TypeOK
  BY TypeInit, TypeStep, PTL DEF Spec

-----------------------------------------------------------------------------
(* Until a message is too long, no byte that is sent is negative.          *)
Positive == 0..SizeMax
AllFit == intact = Len(sent)

Readable ==
    AllFit => /\ ~undefined
              /\ arrived \in Seq(Positive)
              /\ wire \in Seq(Positive)

LEMMA PositiveFrame ==
    ASSUME NEW n \in 1..SizeMax
    PROVE  Frame(n) \in Seq(Positive)
<1>1. n \in 0..SizeMax /\ n \in Nat /\ n \in Nat \ {0}
  BY FramingAssumption
<1>2. Header(n) \in Positive /\ NUL \in Positive /\ Letter \in Positive
  BY <1>1, SizeFits, FramingAssumption DEF Header, Positive, NUL, Letter
<1>3. Message(n) \in [1..n -> Positive]
  BY <1>2 DEF Message
<1>4. Message(n) \in Seq(Positive)
  BY <1>1, <1>3, SeqDef
<1>5. <<Header(n)>> \in Seq(Positive) /\ <<NUL>> \in Seq(Positive)
  BY <1>2
<1>6. <<Header(n)>> \o Message(n) \in Seq(Positive)
  BY <1>4, <1>5, ConcatProperties
<1>7. QED
  BY <1>5, <1>6, ConcatProperties DEF Frame

(* Both recv of receive_str leave bytes behind that are not negative.      *)
LEMMA ReceiveReadable ==
    ASSUME TypeOK, Readable, receive_str
    PROVE  Readable'
<1>1. CASE ~AllFit
  BY <1>1 DEF AllFit, Readable, receive_str, ReadSize, ReadBody, RecvBody, history
<1>2. CASE AllFit /\ ReadSize
  <2>1. Head(arrived) \in Positive /\ Tail(arrived) \in Seq(Positive)
    BY <1>2, HeadTailProperties DEF ReadSize, Readable
  <2>2. ~(Head(arrived) < 0)
    BY <2>1, FramingAssumption DEF Positive
  <2>3. QED
    BY <1>2, <2>1, <2>2 DEF ReadSize, Readable
<1>3. CASE AllFit /\ ReadBody
  <2>1. RecvBody /\ arrived \in Seq(Positive) /\ wire \in Seq(Positive) /\ ~undefined
    BY <1>3 DEF ReadBody, Readable
  <2>2. Taken \in 1..Len(arrived)
    BY <2>1, BodyTypes
  <2>3. SubSeq(arrived, Taken + 1, Len(arrived)) \in Seq(Positive)
    BY <2>1, <2>2, TwoParts
  <2>4. QED
    BY <2>1, <2>3 DEF RecvBody, Readable
<1>4. QED
  BY <1>1, <1>2, <1>3 DEF receive_str

(* The reader declares no array of a negative length unless somebody has   *)
(* sent a message longer than SizeMax: not even when it takes letters for  *)
(* sizes because a payload came in pieces (Socket.h 279-297).              *)
THEOREM SizesAreReadable == Spec => []SizeIsReadable
<1>1. Init => Readable
  BY EmptySeq DEF Init, Readable
<1>2. TypeOK /\ Readable /\ [Next]_vars => Readable'
  <2> SUFFICES ASSUME TypeOK, Readable, [Next]_vars PROVE Readable'
    OBVIOUS
  <2>1. ASSUME NEW n \in Length, full_send(n) PROVE Readable'
    <3>1. CASE AllFit /\ n <= SizeMax
      <4>1. n \in 1..SizeMax
        BY <3>1, FramingAssumption
      <4>2. Frame(n) \in Seq(Positive) /\ wire \in Seq(Positive)
        BY <3>1, <4>1, PositiveFrame DEF Readable
      <4>3. wire \o Frame(n) \in Seq(Positive)
        BY <4>2, ConcatProperties
      <4>4. QED
        BY <2>1, <3>1, <4>2, <4>3 DEF full_send, Readable
    <3>2. CASE ~(AllFit /\ n <= SizeMax)
      <4>1. /\ intact' = intact /\ intact <= Len(sent)
            /\ Len(sent') = Len(sent) + 1 /\ Len(sent) \in Nat /\ intact \in Nat
        BY <2>1, <3>2, SendTypes DEF AllFit, full_send, TypeOK
      <4>2. ~AllFit'
        BY <4>1 DEF AllFit
      <4>3. QED
        BY <4>2 DEF Readable
    <3>3. QED
      BY <3>1, <3>2
  <2>2. CASE Arrive
    <3>1. AllFit' = AllFit
      BY <2>2 DEF Arrive, AllFit, history
    <3>2. ASSUME AllFit PROVE Readable'
      <4>1. Head(wire) \in Positive /\ Tail(wire) \in Seq(Positive)
        BY <2>2, <3>2, HeadTailProperties DEF Arrive, Readable
      <4>2. Append(arrived, Head(wire)) \in Seq(Positive)
        BY <3>2, <4>1, AppendProperties DEF Readable
      <4>3. QED
        BY <2>2, <3>2, <4>1, <4>2 DEF Arrive, Readable
    <3>3. QED
      BY <3>1, <3>2 DEF Readable
  <2>3. CASE receive_str
    BY <2>3, ReceiveReadable
  <2>4. CASE UNCHANGED vars
    BY <2>4 DEF vars, program, history, Readable, AllFit
  <2>5. QED
    BY <2>1, <2>2, <2>3, <2>4 DEF Next
<1>3. TypeOK /\ Readable => SizeIsReadable
  <2> SUFFICES ASSUME TypeOK, Readable, undefined PROVE intact < Len(sent)
    BY DEF SizeIsReadable
  <2>1. intact \in 0..Len(sent) /\ intact # Len(sent) /\ Len(sent) \in Nat
    BY LenProperties DEF TypeOK, Readable, AllFit
  <2>2. QED
    BY <2>1
<1>4. QED
  BY <1>1, <1>2, <1>3, TypeCorrect, PTL DEF Spec

-----------------------------------------------------------------------------
(* What the reader has yet to read.  R[i] is that when the frame of the    *)
(* i-th message is next.                                                   *)
Rest == arrived \o wire

Tails(R) ==
    /\ \A i \in 1..intact :
          R[i] = <<Len(sent[i])>> \o (sent[i] \o (<<NUL>> \o R[i + 1]))
    /\ AllFit => R[intact + 1] = <<>>

(* The reader awaits a size or, behind a message, the NUL that the size    *)
(* does not count, or the message whose size it has read.                  *)
Turn(R) ==
    \/ size = 0 /\ Rest = R[Len(received) + 1]
    \/ size = 0 /\ Rest = <<NUL>> \o R[Len(received) + 1]
    \/ /\ size > 0 /\ Len(received) < intact
       /\ size = Len(sent[Len(received) + 1])
       /\ Rest = sent[Len(received) + 1] \o (<<NUL>> \o R[Len(received) + 2])

(* Nothing is promised any more. *)
Over == short \/ (~AllFit /\ intact <= Len(received))

Counts ==
    /\ \A i \in 1..intact : Len(sent[i]) <= SizeMax
    /\ AllFit => whole <= intact
    /\ ~short => whole = Len(received)

InStep ==
    ~Over => /\ ~undefined /\ Len(received) <= intact
             /\ \E R \in [Nat -> Seq(Byte)] : Tails(R) /\ Turn(R)

LEMMA Regroup ==
    ASSUME NEW u \in Seq(Byte), NEW v \in Seq(Byte), NEW w \in Seq(Byte)
    PROVE  (u \o v) \o w = u \o (v \o w)
  BY ConcatAssociative, SMTT(30)

(* Concatenation as an operator that the provers do not look into. *)
Cat(u, v) == u \o v

LEMMA CatRegroup ==
    \A u, v \in Seq(Byte) :
       /\ Cat(u, v) \in Seq(Byte)
       /\ \A w \in Seq(Byte) : Cat(Cat(u, v), w) = Cat(u, Cat(v, w))
<1> TAKE u, v \in Seq(Byte)
<1>1. Cat(u, v) \in Seq(Byte)
  BY ConcatProperties DEF Cat
<1>2. ASSUME NEW w \in Seq(Byte) PROVE Cat(Cat(u, v), w) = Cat(u, Cat(v, w))
  BY Regroup, Zenon DEF Cat
<1>3. QED
  BY <1>1, <1>2

LEMMA SameFront ==
    ASSUME NEW u \in Seq(Byte), NEW v \in Seq(Byte), NEW w \in Seq(Byte), u \o v = u \o w
    PROVE  v = w
  BY ConcatSimplifications, Zenon

LEMMA NothingInBoth ==
    ASSUME NEW u \in Seq(Byte), NEW v \in Seq(Byte), u \o v = <<>>
    PROVE  u = <<>>
  BY ConcatSimplifications, Zenon

LEMMA HeadAndTail ==
    ASSUME NEW s \in Seq(Byte), s # <<>>
    PROVE  s = <<Head(s)>> \o Tail(s)
<1>1. Len(s) \in Nat \ {0} /\ 1 \in 1..Len(s) /\ Len(s) \in 1..Len(s)
  BY EmptySeq, LenProperties
<1>2. SubSeq(s, 1, Len(s)) = <<s[1]>> \o SubSeq(s, 1 + 1, Len(s))
  BY <1>1, SubSeqRecursiveFirst
<1>3. SubSeq(s, 1, Len(s)) = s /\ Tail(s) = SubSeq(s, 2, Len(s)) /\ Head(s) = s[1]
  BY <1>1, SubSeqFull, TailIsSubSeq
<1>4. 1 + 1 = 2
  OBVIOUS
<1>5. QED
  BY <1>2, <1>3, <1>4

(* What was in front is cut off, if it was there. *)
LEMMA CutOff ==
    ASSUME NEW a \in Seq(Byte), NEW w \in Seq(Byte),
           NEW m \in Seq(Byte), NEW y \in Seq(Byte),
           NEW all, all = a \o w, all = m \o y, Len(m) \in 1..Len(a)
    PROVE  /\ SubSeq(a, 1, Len(m)) = m
           /\ SubSeq(a, Len(m) + 1, Len(a)) \o w = y
<1> DEFINE l == Len(m)
           front == SubSeq(a, 1, l)
           back == SubSeq(a, l + 1, Len(a))
<1>1. Len(a) \in Nat /\ l \in Nat /\ l \in 1..Len(a)
  BY LenProperties
<1>2. front \in Seq(Byte) /\ back \in Seq(Byte)
  BY <1>1, TwoParts
<1>3. Len(front) = l /\ \A i \in 1..l : front[i] = a[i]
  <2>1. \A i \in 1..l : a[i] \in Byte
    BY <1>1, ElementOfSeq
  <2>2. QED
    BY <1>1, <2>1, SubSeqProperties
<1>4. a = front \o back
  <2>1. SubSeq(a, 1, l) \o SubSeq(a, l + 1, Len(a)) = SubSeq(a, 1, Len(a))
    <3> HIDE DEF l
    <3>1. 1 \in 1..(Len(a) + 1) /\ l \in (1 - 1)..Len(a) /\ Len(a) \in l..Len(a)
      BY <1>1
    <3>2. QED
      BY <3>1, ConcatAdjacentSubSeq
  <2>2. SubSeq(a, 1, Len(a)) = a
    BY SubSeqFull
  <2>3. QED
    BY <2>1, <2>2
<1> HIDE DEF front, back, l
<1>5. front = m
  <2>1. \A i \in 1..l : (a \o w)[i] = a[i] /\ (m \o y)[i] = m[i]
    <3>1. /\ \A i \in 1..(Len(a) + Len(w)) :
                (a \o w)[i] = IF i <= Len(a) THEN a[i] ELSE w[i - Len(a)]
          /\ \A i \in 1..(Len(m) + Len(y)) :
                (m \o y)[i] = IF i <= Len(m) THEN m[i] ELSE y[i - Len(m)]
      BY ConcatProperties
    <3>2. Len(w) \in Nat /\ Len(y) \in Nat
      BY LenProperties
    <3>3. \A i \in 1..l : /\ i \in 1..(Len(a) + Len(w)) /\ i <= Len(a)
                          /\ i \in 1..(Len(m) + Len(y)) /\ i <= Len(m)
      BY <1>1, <3>2 DEF l
    <3>4. QED
      BY <3>1, <3>3, Zenon
  <2>2. \A i \in 1..l : front[i] = m[i]
    BY <1>3, <2>1
  <2>3. Len(front) = Len(m)
    BY <1>3 DEF l
  <2>4. QED
    BY <1>2, <1>3, <2>2, <2>3, SeqEqual
<1>6. back \o w = y
  <2>1. (front \o back) \o w = front \o (back \o w)
    <3>1. Cat(Cat(front, back), w) = Cat(front, Cat(back, w))
      BY <1>2, CatRegroup
    <3>2. QED
      BY <3>1, Zenon DEF Cat
  <2>2. front \o (back \o w) = front \o y
    BY <1>4, <1>5, <2>1
  <2>3. back \o w \in Seq(Byte)
    BY <1>2, ConcatProperties
  <2>4. QED
    BY <1>2, <2>2, <2>3, SameFront
<1>7. QED
  BY <1>5, <1>6 DEF front, back, l

(* The first byte. *)
LEMMA FirstByte ==
    ASSUME NEW a \in Seq(Byte), NEW w \in Seq(Byte), NEW b \in Byte, NEW y \in Seq(Byte),
           NEW all, all = a \o w, all = <<b>> \o y, a # <<>>
    PROVE  Head(a) = b /\ Tail(a) \o w = y
<1> DEFINE m == <<b>>
<1>1. m \in Seq(Byte) /\ Len(m) = 1 /\ m[1] = b
  OBVIOUS
<1>2. Len(a) \in Nat \ {0}
  BY EmptySeq, LenProperties
<1>3. Head(a) = a[1]
  BY <1>2
<1>4. Tail(a) = SubSeq(a, 2, Len(a))
  BY TailIsSubSeq
<1> HIDE DEF m
<1>5. all = a \o w /\ all = m \o y /\ Len(m) \in 1..Len(a)
  BY <1>1, <1>2 DEF m
<1>6. m \in Seq(Byte)
  BY <1>1
<1>7. SubSeq(a, 1, 1) = m /\ SubSeq(a, 2, Len(a)) \o w = y
  <2>1. SubSeq(a, 1, Len(m)) = m /\ SubSeq(a, Len(m) + 1, Len(a)) \o w = y
    BY <1>5, <1>6, CutOff
  <2>2. QED
    BY <1>1, <2>1
<1>8. a[1] = b
  <2>1. \A i \in 1..1 : a[i] \in Byte
    BY <1>2, ElementOfSeq
  <2>2. SubSeq(a, 1, 1)[1] = a[1]
    BY <2>1, SubSeqProperties
  <2>3. QED
    BY <1>1, <1>7, <2>2
<1>9. QED
  BY <1>3, <1>4, <1>7, <1>8

(* A message is read up to its end. *)
LEMMA SentMessage ==
    ASSUME NEW m \in Messages
    PROVE  /\ m \in Seq(Byte) /\ Len(m) \in Nat \ {0}
           /\ CString(m) = m /\ m # <<>>
<1>1. PICK n \in Length : m = Message(n)
  BY DEF Messages
<1>2. n \in Nat \ {0}
  BY FramingAssumption
<1>3. m \in Seq(Byte) /\ Len(m) = n
  BY <1>1, <1>2, MessageType
<1>4. \A j \in DOMAIN m : m[j] = Letter
  BY <1>1 DEF Message
<1>5. {j \in DOMAIN m : m[j] = NUL} = {}
  BY <1>4, LetterIsByte
<1>6. m # <<>>
  BY <1>2, <1>3, EmptySeq
<1>7. QED
  BY <1>2, <1>3, <1>5, <1>6 DEF CString

(* The next message but for its size. *)
LEMMA NextMessage ==
    ASSUME TypeOK, Counts, NEW R \in [Nat -> Seq(Byte)], Tails(R), NEW k \in 1..intact
    PROVE  /\ sent[k] \in Messages /\ Len(sent[k]) \in 1..SizeMax /\ Len(sent[k]) \in Byte
           /\ <<NUL>> \o R[k + 1] \in Seq(Byte)
           /\ sent[k] \o (<<NUL>> \o R[k + 1]) \in Seq(Byte)
           /\ R[k] = <<Len(sent[k])>> \o (sent[k] \o (<<NUL>> \o R[k + 1]))
<1>1. k \in 1..Len(sent) /\ k \in Nat /\ k + 1 \in Nat
  BY LenProperties DEF TypeOK
<1>2. sent[k] \in Messages
  BY <1>1, ElementOfSeq DEF TypeOK
<1>3. Len(sent[k]) \in Nat \ {0} /\ Len(sent[k]) <= SizeMax /\ sent[k] \in Seq(Byte)
  BY <1>2, SentMessage DEF Counts
<1>4. Len(sent[k]) \in 1..SizeMax /\ Len(sent[k]) \in Byte
  <2>1. \A n \in Nat \ {0} : n <= SizeMax => n \in 1..SizeMax /\ n \in Byte
    BY FramingAssumption DEF Byte
  <2>2. QED
    BY <1>3, <2>1
<1>5. <<NUL>> \in Seq(Byte) /\ R[k + 1] \in Seq(Byte)
  BY <1>1, LetterIsByte
<1>6. <<NUL>> \o R[k + 1] \in Seq(Byte)
  BY <1>5, ConcatProperties
<1>7. sent[k] \o (<<NUL>> \o R[k + 1]) \in Seq(Byte)
  BY <1>3, <1>6, ConcatProperties
<1>8. QED
  BY <1>2, <1>4, <1>6, <1>7 DEF Tails

(* Nobody finds anything to read behind the last message. *)
LEMMA SomethingToRead ==
    ASSUME TypeOK, NEW R \in [Nat -> Seq(Byte)], Tails(R), ~Over, Len(received) <= intact,
           arrived # <<>>, Rest = R[Len(received) + 1]
    PROVE  Len(received) + 1 \in 1..intact
<1>1. Len(received) \in Nat /\ intact \in Nat
  BY LenProperties DEF TypeOK
<1>2. Len(received) # intact
  <2> SUFFICES ASSUME Len(received) = intact PROVE FALSE
    OBVIOUS
  <2>1. AllFit
    BY <1>1 DEF Over
  <2>2. arrived \o wire = <<>>
    BY <2>1 DEF Tails, Rest
  <2>3. QED
    BY <2>2, NothingInBoth DEF TypeOK
<1>3. \A r \in Nat : r <= intact /\ r # intact => r + 1 \in 1..intact
  BY <1>1
<1>4. QED
  BY <1>1, <1>2, <1>3

(* The size of the next message, or the NUL behind the last one. *)
LEMMA ReadSizeStep ==
    ASSUME TypeOK, Counts, InStep, ReadSize PROVE InStep'
<1> SUFFICES ASSUME ~Over'
             PROVE  /\ ~undefined' /\ Len(received') <= intact'
                    /\ \E R \in [Nat -> Seq(Byte)] : Tails(R)' /\ Turn(R)'
  BY DEF InStep
<1> DEFINE r == Len(received)
<1>1. /\ size = 0 /\ arrived # <<>>
      /\ size' = IF Head(arrived) < 0 THEN 0 ELSE Head(arrived)
      /\ undefined' = (Head(arrived) < 0)
      /\ arrived' = Tail(arrived)
      /\ wire' = wire /\ sent' = sent /\ received' = received
      /\ intact' = intact /\ short' = short
  BY DEF ReadSize, history
<1>2. ~Over /\ r <= intact
  BY <1>1 DEF Over, AllFit, InStep
<1>3. PICK R \in [Nat -> Seq(Byte)] : Tails(R) /\ Turn(R)
  BY <1>2 DEF InStep
<1>4. r \in Nat /\ arrived \in Seq(Byte) /\ wire \in Seq(Byte)
  BY LenProperties DEF TypeOK
<1>5. Tails(R)'
  BY <1>1, <1>3 DEF Tails, AllFit
<1>6. ASSUME NEW b \in Byte, b >= 0, NEW y \in Seq(Byte), Rest = <<b>> \o y
      PROVE  size' = b /\ ~undefined' /\ Rest' = y
  <2>0. PICK all : all = arrived \o wire /\ all = <<b>> \o y
    BY <1>6 DEF Rest
  <2>1. Head(arrived) = b /\ Tail(arrived) \o wire = y
    <3>1. arrived # <<>>
      BY <1>1
    <3>2. QED
      BY <1>4, <2>0, <3>1, FirstByte
  <2>2. ~(b < 0)
    BY <1>6, FramingAssumption DEF Byte
  <2>3. QED
    BY <1>1, <2>1, <2>2 DEF Rest
<1>7. CASE Rest = R[r + 1]
  <2>1. r + 1 \in 1..intact
    BY <1>1, <1>2, <1>3, <1>7, SomethingToRead
  <2>2. /\ Len(sent[r + 1]) \in 1..SizeMax /\ Len(sent[r + 1]) \in Byte
        /\ sent[r + 1] \o (<<NUL>> \o R[r + 1 + 1]) \in Seq(Byte)
        /\ R[r + 1] = <<Len(sent[r + 1])>> \o (sent[r + 1] \o (<<NUL>> \o R[r + 1 + 1]))
    BY <1>3, <2>1, NextMessage
  <2>3. Len(sent[r + 1]) > 0 /\ Len(sent[r + 1]) >= 0
    <3>1. \A n \in 1..SizeMax : n > 0 /\ n >= 0
      BY FramingAssumption
    <3>2. QED
      BY <2>2, <3>1
  <2>4. /\ size' = Len(sent[r + 1]) /\ ~undefined'
        /\ Rest' = sent[r + 1] \o (<<NUL>> \o R[r + 1 + 1])
    BY <1>6, <1>7, <2>2, <2>3
  <2>5. r + 1 + 1 = r + 2 /\ r < intact
    <3>1. intact \in Nat
      BY DEF TypeOK
    <3>2. QED
      BY <1>4, <2>1, <3>1
  <2>6. Turn(R)'
    BY <1>1, <2>3, <2>4, <2>5 DEF Turn
  <2>7. QED
    BY <1>1, <1>2, <1>5, <2>4, <2>6
<1>8. CASE Rest = <<NUL>> \o R[r + 1]
  <2>1. NUL \in Byte /\ NUL >= 0 /\ R[r + 1] \in Seq(Byte)
    BY <1>4, LetterIsByte DEF NUL
  <2>2. size' = 0 /\ ~undefined' /\ Rest' = R[r + 1]
    <3>1. size' = NUL /\ ~undefined' /\ Rest' = R[r + 1]
      BY <1>6, <1>8, <2>1
    <3>2. QED
      BY <3>1 DEF NUL
  <2>3. Turn(R)'
    BY <1>1, <2>2 DEF Turn
  <2>4. QED
    BY <1>1, <1>2, <1>5, <2>2, <2>3
<1>9. Rest = R[r + 1] \/ Rest = <<NUL>> \o R[r + 1]
  <2>1. ~(size > 0)
    BY <1>1
  <2>2. QED
    BY <1>3, <2>1, Zenon DEF Turn
<1>10. QED
  BY <1>7, <1>8, <1>9

(* The one recv of a payload that has arrived takes the message whose size *)
(* was read.                                                               *)
LEMMA TakesMessage ==
    ASSUME TypeOK, Counts, InStep, ~Over, ReadBody, ~short'
    PROVE  /\ Len(received) + 1 \in 1..intact
           /\ sent[Len(received) + 1] \in Messages
           /\ received' = Append(received, sent[Len(received) + 1])
           /\ Len(received') = Len(received) + 1
           /\ InStep'
<1> DEFINE r == Len(received)
           k == r + 1
<1>1. /\ size > 0 /\ arrived # <<>>
      /\ received' = IF CString(SubSeq(arrived, 1, Taken)) = <<>> THEN received
                     ELSE Append(received, CString(SubSeq(arrived, 1, Taken)))
      /\ arrived' = SubSeq(arrived, Taken + 1, Len(arrived))
      /\ short' = (short \/ Len(arrived) < size)
      /\ wire' = wire /\ undefined' = undefined /\ sent' = sent /\ intact' = intact
      /\ size' = 0
  BY DEF ReadBody, RecvBody
<1>2. PICK R \in [Nat -> Seq(Byte)] : Tails(R) /\ Turn(R)
  BY DEF InStep
<1>3. /\ r < intact /\ size = Len(sent[k])
      /\ Rest = sent[k] \o (<<NUL>> \o R[r + 2])
  <2>1. ~(size = 0)
    BY <1>1
  <2>2. QED
    BY <1>2, <2>1, Zenon DEF Turn
<1>4. r \in Nat /\ intact \in Nat /\ arrived \in Seq(Byte) /\ wire \in Seq(Byte)
  BY LenProperties DEF TypeOK
<1>5. k \in 1..intact /\ k + 1 = r + 2
  <2>1. \A x \in Nat : x < intact => x + 1 \in 1..intact /\ x + 1 + 1 = x + 2
    BY <1>4
  <2>2. QED
    BY <1>3, <1>4, <2>1
<1>6. /\ sent[k] \in Messages /\ Len(sent[k]) \in 1..SizeMax
      /\ <<NUL>> \o R[r + 2] \in Seq(Byte)
  <2>1. /\ sent[k] \in Messages /\ Len(sent[k]) \in 1..SizeMax
        /\ <<NUL>> \o R[k + 1] \in Seq(Byte)
    BY <1>2, <1>5, NextMessage
  <2>2. QED
    BY <1>5, <2>1
<1>7. sent[k] \in Seq(Byte) /\ CString(sent[k]) = sent[k] /\ sent[k] # <<>>
  BY <1>6, SentMessage
<1>8. Taken = size /\ size \in 1..Len(arrived)
  <2>1. Len(arrived) \in Nat \ {0} /\ size \in Nat \ {0} /\ size <= Len(arrived)
    <3>1. Len(arrived) \in Nat \ {0}
      BY <1>1, <1>4, EmptySeq, LenProperties
    <3>2. size \in Nat \ {0}
      BY <1>1, FramingAssumption DEF TypeOK
    <3>3. ~(Len(arrived) < size)
      BY <1>1
    <3>4. QED
      BY <3>1, <3>2, <3>3
  <2>2. QED
    BY <2>1, RecvTakes DEF Taken
<1>9. SubSeq(arrived, 1, size) = sent[k] /\ Rest' = <<NUL>> \o R[r + 2]
  <2> DEFINE m == sent[k]
             y == <<NUL>> \o R[r + 2]
  <2>1. m \in Seq(Byte) /\ y \in Seq(Byte) /\ Len(m) = size
    BY <1>3, <1>6, <1>7
  <2>2. PICK all : all = arrived \o wire /\ all = m \o y
    BY <1>3 DEF Rest
  <2> HIDE DEF m, y
  <2>3. Len(m) \in 1..Len(arrived)
    BY <1>8, <2>1
  <2>4. /\ SubSeq(arrived, 1, Len(m)) = m
        /\ SubSeq(arrived, Len(m) + 1, Len(arrived)) \o wire = y
    BY <1>4, <2>1, <2>2, <2>3, CutOff
  <2>5. SubSeq(arrived, 1, size) = m /\ SubSeq(arrived, size + 1, Len(arrived)) \o wire = y
    BY <2>1, <2>4
  <2>6. Rest' = SubSeq(arrived, size + 1, Len(arrived)) \o wire
    BY <1>1, <1>8 DEF Rest
  <2>7. QED
    BY <2>5, <2>6 DEF m, y
<1>10. received' = Append(received, sent[k])
  BY <1>1, <1>7, <1>8, <1>9
<1>11. Len(received') = k
  <2>1. received \in Seq(Seq(Byte)) /\ sent[k] \in Seq(Byte)
    BY <1>7 DEF TypeOK
  <2>2. Len(Append(received, sent[k])) = Len(received) + 1
    <3> HIDE DEF k
    <3>1. QED
      BY <2>1, AppendProperties
  <2>3. QED
    BY <1>10, <2>2
<1>12. Tails(R)' /\ ~undefined' /\ Len(received') <= intact'
  <2>1. Tails(R)'
    BY <1>1, <1>2 DEF Tails, AllFit
  <2>2. ~undefined'
    BY <1>1 DEF InStep
  <2>3. k <= intact
    BY <1>4, <1>5
  <2>4. QED
    BY <1>1, <1>11, <2>1, <2>2, <2>3
<1>13. Turn(R)'
  <2>1. Len(received') + 1 = r + 2
    BY <1>5, <1>11
  <2>2. QED
    BY <1>1, <1>9, <2>1 DEF Turn
<1>14. QED
  BY <1>5, <1>6, <1>10, <1>11, <1>12, <1>13 DEF InStep

(* Nothing that is received ends what is over. *)
LEMMA ReadBodyStep ==
    ASSUME TypeOK, Counts, InStep, ReadBody PROVE InStep' /\ Counts' /\ (Over => Over')
<1>1. /\ sent' = sent /\ intact' = intact
      /\ short' = (short \/ Len(arrived) < size)
      /\ whole' = IF short' THEN whole ELSE Len(received')
  BY DEF ReadBody, RecvBody
<1>2. Len(received') \in {Len(received), Len(received) + 1} /\ Len(received) \in Nat
  BY BodyTypes DEF ReadBody
<1>3. intact \in Nat /\ whole \in Nat
  BY LenProperties DEF TypeOK
<1>4. Over => Over'
  <2>1. intact <= Len(received) => intact <= Len(received')
    BY <1>2, <1>3
  <2>2. AllFit' = AllFit /\ (short => short')
    BY <1>1 DEF AllFit
  <2>3. QED
    BY <1>1, <2>1, <2>2 DEF Over
<1>5. InStep'
  BY <1>1, <1>4, TakesMessage DEF InStep, Over
<1>6. AllFit' => whole' <= intact'
  <2>1. CASE short'
    BY <1>1, <2>1 DEF Counts, AllFit
  <2>2. CASE ~short' /\ Over
    BY <1>1, <2>2 DEF Over, AllFit
  <2>3. CASE ~short' /\ ~Over
    <3>1. Len(received) + 1 \in 1..intact /\ Len(received') = Len(received) + 1
      BY <2>3, TakesMessage
    <3>2. whole' = Len(received')
      BY <1>1, <2>3
    <3>3. QED
      BY <1>1, <1>2, <1>3, <3>1, <3>2
  <2>4. QED
    BY <2>1, <2>2, <2>3
<1>7. Counts'
  BY <1>1, <1>6 DEF Counts
<1>8. QED
  BY <1>4, <1>5, <1>7

(* What has arrived has been taken from what is in flight. *)
LEMMA ArriveStep ==
    ASSUME TypeOK, Counts, InStep, Arrive PROVE InStep' /\ Counts'
<1>1. /\ wire # <<>> /\ arrived' = Append(arrived, Head(wire)) /\ wire' = Tail(wire)
      /\ UNCHANGED <<size, undefined, history>>
  BY DEF Arrive
<1>2. arrived \in Seq(Byte) /\ wire \in Seq(Byte) /\ Head(wire) \in Byte /\ Tail(wire) \in Seq(Byte)
  BY ArriveTypes DEF TypeOK
<1>3. Rest' = Rest
  <2> DEFINE h == <<Head(wire)>>
             t == Tail(wire)
  <2>1. h \in Seq(Byte) /\ t \in Seq(Byte)
    BY <1>2
  <2>2. wire = h \o t
    BY <1>1, <1>2, HeadAndTail
  <2>3. arrived' = arrived \o h
    BY <1>1, <1>2, AppendIsConcat
  <2>4. wire' = t
    BY <1>1
  <2> HIDE DEF h, t
  <2>5. (arrived \o h) \o t = arrived \o (h \o t)
    <3>1. arrived \in Seq(Byte) /\ h \in Seq(Byte) /\ t \in Seq(Byte)
      BY <1>2, <2>1, Zenon
    <3>2. Cat(Cat(arrived, h), t) = Cat(arrived, Cat(h, t))
      BY <3>1, CatRegroup
    <3>3. QED
      BY <3>2, Zenon DEF Cat
  <2>6. QED
    BY <2>2, <2>3, <2>4, <2>5 DEF Rest
<1>4. \A R : Tails(R)' = Tails(R) /\ Turn(R)' = Turn(R)
  BY <1>1, <1>3 DEF Tails, Turn, AllFit, history
<1>5. QED
  BY <1>1, <1>4 DEF InStep, Counts, Over, AllFit, history

(* The reader does not see what is put behind what it has to read. *)
LEMMA TurnLonger ==
    ASSUME NEW R, NEW Q, NEW F \in Seq(Byte), Turn(R),
           <<NUL>> \in Seq(Byte), \A i \in Nat : R[i] \in Seq(Byte),
           Len(received) + 1 \in Nat, Len(received) + 2 \in Nat,
           Rest' = Rest \o F, size' = size, received' = received,
           Q[Len(received) + 1] = R[Len(received) + 1] \o F,
           Len(received) < intact =>
               /\ Q[Len(received) + 2] = R[Len(received) + 2] \o F
               /\ sent'[Len(received) + 1] = sent[Len(received) + 1]
               /\ sent[Len(received) + 1] \in Seq(Byte)
               /\ Len(received) < intact'
    PROVE  Turn(Q)'
<1> DEFINE a == R[Len(received) + 1]
           b == R[Len(received) + 2]
           c == sent[Len(received) + 1]
<1>1. a \in Seq(Byte) /\ b \in Seq(Byte)
  OBVIOUS
<1>2. CASE size = 0 /\ Rest = a
  BY <1>2, Zenon DEF Turn
<1>3. CASE size = 0 /\ Rest = <<NUL>> \o a
  <2> HIDE DEF a
  <2>1. (<<NUL>> \o a) \o F = <<NUL>> \o (a \o F)
    <3> DEFINE e == <<NUL>>
    <3>1. e \in Seq(Byte) /\ a \in Seq(Byte)
      BY <1>1, Zenon
    <3> HIDE DEF e
    <3>2. Cat(Cat(e, a), F) = Cat(e, Cat(a, F))
      BY <3>1, CatRegroup
    <3>3. QED
      BY <3>2, Zenon DEF Cat, e
  <2>2. Rest' = <<NUL>> \o (a \o F)
    BY <1>3, <2>1, Zenon
  <2>3. QED
    BY <1>3, <2>2, Zenon DEF Turn, a
<1>4. CASE size > 0 /\ Len(received) < intact /\ size = Len(c) /\ Rest = c \o (<<NUL>> \o b)
  <2>1. c \in Seq(Byte)
    BY <1>4
  <2> HIDE DEF a, b, c
  <2> DEFINE p == <<NUL>> \o b
  <2>2. p = <<NUL>> \o b /\ p \in Seq(Byte) /\ Rest = c \o p
    BY <1>1, <1>4, ConcatProperties
  <2> HIDE DEF p
  <2>3. Rest \o F = c \o (<<NUL>> \o (b \o F))
    <3>1. (c \o p) \o F = c \o (p \o F)
      <4>1. c \in Seq(Byte) /\ p \in Seq(Byte)
        BY <2>1, <2>2, Zenon
      <4>2. Cat(Cat(c, p), F) = Cat(c, Cat(p, F))
        BY <4>1, CatRegroup
      <4>3. QED
        BY <4>2, Zenon DEF Cat
    <3>2. (<<NUL>> \o b) \o F = <<NUL>> \o (b \o F)
      <4> DEFINE e == <<NUL>>
      <4>1. e \in Seq(Byte) /\ b \in Seq(Byte)
        BY <1>1, Zenon
      <4> HIDE DEF e
      <4>2. Cat(Cat(e, b), F) = Cat(e, Cat(b, F))
        BY <4>1, CatRegroup
      <4>3. QED
        BY <4>2, Zenon DEF Cat, e
    <3>3. QED
      BY <2>2, <3>1, <3>2, Zenon
  <2>4. QED
    BY <1>4, <2>3, Zenon DEF Turn, b, c
<1>5. QED
  BY <1>2, <1>3, <1>4, Zenon DEF Turn

(* A frame, or nothing, is put behind all others. *)
LEMMA SendStep ==
    ASSUME TypeOK, Counts, InStep, NEW n \in Length, full_send(n) PROVE InStep' /\ Counts'
<1> DEFINE m == Message(n)
           F == IF Header(n) = 0 THEN <<>> ELSE Frame(n)
           l == Len(sent)
<1>1. /\ Len(m) = n /\ n \in Nat \ {0} /\ m \in Seq(Byte)
      /\ Len(sent') = l + 1 /\ sent'[l + 1] = m
      /\ \A i \in 1..l : sent'[i] = sent[i]
      /\ l \in Nat /\ intact \in Nat /\ intact <= l /\ Len(received) \in Nat
  <2>1. /\ Len(m) = n /\ n \in Nat \ {0} /\ m \in Messages
        /\ Len(sent') = l + 1 /\ sent'[l + 1] = m
        /\ \A i \in 1..l : sent'[i] = sent[i]
        /\ l \in Nat /\ intact \in Nat
    BY SendTypes, Zenon
  <2>2. m \in Seq(Byte)
    BY <2>1, MessageType, Zenon
  <2>3. intact \in 0..l /\ Len(received) \in Nat
    BY LenProperties DEF TypeOK
  <2>4. intact <= l
    BY <2>1, <2>3
  <2>5. QED
    BY <2>1, <2>2, <2>3, <2>4, Zenon
<1>2. /\ intact' = IF intact = l /\ n <= SizeMax THEN l + 1 ELSE intact
      /\ UNCHANGED <<arrived, size, undefined, received, short, whole>>
  BY DEF full_send
<1>3. F \in Seq(Byte) /\ wire \in Seq(Byte) /\ arrived \in Seq(Byte)
  BY <1>1, FrameType, EmptySeq DEF TypeOK
<1>4. wire' = wire \o F
  <2>1. wire \o <<>> = wire
    BY <1>3, ConcatEmptySeq
  <2>2. QED
    BY <2>1 DEF full_send
<1> HIDE DEF m, l, F
<1>5. Counts'
  <2>1. ASSUME NEW i \in 1..intact' PROVE Len(sent'[i]) <= SizeMax
    <3>1. CASE i \in 1..intact
      BY <1>1, <3>1 DEF Counts
    <3>2. CASE i \notin 1..intact
      <4>1. i = l + 1 /\ n <= SizeMax
        BY <1>1, <1>2, <3>2
      <4>2. QED
        BY <1>1, <4>1
    <3>3. QED
      BY <3>1, <3>2
  <2>2. AllFit' => whole' <= intact'
    <3>1. AllFit' => AllFit /\ intact' = intact + 1
      BY <1>1, <1>2 DEF AllFit, l
    <3>2. QED
      BY <1>1, <1>2, <3>1 DEF Counts, TypeOK
  <2>3. QED
    BY <1>2, <2>1, <2>2 DEF Counts
<1>6. ASSUME ~Over'
      PROVE  /\ ~Over /\ ~undefined' /\ Len(received') <= intact'
             /\ \E R \in [Nat -> Seq(Byte)] : Tails(R)' /\ Turn(R)'
  <2>1. ~Over
    BY <1>1, <1>2, <1>6 DEF Over, AllFit, l
  <2>2. ~undefined /\ Len(received) <= intact
    BY <2>1 DEF InStep
  <2>3. PICK R \in [Nat -> Seq(Byte)] : Tails(R) /\ Turn(R)
    BY <2>1 DEF InStep
  <2>4. \A i \in Nat : R[i] \in Seq(Byte)
    OBVIOUS
  <2>5. PICK Q \in [Nat -> Seq(Byte)] :
            /\ \A i \in Nat : i <= intact + 1 => Q[i] = R[i] \o F
            /\ Q[intact + 2] = <<>>
    <3> DEFINE Longest == [i \in Nat |-> IF i <= intact + 1 THEN R[i] \o F ELSE <<>>]
    <3>1. \A i \in Nat : R[i] \o F \in Seq(Byte)
      BY <1>3, <2>4, ConcatProperties
    <3>2. <<>> \in Seq(Byte)
      BY EmptySeq
    <3>3. intact + 2 \in Nat /\ ~(intact + 2 <= intact + 1)
      BY <1>1
    <3>4. /\ Longest \in [Nat -> Seq(Byte)]
          /\ \A i \in Nat : i <= intact + 1 => Longest[i] = R[i] \o F
          /\ Longest[intact + 2] = <<>>
      BY <3>1, <3>2, <3>3
    <3> HIDE DEF Longest
    <3>5. QED
      BY <3>4
  <2>6. /\ Rest' = Rest \o F
        /\ <<NUL>> \in Seq(Byte)
    <3>1. (arrived \o wire) \o F = arrived \o (wire \o F)
      <4>1. Cat(Cat(arrived, wire), F) = Cat(arrived, Cat(wire, F))
        BY <1>3, CatRegroup
      <4>2. QED
        BY <4>1, Zenon DEF Cat
    <3>2. arrived' = arrived
      BY <1>2
    <3>3. QED
      BY <1>4, <3>1, <3>2, LetterIsByte DEF Rest
  <2>7. Tails(Q)'
    <3>1. ASSUME NEW i \in 1..intact
          PROVE  Q[i] = <<Len(sent'[i])>> \o (sent'[i] \o (<<NUL>> \o Q[i + 1]))
      <4>1. /\ sent[i] \in Messages /\ Len(sent[i]) \in Byte
            /\ R[i] = <<Len(sent[i])>> \o (sent[i] \o (<<NUL>> \o R[i + 1]))
        BY <2>3, NextMessage
      <4>2. /\ i \in Nat /\ i + 1 \in Nat /\ i <= intact + 1 /\ i + 1 <= intact + 1
            /\ sent'[i] = sent[i]
        BY <1>1
      <4>3. <<Len(sent[i])>> \in Seq(Byte) /\ sent[i] \in Seq(Byte) /\ R[i + 1] \in Seq(Byte)
        <5>1. sent[i] \in Seq(Byte) /\ R[i + 1] \in Seq(Byte)
          BY <2>4, <4>1, <4>2, SentMessage
        <5>2. \A b \in Byte : <<b>> \in Seq(Byte)
          OBVIOUS
        <5>3. QED
          BY <4>1, <5>1, <5>2
      <4>4. R[i] \o F = <<Len(sent[i])>> \o (sent[i] \o (<<NUL>> \o (R[i + 1] \o F)))
        <5> DEFINE h == <<Len(sent[i])>>
                   c == sent[i]
                   e == <<NUL>>
                   y == R[i + 1]
        <5>1. R[i] = Cat(h, Cat(c, Cat(e, y)))
          BY <4>1, Zenon DEF Cat
        <5>2. h \in Seq(Byte) /\ c \in Seq(Byte) /\ e \in Seq(Byte) /\ y \in Seq(Byte)
          BY <2>6, <4>3, Zenon
        <5> HIDE DEF h, c, e, y
        <5>3. Cat(Cat(h, Cat(c, Cat(e, y))), F) = Cat(h, Cat(c, Cat(e, Cat(y, F))))
          BY <1>3, <5>2, CatRegroup
        <5>4. Cat(R[i], F) = Cat(h, Cat(c, Cat(e, Cat(y, F))))
          BY <5>1, <5>3, Zenon
        <5>5. QED
          BY <5>4, Zenon DEF Cat, h, c, e, y
      <4>5. QED
        BY <2>5, <4>2, <4>4
    <3>2. CASE intact = l /\ n <= SizeMax
      <4>1. intact' = intact + 1 /\ sent'[intact + 1] = m
        BY <1>1, <1>2, <3>2
      <4>2. R[intact + 1] = <<>>
        BY <2>3, <3>2 DEF Tails, AllFit, l
      <4>3. Q[intact + 1] = F
        <5>1. intact + 1 \in Nat /\ intact + 1 <= intact + 1
          BY <1>1
        <5>2. <<>> \o F = F
          BY <1>3, ConcatEmptySeq
        <5>3. QED
          BY <2>5, <4>2, <5>1, <5>2
      <4>4. F = <<n>> \o (m \o <<NUL>>)
        <5>1. n \in 0..SizeMax /\ n # 0 /\ n \in Byte
          BY <1>1, <3>2, FramingAssumption DEF Byte
        <5>2. F = (<<n>> \o m) \o <<NUL>>
          BY <5>1, SizeFits DEF F, Frame, Header, m
        <5>3. <<n>> \in Seq(Byte)
          BY <5>1
        <5>4. QED
          <6> DEFINE h == <<n>>
                     e == <<NUL>>
          <6>1. h \in Seq(Byte) /\ m \in Seq(Byte) /\ e \in Seq(Byte)
            BY <1>1, <2>6, <5>3, Zenon
          <6> HIDE DEF h, e
          <6>2. Cat(Cat(h, m), e) = Cat(h, Cat(m, e))
            BY <6>1, CatRegroup
          <6>3. QED
            BY <5>2, <6>2, Zenon DEF Cat, h, e
      <4>5. <<NUL>> \o Q[intact + 2] = <<NUL>>
        BY <2>5, <2>6, ConcatEmptySeq
      <4>6. Q[intact + 1] = <<Len(sent'[intact + 1])>> \o
                (sent'[intact + 1] \o (<<NUL>> \o Q[intact + 2]))
        BY <1>1, <4>1, <4>3, <4>4, <4>5
      <4>7. \A i \in 1..(intact + 1) : i \in 1..intact \/ i = intact + 1
        BY <1>1
      <4>8. intact + 1 + 1 = intact + 2
        BY <1>1
      <4>9. QED
        BY <2>5, <3>1, <4>1, <4>6, <4>7, <4>8 DEF Tails
    <3>3. CASE ~(intact = l /\ n <= SizeMax)
      <4>1. intact' = intact /\ ~AllFit'
        <5>1. intact' = intact
          BY <1>2, <3>3
        <5>2. intact # l + 1
          BY <1>1
        <5>3. QED
          BY <1>1, <5>1, <5>2 DEF AllFit
      <4>2. QED
        BY <3>1, <4>1, Zenon DEF Tails
    <3>4. QED
      BY <3>2, <3>3
  <2>8. Turn(Q)'
    <3>1. Len(received) + 1 \in Nat /\ Len(received) + 1 <= intact + 1
      BY <1>1, <2>2
    <3>2. Q[Len(received) + 1] = R[Len(received) + 1] \o F
      BY <2>5, <3>1
    <3>3. ASSUME Len(received) < intact
          PROVE  /\ Q[Len(received) + 2] = R[Len(received) + 2] \o F
                 /\ sent'[Len(received) + 1] = sent[Len(received) + 1]
                 /\ sent[Len(received) + 1] \in Seq(Byte)
                 /\ Len(received) < intact'
      <4>1. /\ Len(received) + 1 \in 1..intact /\ Len(received) + 2 \in Nat
            /\ Len(received) + 2 <= intact + 1 /\ Len(received) + 1 \in 1..l
            /\ Len(received) < intact'
        <5>1. \A r \in Nat : r < intact =>
                 /\ r + 1 \in 1..intact /\ r + 2 \in Nat /\ r + 2 <= intact + 1
                 /\ r + 1 \in 1..l /\ r < intact + 1 /\ r < l + 1
          BY <1>1
        <5>2. QED
          BY <1>1, <1>2, <3>3, <5>1
      <4>2. sent[Len(received) + 1] \in Seq(Byte)
        BY <2>3, <4>1, NextMessage, SentMessage
      <4>3. QED
        BY <1>1, <2>5, <4>1, <4>2
    <3>4. size' = size /\ received' = received
      BY <1>2
    <3>5. Len(received) + 2 \in Nat
      BY <1>1
    <3>6. Turn(R) /\ <<NUL>> \in Seq(Byte) /\ Rest' = Rest \o F
      BY <2>3, <2>6
    <3>7. QED
      BY <1>3, <2>4, <3>1, <3>2, <3>3, <3>4, <3>5, <3>6, TurnLonger, Zenon
  <2>9. Len(received') <= intact'
    BY <1>1, <1>2, <2>2
  <2>10. Q \in [Nat -> Seq(Byte)] /\ ~undefined'
    BY <1>2, <2>2, <2>5
  <2>11. QED
    BY <2>1, <2>7, <2>8, <2>9, <2>10, Zenon
<1>7. QED
  BY <1>5, <1>6 DEF InStep

LEMMA InStepInit == ASSUME Init PROVE InStep /\ Counts
<1>1. /\ wire = <<>> /\ arrived = <<>> /\ sent = <<>> /\ received = <<>>
      /\ size = 0 /\ undefined = FALSE /\ intact = 0 /\ short = FALSE /\ whole = 0
  BY DEF Init
<1>2. \A S : <<>> \in Seq(S) /\ Len(<<>>) = 0
  BY EmptySeq
<1>3. Counts
  BY <1>1, <1>2 DEF Counts
<1>4. Rest = <<>>
  BY <1>1, <1>2, ConcatEmptySeq DEF Rest
<1>5. PICK R \in [Nat -> Seq(Byte)] : \A i \in Nat : R[i] = <<>>
  <2> DEFINE empty == [i \in Nat |-> <<>>]
  <2>1. empty \in [Nat -> Seq(Byte)] /\ \A i \in Nat : empty[i] = <<>>
    BY <1>2
  <2>2. QED
    BY <2>1
<1>6. Tails(R)
  BY <1>1, <1>2, <1>5 DEF Tails
<1>7. Turn(R)
  BY <1>1, <1>2, <1>4, <1>5 DEF Turn
<1>8. QED
  BY <1>1, <1>2, <1>3, <1>6, <1>7 DEF InStep

LEMMA InStepStep == ASSUME TypeOK, Counts, InStep, [Next]_vars PROVE InStep' /\ Counts'
<1>1. ASSUME NEW n \in Length, full_send(n) PROVE InStep' /\ Counts'
  BY <1>1, SendStep
<1>2. CASE Arrive
  BY <1>2, ArriveStep
<1>3. CASE ReadSize
  <2>1. Counts'
    BY <1>3 DEF Counts, AllFit, ReadSize, history
  <2>2. QED
    BY <1>3, <2>1, ReadSizeStep
<1>4. CASE ReadBody
  BY <1>4, ReadBodyStep
<1>5. CASE UNCHANGED vars
  <2>1. \A R : Tails(R)' = Tails(R) /\ Turn(R)' = Turn(R)
    BY <1>5 DEF Tails, Turn, Rest, AllFit, vars, program, history
  <2>2. QED
    BY <1>5, <2>1 DEF InStep, Counts, Over, AllFit, vars, program, history
<1>6. QED
  BY <1>1, <1>2, <1>3, <1>4, <1>5 DEF Next, receive_str

(* Until a recv finds only a part of a payload, or the first message that  *)
(* is too long is next, what the reader has yet to read begins with the    *)
(* frame, the NUL or the message that it expects.                          *)
THEOREM ReaderInStep == Spec => [](InStep /\ Counts)
  BY TypeCorrect, InStepInit, InStepStep, PTL DEF Spec

(* The beginning of a sequence. *)
LEMMA SamePrefix ==
    ASSUME NEW S, NEW s \in Seq(S), NEW t \in Seq(S), NEW n \in Nat, n <= Len(s), n <= Len(t),
           \A i \in 1..n : t[i] = s[i]
    PROVE  /\ SubSeq(t, 1, n) = SubSeq(s, 1, n)
           /\ Len(SubSeq(s, 1, n)) = n
           /\ \A i \in 1..n : SubSeq(s, 1, n)[i] = s[i]
<1>1. n \in Int /\ 1 \in Int /\ Len(s) \in Nat /\ Len(t) \in Nat
  BY LenProperties
<1>2. \A i \in 1..n : s[i] \in S /\ t[i] \in S
  BY <1>1, ElementOfSeq
<1>3. /\ SubSeq(s, 1, n) \in Seq(S) /\ Len(SubSeq(s, 1, n)) = n
      /\ \A i \in 1..n : SubSeq(s, 1, n)[i] = s[i]
  BY <1>1, <1>2, SubSeqProperties
<1>4. /\ SubSeq(t, 1, n) \in Seq(S) /\ Len(SubSeq(t, 1, n)) = n
      /\ \A i \in 1..n : SubSeq(t, 1, n)[i] = t[i]
  BY <1>1, <1>2, SubSeqProperties
<1>5. SubSeq(t, 1, n) = SubSeq(s, 1, n)
  BY <1>3, <1>4, SeqEqual
<1>6. QED
  BY <1>3, <1>5

(* What the channel has seen. *)
Kept == SubSeq(sent, 1, intact)
Got == SubSeq(received, 1, Lesser(intact, whole))

LEMMA SendIsSend ==
    ASSUME TypeOK, Counts, NEW n \in Length, full_send(n)
    PROVE  /\ Got' = Got
           /\ Kept' = Kept \/ (Message(n) \in Messages /\ Kept' = Append(Kept, Message(n)))
<1>1. /\ sent \in Seq(Messages) /\ sent' \in Seq(Messages) /\ Message(n) \in Messages
      /\ Len(sent') = Len(sent) + 1 /\ Len(sent) \in Nat /\ intact \in Nat /\ intact <= Len(sent)
      /\ \A i \in 1..Len(sent) : sent'[i] = sent[i]
  BY SendTypes DEF TypeOK
<1>2. /\ intact' = IF intact = Len(sent) /\ n <= SizeMax THEN Len(sent) + 1 ELSE intact
      /\ sent' = Append(sent, Message(n)) /\ received' = received /\ whole' = whole
  BY DEF full_send
<1>3. CASE intact' = intact
  <2>1. \A i \in 1..intact : sent'[i] = sent[i]
    BY <1>1
  <2>2. intact <= Len(sent')
    BY <1>1
  <2>3. SubSeq(sent', 1, intact) = SubSeq(sent, 1, intact)
    BY <1>1, <2>1, <2>2, SamePrefix
  <2>4. QED
    BY <1>2, <1>3, <2>3 DEF Kept, Got, Lesser
<1>4. CASE intact' # intact
  <2>1. intact = Len(sent) /\ intact' = Len(sent')
    BY <1>1, <1>2, <1>4
  <2>2. Kept = sent /\ Kept' = sent'
    BY <1>1, <2>1, SubSeqFull DEF Kept
  <2>3. Lesser(intact, whole) = whole /\ Lesser(intact', whole') = whole
    <3>1. whole <= intact /\ whole \in Nat
      BY <2>1 DEF Counts, AllFit, TypeOK
    <3>2. intact' = intact + 1
      BY <1>1, <2>1
    <3>3. QED
      BY <1>1, <1>2, <3>1, <3>2 DEF Lesser
  <2>4. QED
    BY <1>1, <1>2, <2>2, <2>3 DEF Got
<1>5. QED
  BY <1>3, <1>4

LEMMA BodyIsReceive ==
    ASSUME TypeOK, Counts, InStep, ReadBody
    PROVE  /\ Kept' = Kept
           /\ \/ Got' = Got
              \/ Len(Got) < Len(Kept) /\ Got' = Append(Got, Kept[Len(Got) + 1])
<1>1. /\ sent' = sent /\ intact' = intact
      /\ short' = (short \/ Len(arrived) < size)
      /\ whole' = IF short' THEN whole ELSE Len(received')
  BY DEF ReadBody, RecvBody
<1>2. /\ received \in Seq(Seq(Byte)) /\ received' \in Seq(Seq(Byte))
      /\ Len(received') \in {Len(received), Len(received) + 1} /\ Len(received) \in Nat
      /\ \A i \in 1..Len(received) : received'[i] = received[i]
  BY BodyTypes DEF TypeOK, ReadBody
<1>3. /\ intact \in Nat /\ whole \in Nat /\ whole <= Len(received)
      /\ intact <= Len(sent) /\ sent \in Seq(Messages) /\ Len(sent) \in Nat
  BY <1>2, LenProperties DEF TypeOK
<1>4. Kept' = Kept
  BY <1>1 DEF Kept
<1>5. ASSUME Lesser(intact', whole') = Lesser(intact, whole) PROVE Got' = Got
  <2> DEFINE n == Lesser(intact, whole)
  <2>1. n \in Nat /\ n <= Len(received) /\ n <= Len(received')
    BY <1>2, <1>3 DEF Lesser
  <2> HIDE DEF n
  <2>2. \A i \in 1..n : received'[i] = received[i]
    <3>1. \A i \in 1..n : i \in 1..Len(received)
      BY <1>2, <2>1
    <3>2. QED
      BY <1>2, <3>1, Zenon
  <2>3. SubSeq(received', 1, n) = SubSeq(received, 1, n)
    BY <1>2, <2>1, <2>2, SamePrefix
  <2>4. QED
    BY <1>5, <2>3 DEF Got, n
<1>6. CASE short'
  BY <1>1, <1>4, <1>5, <1>6
<1>7. CASE ~short' /\ Over
  <2>1. intact <= Len(received) /\ whole = Len(received) /\ whole' = Len(received')
    BY <1>1, <1>7 DEF Over, Counts
  <2>2. Lesser(intact', whole') = Lesser(intact, whole)
    BY <1>1, <1>2, <1>3, <2>1 DEF Lesser
  <2>3. QED
    BY <1>4, <1>5, <2>2
<1>8. CASE ~short' /\ ~Over
  <2> DEFINE k == Len(received) + 1
  <2>1. /\ k \in 1..intact /\ Len(received') = k
        /\ received' = Append(received, sent[k])
    BY <1>8, TakesMessage
  <2>2. whole = Len(received) /\ whole' = Len(received')
    BY <1>1, <1>8 DEF Over, Counts
  <2>3. /\ Lesser(intact, whole) = Len(received) /\ Lesser(intact', whole') = Len(received')
        /\ Len(received) < intact
    BY <1>1, <1>2, <1>3, <2>1, <2>2 DEF Lesser
  <2>4. Got = received /\ Got' = received'
    BY <1>2, <2>3, SubSeqFull DEF Got
  <2>5. Len(Kept) = intact /\ Kept[k] = sent[k]
    BY <1>3, <2>1, SamePrefix DEF Kept
  <2>6. QED
    BY <1>4, <2>1, <2>3, <2>4, <2>5
<1>9. QED
  BY <1>6, <1>7, <1>8

(* Message by message, whatever the lengths and wherever TCP cuts: up to   *)
(* the first message longer than SizeMax, and up to the first recv that    *)
(* finds only a part of its payload, what receive_str hands over is what   *)
(* full_send was given, in order, nothing cut, joined, invented or lost    *)
(* (Socket.h 279-297 against 326-335).                                     *)
THEOREM ChannelImplemented == Spec => ImplementsChannel
<1>1. Init => Promise!Init
  <2> SUFFICES ASSUME Init PROVE Promise!Init
    OBVIOUS
  <2>1. sent = <<>> /\ received = <<>> /\ intact = 0 /\ whole = 0
    BY DEF Init
  <2>2. SubSeq(<<>>, 1, 0) = <<>>
    BY SubSeqEmpty
  <2>3. QED
    BY <2>1, <2>2 DEF Promise!Init, Lesser
<1>2. TypeOK /\ InStep /\ Counts /\ [Next]_vars => [Promise!Next]_(Promise!channelVars)
  <2> SUFFICES ASSUME TypeOK, InStep, Counts, [Next]_vars
               PROVE  [Promise!Next]_(Promise!channelVars)
    OBVIOUS
  <2>0. (Kept' = Kept /\ Got' = Got) => UNCHANGED Promise!channelVars
    BY DEF Kept, Got, Promise!channelVars
  <2>1. ASSUME NEW n \in Length, full_send(n) PROVE [Promise!Next]_(Promise!channelVars)
    <3>1. /\ Got' = Got
          /\ Kept' = Kept \/ (Message(n) \in Messages /\ Kept' = Append(Kept, Message(n)))
      BY <2>1, SendIsSend
    <3>2. QED
      BY <2>0, <3>1 DEF Kept, Got, Promise!Next, Promise!Send
  <2>2. CASE Arrive \/ ReadSize
    BY <2>2 DEF Arrive, ReadSize, history, Promise!channelVars, Lesser
  <2>3. CASE ReadBody
    <3>1. /\ Kept' = Kept
          /\ \/ Got' = Got
             \/ Len(Got) < Len(Kept) /\ Got' = Append(Got, Kept[Len(Got) + 1])
      BY <2>3, BodyIsReceive
    <3>2. QED
      BY <2>0, <3>1 DEF Kept, Got, Promise!Next, Promise!Receive
  <2>4. CASE UNCHANGED vars
    BY <2>4 DEF vars, history, Promise!channelVars, Lesser
  <2>5. QED
    BY <2>1, <2>2, <2>3, <2>4 DEF Next, receive_str
<1>3. QED
  BY <1>1, <1>2, TypeCorrect, ReaderInStep, PTL DEF Spec, ImplementsChannel, Promise!Spec

-----------------------------------------------------------------------------
(* Which handler runs.  The names of the enumerators without a value, and  *)
(* of what is not an enumerator.                                           *)
Unvalued == {"INVALID_ADDRESS", "INVALID_PORT", "DISCONNECTING", "SUCCESS"}
NoEnumerator == {"ok", "eof", "none"}

LEMMA CallIs ==
    Call = {"create", "accept", "connect", "listen", "receive", "send", "bind", "select", "close"}
  BY DEF Call, Listed

(* What stands in the lists of Errors.h, and what the manual pages add, is *)
(* an errno.                                                               *)
LEMMA FailuresAreErrnos ==
    ASSUME NEW call \in Call
    PROVE  /\ Failure(call) \cap (Unvalued \cup NoEnumerator) = {}
           /\ Listed[call] \subseteq Failure(call) /\ LastValued[call] \in Listed[call]
<1> USE DEF Failure, Listed, Unlisted, LastValued, Unvalued, NoEnumerator
<1>1. CASE call = "create"
  BY <1>1 DEF all_create_errors
<1>2. CASE call = "accept"
  BY <1>2 DEF all_accept_errors
<1>3. CASE call = "connect"
  BY <1>3 DEF all_connect_errors
<1>4. CASE call = "listen"
  BY <1>4 DEF all_listen_errors
<1>5. CASE call = "receive"
  BY <1>5 DEF all_receive_errors
<1>6. CASE call = "send"
  BY <1>6 DEF all_send_errors
<1>7. CASE call = "bind"
  BY <1>7 DEF all_bind_errors
<1>8. CASE call = "select"
  BY <1>8 DEF all_select_errors
<1>9. CASE call = "close"
  BY <1>9 DEF all_close_errors
<1>10. QED
  BY <1>1, <1>2, <1>3, <1>4, <1>5, <1>6, <1>7, <1>8, <1>9, CallIs

(* The enumerators without a value are different ones. *)
LEMMA NumberedIs ==
    ASSUME NEW call \in Call
    PROVE  /\ \A n \in DOMAIN Numbered[call] : n \in Nat \ {0} /\ Numbered[call][n] \in Unvalued
           /\ \A m, n \in DOMAIN Numbered[call] : Numbered[call][m] = Numbered[call][n] => m = n
           /\ \E n \in DOMAIN Numbered[call] : Numbered[call][n] = "SUCCESS"
<1>1. CASE call = "receive"
  <2>1. Numbered[call] = <<"DISCONNECTING", "SUCCESS">>
    BY <1>1 DEF Numbered
  <2>2. QED
    BY <2>1 DEF Unvalued
<1>2. CASE call \in {"bind", "connect"}
  <2>1. Numbered[call] = <<"INVALID_ADDRESS", "INVALID_PORT", "SUCCESS">>
    BY <1>2 DEF Numbered
  <2>2. QED
    BY <2>1 DEF Unvalued
<1>3. CASE call \in {"create", "accept", "listen", "send", "select", "close"}
  <2>1. Numbered[call] = <<"SUCCESS">>
    BY <1>3 DEF Numbered
  <2>2. QED
    BY <2>1 DEF Unvalued
<1>4. QED
  BY <1>1, <1>2, <1>3, CallIs

(* Handlers are installed for enumerators. *)
LEMMA InstalledIs ==
    ASSUME NEW s \in Socket, NEW call \in DOMAIN Installed[s]
    PROVE  call \in Call /\ Installed[s][call] \subseteq Everything(call)
<1>0. Socket = {"server", "accepted", "client", "thorough"}
  BY DEF Socket, Installed
<1>1. CASE s = "server"
  <2>1. Installed[s] = [create |-> Everything("create"), accept |-> Everything("accept"),
                        listen |-> Everything("listen"), send |-> {"SUCCESS", "EPIPE"},
                        bind |-> {}, select |-> {}, close |-> {}]
    BY <1>1 DEF Installed
  <2>2. {"SUCCESS", "EPIPE"} \subseteq Everything("send")
    <3>1. Numbered["send"] = <<"SUCCESS">> /\ Listed["send"] = all_send_errors
      BY DEF Numbered, Listed
    <3>2. QED
      BY <3>1 DEF Everything, all_send_errors
  <2>3. QED
    BY <2>1, <2>2, CallIs
<1>2. CASE s = "accepted"
  <2>1. Installed[s] = [receive |-> Everything("receive"), send |-> {}, close |-> {}]
    BY <1>2 DEF Installed
  <2>2. QED
    BY <2>1, CallIs
<1>3. CASE s = "client"
  <2>1. Installed[s] = [create |-> Everything("create"), connect |-> Everything("connect"),
                        receive |-> Everything("receive"), send |-> Errors("send"), close |-> {}]
    BY <1>3 DEF Installed
  <2>2. Errors("send") \subseteq Everything("send")
    BY DEF Errors
  <2>3. QED
    BY <2>1, <2>2, CallIs
<1>4. CASE s = "thorough"
  <2>1. Installed[s] = [c \in Call |-> Everything(c)]
    BY <1>4 DEF Installed
  <2>2. QED
    BY <2>1
<1>5. QED
  BY <1>0, <1>1, <1>2, <1>3, <1>4

(* The number of an enumerator. *)
LEMMA KeyIs ==
    ASSUME NEW call \in Call
    PROVE  /\ \A e \in Listed[call] : Key(call, e) = Errno[e]
           /\ \A n \in DOMAIN Numbered[call] :
                  Key(call, Numbered[call][n]) = Errno[LastValued[call]] + n
<1>1. \A e \in Listed[call] : Key(call, e) = Errno[e]
  BY DEF Key
<1>2. ASSUME NEW n \in DOMAIN Numbered[call]
      PROVE  Key(call, Numbered[call][n]) = Errno[LastValued[call]] + n
  <2>1. Numbered[call][n] \notin Listed[call]
    BY NumberedIs, FailuresAreErrnos
  <2>2. (CHOOSE m \in DOMAIN Numbered[call] : Numbered[call][m] = Numbered[call][n]) = n
    BY NumberedIs
  <2>3. QED
    BY <2>1, <2>2 DEF Key
<1>3. QED
  BY <1>1, <1>2

(* On a portable platform the numbers of SUCCESS and DISCONNECTING are     *)
(* nobody else's, and none is that of NoHandler.                           *)
LEMMA KeysDiffer ==
    ASSUME NEW call \in Call, Errno \in Platform, Portable(Errno), NEW e \in Everything(call)
    PROVE  /\ Key(call, e) \in Nat \ {0}
           /\ \A f \in Everything(call) \cap {"SUCCESS", "DISCONNECTING"} :
                  e # f => Key(call, e) # Key(call, f)
<1>1. \A x \in Failure(call) : Errno[x] \in Nat \ {0}
  BY PlatformAssumption DEF Portable
<1>2. LastValued[call] \in Failure(call)
  BY FailuresAreErrnos
<1>3. ASSUME NEW f \in Everything(call)
      PROVE  /\ f \in Listed[call] => Key(call, f) = Errno[f] /\ Key(call, f) \in Nat \ {0}
             /\ f \notin Listed[call] => \E n \in DOMAIN Numbered[call] :
                    /\ f = Numbered[call][n] /\ n \in Nat \ {0}
                    /\ Key(call, f) = Errno[LastValued[call]] + n /\ Key(call, f) \in Nat \ {0}
  <2>1. CASE f \in Listed[call]
    BY <1>1, <2>1, KeyIs, FailuresAreErrnos
  <2>2. CASE f \notin Listed[call]
    <3>1. PICK n \in DOMAIN Numbered[call] : f = Numbered[call][n]
      BY <1>3, <2>2 DEF Everything
    <3>2. n \in Nat \ {0} /\ Key(call, f) = Errno[LastValued[call]] + n
      BY <3>1, KeyIs, NumberedIs
    <3>3. Errno[LastValued[call]] \in Nat
      BY <1>1, <1>2
    <3>4. QED
      BY <2>2, <3>1, <3>2, <3>3
  <2>3. QED
    BY <2>1, <2>2
<1>4. ASSUME NEW f \in Everything(call) \cap {"SUCCESS", "DISCONNECTING"}, e # f
      PROVE  Key(call, e) # Key(call, f)
  <2>1. f \notin Listed[call]
    BY <1>4, FailuresAreErrnos DEF Unvalued
  <2>2. PICK n \in DOMAIN Numbered[call] :
            f = Numbered[call][n] /\ Key(call, f) = Errno[LastValued[call]] + n /\ n \in Nat
    BY <1>3, <2>1
  <2>3. CASE e \in Listed[call]
    BY <1>3, <2>2, <2>3 DEF Portable
  <2>4. CASE e \notin Listed[call]
    <3>1. PICK m \in DOMAIN Numbered[call] :
              e = Numbered[call][m] /\ Key(call, e) = Errno[LastValued[call]] + m /\ m \in Nat
      BY <1>3, <2>4
    <3>2. m # n /\ Errno[LastValued[call]] \in Nat
      BY <1>1, <1>2, <1>4, <2>2, <3>1
    <3>3. QED
      BY <2>2, <3>1, <3>2
  <2>5. QED
    BY <2>3, <2>4
<1>5. QED
  BY <1>3, <1>4

(* What is known of every call. *)
Reported == NoFalseAlarm /\ ListedErrorIsReported

(* A success: the handler of SUCCESS runs, or none. *)
LEMMA SuccessIsNoAlarm ==
    ASSUME Errno \in Platform, Portable(Errno), Errno' = Errno,
           NEW s \in Socket, NEW call \in DOMAIN Installed[s],
           NEW outcome \in NoEnumerator \cup Unlisted[call],
           outcome \notin Listed[call],
           last' = [socket |-> s, call |-> call, outcome |-> outcome],
           outcome = "ok" => ran' \in {Key(call, "SUCCESS"), NoHandler},
           outcome = "ok" /\ ran' # NoHandler => "SUCCESS" \in Everything(call)
    PROVE  Reported'
<1>1. call \in Call /\ Installed[s][call] \subseteq Everything(call)
  BY InstalledIs
<1>2. last'.socket = s /\ last'.call = call /\ last'.outcome = outcome
  OBVIOUS
<1>3. \A e : Key(call, e)' = Key(call, e)
  BY DEF Key
<1>4. outcome \notin Everything(call)
  <2>1. outcome \notin Unvalued
    BY <1>1, FailuresAreErrnos DEF Failure, Unvalued, NoEnumerator
  <2>2. QED
    BY <1>1, <2>1, NumberedIs DEF Everything
<1>5. ListedErrorIsReported'
  BY <1>1, <1>2, <1>4 DEF ListedErrorIsReported
<1>6. ASSUME outcome = "ok", NEW e \in Errors(call)
      PROVE  ran' # Key(call, e)
  <2>1. e \in Everything(call) /\ e # "SUCCESS"
    BY <1>6 DEF Errors
  <2>2. Key(call, e) # NoHandler
    BY <1>1, <2>1, KeysDiffer DEF NoHandler
  <2>3. CASE ran' # NoHandler
    BY <1>1, <1>6, <2>1, <2>3, KeysDiffer
  <2>4. QED
    BY <2>2, <2>3
<1>7. NoFalseAlarm'
  BY <1>2, <1>3, <1>6 DEF NoFalseAlarm, Handled
<1>8. QED
  BY <1>5, <1>7 DEF Reported

(* A failure that has a handler runs it. *)
LEMMA ErrorIsReported ==
    ASSUME Errno \in Platform, Portable(Errno), Errno' = Errno,
           NEW s \in Socket, NEW call \in DOMAIN Installed[s], NEW e,
           e \notin NoEnumerator \cup {"SUCCESS", "DISCONNECTING"},
           last' = [socket |-> s, call |-> call, outcome |-> e],
           e \in Installed[s][call] => ran' = Key(call, e)
    PROVE  Reported'
<1>1. call \in Call /\ Installed[s][call] \subseteq Everything(call)
  BY InstalledIs
<1>2. last'.socket = s /\ last'.call = call /\ last'.outcome = e
  OBVIOUS
<1>3. \A f : Key(call, f)' = Key(call, f)
  BY DEF Key
<1>4. NoFalseAlarm'
  BY <1>2 DEF NoFalseAlarm, NoEnumerator
<1>5. ASSUME e \in Installed[s][call]
      PROVE  /\ ran' = Key(call, e)
             /\ \A f \in {"SUCCESS", "DISCONNECTING"} \cap Everything(call) : ran' # Key(call, f)
  BY <1>1, <1>5, KeysDiffer
<1>6. ListedErrorIsReported'
  BY <1>2, <1>3, <1>5 DEF ListedErrorIsReported
<1>7. QED
  BY <1>4, <1>6 DEF Reported

(* A call. *)
LEMMA InvokeReports ==
    ASSUME Errno \in Platform, Portable(Errno), Errno' = Errno,
           NEW s \in Socket, NEW call \in DOMAIN Installed[s], NEW outcome \in Outcome(call),
           Invoke(s, call, outcome)
    PROVE  Reported'
<1>0. /\ call \in Call /\ Installed[s][call] \subseteq Everything(call)
      /\ last' = [socket |-> s, call |-> call, outcome |-> outcome]
  BY InstalledIs DEF Invoke
<1>1. CASE outcome \in Failure(call)
  <2>1. errno' = Errno[outcome] /\ ran' = Run(s, call, outcome)
    BY <1>1 DEF Invoke
  <2>2. outcome \notin NoEnumerator \cup Unvalued
    BY <1>0, <1>1, FailuresAreErrnos
  <2>3. ASSUME outcome \in Installed[s][call]
        PROVE  ran' = Key(call, outcome)
    <3>1. outcome \in Listed[call]
      BY <1>0, <2>2, <2>3, NumberedIs DEF Everything
    <3>2. errno' = Key(call, outcome)
      BY <1>0, <2>1, <3>1, KeyIs
    <3>3. errno' \in Keys(s, call)
      BY <2>3, <3>2 DEF Keys
    <3>4. QED
      BY <1>1, <2>1, <2>2, <3>2, <3>3 DEF Run, NoEnumerator
  <2>4. QED
    BY <1>0, <2>2, <2>3, ErrorIsReported DEF Unvalued
<1>2. CASE outcome \notin Failure(call)
  <2>1. outcome \in NoEnumerator /\ ran' = Run(s, call, outcome)
    BY <1>2 DEF Invoke, Outcome, NoEnumerator
  <2>2. outcome \notin Listed[call]
    BY <1>2 DEF Failure
  <2>3. ASSUME outcome = "ok"
        PROVE  /\ ran' \in {Key(call, "SUCCESS"), NoHandler}
               /\ ran' # NoHandler => "SUCCESS" \in Everything(call)
    <3>1. ran' = IF Key(call, "SUCCESS") \in Keys(s, call) THEN Key(call, "SUCCESS") ELSE NoHandler
      BY <1>2, <2>1, <2>3 DEF Run
    <3>2. \E n \in DOMAIN Numbered[call] : Numbered[call][n] = "SUCCESS"
      BY <1>0, NumberedIs
    <3>3. "SUCCESS" \in Everything(call)
      BY <3>2 DEF Everything
    <3>4. QED
      BY <3>1, <3>3
  <2>4. QED
    BY <1>0, <2>1, <2>2, <2>3, SuccessIsNoAlarm
<1>3. QED
  BY <1>1, <1>2

(* The size of a message, and a refusal. *)
LEMMA ReceiveSizeReports ==
    ASSUME Errno \in Platform, Portable(Errno), Errno' = Errno, NEW s \in Socket, ReceiveSize(s)
    PROVE  Reported'
<1>1. PICK outcome \in Outcome("receive") \ {"ok"} :
          /\ "receive" \in DOMAIN Installed[s]
          /\ errno' = IF outcome = "eof" THEN errno ELSE Errno[outcome]
          /\ last' = [socket |-> s, call |-> "receive", outcome |-> outcome]
          /\ ran' = IF outcome \in Failure("receive") /\ errno' \in Keys(s, "receive")
                    THEN errno' ELSE Run(s, "receive", "eof")
  BY DEF ReceiveSize
<1>2. "receive" \in Call /\ Installed[s]["receive"] \subseteq Everything("receive")
  BY <1>1, InstalledIs
<1>3. CASE outcome \in Failure("receive")
  <2>1. outcome \notin NoEnumerator \cup Unvalued
    BY <1>2, <1>3, FailuresAreErrnos
  <2>2. ASSUME outcome \in Installed[s]["receive"]
        PROVE  ran' = Key("receive", outcome)
    <3>1. outcome \in Listed["receive"]
      BY <1>2, <2>1, <2>2, NumberedIs DEF Everything
    <3>2. errno' = Key("receive", outcome)
      BY <1>1, <1>2, <2>1, <3>1, KeyIs DEF NoEnumerator
    <3>3. errno' \in Keys(s, "receive")
      BY <2>2, <3>2 DEF Keys
    <3>4. QED
      BY <1>1, <1>3, <3>2, <3>3
  <2>3. QED
    BY <1>1, <2>1, <2>2, ErrorIsReported DEF Unvalued
<1>4. CASE outcome \notin Failure("receive")
  <2>1. outcome = "eof" /\ outcome \notin Listed["receive"]
    BY <1>1, <1>4 DEF Outcome, Failure
  <2>2. QED
    BY <1>1, <2>1, SuccessIsNoAlarm DEF NoEnumerator
<1>5. QED
  BY <1>3, <1>4

LEMMA RefuseReports ==
    ASSUME Errno \in Platform, Portable(Errno), Errno' = Errno,
           NEW s \in Socket, NEW call \in DOMAIN Installed[s], Refuse(s, call)
    PROVE  Reported'
<1>1. PICK e \in {"INVALID_ADDRESS", "INVALID_PORT"} :
          last' = [socket |-> s, call |-> call, outcome |-> e] /\ ran' = Key(call, e)
  BY DEF Refuse
<1>2. QED
  BY <1>1, ErrorIsReported DEF NoEnumerator

LEMMA ReportedHolds ==
    ASSUME \A P \in Platform : Portable(P)
    PROVE  DispatchSpec => []Reported
<1>1. DispatchInit => Errno \in Platform /\ Reported
  <2> SUFFICES ASSUME DispatchInit PROVE Errno \in Platform /\ Reported
    OBVIOUS
  <2>1. /\ Errno \in Platform
        /\ last.socket = "server" /\ last.call = "create" /\ last.outcome = "none"
    BY DEF DispatchInit
  <2>2. "server" \in Socket /\ "create" \in DOMAIN Installed["server"]
    BY DEF Socket, Installed
  <2>3. "none" \notin Installed["server"]["create"]
    <3>1. "create" \in Call /\ Installed["server"]["create"] \subseteq Everything("create")
      BY <2>2, InstalledIs
    <3>2. QED
      BY <3>1, FailuresAreErrnos, NumberedIs DEF Everything, Unvalued, NoEnumerator
  <2>4. QED
    BY <2>1, <2>3 DEF Reported, NoFalseAlarm, ListedErrorIsReported
<1>2. Errno \in Platform /\ Reported /\ [DispatchNext]_dispatchVars
         => (Errno \in Platform /\ Reported)'
  <2> SUFFICES ASSUME Errno \in Platform, Reported, [DispatchNext]_dispatchVars
               PROVE  (Errno \in Platform /\ Reported)'
    OBVIOUS
  <2>1. Errno' = Errno /\ Portable(Errno)
    BY DEF DispatchNext, dispatchVars
  <2>2. CASE UNCHANGED dispatchVars
    BY <2>2 DEF dispatchVars, Reported, NoFalseAlarm, Handled, ListedErrorIsReported, Key
  <2>3. CASE DispatchNext
    BY <2>1, <2>3, InvokeReports, ReceiveSizeReports, RefuseReports DEF DispatchNext
  <2>4. QED
    BY <2>1, <2>2, <2>3
<1>3. QED
  BY <1>1, <1>2, PTL DEF DispatchSpec

(* On every platform whose <errno.h> is portable, a call that succeeds     *)
(* after others have failed is not taken for a failure (Socket.h 240-248,  *)
(* 261-266, 279-297, 537-545).                                             *)
THEOREM SuccessesAreNoFailures ==
    ASSUME \A P \in Platform : Portable(P)
    PROVE  DispatchSpec => []NoFalseAlarm
<1>1. Reported => NoFalseAlarm
  BY DEF Reported
<1>2. QED
  BY <1>1, ReportedHolds, PTL

(* On every such platform a listed error that has a handler runs it, and   *)
(* never the one of a success or of the end of a stream (Errors.h 380-387, *)
(* Socket.h 240-248).                                                      *)
THEOREM ErrorsAreReported ==
    ASSUME \A P \in Platform : Portable(P)
    PROVE  DispatchSpec => []ListedErrorIsReported
<1>1. Reported => ListedErrorIsReported
  BY DEF Reported
<1>2. QED
  BY <1>1, ReportedHolds, PTL
=============================================================================
