------------------------------ MODULE Framing ------------------------------
(***************************************************************************)
(* How one message crosses one direction of a TCP connection: full_send    *)
(* and receive_str of libsocket/Socket.h.  A frame is a size of type       *)
(* SizeType, the characters, and a NUL; the NUL is not counted, so that    *)
(* receive_str finds it as the size of an empty frame, which it ignores.   *)
(* TCP keeps the order of the bytes, not the boundaries of the sends: they *)
(* arrive one by one, and a recv finds as many as have arrived.            *)
(*                                                                         *)
(* A message is garbled, and what follows it may be, when it is longer     *)
(* than SizeType can say, or when the one recv of the payload finds only a *)
(* part of it.  Neither is excluded: the properties say what the stream    *)
(* does until then.                                                        *)
(*                                                                         *)
(* Bytes are numbers.  All messages are written with one Letter, and are   *)
(* told apart by their lengths.                                            *)
(***************************************************************************)
EXTENDS Integers, Sequences, FiniteSetsExt

CONSTANTS SizeMax,    (* largest value of SizeType: 127 for a signed char     *)
          Length,     (* lengths of the messages sent                         *)
          MaxSends    (* bound: number of calls of full_send                  *)

ASSUME FramingAssumption ==
    /\ SizeMax \in Nat \ {0}
    /\ Length \subseteq Nat \ {0}
    /\ MaxSends \in Nat

Modulus == 2 * (SizeMax + 1)
Byte == -(SizeMax + 1)..SizeMax
NUL == 0
Letter == SizeMax                             (* as z, 122, is close to 127 *)
Message(n) == [j \in 1..n |-> Letter]
Messages == {Message(n) : n \in Length}

VARIABLES wire,       (* bytes in flight                                      *)
          arrived,    (* bytes in the receiver's socket buffer                *)
          size,       (* receive_str's size; 0 when it has yet to read one    *)
          undefined,  (* char buff[size + 1] was declared with size < 0       *)
          sent,       (* history: the messages given to full_send             *)
          received,   (* history: the messages given to the receive handler   *)
          intact,     (* history: messages sent before the first too long one *)
          short,      (* history: a recv found only a part of its payload     *)
          whole       (* history: messages received before it did             *)

program == <<wire, arrived, size, undefined>>
history == <<sent, received, intact, short, whole>>
vars == <<program, history>>

TypeOK ==
    /\ wire \in Seq(Byte) /\ arrived \in Seq(Byte)
    /\ size \in 0..SizeMax
    /\ undefined \in BOOLEAN /\ short \in BOOLEAN
    /\ sent \in Seq(Messages) /\ received \in Seq(Seq(Byte))
    /\ intact \in 0..Len(sent) /\ whole \in 0..Len(received)

Init ==
    /\ wire = <<>> /\ arrived = <<>>
    /\ size = 0 /\ undefined = FALSE
    /\ sent = <<>> /\ received = <<>>
    /\ intact = 0 /\ short = FALSE /\ whole = 0

(* (SizeType)n, for a signed SizeType. *)
Signed(n) == IF n % Modulus > SizeMax THEN (n % Modulus) - Modulus ELSE n % Modulus

(* Fault: the terminator is left out of the count, although size() does. *)
Header_OneLess(n) == Signed(n - 1)

(* Fault: the size counts the whole buffer, header and NUL included. *)
Header_WholeBuffer(n) == Signed(n + 2)

Header(n) == Signed(n)

Frame(n) == <<Header(n)>> \o Message(n) \o <<NUL>>

(* A size of 0 sends nothing. *)
full_send(n) ==
    /\ Len(sent) < MaxSends
    /\ wire' = IF Header(n) = 0 THEN wire ELSE wire \o Frame(n)
    /\ sent' = Append(sent, Message(n))
    /\ intact' = IF intact = Len(sent) /\ n <= SizeMax THEN Len(sent) + 1 ELSE intact
    /\ UNCHANGED <<arrived, size, undefined, received, short, whole>>

Arrive ==
    /\ wire # <<>>
    /\ arrived' = Append(arrived, Head(wire))
    /\ wire' = Tail(wire)
    /\ UNCHANGED <<size, undefined, history>>

(* The first recv of receive_str.  A size of 0 ends the call.  After a     *)
(* negative one the call is undefined, and so is everything that follows.  *)
ReadSize ==
    /\ size = 0 /\ ~undefined /\ arrived # <<>>
    /\ size' = IF Head(arrived) < 0 THEN 0 ELSE Head(arrived)
    /\ undefined' = (Head(arrived) < 0)
    /\ arrived' = Tail(arrived)
    /\ UNCHANGED <<wire, history>>

(* std::string of a char array ends before the first NUL. *)
CString(bytes) ==
    LET nuls == {j \in DOMAIN bytes : bytes[j] = NUL}
    IN  IF nuls = {} THEN bytes ELSE SubSeq(bytes, 1, Min(nuls) - 1)

(* One recv takes up to size bytes; the handlers ignore an empty payload.  *)
Taken == Min({size, Len(arrived)})

RecvBody ==
    /\ size > 0 /\ arrived # <<>>
    /\ LET payload == CString(SubSeq(arrived, 1, Taken))
       IN  received' = IF payload = <<>> THEN received ELSE Append(received, payload)
    /\ arrived' = SubSeq(arrived, Taken + 1, Len(arrived))
    /\ short' = (short \/ Len(arrived) < size)
    /\ whole' = IF short' THEN whole ELSE Len(received')
    /\ UNCHANGED <<wire, undefined, sent, intact>>

(* Fault: what is missing is awaited, and the NUL is counted in. *)
ReadBody_CountsNul == RecvBody /\ size' = size - Taken - 1

ReadBody == RecvBody /\ size' = 0

receive_str == ReadSize \/ ReadBody

Next == (\E n \in Length : full_send(n)) \/ Arrive \/ receive_str

Spec == Init /\ [][Next]_vars

(* The network delivers what was sent; both programs call receive_str as   *)
(* long as there is something to read.                                     *)
FairSpec == Spec /\ WF_vars(Arrive) /\ WF_vars(receive_str)

-----------------------------------------------------------------------------
(* Message by message, the stream is a channel: up to the first message    *)
(* that is too long, and up to the first recv that finds only a part of    *)
(* its payload, nothing is cut, joined, invented, lost or overtaken        *)
(* (Socket.h 279-297 against 326-335).                                     *)
Lesser(m, n) == IF m <= n THEN m ELSE n
Promise == INSTANCE Channel WITH
    Msg <- Messages,
    sent <- SubSeq(sent, 1, intact),
    received <- SubSeq(received, 1, Lesser(intact, whole))
ImplementsChannel == Promise!Spec

(* What was sent before a message that is too long arrives: the reader     *)
(* does not get stuck between the size and the payload, nor on the         *)
(* uncounted NUL, but for a recv that finds only a part of a payload.      *)
EverySentArrives == \A n \in 1..MaxSends : (intact >= n) ~> (whole >= n \/ short)

(* The reader declares no array of a negative length (Socket.h:293) unless *)
(* somebody has sent a message that is too long, not even when it takes    *)
(* letters for sizes.                                                      *)
SizeIsReadable == undefined => intact < Len(sent)

-----------------------------------------------------------------------------
(* What does not hold.  README.md:61, "the max message size is 255 because *)
(* it's a char": beyond SizeMax, 127 for a signed char, the size is        *)
(* negative.                                                               *)
SizeIsNeverNegative == ~undefined

(* A payload whose bytes do not arrive together is not received: its one   *)
(* recv takes what is there (Socket.h:295).                                *)
NothingIsGarbled == \A i \in DOMAIN received : i <= intact => received[i] = sent[i]
=============================================================================
