----------------------------- MODULE RingBuffer -----------------------------
(***************************************************************************)
(* Utilities::RingBuffer<T> of RingBuffer.h: an unbounded queue guarded by *)
(* one mutex and one condition variable.  Both operations hold the mutex   *)
(* from their first line to their last, except while a consumer sleeps in  *)
(* cv.wait, so each stretch between lock and unlock is one step.           *)
(***************************************************************************)
EXTENDS Naturals, Sequences

CONSTANTS Msg,        (* what is put in the buffer                            *)
          Consumer,   (* the threads that call rx                             *)
          MaxTx       (* bound: number of tx calls in a behaviour             *)

ASSUME MaxTxAssumption == MaxTx \in Nat

VARIABLES buffer,     (* std::queue<T> buffer                                 *)
          consumer,   (* "out": not in rx;  "asleep": in cv.wait;             *)
                      (* "woken": notified, has yet to get the mutex back     *)
          sent,       (* history: the arguments of tx in order                *)
          received    (* history: the results of rx in order                  *)

vars == <<buffer, consumer, sent, received>>

TypeOK ==
    /\ buffer \in Seq(Msg)
    /\ consumer \in [Consumer -> {"out", "asleep", "woken"}]
    /\ sent \in Seq(Msg)
    /\ received \in Seq(Msg)

Init ==
    /\ buffer = <<>>
    /\ consumer = [c \in Consumer |-> "out"]
    /\ sent = <<>>
    /\ received = <<>>

(* Fault: tx forgets to notify. *)
NotifyAll_Missing == UNCHANGED consumer

(* cv.notify_all: every sleeping consumer will try for the mutex again. *)
NotifyAll ==
    consumer' = [c \in Consumer |-> IF consumer[c] = "asleep" THEN "woken" ELSE consumer[c]]

tx(m) ==
    /\ Len(sent) < MaxTx
    /\ buffer' = Append(buffer, m)
    /\ sent' = Append(sent, m)
    /\ NotifyAll
    /\ UNCHANGED received

(* Fault: the newest message is taken, as from a stack. *)
Pop_Newest(c) ==
    /\ buffer # <<>>
    /\ received' = Append(received, buffer[Len(buffer)])
    /\ buffer' = SubSeq(buffer, 1, Len(buffer) - 1)
    /\ consumer' = [consumer EXCEPT ![c] = "out"]
    /\ UNCHANGED sent

(* Fault: front() without pop(). *)
Pop_KeepsFront(c) ==
    /\ buffer # <<>>
    /\ Len(received) < 2 * MaxTx
    /\ received' = Append(received, Head(buffer))
    /\ consumer' = [consumer EXCEPT ![c] = "out"]
    /\ UNCHANGED <<buffer, sent>>

(* buffer.front(), buffer.pop() and the return of rx. *)
Pop(c) ==
    /\ buffer # <<>>
    /\ received' = Append(received, Head(buffer))
    /\ buffer' = Tail(buffer)
    /\ consumer' = [consumer EXCEPT ![c] = "out"]
    /\ UNCHANGED sent

(* The predicate of cv.wait is false: release the mutex and sleep. *)
Sleep(c) ==
    /\ buffer = <<>>
    /\ consumer' = [consumer EXCEPT ![c] = "asleep"]
    /\ UNCHANGED <<buffer, sent, received>>

(* rx, called or resumed after a wake-up: the predicate is evaluated again. *)
rx(c) ==
    /\ consumer[c] \in {"out", "woken"}
    /\ Pop(c) \/ Sleep(c)

(* A condition variable may wake a thread that nobody notified. *)
SpuriousWakeup(c) ==
    /\ consumer[c] = "asleep"
    /\ consumer' = [consumer EXCEPT ![c] = "woken"]
    /\ UNCHANGED <<buffer, sent, received>>

Next ==
    \/ \E m \in Msg : tx(m)
    \/ \E c \in Consumer : rx(c) \/ SpuriousWakeup(c)

(* The consumers of this code call rx again and again in a loop.  Nothing *)
(* obliges a producer to call tx or a thread to wake up spuriously.       *)
Spec == Init /\ [][Next]_vars
FairSpec == Spec /\ \A c \in Consumer : WF_vars(rx(c))

-----------------------------------------------------------------------------
(* No lost wake-up: while the buffer holds a message, no consumer sleeps   *)
(* un-notified in cv.wait.  It would be lost if tx notified before pushing *)
(* without the mutex, or notified one sleeper for several messages.        *)
NoSleepOnData == buffer # <<>> => \A c \in Consumer : consumer[c] # "asleep"

(* Nothing is lost, duplicated or overtaken: what was sent is what was     *)
(* received followed by what the buffer still holds.                       *)
ExactlyOnceInOrder == sent = received \o buffer

(* A message handed to tx is returned by some rx, although consumers go to *)
(* sleep and are woken in any order.                                       *)
EverySentIsReceived ==
    \A n \in 1..MaxTx : (Len(sent) >= n) ~> (Len(received) >= n)

(* The buffer implements the channel its users rely on. *)
Promise == INSTANCE Channel
ImplementsChannel == Promise!Spec
=============================================================================
