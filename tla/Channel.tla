------------------------------ MODULE Channel ------------------------------
(***************************************************************************)
(* What a hand-over queue between threads promises, without locks, wait    *)
(* sets or a buffer: every message that was sent is received at most once, *)
(* in the order of sending, and nothing is received that was not sent.     *)
(*                                                                         *)
(* The console's ring_buffer (keyboard to main thread) and the client's    *)
(* send_buffer (main thread to sender thread) are used as such a channel.  *)
(***************************************************************************)
EXTENDS Naturals, Sequences

CONSTANT Msg          (* what the threads hand over *)

VARIABLES sent,       (* all messages sent so far, in order     *)
          received    (* all messages received so far, in order *)

channelVars == <<sent, received>>

Init == sent = <<>> /\ received = <<>>

Send(m) == sent' = Append(sent, m) /\ UNCHANGED received

Receive ==
    /\ Len(received) < Len(sent)
    /\ received' = Append(received, sent[Len(received) + 1])
    /\ UNCHANGED sent

Next == (\E m \in Msg : Send(m)) \/ Receive

Spec == Init /\ [][Next]_channelVars
=============================================================================
