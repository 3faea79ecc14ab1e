------------------------------ MODULE Mailbox -------------------------------
(***************************************************************************)
(* What a SyncPoint promises, without a mutex, a wait set or a slot: a     *)
(* retrieve returns the value of the last resolve, and never the same one  *)
(* twice.  What was resolved before and not retrieved is lost.  The n-th   *)
(* resolve has the value n.                                                *)
(*                                                                         *)
(* The client's handshake and the renderer's refresh_text are used as such *)
(* mailboxes.                                                              *)
(***************************************************************************)
EXTENDS Naturals

VARIABLES resolved,   (* number of calls of resolve, and the last value       *)
          got,        (* the value retrieved last                             *)
          retrieved   (* number of calls of retrieve that returned            *)

mailboxVars == <<resolved, got, retrieved>>

Init == resolved = 0 /\ got = 0 /\ retrieved = 0

Resolve == resolved' = resolved + 1 /\ UNCHANGED <<got, retrieved>>

Retrieve ==
    /\ got < resolved
    /\ got' = resolved /\ retrieved' = retrieved + 1
    /\ UNCHANGED resolved

Next == Resolve \/ Retrieve

Spec == Init /\ [][Next]_mailboxVars
=============================================================================
