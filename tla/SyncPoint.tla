----------------------------- MODULE SyncPoint ------------------------------
(***************************************************************************)
(* SyncPoint<T> of SyncPoint.h: a slot for one value, guarded by a mutex   *)
(* and a condition variable.  resolve overwrites what is in the slot,      *)
(* retrieve waits for a value and empties the slot.  The console's         *)
(* refresh_text relies on the overwriting (many requests, one redraw), the *)
(* client's handshake on the waiting.                                      *)
(*                                                                         *)
(* The values are numbered in the order of the calls of resolve: the       *)
(* n-th call resolves with n.                                              *)
(***************************************************************************)
EXTENDS Naturals

CONSTANTS Receiver,     (* the threads that call retrieve                     *)
          MaxResolve    (* bound: number of resolve calls in a behaviour      *)

ASSUME MaxResolveAssumption == MaxResolve \in Nat

VARIABLES data,         (* *data, or 0 for nullptr                            *)
          receiver,     (* "out": not in retrieve;  "asleep": in cv.wait;     *)
                        (* "woken": notified, has yet to get the mutex back   *)
          resolved,     (* history: number of calls of resolve                *)
          got,          (* history: the value retrieved last                  *)
          retrieved     (* history: number of calls of retrieve that returned *)

vars == <<data, receiver, resolved, got, retrieved>>

TypeOK ==
    /\ data \in Nat
    /\ receiver \in [Receiver -> {"out", "asleep", "woken"}]
    /\ resolved \in Nat
    /\ got \in Nat /\ retrieved \in Nat

Init ==
    /\ data = 0
    /\ receiver = [r \in Receiver |-> "out"]
    /\ resolved = 0
    /\ got = 0 /\ retrieved = 0

(* Fault: the first value is kept until it is retrieved. *)
Put_KeepsOld == data' = IF data = 0 THEN resolved + 1 ELSE data

(* data = new T{to}: a value nobody retrieved is lost. *)
Put == data' = resolved + 1

(* Fault: notify without the waiting receivers being woken. *)
Notify_Missing == UNCHANGED receiver

Notify ==
    receiver' = [r \in Receiver |-> IF receiver[r] = "asleep" THEN "woken" ELSE receiver[r]]

resolve ==
    /\ resolved < MaxResolve
    /\ Put
    /\ resolved' = resolved + 1
    /\ Notify
    /\ UNCHANGED <<got, retrieved>>

(* Fault: the pointer is not set back to nullptr. *)
Take_Keeps(r) ==
    /\ data # 0
    /\ got' = data /\ UNCHANGED data
    /\ retrieved < MaxResolve /\ retrieved' = retrieved + 1
    /\ receiver' = [receiver EXCEPT ![r] = "out"]
    /\ UNCHANGED resolved

Take(r) ==
    /\ data # 0
    /\ got' = data /\ data' = 0 /\ retrieved' = retrieved + 1
    /\ receiver' = [receiver EXCEPT ![r] = "out"]
    /\ UNCHANGED resolved

Sleep(r) ==
    /\ data = 0
    /\ receiver' = [receiver EXCEPT ![r] = "asleep"]
    /\ UNCHANGED <<data, resolved, got, retrieved>>

retrieve(r) == receiver[r] \in {"out", "woken"} /\ (Take(r) \/ Sleep(r))

SpuriousWakeup(r) ==
    /\ receiver[r] = "asleep"
    /\ receiver' = [receiver EXCEPT ![r] = "woken"]
    /\ UNCHANGED <<data, resolved, got, retrieved>>

Next == resolve \/ \E r \in Receiver : retrieve(r) \/ SpuriousWakeup(r)

Spec == Init /\ [][Next]_vars
FairSpec == Spec /\ \A r \in Receiver : WF_vars(retrieve(r))

-----------------------------------------------------------------------------
(* No receiver sleeps un-notified while the slot holds a value.            *)
NoSleepOnData == data # 0 => \A r \in Receiver : receiver[r] # "asleep"

(* A retrieve returns the newest value there is, and none twice, whatever  *)
(* the order in which resolve and the receivers get the mutex.             *)
Promise == INSTANCE Mailbox
ImplementsMailbox == Promise!Spec

(* However many values are overwritten, the last one is retrieved: the     *)
(* last refresh_text.resolve is followed by a redraw.                      *)
LastIsRetrieved == \A n \in 1..MaxResolve : (resolved >= n) ~> (got >= n)
=============================================================================
