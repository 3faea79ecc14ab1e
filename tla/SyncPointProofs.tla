-------------------------- MODULE SyncPointProofs --------------------------
(***************************************************************************)
(* Theorems of SyncPoint, for any set of receivers and any bound.          *)
(***************************************************************************)
EXTENDS SyncPoint, TLAPS

(* The slot holds the newest value until that is retrieved, and nothing    *)
(* afterwards.                                                             *)
Newest ==
    /\ got <= resolved
    /\ data = IF got < resolved THEN resolved ELSE 0

IInv == TypeOK /\ Newest /\ NoSleepOnData

(* The invariant holds before any call.                                    *)
LEMMA InitInv == Init => IInv
BY DEF Init, IInv, TypeOK, Newest, NoSleepOnData

(* A call of resolve, which overwrites, keeps it: the new number is larger *)
(* than every other, and no receiver is left asleep.                       *)
LEMMA ResolveStep == IInv /\ resolve => IInv'
<1> SUFFICES ASSUME IInv, resolve PROVE IInv'
  OBVIOUS
<1>1. TypeOK'
  BY DEF IInv, TypeOK, resolve, Put, Notify
<1>2. Newest'
  BY DEF IInv, TypeOK, Newest, resolve, Put
<1>3. NoSleepOnData'
  BY DEF IInv, TypeOK, NoSleepOnData, resolve, Notify
<1> QED
  BY <1>1, <1>2, <1>3 DEF IInv

(* A step of a receiver keeps it: it takes the value, and empties the      *)
(* slot, or goes to sleep on an empty one, or wakes up.                    *)
LEMMA ReceiverStep ==
  ASSUME NEW r \in Receiver, IInv, retrieve(r) \/ SpuriousWakeup(r)
  PROVE  IInv'
<1>1. CASE retrieve(r) /\ Take(r)
  BY <1>1 DEF IInv, TypeOK, Newest, NoSleepOnData, Take
<1>2. CASE retrieve(r) /\ Sleep(r)
  BY <1>2 DEF IInv, TypeOK, Newest, NoSleepOnData, Sleep
<1>3. CASE SpuriousWakeup(r)
  BY <1>3 DEF IInv, TypeOK, Newest, NoSleepOnData, SpuriousWakeup
<1> QED
  BY <1>1, <1>2, <1>3 DEF retrieve

(* IInv is an invariant.                                                   *)
LEMMA Invariance == Spec => []IInv
<1>1. IInv /\ [Next]_vars => IInv'
  <2> SUFFICES ASSUME IInv, [Next]_vars PROVE IInv'
    OBVIOUS
  <2>1. CASE resolve
    BY <2>1, ResolveStep
  <2>2. CASE \E r \in Receiver : retrieve(r) \/ SpuriousWakeup(r)
    BY <2>2, ReceiverStep
  <2>3. CASE UNCHANGED vars
    BY <2>3 DEF IInv, TypeOK, Newest, NoSleepOnData, vars
  <2> QED
    BY <2>1, <2>2, <2>3 DEF Next
<1> QED
  BY InitInv, <1>1, PTL DEF Spec

(* resolve and the end of a retrieve are those of a mailbox, the latter    *)
(* because what is in the slot is the newest value; going to sleep and     *)
(* waking up are invisible.                                                *)
LEMMA Step ==
    ASSUME IInv, [Next]_vars
    PROVE  [Promise!Next]_Promise!mailboxVars
<1> USE DEF Promise!mailboxVars
<1>1. CASE resolve
  BY <1>1 DEF resolve, Promise!Resolve, Promise!Next
<1>2. ASSUME NEW r \in Receiver, Take(r)
      PROVE  Promise!Retrieve
  BY <1>2 DEF IInv, TypeOK, Newest, Take, Promise!Retrieve
<1>3. ASSUME NEW r \in Receiver, Sleep(r) \/ SpuriousWakeup(r)
      PROVE  UNCHANGED <<resolved, got, retrieved>>
  BY <1>3 DEF Sleep, SpuriousWakeup
<1>4. CASE UNCHANGED vars
  BY <1>4 DEF vars
<1> QED
  BY <1>1, <1>2, <1>3, <1>4 DEF Next, retrieve, Promise!Next

(* No value is retrieved twice, and none after a later one: a SyncPoint is *)
(* a mailbox (SyncPoint.h 28-48).                                          *)
THEOREM Implementation == Spec => ImplementsMailbox
<1>1. Init => Promise!Init
  BY DEF Init, Promise!Init
<1> QED
  BY <1>1, Invariance, Step, PTL DEF Spec, ImplementsMailbox, Promise!Spec

(* No receiver sleeps un-notified while a value waits for it.              *)
THEOREM NoLostWakeup == Spec => []NoSleepOnData
<1>1. IInv => NoSleepOnData
  BY DEF IInv
<1> QED
  BY <1>1, Invariance, PTL

(* Type correctness: a receiver is out of retrieve, asleep in it or woken  *)
(* (SyncPoint.h 41-48).                                                    *)
THEOREM TypeCorrect == Spec => []TypeOK
<1>1. IInv => TypeOK
  BY DEF IInv
<1> QED
  BY <1>1, Invariance, PTL
=============================================================================
