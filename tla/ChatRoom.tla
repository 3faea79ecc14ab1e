------------------------------ MODULE ChatRoom ------------------------------
(***************************************************************************)
(* What the server promises its members: one conversation.  Every message  *)
(* is told to all who are in the room, before the next one is spoken: all  *)
(* hear the same messages in the same order.  Who says goodbye hears it,   *)
(* and is the one who leaves.  Whoever is refused or asks for something is *)
(* answered alone, with nothing that belongs to the conversation, and      *)
(* between two messages.                                                   *)
(*                                                                         *)
(* People may go away without a word: they are members that hear nothing.  *)
(***************************************************************************)
CONSTANTS Person,
          Public,     (* messages of the conversation                         *)
          Private,    (* refusals and answers                                 *)
          Farewells,  (* messages after which the speaker leaves              *)
          Nobody, Nothing (* the speaker of no message, and what is said then *)

VARIABLES
    members,    (* who is in the room                                         *)
    present,    (* people who are there to hear                               *)
    saying,     (* the message being told                                     *)
    speaker,    (* on whose behalf                                            *)
    told,       (* members who had their turn                                 *)
    heard       (* the last message each person got                           *)

vars == <<members, present, saying, speaker, told, heard>>

(* Nobody speaks. *)
Quiet == speaker = Nobody

Init ==
    /\ members = {} /\ present = {} /\ told = {}
    /\ saying = Nothing /\ speaker = Nobody
    /\ heard \in [Person -> Public \cup Private]

Come(p) ==
    /\ p \notin present \cup members
    /\ present' = present \cup {p}
    /\ UNCHANGED <<members, saying, speaker, told, heard>>

Go(p) ==
    /\ p \in present
    /\ present' = present \ {p}
    /\ UNCHANGED <<members, saying, speaker, told, heard>>

Join(p) ==
    /\ Quiet /\ p \notin members
    /\ members' = members \cup {p}
    /\ UNCHANGED <<present, saying, speaker, told, heard>>

Speak(p) ==
    /\ Quiet /\ p \in members
    /\ saying' \in Public /\ speaker' = p
    /\ UNCHANGED <<members, present, told, heard>>

Tell(p) ==
    /\ ~Quiet /\ p \in members \ told
    /\ told' = told \cup {p}
    /\ heard' = IF p \in present THEN [heard EXCEPT ![p] = saying] ELSE heard
    /\ UNCHANGED <<members, present, saying, speaker>>

Finish ==
    /\ ~Quiet /\ told = members
    /\ members' = IF saying \in Farewells THEN members \ {speaker} ELSE members
    /\ saying' = Nothing /\ speaker' = Nobody /\ told' = {}
    /\ UNCHANGED <<present, heard>>

Answer(p) ==
    /\ Quiet /\ p \in present
    /\ \E m \in Private : heard' = [heard EXCEPT ![p] = m]
    /\ UNCHANGED <<members, present, saying, speaker, told>>

(* The room closes, at any time. *)
Close ==
    /\ members' = {} /\ told' = {}
    /\ saying' = Nothing /\ speaker' = Nobody
    /\ UNCHANGED <<present, heard>>

Next ==
    \/ \E p \in Person : Come(p) \/ Go(p) \/ Join(p) \/ Speak(p) \/ Tell(p) \/ Answer(p)
    \/ Finish \/ Close

Spec == Init /\ [][Next]_vars
=============================================================================
