------------------------------ MODULE MCServer ------------------------------
(***************************************************************************)
(* Instances of Server for TLC: what the peers of each run ask for.        *)
(***************************************************************************)
EXTENDS Server, TLC

CONSTANTS n1, n2

Plainly(cmd) == [cmd |-> cmd, name |-> NoName]
RegisterAs(n) == [cmd |-> "register", name |-> n]

(* Members come, talk, ask, change their names and go. *)
Everything ==
    {RegisterAs(n1), RegisterAs(n2), Plainly("chat"), Plainly("getlist"), Plainly("getlog"),
     Plainly("exit")}

(* Members come, talk and go, and forget to say their names. *)
Chatting == {RegisterAs(n1), RegisterAs(NoName), Plainly("chat"), Plainly("exit")}

(* Peers that cannot vanish are alike, and so are the names. *)
Symmetry == Permutations(Conn \ Vanishing) \cup Permutations(Name)
=============================================================================
