----------------------------- MODULE Discovery ------------------------------
(***************************************************************************)
(* How a client finds the server: the broadcaster of Server.cpp sends the  *)
(* server's address once a second to the port the server was given, for as *)
(* long as the server runs; a client binds a port that is fixed, and waits *)
(* ten seconds for one datagram (clientmain.cpp 53-82).  Datagrams may be  *)
(* lost.                                                                   *)
(*                                                                         *)
(* Time passes in seconds.  The assumption about speed is that a thread    *)
(* whose sleep or timeout is over acts before the next second is.          *)
(***************************************************************************)
EXTENDS ServerProcess

CONSTANTS Client,
          Port,        (* the ports the server may be given                   *)
          ClientPort,  (* 12345                                               *)
          Timeout,     (* seconds a client waits: SO_RCVTIMEO, 10             *)
          MaxLost      (* bound: datagrams lost to a client                   *)

ASSUME DiscoveryAssumption ==
    Timeout \in Nat \ {0} /\ MaxLost \in Nat

VARIABLES
    port,        (* the port the server was given                             *)
    client,      (* "off", "waiting", "found" or "failed"                     *)
    owns,        (* its bind succeeded                                        *)
    waited,      (* seconds since the call of recvfrom, 0 when it is over     *)
    lost,        (* history: datagrams of its wait that it did not get        *)
    steady       (* history: the broadcaster has run throughout its wait      *)

clients == <<client, owns, waited, lost, steady>>
vars == <<processVars, port, clients>>

TypeOK ==
    /\ ProcessTypeOK
    /\ port \in Port
    /\ client \in [Client -> {"off", "waiting", "found", "failed"}]
    /\ owns \in [Client -> BOOLEAN] /\ steady \in [Client -> BOOLEAN]
    /\ waited \in [Client -> 0..Timeout] /\ lost \in [Client -> 0..MaxLost]

Init ==
    /\ ProcessInit
    /\ port \in Port
    /\ client = [c \in Client |-> "off"] /\ owns = [c \in Client |-> FALSE]
    /\ waited = [c \in Client |-> 0] /\ lost = [c \in Client |-> 0]
    /\ steady = [c \in Client |-> FALSE]

Announcing == pc["udp"] \in {"loop", "sleep"} /\ ~shutdown

(* bind fails if another client of the machine has the port, until that    *)
(* one closes its socket; nobody looks at its result.                      *)
StartClient(c) ==
    /\ client[c] = "off"
    /\ client' = [client EXCEPT ![c] = "waiting"]
    /\ \E taken \in BOOLEAN :
          /\ taken => \E d \in Client : owns[d]
          /\ owns' = [owns EXCEPT ![c] = ~taken]
    /\ steady' = [steady EXCEPT ![c] = Announcing]
    /\ UNCHANGED <<processVars, port, waited, lost>>

Hears(c) == client[c] = "waiting" /\ owns[c] /\ port = ClientPort

(* The wait of the clients S is over, and their sockets are closed. *)
EndsWait(S, result) ==
    /\ client' = [c \in Client |-> IF c \in S THEN result ELSE client[c]]
    /\ owns' = [c \in Client |-> owns[c] /\ c \notin S]
    /\ steady' = [c \in Client |-> steady[c] /\ c \notin S]
    /\ waited' = [c \in Client |-> IF c \in S THEN 0 ELSE waited[c]]

(* One sendto: every client that listens gets the datagram, or not.        *)
Announce ==
    /\ UdpSends
    /\ \E missed \in SUBSET {c \in Client : Hears(c) /\ lost[c] < MaxLost} :
         LET got == {c \in Client : Hears(c)} \ missed
         IN  /\ EndsWait(got, "found")
             /\ lost' = [c \in Client |-> CASE c \in missed -> lost[c] + 1
                                            [] c \in got -> 0
                                            [] OTHER -> lost[c]]
    /\ UNCHANGED port

GiveUp(c) ==
    /\ client[c] = "waiting" /\ waited[c] = Timeout
    /\ EndsWait({c}, "failed") /\ lost' = [lost EXCEPT ![c] = 0]
    /\ UNCHANGED <<processVars, port>>

(* Fault: time does not end the wait. *)
Tick_NoTimeout ==
    /\ pc["udp"] # "loop"
    /\ waited' = [c \in Client |-> IF client[c] = "waiting" THEN waited[c] + 1 ELSE waited[c]]
    /\ \/ UdpWakes
       \/ pc["udp"] # "sleep" /\ UNCHANGED processVars
    /\ UNCHANGED <<port, client, owns, lost, steady>>

(* A second passes: the broadcaster's sleep is over. *)
Tick ==
    /\ pc["udp"] # "loop"
    /\ \A c \in Client : client[c] = "waiting" => waited[c] < Timeout
    /\ waited' = [c \in Client |-> IF client[c] = "waiting" THEN waited[c] + 1 ELSE waited[c]]
    /\ \/ UdpWakes
       \/ pc["udp"] # "sleep" /\ UNCHANGED processVars
    /\ UNCHANGED <<port, client, owns, lost, steady>>

(* Every other step of the server's process; its end ends what is steady.  *)
Server ==
    /\ Main \/ ServerThread \/ Send \/ PeerReads \/ UdpEnds \/ ConsoleThreads \/ TypeExit
    /\ steady' = [c \in Client |-> steady[c] /\ (client[c] = "waiting" => ~shutdown')]
    /\ UNCHANGED <<port, client, owns, waited, lost>>

Next ==
    \/ Server \/ Announce \/ Tick
    \/ \E c \in Client : StartClient(c) \/ GiveUp(c)

Spec == Init /\ [][Next]_vars

(* What goes on by itself: the threads, time, and recvfrom, which returns  *)
(* when its time is over.                                                  *)
Progress ==
    \/ Tick \/ Announce \/ \E c \in Client : GiveUp(c)
    \/ Server /\ (Main \/ ServerThread \/ UdpEnds \/ ConsoleThreads)

(* No thread is promised its turn while others run.  Nobody has to type    *)
(* $exit, no client to start, and no peer to read what the server sends.   *)
FairSpec == Spec /\ WF_vars(Progress)

-----------------------------------------------------------------------------
(* What a client is told the server serves: nothing is announced once      *)
(* create or listen has failed, although the broadcaster is started in any *)
(* case, and the port that is announced is the one the server listens on   *)
(* unless its bind has failed, for which the programs install no handler   *)
(* (Socket.h:444, Server.cpp 116-136, 159-187).                            *)
AnnouncesWhatItServes ==
    [][\A c \in Client : client'[c] = "found" /\ client[c] # "found" =>
          serving = "port" \/ (~bound /\ serving = "other")]_vars

(* A client whose bind succeeded, listening to the port that the server    *)
(* was given, that started while the server was announcing itself, and     *)
(* waits as long as that goes on, gives up only if the network lost every  *)
(* datagram of all its seconds but the last (Server.cpp 179-186,           *)
(* clientmain.cpp 63-79).                                                  *)
ClientFindsServer ==
    [][\A c \in Client : GiveUp(c) /\ steady[c] /\ owns[c] /\ port = ClientPort =>
          lost[c] >= Timeout - 1]_vars

(* Once the flag is set, by $exit or by an error, all threads end and main *)
(* joins them, wherever they wait, if the server's thread is not blocked   *)
(* for ever in a send (servermain.cpp 51-55, Console.cpp 420-425, 458-468, *)
(* Server.cpp 188-196).                                                    *)
ShutdownEndsProcess == ([]<>(pc["server"] # "send")) => (shutdown ~> Ended)

-----------------------------------------------------------------------------
(* What does not hold.  README.md:42 starts the server on port 33420 and   *)
(* two clients on one machine: they listen to 12345, and one of them does  *)
(* not listen at all (clientmain.cpp:63).                                  *)
EveryClientFindsServer ==
    [][\A c \in Client : GiveUp(c) /\ steady[c] => lost[c] >= Timeout - 1]_vars

(* A server whose bind has failed announces a port it does not have        *)
(* (Socket.h:444).                                                         *)
AnnouncesItsPort ==
    [][\A c \in Client : client'[c] = "found" /\ client[c] # "found" => serving = "port"]_vars

(* A peer that does not read holds the server's thread, and main at its    *)
(* join (Server.cpp:196).                                                  *)
EveryShutdownEndsProcess == shutdown ~> Ended
=============================================================================
