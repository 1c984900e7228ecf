------------------------------ MODULE MCLab10 -------------------------------
(* Model-checking instances of the three models of lab10.  The first state *)
(* chooses the program that runs; the others stay as they began.           *)
(*   tcp:    c1 sends two, c2 one message, c3 only takes up a place.       *)
(*   client: the buffer overflows, and is emptied several times.           *)
(*   udp:    l1 and r1 write one text each, l2 only registers.             *)
EXTENDS ChatTcp, ChatClient, ChatUdp, TLC

CONSTANTS c1, c2, c3, l1, l2, r1

ThreeClients == {c1, c2, c3}
TwoOneNone == (c1 :> 2) @@ (c2 :> 1) @@ (c3 :> 0)
OneRemote == (c1 :> 1) @@ (c2 :> 2) @@ (c3 :> 2)

TwoLocal == {l1, l2}
OneFarAway == {r1}
OneTextEach == (l1 :> 1) @@ (l2 :> 0) @@ (r1 :> 1)

VARIABLE program

tcpVars == vars

AllInit == /\ program \in {"tcp", "client", "udp"}
           /\ Init /\ ClientInit /\ UdpInit

AllNext == \/ program = "tcp" /\ Next /\ UNCHANGED <<program, clientVars, udpVars>>
           \/ program = "client" /\ ClientNext /\ UNCHANGED <<program, tcpVars, udpVars>>
           \/ program = "udp" /\ UdpNext /\ UNCHANGED <<program, tcpVars, clientVars>>

(* In its first state no program has a step that fairness speaks of.       *)
AllSpec == /\ AllInit /\ [][AllNext]_<<program, tcpVars, clientVars, udpVars>>
           /\ Fairness /\ ClientFairness /\ UdpFairness

(* Nothing waits for ever in the three programs: a message for a socket    *)
(* above maxfd, a line in the client's buffer, a message that arrived, the *)
(* server in its forwarding loop; each with the exceptions named there.    *)
EveryoneIsServed == /\ EveryoneIsHeard
                    /\ EveryLineIsTaken /\ EveryMessageIsPrinted
                    /\ ServerComesBack
=============================================================================
