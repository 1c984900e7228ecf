------------------------------ MODULE ChatUdp -------------------------------
(***************************************************************************)
(* The UDP chat server of lab10/zad1 and the clients around it.  The server *)
(* keeps two tables, of internet and of Unix peers, each entry with the    *)
(* time of the last message; it learns of a new peer from its first        *)
(* datagram, and forgets a silent one only when it forwards somebody       *)
(* else's text.                                                            *)
(*                                                                         *)
(* Datagrams from and to internet peers may be lost or overtake each other. *)
(* Unix datagrams are reliable and ordered, and a full queue blocks the    *)
(* sender.  Times are kept as ages, counted up to one past Timeout.        *)
(***************************************************************************)
EXTENDS Integers, Sequences

CONSTANTS Local,        \* clients started with LOCAL: Unix sockets
          Remote,       \* clients started with REMOTE: internet sockets
          TableSize,    \* MAX_CLIENTS, the length of each table
          Timeout,      \* the ten seconds of silence
          QueueLen,     \* datagrams a Unix socket holds
          MaxTexts      \* bound: how many texts each client sends

Peers == Local \cup Remote
Family == {"inet", "unix"}
FamilyOf(c) == IF c \in Local THEN "unix" ELSE "inet"
Other(f) == IF f = "inet" THEN "unix" ELSE "inet"

Cells == 0 .. TableSize - 1
NoPeer == [age |-> -1]              \* ping_time of an unused slot
Missing == -1                       \* sender_id of a peer without a slot
Ages == 0 .. Timeout + 1

VARIABLES table,      \* in_clients and un_clients with their ping times
          phase,      \* "select", "forward" or "dead"
          msg,        \* the datagram in buf
          sender,     \* sender_id
          turn,       \* steps taken in the loop over the slots
          stage,      \* each client: "new", "on", "sending" or "gone"
          texts,      \* how many texts each client has written
          net,        \* internet datagrams on their way to the server
          inbox,      \* the queue of the server's Unix socket
          unread,     \* how much each Unix client has not received yet
          heard,      \* history: age of the last datagram that found a slot
          delivered   \* history: the texts sent to each client

udpServer == <<table, phase, msg, sender, turn>>
client == <<stage, texts>>
network == <<net, inbox, unread>>
udpVars == <<udpServer, client, network, heard, delivered>>

Register(c) == [from |-> c, n |-> 0]       \* "--register--"
IsRegister(m) == m.n = 0

UdpInit ==
  /\ table = [f \in Family |-> [s \in Cells |-> NoPeer]]
  /\ phase = "select" /\ msg = <<>> /\ sender = Missing /\ turn = 0
  /\ stage = [c \in Peers |-> "new"]
  /\ texts = [c \in Peers |-> 0]
  /\ net = {} /\ inbox = <<>>
  /\ unread = [c \in Local |-> 0]
  /\ heard = [c \in Peers |-> Timeout + 1]
  /\ delivered = [c \in Peers |-> <<>>]

Used(f, s) == table[f][s] # NoPeer
Free(f) == {s \in Cells : ~Used(f, s)}
Lowest(S) == CHOOSE s \in S : \A t \in S : s <= t

-----------------------------------------------------------------------------
(* The slot of the peer the datagram came from: its own, else the first    *)
(* free one, else none.                                                    *)
SlotsOfUntilHole(c) ==                    \* planted defect: the search ends at a hole
  {s \in Cells : /\ Used(FamilyOf(c), s) /\ table[FamilyOf(c)][s].peer = c
                 /\ \A t \in Free(FamilyOf(c)) : s < t}
SlotsOf(c) == {s \in Cells : Used(FamilyOf(c), s) /\ table[FamilyOf(c)][s].peer = c}

SlotFor(c) == CASE SlotsOf(c) # {} -> Lowest(SlotsOf(c))
                [] SlotsOf(c) = {} /\ Free(FamilyOf(c)) # {} -> Lowest(Free(FamilyOf(c)))
                [] OTHER -> Missing

OnlyNewStamped(c) ==                      \* planted defect: ping time not renewed
  IF SlotsOf(c) # {} THEN table[FamilyOf(c)][SlotFor(c)] ELSE [peer |-> c, age |-> 0]
Stamped(c) == [peer |-> c, age |-> 0]

(* recvfrom, the search of the table, and the test for "--register--",     *)
(* which ends the loop before anything is forwarded.                       *)
Handle(m) ==
  LET c == m.from  f == FamilyOf(c) IN
  /\ msg' = m
  /\ sender' = SlotFor(c)
  /\ IF SlotFor(c) = Missing
     THEN UNCHANGED <<table, heard>>
     ELSE /\ table' = [table EXCEPT ![f][SlotFor(c)] = Stamped(c)]
          /\ heard' = [heard EXCEPT ![c] = 0]
  /\ turn' = 0
  /\ phase' = IF IsRegister(m) THEN "select" ELSE "forward"

ReceiveInet ==
  /\ phase = "select"
  /\ \E m \in net : Handle(m) /\ net' = net \ {m}
  /\ UNCHANGED <<client, inbox, unread, delivered>>

(* The Unix socket is looked at only when the internet socket is silent.   *)
ReceiveUnix ==
  /\ phase = "select"
  /\ net = {} /\ inbox # <<>>
  /\ Handle(Head(inbox))
  /\ inbox' = Tail(inbox)
  /\ UNCHANGED <<client, net, unread, delivered>>

(* The loop takes for each slot first the sender's own table, then the     *)
(* other one.                                                              *)
Visited == LET own == FamilyOf(msg.from)
           IN  [f |-> IF turn % 2 = 0 THEN own ELSE Other(own), s |-> turn \div 2]

SkipsNobody == FALSE                      \* planted defect: sender_id != i dropped
(* A sender's own entry is passed over; for a Unix sender without a slot   *)
(* the whole Unix table is.                                                *)
SkipsOwn == /\ Visited.f = FamilyOf(msg.from)
            /\ \/ Visited.s = sender
               \/ Visited.f = "unix" /\ sender = Missing

Expired(e) == e.age > Timeout

TurnForEver ==                         \* planted defect: i starts over
  turn' = (turn + 1) % (2 * TableSize) /\ UNCHANGED phase
NextTurn == /\ turn' = turn + 1
            /\ phase' = IF turn + 1 = 2 * TableSize THEN "select" ELSE "forward"

Pass ==
  /\ phase = "forward"
  /\ ~Used(Visited.f, Visited.s) \/ SkipsOwn
  /\ NextTurn
  /\ UNCHANGED <<table, msg, sender, client, network, heard, delivered>>

Expire ==
  /\ phase = "forward"
  /\ Used(Visited.f, Visited.s) /\ ~SkipsOwn
  /\ Expired(table[Visited.f][Visited.s])
  /\ table' = [table EXCEPT ![Visited.f][Visited.s] = NoPeer]
  /\ NextTurn
  /\ UNCHANGED <<msg, sender, client, network, heard, delivered>>

Receiver == table[Visited.f][Visited.s].peer
Due == /\ phase = "forward"
       /\ Used(Visited.f, Visited.s) /\ ~SkipsOwn
       /\ ~Expired(table[Visited.f][Visited.s])

(* sendto: at once to an internet peer, wherever it is; to a Unix peer as  *)
(* soon as its queue has room.                                             *)
SendTo ==
  /\ Due
  /\ Receiver \in Local => stage[Receiver] # "gone" /\ unread[Receiver] < QueueLen
  /\ unread' = IF Receiver \in Local THEN [unread EXCEPT ![Receiver] = @ + 1] ELSE unread
  /\ delivered' = [delivered EXCEPT ![Receiver] = Append(@, msg)]
  /\ NextTurn
  /\ UNCHANGED <<table, msg, sender, client, net, inbox, heard>>

(* A Unix peer that is gone refuses the datagram, and error() ends the     *)
(* server.                                                                 *)
Refused ==
  /\ Due
  /\ Receiver \in Local /\ stage[Receiver] = "gone"
  /\ phase' = "dead"
  /\ UNCHANGED <<table, msg, sender, turn, client, network, heard, delivered>>

UdpServerStep == ReceiveInet \/ ReceiveUnix \/ Pass \/ Expire \/ SendTo \/ Refused

-----------------------------------------------------------------------------
AlwaysRoom == TRUE                        \* planted defect: sendto never waits
HasRoom == Len(inbox) < QueueLen

(* The clients.  A client's main thread receives; it also runs the handler *)
(* that sends, so it receives nothing while sendto blocks.                 *)
Transmit(c, m) ==
  IF c \in Local
  THEN HasRoom /\ inbox' = Append(inbox, m) /\ UNCHANGED net
  ELSE net' = net \cup {m} /\ UNCHANGED inbox

(* main: open the socket and send "--register--".                          *)
Join(c) ==
  /\ stage[c] = "new"
  /\ Transmit(c, Register(c))
  /\ stage' = [stage EXCEPT ![c] = "on"]
  /\ UNCHANGED <<udpServer, texts, unread, heard, delivered>>

Write(c) ==
  /\ stage[c] = "on"
  /\ texts[c] < MaxTexts[c]
  /\ texts' = [texts EXCEPT ![c] = @ + 1]
  /\ stage' = [stage EXCEPT ![c] = "sending"]
  /\ UNCHANGED <<udpServer, network, heard, delivered>>

SendText(c) ==
  /\ stage[c] = "sending"
  /\ Transmit(c, [from |-> c, n |-> texts[c]])
  /\ stage' = [stage EXCEPT ![c] = "on"]
  /\ UNCHANGED <<udpServer, texts, unread, heard, delivered>>

(* sender_receiver_fun: take a datagram and print it.                      *)
Read(c) ==
  /\ c \in Local /\ stage[c] = "on"
  /\ unread[c] > 0
  /\ unread' = [unread EXCEPT ![c] = @ - 1]
  /\ UNCHANGED <<udpServer, client, net, inbox, heard, delivered>>

(* A Unix client ends; an internet client that ends is one that writes no  *)
(* more.                                                                   *)
Leave(c) ==
  /\ c \in Local /\ stage[c] = "on"
  /\ stage' = [stage EXCEPT ![c] = "gone"]
  /\ UNCHANGED <<udpServer, texts, network, heard, delivered>>

Lose ==
  /\ \E m \in net : net' = net \ {m}
  /\ UNCHANGED <<udpServer, client, inbox, unread, heard, delivered>>

(* A second passes.                                                        *)
Older(a) == IF a > Timeout THEN a ELSE a + 1
Tick ==
  /\ heard' = [c \in Peers |-> Older(heard[c])]
  /\ table' = [f \in Family |-> [s \in Cells |->
                 IF Used(f, s) THEN [table[f][s] EXCEPT !.age = Older(@)] ELSE NoPeer]]
  /\ UNCHANGED <<phase, msg, sender, turn, client, network, delivered>>

PeerStep(c) == Join(c) \/ Write(c) \/ SendText(c) \/ Read(c) \/ Leave(c)

(* The model ends when the server does.                                    *)
UdpNext == /\ phase # "dead"
           /\ UdpServerStep \/ Lose \/ Tick \/ \E c \in Peers : PeerStep(c)

UdpSpec == UdpInit /\ [][UdpNext]_udpVars

(* The server's loop goes on, and a client reads what it is sent and gets  *)
(* its own text out as soon as the server's queue has room.                *)
UdpFairness == /\ WF_udpVars(UdpServerStep)
               /\ \A c \in Local : WF_udpVars(Read(c)) /\ WF_udpVars(SendText(c))

-----------------------------------------------------------------------------
UdpTypeOK ==
  /\ \A f \in Family, s \in Cells : Used(f, s) =>
       table[f][s].peer \in Peers /\ FamilyOf(table[f][s].peer) = f /\ table[f][s].age \in Ages
  /\ phase \in {"select", "forward", "dead"}
  /\ sender \in Cells \cup {Missing}
  /\ turn \in 0 .. 2 * TableSize
  /\ \A c \in Peers : stage[c] \in {"new", "on", "sending", "gone"} /\ texts[c] \in 0 .. MaxTexts[c]
  /\ Len(inbox) <= QueueLen /\ \A c \in Local : unread[c] \in 0 .. QueueLen

(* No peer has two slots, although slots in front of its own fall free     *)
(* while it stays: it would be sent every text twice.                      *)
NoPeerTwice ==
  \A f \in Family, s, t \in Cells :
    Used(f, s) /\ Used(f, t) /\ table[f][s].peer = table[f][t].peer => s = t

(* A peer from which the server has heard within the time-out is in the    *)
(* table, with the age of that datagram: no text of another peer and no    *)
(* late second takes its slot.                                             *)
RecentPeersAreKept ==
  \A c \in Peers : heard[c] <= Timeout =>
    \E s \in Cells : /\ Used(FamilyOf(c), s)
                     /\ table[FamilyOf(c)][s] = [peer |-> c, age |-> heard[c]]

(* Nobody is sent its own text, and nobody is sent a text twice, whatever  *)
(* slots fall free and are taken over between two texts.                   *)
ForwardedOnce ==
  \A c \in Peers : \A a, b \in DOMAIN delivered[c] :
    /\ delivered[c][a].from # c
    /\ delivered[c][a] = delivered[c][b] => a = b

(* Nobody is registered twice, nobody young is forgotten, and no text      *)
(* reaches a peer twice or comes back to its sender.                       *)
UdpSound == UdpTypeOK /\ NoPeerTwice /\ RecentPeersAreKept /\ ForwardedOnce

(* The server and a client wait for each other: each in sendto, each with  *)
(* a full queue, neither reading.                                          *)
WaitForEachOther ==
  /\ Due /\ Receiver \in Local
  /\ unread[Receiver] = QueueLen /\ stage[Receiver] = "sending"
  /\ Len(inbox) = QueueLen

(* The server comes back to select after every text, unless it died of a   *)
(* client that left, or waits for a client that waits for it.              *)
ServerComesBack ==
  phase = "forward" ~> (phase \in {"select", "dead"} \/ WaitForEachOther)
=============================================================================
