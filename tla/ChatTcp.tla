------------------------------ MODULE ChatTcp -------------------------------
(***************************************************************************)
(* The TCP chat server of lab10/zad2: one thread selects over two          *)
(* listening sockets and the clients' sockets, and passes what it receives *)
(* from one client on to all the others.                                   *)
(*                                                                         *)
(* A descriptor is a number; 1 and 2 are the listening sockets, and the    *)
(* n-th connection that is accepted gets n + 2 (a closed connection is     *)
(* never given back to the kernel, see Hangup, so no number comes twice).  *)
(* What a client has in flight is a sequence of messages.                  *)
(***************************************************************************)
EXTENDS Integers, Sequences

CONSTANTS Clients,      \* the client processes
          Via,          \* the listening socket each one connects to
          MaxClients,   \* MAX_CLIENTS, with the two listening sockets
          MaxSend       \* bound: how many messages each client sends

Slots == 0 .. MaxClients - 1
Inet == 1
Unix == 2
Listening == {Inet, Unix}

ASSUME SizesAssumption == /\ MaxClients \in Nat /\ MaxClients >= 2
                          /\ MaxSend \in [Clients -> Nat]
                          /\ Via \in [Clients -> Listening]

Empty == 0                    \* the -1 of an empty slot

VARIABLES sockets,     \* sockets
          orig,        \* the descriptors in the set orig
          ready,       \* the descriptors in the set read_fd
          maxfd,       \* maxfd
          pc,          \* "select", "visit", "forward" or "killed"
          i, j,        \* the indices of the two loops
          buf,         \* the message in buf
          backlog,     \* connections waiting at each listening socket
          accepted,    \* the client behind each accepted descriptor
          cpc,         \* each client: "new", "connected" or "closed"
          sent,        \* how many messages each client has sent
          wire,        \* what each client has in flight to the server
          got          \* history: what each client was sent

loops == <<pc, i, j, buf>>
server == <<sockets, orig, ready, maxfd, loops>>
clients == <<cpc, sent>>
vars == <<server, backlog, accepted, clients, wire, got>>

Fds == 1 .. Len(accepted) + 2
ClientOf(f) == accepted[f - 2]

Init ==
  /\ sockets = [s \in Slots |-> CASE s = 0 -> Inet [] s = 1 -> Unix [] OTHER -> Empty]
  /\ orig = Listening
  /\ ready = {}
  /\ maxfd = Unix
  /\ pc = "select" /\ i = 0 /\ j = 0 /\ buf = <<>>
  /\ backlog = [l \in Listening |-> <<>>]
  /\ accepted = <<>>
  /\ cpc = [c \in Clients |-> "new"]
  /\ sent = [c \in Clients |-> 0]
  /\ wire = [c \in Clients |-> <<>>]
  /\ got = [c \in Clients |-> <<>>]

-----------------------------------------------------------------------------
(* A descriptor select reports: a connection waits, data waits, or the end *)
(* of the stream has been reached.                                         *)
Readable(f) ==
  IF f \in Listening THEN backlog[f] # <<>>
  ELSE wire[ClientOf(f)] # <<>> \/ cpc[ClientOf(f)] = "closed"

ReadableNow == {f \in orig : f <= maxfd /\ Readable(f)}

(* select() sleeps until something is readable.                            *)
Select ==
  /\ pc = "select"
  /\ ReadableNow # {}
  /\ ready' = ReadableNow
  /\ i' = 0
  /\ pc' = "visit"
  /\ UNCHANGED <<sockets, orig, maxfd, j, buf, backlog, accepted, clients, wire, got>>

OneSlotMore(n) == n = MaxClients         \* planted defect: i <= MAX_CLIENTS
LastSlot(n) == n = MaxClients - 1

Advance == /\ i' = i + 1
           /\ pc' = IF LastSlot(i) THEN "select" ELSE "visit"

(* An empty slot, or a socket select did not report.                       *)
Skip ==
  /\ pc = "visit"
  /\ sockets[i] \notin ready
  /\ Advance
  /\ UNCHANGED <<sockets, orig, ready, maxfd, j, buf, backlog, accepted, clients, wire, got>>

FreeSlots == {s \in Slots : sockets[s] = Empty}
FirstFree(s) == s \in FreeSlots /\ \A t \in FreeSlots : s <= t

KeepMax(f) == maxfd                      \* planted defect: maxfd not raised
Raise(f) == IF f > maxfd THEN f ELSE maxfd

WatchAlways(f) == {f}                    \* planted defect: watched without a slot
WatchIfKept(f) == IF FreeSlots = {} THEN {} ELSE {f}

(* accept(): the new socket goes to the first empty slot and is watched;   *)
(* without one it stays open, unwatched, and its client hears nothing.     *)
Accept ==
  /\ pc = "visit"
  /\ sockets[i] \in ready \cap Listening
  /\ LET l == sockets[i]
         f == Len(accepted) + 3
     IN  /\ accepted' = Append(accepted, Head(backlog[l]))
         /\ backlog' = [backlog EXCEPT ![l] = Tail(@)]
         /\ sockets' = [s \in Slots |-> IF FirstFree(s) THEN f ELSE sockets[s]]
         /\ maxfd' = IF FreeSlots = {} THEN maxfd ELSE Raise(f)
         /\ orig' = orig \cup WatchIfKept(f)
  /\ Advance
  /\ UNCHANGED <<ready, j, buf, clients, wire, got>>

(* recv() on a client's socket takes what is there, up to the size of buf: *)
(* several messages may come in one piece, of which only the first is      *)
(* passed on, since a message ends with a NUL and strlen() stops there.    *)
Receive ==
  /\ pc = "visit"
  /\ sockets[i] \in ready \ Listening
  /\ LET c == ClientOf(sockets[i]) IN
       /\ wire[c] # <<>>
       /\ buf' = Head(wire[c])
       /\ \E n \in 1 .. Len(wire[c]) :
            wire' = [wire EXCEPT ![c] = SubSeq(@, n + 1, Len(@))]
  /\ j' = 0
  /\ pc' = "forward"
  /\ UNCHANGED <<sockets, orig, ready, maxfd, i, backlog, accepted, clients, got>>

(* find_max() after the slot has been emptied.                             *)
HighestUpTo(m, new) == CHOOSE f \in {Inet} \cup {new[s] : s \in 0 .. m} :
                         \A s \in 0 .. m : new[s] <= f
NotTheLast(new) == HighestUpTo(MaxClients - 2, new)  \* planted defect: i < MAX_CLIENTS - 1
find_max(new) == HighestUpTo(MaxClients - 1, new)

(* The end of the stream: the slot becomes -1 first, so that close() and   *)
(* FD_CLR() miss the descriptor: it stays open, and it stays in orig.      *)
Hangup ==
  /\ pc = "visit"
  /\ sockets[i] \in ready \ Listening
  /\ LET c == ClientOf(sockets[i]) IN wire[c] = <<>> /\ cpc[c] = "closed"
  /\ sockets' = [sockets EXCEPT ![i] = Empty]
  /\ maxfd' = find_max(sockets')
  /\ Advance
  /\ UNCHANGED <<orig, ready, j, buf, backlog, accepted, clients, wire, got>>

-----------------------------------------------------------------------------
ToAll(s) == s \in Slots                  \* planted defect: j != i forgotten
ToOther(s) == s # i

NextSlot == /\ j' = j + 1
            /\ IF LastSlot(j) THEN Advance ELSE UNCHANGED <<i, pc>>

(* One turn of the loop that sends buf to every other client.  (A send to  *)
(* the listening Unix socket fails and changes nothing.)                   *)
Forward ==
  /\ pc = "forward"
  /\ IF ToOther(j) /\ sockets[j] \notin Listening \cup {Empty}
     THEN got' = [got EXCEPT ![ClientOf(sockets[j])] = Append(@, buf)]
     ELSE UNCHANGED got
  /\ NextSlot
  /\ UNCHANGED <<sockets, orig, ready, maxfd, buf, backlog, accepted, clients, wire>>

(* A send to a client that is gone may raise SIGPIPE, which nobody handles.*)
Killed ==
  /\ pc = "forward"
  /\ j # i /\ sockets[j] \notin Listening \cup {Empty}
  /\ cpc[ClientOf(sockets[j])] = "closed"
  /\ pc' = "killed"
  /\ UNCHANGED <<sockets, orig, ready, maxfd, i, j, buf, backlog, accepted, clients, wire, got>>

ServerStep == \/ Select \/ Skip \/ Accept \/ Receive \/ Hangup \/ Forward \/ Killed

-----------------------------------------------------------------------------
(* A client connects, over the internet (REMOTE) or through the file       *)
(* system (LOCAL), sends, and goes away.                                   *)
Connect(c) ==
  /\ cpc[c] = "new" /\ pc # "killed"
  /\ cpc' = [cpc EXCEPT ![c] = "connected"]
  /\ backlog' = [backlog EXCEPT ![Via[c]] = Append(@, c)]
  /\ UNCHANGED <<server, accepted, sent, wire, got>>

Send(c) ==
  /\ cpc[c] = "connected"
  /\ sent[c] < MaxSend[c]
  /\ sent' = [sent EXCEPT ![c] = @ + 1]
  /\ wire' = [wire EXCEPT ![c] = Append(@, [from |-> c, n |-> sent[c] + 1])]
  /\ UNCHANGED <<server, backlog, accepted, cpc, got>>

(* A client that leaves data unread resets the connection: what it has in  *)
(* flight is discarded.                                                    *)
Close(c) ==
  /\ cpc[c] = "connected"
  /\ cpc' = [cpc EXCEPT ![c] = "closed"]
  /\ \E w \in {wire[c], <<>>} : wire' = [wire EXCEPT ![c] = w]
  /\ UNCHANGED <<server, backlog, accepted, sent, got>>

ClientStep(c) == Connect(c) \/ Send(c) \/ Close(c)

Next == ServerStep \/ \E c \in Clients : ClientStep(c)

Spec == Init /\ [][Next]_vars

(* The server's loop goes on; nobody has to connect, to send or to close.  *)
Fairness == WF_vars(ServerStep)
FairSpec == Spec /\ Fairness

-----------------------------------------------------------------------------
InSlot(f) == \E s \in Slots : sockets[s] = f

TypeOK ==
  /\ sockets \in [Slots -> Fds \cup {Empty}]
  /\ orig \subseteq Fds /\ ready \subseteq Fds
  /\ maxfd \in Fds
  /\ pc \in {"select", "visit", "forward", "killed"}
  /\ pc \in {"visit", "forward"} => i \in Slots
  /\ pc = "forward" => j \in Slots
  /\ \A c \in Clients : sent[c] \in 0 .. MaxSend[c]

(* Every socket in the table is watched: it is in the set and not above    *)
(* maxfd, although maxfd is kept by two different pieces of code.          *)
EverySocketIsWatched ==
  \A s \in Slots : sockets[s] # Empty => sockets[s] \in orig /\ sockets[s] <= maxfd

(* What is watched is in the table or has hung up: a client that found no  *)
(* slot is never read from, and a slot is never left for a live client.    *)
WatchedAreKeptOrClosed ==
  \A f \in orig : InSlot(f) \/ (f \notin Listening /\ cpc[ClientOf(f)] = "closed")

(* A client is sent the messages of each other client in order, none twice *)
(* and none of its own.                                                    *)
DeliveredInOrder ==
  \A c \in Clients : \A a, b \in DOMAIN got[c] :
    /\ got[c][a].from # c
    /\ a < b /\ got[c][a].from = got[c][b].from => got[c][a].n < got[c][b].n

(* Every socket that is open and known is in the set select looks at,      *)
(* below maxfd; what is looked at is in a slot or has hung up; and each    *)
(* client gets what the others sent, once and in order.                    *)
TcpSound == /\ TypeOK /\ EverySocketIsWatched /\ WatchedAreKeptOrClosed
            /\ DeliveredInOrder

(* The server takes in whatever the clients in its table send, also when a *)
(* descriptor that hung up makes select return again and again - unless    *)
(* SIGPIPE ends it.                                                        *)
Unheard(c) == wire[c] # <<>> /\ \E s \in Slots : sockets[s] > Unix /\ ClientOf(sockets[s]) = c

EveryoneIsHeard ==
  (\E c \in Clients : Unheard(c)) ~> ((\A c \in Clients : ~Unheard(c)) \/ pc = "killed")
=============================================================================
