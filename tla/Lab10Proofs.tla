----------------------------- MODULE Lab10Proofs -----------------------------
(***************************************************************************)
(* What holds of the chats of lab10, for all sizes.                        *)
(*                                                                         *)
(* The TCP server, for any number of clients, any size of its table and    *)
(* any number of messages: no socket in the table is overlooked by select, *)
(* none is watched without a slot unless it hung up, and each client gets  *)
(* what the others sent once and in order.                                 *)
(*                                                                         *)
(* The client, for every size of its buffer and any number of lines and    *)
(* messages: its handler reads messages_waiting without the mutex, and     *)
(* still nothing is sent twice, out of order or before it was copied.      *)
(*                                                                         *)
(* The UDP server, for any number of peers of the two families, any length *)
(* of its tables, any time-out, and datagrams that get lost or overtake    *)
(* each other: its table holds every peer that it has heard of lately,     *)
(* once, and each text goes once to each peer.                             *)
(***************************************************************************)
EXTENDS ChatTcp, ChatClient, ChatUdp, SequenceTheorems, WellFoundedInduction,
        TLAPS

Msg == [from : Clients, n : Nat]
Peer(f) == f \notin Listening \cup {Empty}

Typed ==
  /\ TypeOK
  /\ ready \subseteq orig
  /\ accepted \in Seq(Clients)
  /\ backlog \in [Listening -> Seq(Clients)]
  /\ cpc \in [Clients -> {"new", "connected", "closed"}]
  /\ sent \in [Clients -> Nat]
  /\ wire \in [Clients -> Seq(Msg)]
  /\ got \in [Clients -> Seq(Msg)]

(* A client connects once: no two connections, waiting or accepted, are    *)
(* those of one client.                                                    *)
Waiting(c, l) == \E x \in 1 .. Len(backlog[l]) : backlog[l][x] = c
Known(c) == \E x \in 1 .. Len(accepted) : accepted[x] = c

ClientsConnectOnce ==
  /\ \A x, y \in 1 .. Len(accepted) : accepted[x] = accepted[y] => x = y
  /\ \A l \in Listening : \A x, y \in 1 .. Len(backlog[l]) :
       backlog[l][x] = backlog[l][y] => x = y
  /\ \A c \in Clients : \A l \in Listening :
       Waiting(c, l) => Via[c] = l /\ ~Known(c) /\ cpc[c] # "new"
  /\ \A c \in Clients : Known(c) => cpc[c] # "new"

(* No socket is in the table twice; the listening sockets stay where they  *)
(* are.                                                                    *)
TableInOrder ==
  /\ sockets[0] = Inet /\ sockets[1] = Unix
  /\ \A s, t \in Slots : sockets[s] # Empty /\ sockets[s] = sockets[t] => s = t

(* What select reported of a listening socket is still so when the loop    *)
(* comes to it: a connection waits, and accept() does not block.           *)
ReportIsFresh ==
  pc \in {"visit", "forward"} =>
    \A s \in Slots : s >= i /\ sockets[s] \in ready \cap Listening => backlog[sockets[s]] # <<>>

(* What a client has in flight is its own, in order, ...                   *)
WireInOrder ==
  \A c \in Clients : \A a \in 1 .. Len(wire[c]) :
    /\ wire[c][a].from = c /\ wire[c][a].n <= sent[c]
    /\ \A b \in 1 .. Len(wire[c]) : a < b => wire[c][a].n < wire[c][b].n

(* ... and comes after all of it that has been received, ...               *)
Precedes(m) == /\ m.n <= sent[m.from]
               /\ \A b \in 1 .. Len(wire[m.from]) : m.n < wire[m.from][b].n

GotPrecedesWire == \A c \in Clients : \A a \in 1 .. Len(got[c]) : Precedes(got[c][a])

(* ... that in buf, too, which the clients in the slots from j on have     *)
(* still to get.                                                           *)
Ahead(c) == \E s \in Slots : s >= j /\ Peer(sockets[s]) /\ ClientOf(sockets[s]) = c

BufInOrder ==
  pc = "forward" =>
    /\ buf \in Msg /\ Precedes(buf)
    /\ Peer(sockets[i]) /\ buf.from = ClientOf(sockets[i])
    /\ \A c \in Clients : \A a \in 1 .. Len(got[c]) :
         got[c][a].from = buf.from =>
           got[c][a].n <= buf.n /\ (Ahead(c) => got[c][a].n < buf.n)

Watched == EverySocketIsWatched /\ WatchedAreKeptOrClosed
OrderInv == WireInOrder /\ GotPrecedesWire /\ BufInOrder /\ DeliveredInOrder
IInv == Typed /\ ClientsConnectOnce /\ TableInOrder /\ ReportIsFresh /\ Watched /\ OrderInv

-----------------------------------------------------------------------------
(* A set of natural numbers has a least element, and one that is bounded   *)
(* has a greatest.                                                         *)
LEMMA LeastOf ==
  ASSUME NEW S, S \subseteq Nat, S # {} PROVE \E m \in S : \A n \in S : m <= n
<1>1. PICK m \in S : \A n \in S : ~(<<n, m>> \in OpToRel(<, Nat))
  BY NatLessThanWellFounded, WFMin
<1>2. \A n \in S : ~(n < m)
  BY <1>1 DEF OpToRel
<1>3. QED
  BY <1>2

LEMMA GreatestOf ==
  ASSUME NEW S, S \subseteq Nat, S # {}, NEW N \in Nat, \A n \in S : n <= N
  PROVE  \E m \in S : \A n \in S : n <= m
<1> DEFINE D == {N - n : n \in S}
<1>1. D \subseteq Nat
  OBVIOUS
<1>2. D # {}
  <2>1. PICK n \in S : TRUE
    OBVIOUS
  <2>2. N - n \in D
    BY <2>1
  <2>3. QED
    BY <2>2
<1>3. PICK d \in D : \A e \in D : d <= e
  BY <1>1, <1>2, LeastOf
<1>4. PICK m \in S : d = N - m
  BY <1>3
<1>5. ASSUME NEW n \in S PROVE n <= m
  <2>1. N - m <= N - n
    BY <1>3, <1>4
  <2>2. QED
    BY <2>1
<1>6. QED
  BY <1>5

LEMMA SlotsAreNumbers == Slots \subseteq Nat /\ 0 \in Slots /\ 1 \in Slots
BY SizesAssumption DEF Slots

(* The search for a free slot finds the first one.                         *)
LEMMA FirstFreeExists ==
  ASSUME FreeSlots # {} PROVE \E s \in Slots : FirstFree(s)
BY LeastOf, SlotsAreNumbers DEF FreeSlots, FirstFree

LEMMA FirstFreeIsOne ==
  ASSUME NEW s \in Slots, NEW t \in Slots, FirstFree(s), FirstFree(t) PROVE s = t
BY SlotsAreNumbers DEF FreeSlots, FirstFree

(* A descriptor that is no listening socket belongs to one client.         *)
LEMMA PeerHasClient ==
  ASSUME Typed, NEW f \in Fds, Peer(f)
  PROVE  f - 2 \in 1 .. Len(accepted) /\ ClientOf(f) \in Clients /\ Known(ClientOf(f))
<1>1. Len(accepted) \in Nat
  BY LenProperties DEF Typed
<1>2. f - 2 \in 1 .. Len(accepted)
  BY <1>1 DEF Fds, Peer, Listening, Inet, Unix
<1>3. ClientOf(f) \in Clients
  BY <1>2, ElementOfSeq DEF Typed, ClientOf
<1>4. QED
  BY <1>2, <1>3 DEF Known, ClientOf

LEMMA PeersDiffer ==
  ASSUME Typed, ClientsConnectOnce, NEW f \in Fds, NEW g \in Fds, Peer(f), Peer(g),
         ClientOf(f) = ClientOf(g)
  PROVE  f = g
<1>1. f - 2 \in 1 .. Len(accepted) /\ g - 2 \in 1 .. Len(accepted)
  BY PeerHasClient
<1>2. f - 2 = g - 2
  BY <1>1 DEF ClientsConnectOnce, ClientOf
<1>3. Fds \subseteq Int
  BY LenProperties DEF Typed, Fds
<1>4. QED
  BY <1>2, <1>3

(* find_max() returns a descriptor that none in the table exceeds.         *)
LEMMA FindMaxIsMax ==
  ASSUME Typed, NEW new \in [Slots -> Fds \cup {Empty}], new[0] = Inet
  PROVE  find_max(new) \in Fds /\ \A s \in Slots : new[s] <= find_max(new)
<1> DEFINE S == {Inet} \cup {new[s] : s \in 0 .. MaxClients - 1}
           m == find_max(new)
<1>1. Len(accepted) \in Nat
  BY LenProperties DEF Typed
<1>2. \A f \in S : f \in Nat /\ f <= Len(accepted) + 2
  BY <1>1 DEF Slots, Fds, Empty, Inet
<1>3. \E f \in S : \A g \in S : g <= f
  <2>1. S \subseteq Nat /\ S # {}
    BY <1>2
  <2>2. Len(accepted) + 2 \in Nat
    BY <1>1
  <2>3. QED
    BY <1>2, <2>1, <2>2, GreatestOf
<1>4. m = CHOOSE f \in S : \A s \in 0 .. MaxClients - 1 : new[s] <= f
  BY DEF find_max, HighestUpTo
<1>5. m \in S /\ \A s \in 0 .. MaxClients - 1 : new[s] <= m
  BY <1>3, <1>4
<1>6. Inet <= m
  BY <1>5, SlotsAreNumbers DEF Slots
<1>7. m \in Fds
  <2>1. m \in Nat /\ m <= Len(accepted) + 2
    BY <1>2, <1>5
  <2>2. QED
    BY <1>1, <1>6, <2>1 DEF Fds, Inet
<1>8. QED
  BY <1>5, <1>7 DEF Slots

-----------------------------------------------------------------------------
(* The variables stay in their ranges.                                     *)
LoopTyped == /\ pc \in {"select", "visit", "forward", "killed"}
             /\ pc \in {"visit", "forward"} => i \in Slots
             /\ pc = "forward" => j \in Slots

LEMMA AdvanceTyped ==
  ASSUME pc \in {"visit", "forward"}, i \in Slots, Advance PROVE LoopTyped'
BY SizesAssumption DEF Advance, LastSlot, LoopTyped, Slots

LEMMA ServerLoopTyped ==
  ASSUME Typed, BufInOrder, Select \/ Skip \/ Forward \/ Killed PROVE Typed'
<1>1. UNCHANGED <<sockets, orig, maxfd, backlog, accepted, cpc, sent, wire>>
  BY DEF Select, Skip, Forward, Killed, clients
<1>2. ready' \subseteq orig' /\ ready' \subseteq Fds'
  BY DEF Typed, TypeOK, Select, Skip, Forward, Killed, ReadableNow, Fds
<1>3. LoopTyped'
  <2>1. CASE Select
    BY <2>1, SlotsAreNumbers DEF Select, LoopTyped
  <2>2. CASE Skip
    BY <2>2, AdvanceTyped DEF Typed, TypeOK, Skip
  <2>3. CASE Forward
    <3>1. CASE LastSlot(j)
      BY <2>3, <3>1, AdvanceTyped DEF Typed, TypeOK, Forward, NextSlot
    <3>2. CASE ~LastSlot(j)
      BY <2>3, <3>2, SizesAssumption
      DEF Typed, TypeOK, Forward, NextSlot, LastSlot, LoopTyped, Slots
    <3>3. QED
      BY <3>1, <3>2
  <2>4. CASE Killed
    BY <2>4 DEF Killed, LoopTyped
  <2>5. QED
    BY <2>1, <2>2, <2>3, <2>4
<1>4. got' \in [Clients -> Seq(Msg)]
  <2>1. CASE got' = got
    BY <2>1 DEF Typed
  <2>2. CASE got' # got
    <3> DEFINE c == ClientOf(sockets[j])
    <3>1. /\ pc = "forward" /\ got' = [got EXCEPT ![c] = Append(@, buf)]
      BY <2>2 DEF Select, Skip, Forward, Killed
    <3>2. buf \in Msg
      BY <3>1 DEF BufInOrder
    <3>3. c \in Clients => Append(got[c], buf) \in Seq(Msg)
      BY <3>2, AppendProperties DEF Typed
    <3>4. QED
      BY <3>1, <3>3 DEF Typed
  <2>3. QED
    BY <2>1, <2>2
<1>5. QED
  BY <1>1, <1>2, <1>3, <1>4 DEF Typed, TypeOK, LoopTyped, Fds

LEMMA AcceptTyped ==
  ASSUME Typed, ReportIsFresh, Accept
  PROVE  /\ Typed'
         /\ Len(accepted) \in Nat /\ Len(accepted') = Len(accepted) + 1
         /\ \A f \in Fds : Peer(f) => ClientOf(f)' = ClientOf(f)
         /\ \A f \in Nat : f = Len(accepted) + 3 => ClientOf(f)' = Head(backlog[sockets[i]])
         /\ backlog[sockets[i]] # <<>>
<1> DEFINE l == sockets[i]
           f == Len(accepted) + 3
<1>0. l \in Listening /\ backlog[l] # <<>>
  <2>1. i \in Slots /\ sockets[i] \in ready \cap Listening /\ pc = "visit"
    BY DEF Accept, Typed, TypeOK
  <2>2. i >= i
    BY <2>1, SlotsAreNumbers
  <2>3. QED
    BY <2>1, <2>2 DEF ReportIsFresh
<1>1. Head(backlog[l]) \in Clients /\ Tail(backlog[l]) \in Seq(Clients)
  BY <1>0, HeadTailProperties DEF Typed
<1>2. Len(accepted) \in Nat
  BY LenProperties DEF Typed
<1>3. /\ accepted' \in Seq(Clients) /\ Len(accepted') = Len(accepted) + 1
      /\ \A x \in 1 .. Len(accepted) : accepted'[x] = accepted[x]
      /\ accepted'[Len(accepted) + 1] = Head(backlog[l])
  BY <1>1, AppendProperties DEF Accept, Typed
<1>4. Fds \subseteq Fds' /\ f \in Fds'
  BY <1>2, <1>3 DEF Fds
<1>5. backlog' \in [Listening -> Seq(Clients)]
  BY <1>0, <1>1 DEF Accept, Typed
<1>6. sockets' \in [Slots -> Fds' \cup {Empty}]
  BY <1>4 DEF Accept, Typed, TypeOK
<1>7. orig' \subseteq Fds' /\ ready' \subseteq Fds' /\ ready' \subseteq orig' /\ maxfd' \in Fds'
  BY <1>4 DEF Accept, Typed, TypeOK, WatchIfKept, Raise
<1>8. LoopTyped'
  BY AdvanceTyped DEF Accept, Typed, TypeOK
<1>9. Typed'
  BY <1>3, <1>5, <1>6, <1>7, <1>8 DEF Accept, Typed, TypeOK, LoopTyped, clients
<1>10. ASSUME NEW g \in Fds, Peer(g) PROVE ClientOf(g)' = ClientOf(g)
  BY <1>3, <1>10, PeerHasClient DEF ClientOf
<1>11. ASSUME NEW g \in Nat, g = Len(accepted) + 3 PROVE ClientOf(g)' = Head(backlog[l])
  <2>1. g - 2 = Len(accepted) + 1
    BY <1>2, <1>11
  <2>2. QED
    BY <1>3, <2>1 DEF ClientOf
<1>12. QED
  BY <1>0, <1>2, <1>3, <1>9, <1>10, <1>11

LEMMA ReceiveTyped ==
  ASSUME Typed, Receive
  PROVE  /\ Typed' /\ buf' \in Msg
         /\ sockets[i] \in Fds /\ Peer(sockets[i]) /\ ClientOf(sockets[i]) \in Clients
<1> DEFINE c == ClientOf(sockets[i])
<1>1. sockets[i] \in Fds /\ Peer(sockets[i])
  <2>1. sockets[i] \in Fds
    BY DEF Receive, Typed, TypeOK
  <2>2. Empty \notin Fds
    BY LenProperties DEF Typed, Fds, Empty
  <2>3. QED
    BY <2>1, <2>2 DEF Receive, Peer
<1>2. c \in Clients
  BY <1>1, PeerHasClient
<1>3. buf' \in Msg
  BY <1>2, HeadTailProperties DEF Receive, Typed
<1>4. wire' \in [Clients -> Seq(Msg)]
  <2>1. PICK n \in 1 .. Len(wire[c]) : wire' = [wire EXCEPT ![c] = SubSeq(@, n + 1, Len(@))]
    BY DEF Receive
  <2>2. wire[c] \in Seq(Msg) /\ Len(wire[c]) \in Nat
    BY <1>2, LenProperties DEF Typed
  <2>3. SubSeq(wire[c], n + 1, Len(wire[c])) \in Seq(Msg)
    BY <2>2, SubSeqProperties
  <2>4. QED
    BY <2>1, <2>3 DEF Typed
<1>5. LoopTyped'
  BY SlotsAreNumbers DEF Receive, Typed, TypeOK, LoopTyped
<1>6. QED
  BY <1>1, <1>2, <1>3, <1>4, <1>5 DEF Receive, Typed, TypeOK, LoopTyped, clients, Fds

LEMMA HangupTyped ==
  ASSUME Typed, TableInOrder, Hangup
  PROVE  /\ Typed' /\ i \in Slots /\ sockets[i] \in Fds /\ Peer(sockets[i])
         /\ \A s \in Slots : sockets'[s] <= maxfd'
<1>1. i \in Slots /\ sockets[i] \in Fds /\ Peer(sockets[i])
  <2>1. i \in Slots /\ sockets[i] \in Fds
    BY DEF Hangup, Typed, TypeOK
  <2>2. Empty \notin Fds
    BY LenProperties DEF Typed, Fds, Empty
  <2>3. QED
    BY <2>1, <2>2 DEF Hangup, Peer
<1>2. sockets' \in [Slots -> Fds \cup {Empty}] /\ sockets'[0] = Inet
  BY <1>1, SlotsAreNumbers DEF Hangup, Typed, TypeOK, TableInOrder, Peer, Listening
<1>3. maxfd' \in Fds /\ \A s \in Slots : sockets'[s] <= maxfd'
  BY <1>2, FindMaxIsMax DEF Hangup
<1>4. LoopTyped'
  BY AdvanceTyped DEF Hangup, Typed, TypeOK
<1>5. Typed'
  BY <1>2, <1>3, <1>4 DEF Hangup, Typed, TypeOK, LoopTyped, Fds, clients
<1>6. QED
  BY <1>1, <1>3, <1>5

LEMMA ClientTyped ==
  ASSUME Typed, NEW c \in Clients, ClientStep(c) PROVE Typed'
<1>1. UNCHANGED <<sockets, orig, ready, maxfd, pc, i, j, accepted, got>>
  BY DEF ClientStep, Connect, Send, Close, server, loops
<1>2. backlog' \in [Listening -> Seq(Clients)]
  <2>1. CASE Connect(c)
    <3>1. Via[c] \in Listening
      BY SizesAssumption
    <3>2. Append(backlog[Via[c]], c) \in Seq(Clients)
      BY <3>1, AppendProperties DEF Typed
    <3>3. QED
      BY <2>1, <3>2 DEF Connect, Typed
  <2>2. QED
    BY <2>1 DEF ClientStep, Send, Close, Typed
<1>3. cpc' \in [Clients -> {"new", "connected", "closed"}]
  BY DEF ClientStep, Connect, Send, Close, Typed
<1>4. sent' \in [Clients -> Nat] /\ \A d \in Clients : sent'[d] \in 0 .. MaxSend[d]
  <2>1. CASE Send(c)
    <3>1. sent' = [sent EXCEPT ![c] = sent[c] + 1] /\ sent[c] < MaxSend[c]
      BY <2>1 DEF Send
    <3>2. sent[c] \in Nat /\ MaxSend[c] \in Nat
      BY SizesAssumption DEF Typed
    <3>3. sent[c] + 1 \in 0 .. MaxSend[c] /\ sent[c] + 1 \in Nat
      BY <3>1, <3>2
    <3>4. QED
      BY <3>1, <3>3 DEF Typed, TypeOK
  <2>2. QED
    BY <2>1 DEF ClientStep, Connect, Close, Typed, TypeOK
<1>5. wire' \in [Clients -> Seq(Msg)]
  <2>1. CASE Send(c)
    <3>1. [from |-> c, n |-> sent[c] + 1] \in Msg
      BY DEF Msg, Typed
    <3>2. Append(wire[c], [from |-> c, n |-> sent[c] + 1]) \in Seq(Msg)
      BY <3>1, AppendProperties DEF Typed
    <3>3. QED
      BY <2>1, <3>2 DEF Send, Typed
  <2>2. CASE Close(c)
    <3>1. PICK w \in {wire[c], <<>>} : wire' = [wire EXCEPT ![c] = w]
      BY <2>2 DEF Close
    <3>2. w \in Seq(Msg)
      BY EmptySeq DEF Typed
    <3>3. QED
      BY <3>1, <3>2 DEF Typed
  <2>3. QED
    BY <2>1, <2>2 DEF ClientStep, Connect, Typed
<1>6. QED
  BY <1>1, <1>2, <1>3, <1>4, <1>5 DEF Typed, TypeOK, Fds

-----------------------------------------------------------------------------
(* A client is in one place at most: not connected yet, in one backlog, or *)
(* accepted.                                                               *)
LEMMA ConnectOnceStep ==
  ASSUME Typed, ClientsConnectOnce, ReportIsFresh, ServerStep PROVE ClientsConnectOnce'
<1>1. CASE Accept
  <2>1. PICK l \in Listening : l = sockets[i] /\ backlog[l] # <<>> /\ cpc' = cpc
    BY <1>1, AcceptTyped DEF Accept, clients
  <2>2a. PICK c \in Clients : c = Head(backlog[l])
    BY <2>1, HeadTailProperties DEF Typed
  <2>2. /\ backlog[l] \in Seq(Clients) /\ c = backlog[l][1]
        /\ Len(backlog[l]) \in Nat /\ Len(backlog[l]) >= 1
        /\ Len(Tail(backlog[l])) = Len(backlog[l]) - 1
        /\ \A x \in 1 .. Len(backlog[l]) - 1 : Tail(backlog[l])[x] = backlog[l][x + 1]
    BY <2>1, <2>2a, HeadTailProperties, LenProperties DEF Typed
  <2>3. backlog' = [backlog EXCEPT ![l] = Tail(backlog[l])]
    BY <1>1, <2>1 DEF Accept
  <2>4. \A m \in Listening : m # l => backlog'[m] = backlog[m]
    BY <2>3 DEF Typed
  <2>5. backlog'[l] = Tail(backlog[l])
    BY <2>1, <2>3 DEF Typed
  <2>6. Waiting(c, l) /\ ~Known(c) /\ Via[c] = l /\ cpc[c] # "new"
    BY <2>1, <2>2 DEF Waiting, ClientsConnectOnce
  <2>7. /\ Len(accepted) \in Nat /\ Len(accepted') = Len(accepted) + 1
        /\ \A x \in 1 .. Len(accepted) : accepted'[x] = accepted[x]
        /\ accepted'[Len(accepted) + 1] = c
    BY <1>1, <2>1, <2>2a, AppendProperties, LenProperties DEF Accept, Typed
  <2>8. \A d \in Clients : Known(d)' <=> Known(d) \/ d = c
    BY <2>7 DEF Known
  <2>9. \A d \in Clients : ~Waiting(d, l)' \/ (Waiting(d, l) /\ d # c)
    <3> SUFFICES ASSUME NEW d \in Clients, Waiting(d, l)' PROVE Waiting(d, l) /\ d # c
      OBVIOUS
    <3>1. PICK x \in 1 .. Len(backlog[l]) - 1 : Tail(backlog[l])[x] = d
      BY <2>2, <2>5 DEF Waiting
    <3>2. x + 1 \in 1 .. Len(backlog[l]) /\ 1 \in 1 .. Len(backlog[l]) /\ x + 1 # 1
      BY <2>2
    <3>3. backlog[l][x + 1] = d
      BY <2>2, <3>1
    <3>4. d # c
      BY <2>1, <2>2, <3>2, <3>3 DEF ClientsConnectOnce
    <3>5. QED
      BY <3>2, <3>3, <3>4 DEF Waiting
  <2>10. \A d \in Clients : \A m \in Listening : m # l /\ Waiting(d, m)' => Waiting(d, m) /\ d # c
    BY <2>4, <2>6 DEF Waiting, ClientsConnectOnce
  <2>11. \A d \in Clients : \A m \in Listening :
           Waiting(d, m)' => Via[d] = m /\ ~Known(d)' /\ cpc'[d] # "new"
    BY <2>1, <2>8, <2>9, <2>10 DEF ClientsConnectOnce
  <2>12. \A d \in Clients : Known(d)' => cpc'[d] # "new"
    BY <2>1, <2>6, <2>8 DEF ClientsConnectOnce
  <2>13. \A x, y \in 1 .. Len(accepted') : accepted'[x] = accepted'[y] => x = y
    <3>1. \A x \in 1 .. Len(accepted) : accepted[x] # c
      BY <2>6 DEF Known
    <3>2. \A x \in 1 .. Len(accepted') : x \in 1 .. Len(accepted) \/ x = Len(accepted) + 1
      BY <2>7
    <3>3. QED
      BY <2>7, <3>1, <3>2 DEF ClientsConnectOnce
  <2>14. \A m \in Listening : \A x, y \in 1 .. Len(backlog'[m]) :
           backlog'[m][x] = backlog'[m][y] => x = y
    <3>1. \A x, y \in 1 .. Len(backlog'[l]) : backlog'[l][x] = backlog'[l][y] => x = y
      <4> SUFFICES ASSUME NEW x \in 1 .. Len(backlog[l]) - 1, NEW y \in 1 .. Len(backlog[l]) - 1,
                          Tail(backlog[l])[x] = Tail(backlog[l])[y]
                   PROVE  x = y
        BY <2>2, <2>5
      <4>1. backlog[l][x + 1] = backlog[l][y + 1]
        BY <2>2
      <4>2. x + 1 \in 1 .. Len(backlog[l]) /\ y + 1 \in 1 .. Len(backlog[l])
        BY <2>2
      <4>3. x + 1 = y + 1
        BY <2>1, <4>1, <4>2 DEF ClientsConnectOnce
      <4>4. QED
        BY <4>3
    <3>2. QED
      BY <2>4, <3>1 DEF ClientsConnectOnce
  <2>15. QED
    BY <2>11, <2>12, <2>13, <2>14 DEF ClientsConnectOnce
<1>2. CASE ~Accept
  <2>1. UNCHANGED <<backlog, accepted, cpc>>
    BY <1>2 DEF ServerStep, Select, Skip, Receive, Hangup, Forward, Killed, clients
  <2>2. QED
    BY <2>1 DEF ClientsConnectOnce, Waiting, Known
<1>3. QED
  BY <1>1, <1>2

LEMMA ConnectOnceClient ==
  ASSUME Typed, ClientsConnectOnce, NEW c \in Clients, ClientStep(c)
  PROVE  ClientsConnectOnce'
<1>1. accepted' = accepted
  BY DEF ClientStep, Connect, Send, Close
<1>2. \A d \in Clients : Known(d)' <=> Known(d)
  BY <1>1 DEF Known
<1>3. CASE Connect(c)
  <2>1. PICK l \in Listening : l = Via[c] /\ cpc[c] = "new"
    BY <1>3, SizesAssumption DEF Connect
  <2>2. /\ Len(backlog[l]) \in Nat /\ Len(backlog'[l]) = Len(backlog[l]) + 1
        /\ \A x \in 1 .. Len(backlog[l]) : backlog'[l][x] = backlog[l][x]
        /\ backlog'[l][Len(backlog[l]) + 1] = c
    <3>1. backlog'[l] = Append(backlog[l], c) /\ backlog[l] \in Seq(Clients)
      BY <1>3, <2>1 DEF Connect, Typed
    <3>2. QED
      BY <3>1, AppendProperties, LenProperties
  <2>3. \A m \in Listening : m # l => backlog'[m] = backlog[m]
    BY <1>3, <2>1 DEF Connect, Typed
  <2>4. \A d \in Clients : \A m \in Listening :
          Waiting(d, m)' => Waiting(d, m) \/ (d = c /\ m = l)
    <3> SUFFICES ASSUME NEW d \in Clients, Waiting(d, l)' PROVE Waiting(d, l) \/ d = c
      BY <2>3 DEF Waiting
    <3>1. PICK x \in 1 .. Len(backlog'[l]) : backlog'[l][x] = d
      BY DEF Waiting
    <3>2. x \in 1 .. Len(backlog[l]) \/ x = Len(backlog[l]) + 1
      BY <2>2
    <3>3. QED
      BY <2>2, <3>1, <3>2 DEF Waiting
  <2>5. cpc'[c] # "new" /\ \A d \in Clients : d # c => cpc'[d] = cpc[d]
    BY <1>3 DEF Connect, Typed
  <2>6. ~Known(c) /\ ~Waiting(c, l)
    BY <2>1 DEF ClientsConnectOnce
  <2>7. \A m \in Listening : \A x, y \in 1 .. Len(backlog'[m]) :
          backlog'[m][x] = backlog'[m][y] => x = y
    <3>1. \A x, y \in 1 .. Len(backlog'[l]) : backlog'[l][x] = backlog'[l][y] => x = y
      <4>1. \A x \in 1 .. Len(backlog'[l]) : x \in 1 .. Len(backlog[l]) \/ x = Len(backlog[l]) + 1
        BY <2>2
      <4>2. \A x \in 1 .. Len(backlog[l]) : backlog[l][x] # c
        BY <2>6 DEF Waiting
      <4>3. \A x, y \in 1 .. Len(backlog[l]) : backlog[l][x] = backlog[l][y] => x = y
        BY <2>1 DEF ClientsConnectOnce
      <4>4. QED
        BY <2>2, <4>1, <4>2, <4>3
    <3>2. QED
      BY <2>3, <3>1 DEF ClientsConnectOnce
  <2>8. \A d \in Clients : \A m \in Listening :
          Waiting(d, m)' => Via[d] = m /\ ~Known(d)' /\ cpc'[d] # "new"
    BY <1>2, <2>1, <2>4, <2>5, <2>6 DEF ClientsConnectOnce
  <2>9. \A d \in Clients : Known(d)' => cpc'[d] # "new"
    BY <1>2, <2>5 DEF ClientsConnectOnce
  <2>10. QED
    BY <1>1, <2>7, <2>8, <2>9 DEF ClientsConnectOnce
<1>4. CASE ~Connect(c)
  <2>1. backlog' = backlog /\ \A d \in Clients : cpc[d] # "new" => cpc'[d] # "new"
    BY <1>4 DEF ClientStep, Send, Close, Typed
  <2>2. QED
    BY <1>1, <1>2, <2>1 DEF ClientsConnectOnce, Waiting
<1>5. QED
  BY <1>3, <1>4

-----------------------------------------------------------------------------
(* The table changes when a connection is accepted and when one hangs up.  *)
LEMMA NewSocketKept ==
  ASSUME Typed, Accept, FreeSlots # {}
  PROVE  \E s \in Slots : /\ sockets[s] = Empty
                          /\ sockets' = [sockets EXCEPT ![s] = Len(accepted) + 3]
<1>1. PICK s \in Slots : FirstFree(s)
  BY FirstFreeExists
<1>2. \A t \in Slots : FirstFree(t) <=> t = s
  BY <1>1, FirstFreeIsOne
<1>3. sockets' = [t \in Slots |-> IF FirstFree(t) THEN Len(accepted) + 3 ELSE sockets[t]]
  BY DEF Accept
<1>4. sockets[s] = Empty
  BY <1>1 DEF FirstFree, FreeSlots
<1>5. QED
  BY <1>2, <1>3, <1>4 DEF Typed, TypeOK

LEMMA NoRoomNoChange ==
  ASSUME Typed, Accept, FreeSlots = {} PROVE sockets' = sockets
BY DEF Accept, FirstFree, Typed, TypeOK

LEMMA TableOfOthers ==
  ASSUME Next \/ UNCHANGED vars, ~Accept, ~Hangup PROVE sockets' = sockets
BY DEF Next, ServerStep, Select, Skip, Receive, Forward, Killed, ClientStep, Connect, Send,
   Close, server, vars

LEMMA TableInOrderStep ==
  ASSUME Typed, TableInOrder, Next \/ UNCHANGED vars PROVE TableInOrder'
<1>1. CASE Accept /\ FreeSlots # {}
  <2>1. PICK s \in Slots : /\ sockets[s] = Empty
                          /\ sockets' = [sockets EXCEPT ![s] = Len(accepted) + 3]
    BY <1>1, NewSocketKept
  <2>2. \A t \in Slots : sockets[t] # Len(accepted) + 3
    BY LenProperties DEF Typed, TypeOK, Fds, Empty
  <2>3. s # 0 /\ s # 1
    BY <2>1 DEF TableInOrder, Empty, Inet, Unix
  <2>4. \A t \in Slots : sockets'[t] = IF t = s THEN Len(accepted) + 3 ELSE sockets[t]
    BY <2>1 DEF Typed, TypeOK
  <2>5. QED
    BY <2>2, <2>3, <2>4, SlotsAreNumbers DEF TableInOrder
<1>2. CASE Hangup
  <2>1. i \in Slots /\ Peer(sockets[i])
    BY <1>2, HangupTyped
  <2>2. \A t \in Slots : sockets'[t] = IF t = i THEN Empty ELSE sockets[t]
    BY <1>2 DEF Hangup, Typed, TypeOK
  <2>3. i # 0 /\ i # 1
    BY <2>1 DEF TableInOrder, Peer, Listening
  <2>4. QED
    BY <2>2, <2>3, SlotsAreNumbers DEF TableInOrder
<1>3. CASE sockets' = sockets
  BY <1>3 DEF TableInOrder
<1>4. QED
  BY <1>1, <1>2, <1>3, TableOfOthers, NoRoomNoChange

(* What is in the table stays below maxfd and in the set; what leaves the  *)
(* table has hung up.                                                      *)
LEMMA WatchedStep ==
  ASSUME Typed, TableInOrder, ReportIsFresh, Watched, Next \/ UNCHANGED vars
  PROVE  Watched'
<1>0. Len(accepted) \in Nat
  BY LenProperties DEF Typed
<1>1. CASE Accept
  <2>1. /\ \A f \in Fds : Peer(f) => ClientOf(f)' = ClientOf(f)
        /\ cpc' = cpc
    BY <1>1, AcceptTyped DEF Accept, clients
  <2>2. CASE FreeSlots = {}
    <3>1. sockets' = sockets /\ orig' = orig /\ maxfd' = maxfd
      BY <1>1, <2>2, NoRoomNoChange DEF Accept, WatchIfKept
    <3>2. EverySocketIsWatched'
      BY <3>1 DEF Watched, EverySocketIsWatched
    <3>3. WatchedAreKeptOrClosed'
      <4> SUFFICES ASSUME NEW f \in orig, ~InSlot(f)
                   PROVE  f \notin Listening /\ cpc[ClientOf(f)'] = "closed"
        BY <2>1, <3>1 DEF WatchedAreKeptOrClosed, InSlot
      <4>1. f \in Fds /\ f \notin Listening /\ cpc[ClientOf(f)] = "closed"
        BY DEF Watched, WatchedAreKeptOrClosed, Typed, TypeOK
      <4>2. Peer(f)
        BY <1>0, <4>1 DEF Peer, Fds, Empty
      <4>3. QED
        BY <2>1, <4>1, <4>2
    <3>4. QED
      BY <3>2, <3>3 DEF Watched
  <2>3. CASE FreeSlots # {}
    <3>1. PICK s \in Slots : /\ sockets[s] = Empty
                            /\ sockets' = [sockets EXCEPT ![s] = Len(accepted) + 3]
      BY <1>1, <2>3, NewSocketKept
    <3>2. \A t \in Slots : sockets'[t] = IF t = s THEN Len(accepted) + 3 ELSE sockets[t]
      BY <3>1 DEF Typed, TypeOK
    <3>3. orig' = orig \cup {Len(accepted) + 3} /\ maxfd' = Raise(Len(accepted) + 3)
      BY <1>1, <2>3 DEF Accept, WatchIfKept
    <3>4. maxfd \in Nat /\ maxfd' >= maxfd /\ maxfd' >= Len(accepted) + 3
      BY <1>0, <3>3 DEF Raise, Typed, TypeOK, Fds
    <3>5. EverySocketIsWatched'
      <4> SUFFICES ASSUME NEW t \in Slots, sockets'[t] # Empty
                   PROVE  sockets'[t] \in orig' /\ sockets'[t] <= maxfd'
        BY DEF EverySocketIsWatched
      <4>1. CASE t = s
        BY <3>2, <3>3, <3>4, <4>1
      <4>2. CASE t # s
        <5>1. sockets'[t] = sockets[t] /\ sockets[t] \in orig /\ sockets[t] <= maxfd
          BY <3>2, <4>2 DEF Watched, EverySocketIsWatched
        <5>2. sockets[t] \in Nat
          BY <1>0, <5>1 DEF Typed, TypeOK, Fds
        <5>3. maxfd' \in Nat
          BY <1>0, <3>3, <3>4 DEF Raise
        <5>4. QED
          BY <3>3, <3>4, <5>1, <5>2, <5>3
      <4>3. QED
        BY <4>1, <4>2
    <3>6. WatchedAreKeptOrClosed'
      <4> SUFFICES ASSUME NEW f \in orig', ~InSlot(f)'
                   PROVE  f \notin Listening /\ cpc[ClientOf(f)'] = "closed"
        BY <2>1 DEF WatchedAreKeptOrClosed
      <4>1. f # Len(accepted) + 3
        BY <3>2 DEF InSlot
      <4>2. f \in orig
        BY <3>3, <4>1
      <4>3. f \in Fds /\ f # Empty
        BY <1>0, <4>2 DEF Typed, TypeOK, Fds, Empty
      <4>4. ~InSlot(f)
        BY <3>1, <3>2, <4>3 DEF InSlot
      <4>5. f \notin Listening /\ cpc[ClientOf(f)] = "closed"
        BY <4>2, <4>4 DEF Watched, WatchedAreKeptOrClosed
      <4>6. Peer(f)
        BY <4>3, <4>5 DEF Peer
      <4>7. QED
        BY <2>1, <4>3, <4>5, <4>6
    <3>7. QED
      BY <3>5, <3>6 DEF Watched
  <2>4. QED
    BY <2>2, <2>3
<1>2. CASE Hangup
  <2>1. i \in Slots /\ Peer(sockets[i]) /\ \A s \in Slots : sockets'[s] <= maxfd'
    BY <1>2, HangupTyped
  <2>2. \A t \in Slots : sockets'[t] = IF t = i THEN Empty ELSE sockets[t]
    BY <1>2 DEF Hangup, Typed, TypeOK
  <2>3. cpc[ClientOf(sockets[i])] = "closed" /\ UNCHANGED <<orig, cpc, accepted>>
    BY <1>2 DEF Hangup, clients
  <2>4. EverySocketIsWatched'
    BY <2>1, <2>2, <2>3 DEF Watched, EverySocketIsWatched
  <2>5. WatchedAreKeptOrClosed'
    <3> SUFFICES ASSUME NEW f \in orig, ~InSlot(f)'
                 PROVE  f \notin Listening /\ cpc[ClientOf(f)] = "closed"
      BY <2>3 DEF WatchedAreKeptOrClosed, ClientOf
    <3>1. CASE f = sockets[i]
      BY <2>1, <2>3, <3>1 DEF Peer
    <3>2. CASE f # sockets[i]
      BY <2>2, <3>2 DEF InSlot, Watched, WatchedAreKeptOrClosed
    <3>3. QED
      BY <3>1, <3>2
  <2>6. QED
    BY <2>4, <2>5 DEF Watched
<1>3. CASE ~Accept /\ ~Hangup
  <2>1. UNCHANGED <<sockets, orig, maxfd, accepted>>
    BY <1>3 DEF Next, ServerStep, Select, Skip, Receive, Forward, Killed, ClientStep, Connect,
       Send, Close, server, vars
  <2>2. \A c \in Clients : cpc[c] = "closed" => cpc'[c] = "closed"
    BY <1>3 DEF Next, ServerStep, Select, Skip, Receive, Forward, Killed, ClientStep, Connect,
       Send, Close, server, clients, vars, Typed
  <2>3. WatchedAreKeptOrClosed'
    <3> SUFFICES ASSUME NEW f \in orig, ~InSlot(f)
                 PROVE  f \notin Listening /\ cpc'[ClientOf(f)] = "closed"
      BY <2>1 DEF WatchedAreKeptOrClosed, InSlot, ClientOf
    <3>1. f \in Fds /\ f \notin Listening /\ cpc[ClientOf(f)] = "closed"
      BY DEF Watched, WatchedAreKeptOrClosed, Typed, TypeOK
    <3>2. ClientOf(f) \in Clients
      BY <1>0, <3>1, PeerHasClient DEF Peer, Fds, Empty
    <3>3. QED
      BY <2>2, <3>1, <3>2
  <2>4. QED
    BY <2>1, <2>3 DEF Watched, EverySocketIsWatched
<1>4. QED
  BY <1>1, <1>2, <1>3

-----------------------------------------------------------------------------
(* Nothing but accept() takes a connection out of a backlog, and the loop  *)
(* comes to each listening socket once.                                    *)
LEMMA ReportIsFreshStep ==
  ASSUME Typed, TableInOrder, ReportIsFresh, Next \/ UNCHANGED vars
  PROVE  ReportIsFresh'
<1>0. Slots \subseteq Nat /\ Len(accepted) \in Nat /\ (pc \in {"visit", "forward"} => i \in Nat)
  BY SlotsAreNumbers, LenProperties DEF Typed, TypeOK
<1>1. CASE Select
  <2>1. ready' = ReadableNow /\ sockets' = sockets /\ backlog' = backlog
    BY <1>1 DEF Select
  <2>2. QED
    BY <2>1 DEF ReportIsFresh, ReadableNow, Readable
<1>2. CASE Accept
  <2> SUFFICES ASSUME NEW s \in Slots, s >= i + 1, sockets'[s] \in ready \cap Listening
               PROVE  backlog'[sockets'[s]] # <<>>
    BY <1>2 DEF Accept, Advance, ReportIsFresh
  <2>1. sockets'[s] = sockets[s]
    BY <1>0, <1>2 DEF Accept, Listening, Inet, Unix
  <2>2. i \in Slots /\ sockets[i] # Empty /\ pc = "visit"
    BY <1>2 DEF Accept, Typed, TypeOK, Listening, Inet, Unix, Empty
  <2>3. sockets[s] # sockets[i]
    BY <1>0, <2>2 DEF TableInOrder
  <2>4. backlog'[sockets[s]] = backlog[sockets[s]]
    BY <1>2, <2>3 DEF Accept, Typed
  <2>5. s >= i
    BY <1>0, <2>2
  <2>6. QED
    BY <2>1, <2>2, <2>4, <2>5 DEF ReportIsFresh
<1>3. CASE Skip \/ Hangup \/ Forward
  <2> SUFFICES ASSUME NEW s \in Slots, s >= i', sockets'[s] \in ready \cap Listening
               PROVE  backlog[sockets'[s]] # <<>>
    BY <1>3 DEF Skip, Hangup, Forward, ReportIsFresh
  <2>1. sockets'[s] = sockets[s]
    BY <1>3 DEF Skip, Hangup, Forward, Typed, TypeOK, Listening, Inet, Unix, Empty
  <2>2. pc \in {"visit", "forward"} /\ i' \in {i, i + 1}
    BY <1>3 DEF Skip, Hangup, Forward, NextSlot, Advance
  <2>3. s >= i
    BY <1>0, <2>2
  <2>4. QED
    BY <2>1, <2>2, <2>3 DEF ReportIsFresh
<1>4. CASE Receive \/ Killed \/ UNCHANGED vars
  BY <1>4 DEF Receive, Killed, vars, server, loops, ReportIsFresh
<1>5. ASSUME NEW c \in Clients, ClientStep(c) PROVE ReportIsFresh'
  <2>1. UNCHANGED <<sockets, ready, pc, i>>
    BY <1>5 DEF ClientStep, Connect, Send, Close, server, loops
  <2>2. \A l \in Listening : backlog[l] # <<>> => backlog'[l] # <<>>
    <3>1. \A l \in Listening : backlog'[l] \in {backlog[l], Append(backlog[l], c)}
      BY <1>5, SizesAssumption DEF ClientStep, Connect, Send, Close, Typed
    <3>2. ASSUME NEW l \in Listening PROVE Append(backlog[l], c) # <<>>
      <4>1. backlog[l] \in Seq(Clients)
        BY DEF Typed
      <4>2. QED
        BY <4>1, AppendProperties
    <3>3. QED
      BY <3>1, <3>2
  <2>3. QED
    BY <2>1, <2>2 DEF ReportIsFresh
<1>6. QED
  BY <1>1, <1>2, <1>3, <1>4, <1>5 DEF Next, ServerStep

-----------------------------------------------------------------------------
(* Order.  Most steps move no message.                                     *)
LEMMA NoMessageMoves ==
  ASSUME OrderInv, UNCHANGED <<wire, got, buf, sent>>, pc' # "forward"
  PROVE  OrderInv'
BY DEF OrderInv, WireInOrder, GotPrecedesWire, Precedes, BufInOrder, DeliveredInOrder

LEMMA SendKeepsOrder ==
  ASSUME Typed, OrderInv, NEW c \in Clients, Send(c) PROVE OrderInv'
<1> DEFINE m == [from |-> c, n |-> sent[c] + 1]
<1>1. UNCHANGED <<sockets, pc, i, j, buf, accepted, got>>
  BY DEF Send, server, loops
<1>2. /\ Len(wire[c]) \in Nat /\ Len(wire'[c]) = Len(wire[c]) + 1
      /\ \A a \in 1 .. Len(wire[c]) : wire'[c][a] = wire[c][a]
      /\ wire'[c][Len(wire[c]) + 1] = m
  BY AppendProperties, LenProperties DEF Send, Typed
<1>3. \A d \in Clients : d # c => wire'[d] = wire[d] /\ sent'[d] = sent[d]
  BY DEF Send, Typed
<1>4. sent'[c] = sent[c] + 1 /\ sent[c] \in Nat
  BY DEF Send, Typed
<1>5. \A a \in 1 .. Len(wire'[c]) : a \in 1 .. Len(wire[c]) \/ a = Len(wire[c]) + 1
  BY <1>2
<1>6. WireInOrder'
  <2> SUFFICES ASSUME NEW a \in 1 .. Len(wire'[c])
               PROVE  /\ wire'[c][a].from = c /\ wire'[c][a].n <= sent'[c]
                      /\ \A b \in 1 .. Len(wire'[c]) : a < b => wire'[c][a].n < wire'[c][b].n
    BY <1>3 DEF OrderInv, WireInOrder
  <2>1. CASE a = Len(wire[c]) + 1
    BY <1>2, <1>4, <2>1
  <2>2. CASE a \in 1 .. Len(wire[c])
    <3>1. /\ wire[c][a].from = c /\ wire[c][a].n <= sent[c]
          /\ \A b \in 1 .. Len(wire[c]) : a < b => wire[c][a].n < wire[c][b].n
      BY <2>2 DEF OrderInv, WireInOrder
    <3>2. wire[c] \in Seq(Msg)
      BY DEF Typed
    <3>3. wire[c][a] \in Msg
      BY <2>2, <3>2, ElementOfSeq
    <3>4. wire[c][a].n \in Nat /\ wire'[c][a] = wire[c][a]
      BY <1>2, <2>2, <3>3 DEF Msg
    <3>5. ASSUME NEW b \in 1 .. Len(wire'[c]), a < b PROVE wire[c][a].n < wire'[c][b].n
      <4>1. CASE b \in 1 .. Len(wire[c])
        BY <1>2, <3>1, <3>5, <4>1
      <4>2. CASE b = Len(wire[c]) + 1
        BY <1>2, <1>4, <3>1, <3>4, <4>2
      <4>3. QED
        BY <1>5, <4>1, <4>2
    <3>6. wire[c][a].n <= sent'[c]
      BY <1>4, <3>1, <3>4
    <3>7. QED
      BY <3>1, <3>4, <3>5, <3>6
  <2>3. QED
    BY <1>5, <2>1, <2>2
<1>7. ASSUME NEW p \in Msg, Precedes(p) PROVE Precedes(p)'
  <2>1. CASE p.from # c
    BY <1>3, <1>7, <2>1 DEF Msg, Precedes
  <2>2. CASE p.from = c
    <3>1. p.n \in Nat /\ p.n <= sent[c]
      BY <1>7, <2>2 DEF Msg, Precedes
    <3>2. ASSUME NEW b \in 1 .. Len(wire'[c]) PROVE p.n < wire'[c][b].n
      <4>1. CASE b \in 1 .. Len(wire[c])
        BY <1>2, <1>7, <2>2, <4>1 DEF Precedes
      <4>2. CASE b = Len(wire[c]) + 1
        BY <1>2, <1>4, <3>1, <4>2
      <4>3. QED
        BY <1>5, <4>1, <4>2
    <3>3. p.n <= sent'[c]
      BY <1>4, <3>1
    <3>4. QED
      BY <2>2, <3>2, <3>3 DEF Precedes
  <2>3. QED
    BY <2>1, <2>2
<1>8. GotPrecedesWire'
  <2> SUFFICES ASSUME NEW d \in Clients, NEW a \in 1 .. Len(got[d]) PROVE Precedes(got[d][a])'
    BY <1>1 DEF GotPrecedesWire
  <2>1. got[d][a] \in Msg /\ Precedes(got[d][a])
    BY ElementOfSeq DEF Typed, OrderInv, GotPrecedesWire
  <2>2. PICK p \in Msg : p = got[d][a]
    BY <2>1
  <2>3. Precedes(p)'
    BY <1>7, <2>1, <2>2
  <2>4. QED
    BY <1>1, <2>2, <2>3 DEF Precedes
<1>9. BufInOrder'
  <2> SUFFICES ASSUME pc = "forward" PROVE BufInOrder'
    BY <1>1 DEF BufInOrder
  <2>1. PICK p \in Msg : p = buf /\ Precedes(p)
    BY DEF OrderInv, BufInOrder
  <2>2. Precedes(p)'
    BY <1>7, <2>1
  <2>3. QED
    BY <1>1, <2>1, <2>2 DEF OrderInv, BufInOrder, Precedes, Ahead, ClientOf
<1>10. QED
  BY <1>1, <1>6, <1>8, <1>9 DEF OrderInv, DeliveredInOrder

LEMMA CloseKeepsOrder ==
  ASSUME Typed, OrderInv, NEW c \in Clients, Close(c) PROVE OrderInv'
<1>1. UNCHANGED <<sockets, pc, i, j, buf, accepted, got, sent>>
  BY DEF Close, server, loops
<1>2. \A d \in Clients : wire'[d] = wire[d] \/ wire'[d] = <<>>
  BY DEF Close, Typed
<1>3. WireInOrder'
  BY <1>1, <1>2 DEF OrderInv, WireInOrder
<1>4. \A p \in Msg : Precedes(p) => Precedes(p)'
  BY <1>1, <1>2 DEF Precedes, Msg
<1>5. GotPrecedesWire'
  <2> SUFFICES ASSUME NEW d \in Clients, NEW a \in 1 .. Len(got[d]) PROVE Precedes(got[d][a])'
    BY <1>1 DEF GotPrecedesWire
  <2>1. PICK p \in Msg : p = got[d][a] /\ Precedes(p)
    BY ElementOfSeq DEF Typed, OrderInv, GotPrecedesWire
  <2>2. QED
    BY <1>1, <1>4, <2>1 DEF Precedes
<1>6. BufInOrder'
  BY <1>1, <1>2 DEF OrderInv, BufInOrder, Precedes, Msg, Ahead, ClientOf
<1>7. QED
  BY <1>1, <1>3, <1>5, <1>6 DEF OrderInv, DeliveredInOrder

(* What recv() takes is the head of what is in flight, and more is lost.   *)
LEMMA ReceiveKeepsOrder ==
  ASSUME Typed, OrderInv, Receive PROVE OrderInv'
<1>1. PICK c \in Clients : c = ClientOf(sockets[i])
  BY ReceiveTyped
<1>2. wire[c] # <<>> /\ buf' = Head(wire[c]) /\ UNCHANGED <<sockets, i, accepted, sent, got>>
  BY <1>1 DEF Receive, clients
<1>3. PICK n \in 1 .. Len(wire[c]) : wire' = [wire EXCEPT ![c] = SubSeq(@, n + 1, Len(@))]
  BY <1>1 DEF Receive
<1>4. wire[c] \in Seq(Msg) /\ Len(wire[c]) \in Nat /\ 1 \in 1 .. Len(wire[c]) /\ buf' = wire[c][1]
  BY <1>2, HeadTailProperties, LenProperties DEF Typed
<1>5. /\ Len(wire'[c]) = Len(wire[c]) - n
      /\ \A a \in 1 .. Len(wire[c]) - n : wire'[c][a] = wire[c][a + n]
  <2>1. wire'[c] = SubSeq(wire[c], n + 1, Len(wire[c]))
    BY <1>3 DEF Typed
  <2>2. /\ Len(SubSeq(wire[c], n + 1, Len(wire[c]))) = Len(wire[c]) - n
        /\ \A a \in 1 .. Len(wire[c]) - n :
             SubSeq(wire[c], n + 1, Len(wire[c]))[a] = wire[c][a + n]
    <3>1. n + 1 \in 1 .. Len(wire[c]) + 1 /\ Len(wire[c]) \in n .. Len(wire[c])
      BY <1>4
    <3>2. QED
      BY <1>4, <3>1, SubSeqProperties
  <2>3. QED
    BY <2>1, <2>2
<1>6. \A a \in 1 .. Len(wire'[c]) : a + n \in 1 .. Len(wire[c]) /\ 1 < a + n
  BY <1>4, <1>5
<1>7. \A d \in Clients : d # c => wire'[d] = wire[d]
  BY <1>3 DEF Typed
<1>8. WireInOrder'
  <2> SUFFICES ASSUME NEW a \in 1 .. Len(wire'[c])
               PROVE  /\ wire'[c][a].from = c /\ wire'[c][a].n <= sent[c]
                      /\ \A b \in 1 .. Len(wire'[c]) : a < b => wire'[c][a].n < wire'[c][b].n
    BY <1>2, <1>7 DEF OrderInv, WireInOrder
  <2>1. \A b \in 1 .. Len(wire'[c]) : wire'[c][b] = wire[c][b + n]
    BY <1>5
  <2>2. \A b \in 1 .. Len(wire'[c]) : a < b => a + n < b + n
    BY <1>4
  <2>3. /\ \A x \in 1 .. Len(wire[c]) : wire[c][x].from = c /\ wire[c][x].n <= sent[c]
        /\ \A x, y \in 1 .. Len(wire[c]) : x < y => wire[c][x].n < wire[c][y].n
    BY DEF OrderInv, WireInOrder
  <2>4. QED
    BY <1>2, <1>6, <2>1, <2>2, <2>3
<1>9. \A p \in Msg : Precedes(p) => Precedes(p)'
  <2> SUFFICES ASSUME NEW p \in Msg, Precedes(p) PROVE Precedes(p)'
    OBVIOUS
  <2>1. CASE p.from = c
    BY <1>2, <1>5, <1>6, <2>1 DEF Precedes
  <2>2. CASE p.from # c
    BY <1>2, <1>7, <2>2 DEF Precedes, Msg
  <2>3. QED
    BY <2>1, <2>2
<1>10. GotPrecedesWire'
  <2> SUFFICES ASSUME NEW d \in Clients, NEW a \in 1 .. Len(got[d]) PROVE Precedes(got[d][a])'
    BY <1>2 DEF GotPrecedesWire
  <2>1. PICK p \in Msg : p = got[d][a] /\ Precedes(p)
    BY ElementOfSeq DEF Typed, OrderInv, GotPrecedesWire
  <2>2. QED
    BY <1>2, <1>9, <2>1 DEF Precedes
<1>11. BufInOrder'
  <2>1. PICK p \in Msg : p = buf' /\ p = wire[c][1]
    BY <1>4, ReceiveTyped
  <2>2. p.from = c /\ p.n <= sent[c]
    BY <1>4, <2>1 DEF OrderInv, WireInOrder
  <2>3. \A b \in 1 .. Len(wire'[c]) : p.n < wire'[c][b].n
    BY <1>4, <1>5, <1>6, <2>1 DEF OrderInv, WireInOrder
  <2>4. \A d \in Clients : \A a \in 1 .. Len(got[d]) : got[d][a].from = c => got[d][a].n < p.n
    BY <1>4, <2>1 DEF OrderInv, GotPrecedesWire, Precedes
  <2>5. \A d \in Clients : \A a \in 1 .. Len(got[d]) : got[d][a].n \in Nat
    <3> SUFFICES ASSUME NEW d \in Clients, NEW a \in 1 .. Len(got[d]) PROVE got[d][a].n \in Nat
      OBVIOUS
    <3>1. got[d][a] \in Msg
      BY ElementOfSeq DEF Typed
    <3>2. QED
      BY <3>1 DEF Msg
  <2>6. Precedes(p)'
    BY <1>2, <2>2, <2>3 DEF Precedes
  <2>7. Peer(sockets[i]) /\ ClientOf(sockets[i])' = c
    BY <1>1, <1>2, ReceiveTyped DEF ClientOf
  <2>8. p.n \in Nat
    BY DEF Msg
  <2>9. \A d \in Clients : \A a \in 1 .. Len(got[d]) : got[d][a].from = c => got[d][a].n <= p.n
    BY <2>4, <2>5, <2>8
  <2>10. QED
    BY <1>2, <2>1, <2>2, <2>4, <2>6, <2>7, <2>9 DEF BufInOrder, Precedes
<1>12. QED
  BY <1>2, <1>8, <1>10, <1>11 DEF OrderInv, DeliveredInOrder

(* A turn of the forwarding loop gives buf to a client that did not have   *)
(* it, and leaves the clients in the later slots to come.                  *)
LEMMA ForwardKeepsOrder ==
  ASSUME Typed, ClientsConnectOnce, TableInOrder, OrderInv, Forward PROVE OrderInv'
<1>0. /\ UNCHANGED <<sockets, accepted, sent, wire, buf>> /\ pc = "forward"
      /\ j \in Slots /\ i \in Slots /\ Slots \subseteq Nat
  BY SlotsAreNumbers DEF Forward, clients, Typed, TypeOK
<1>1. pc' = "forward" => i' = i /\ j' = j + 1
  BY DEF Forward, NextSlot, Advance
<1>2. /\ buf \in Msg /\ Precedes(buf) /\ Peer(sockets[i]) /\ buf.from = ClientOf(sockets[i])
      /\ \A c \in Clients : \A a \in 1 .. Len(got[c]) :
           got[c][a].from = buf.from =>
             got[c][a].n <= buf.n /\ (Ahead(c) => got[c][a].n < buf.n)
  BY <1>0 DEF OrderInv, BufInOrder
<1>3. pc' = "forward" => \A c \in Clients : Ahead(c)' => Ahead(c)
  BY <1>0, <1>1 DEF Ahead, ClientOf
<1>4. WireInOrder'
  BY <1>0 DEF OrderInv, WireInOrder
<1>5. CASE got' = got
  BY <1>0, <1>1, <1>2, <1>3, <1>4, <1>5
  DEF OrderInv, GotPrecedesWire, Precedes, BufInOrder, DeliveredInOrder, ClientOf
<1>6. CASE got' # got
  <2>1. j # i /\ Peer(sockets[j]) /\ got' = [got EXCEPT ![ClientOf(sockets[j])] = Append(@, buf)]
    BY <1>6 DEF Forward, ToOther, Peer
  <2>2. sockets[j] \in Fds /\ sockets[i] \in Fds
    BY <1>0, <1>2, <2>1 DEF Typed, TypeOK, Peer
  <2>3. PICK c \in Clients : c = ClientOf(sockets[j])
    BY <2>1, <2>2, PeerHasClient
  <2>4. \A s \in Slots : Peer(sockets[s]) /\ ClientOf(sockets[s]) = c => s = j
    <3> SUFFICES ASSUME NEW s \in Slots, Peer(sockets[s]), ClientOf(sockets[s]) = c PROVE s = j
      OBVIOUS
    <3>1. sockets[s] \in Fds
      BY DEF Typed, TypeOK, Peer
    <3>2. sockets[s] = sockets[j]
      BY <2>1, <2>2, <2>3, <3>1, PeersDiffer
    <3>3. QED
      BY <1>0, <2>1, <3>2 DEF TableInOrder, Peer
  <2>5. buf.from # c
    BY <1>0, <1>2, <2>1, <2>4
  <2>6. /\ Len(got[c]) \in Nat /\ Len(got'[c]) = Len(got[c]) + 1
        /\ \A a \in 1 .. Len(got[c]) : got'[c][a] = got[c][a]
        /\ got'[c][Len(got[c]) + 1] = buf
        /\ DOMAIN got'[c] = 1 .. Len(got'[c]) /\ DOMAIN got[c] = 1 .. Len(got[c])
    <3>1. got'[c] = Append(got[c], buf) /\ got[c] \in Seq(Msg)
      BY <2>1, <2>3 DEF Typed
    <3>2. QED
      BY <1>2, <3>1, AppendProperties, LenProperties
  <2>7. \A d \in Clients : d # c => got'[d] = got[d]
    BY <2>1, <2>3 DEF Typed
  <2>8. \A a \in 1 .. Len(got'[c]) : a \in 1 .. Len(got[c]) \/ a = Len(got[c]) + 1
    BY <2>6
  <2>9. \A a \in 1 .. Len(got[c]) : got[c][a].from = buf.from => got[c][a].n < buf.n
    <3>1. Ahead(c)
      <4>1. j >= j
        BY <1>0
      <4>2. QED
        BY <1>0, <2>1, <2>3, <4>1 DEF Ahead
    <3>2. QED
      BY <1>2, <3>1
  <2>10. GotPrecedesWire'
    <3> SUFFICES ASSUME NEW a \in 1 .. Len(got'[c]) PROVE Precedes(got'[c][a])
      BY <1>0, <2>7 DEF OrderInv, GotPrecedesWire, Precedes
    <3>1. QED
      BY <1>2, <2>6, <2>8 DEF OrderInv, GotPrecedesWire
  <2>11. DeliveredInOrder'
    <3> SUFFICES ASSUME NEW a \in 1 .. Len(got'[c]), NEW b \in 1 .. Len(got'[c])
                 PROVE  /\ got'[c][a].from # c
                        /\ a < b /\ got'[c][a].from = got'[c][b].from => got'[c][a].n < got'[c][b].n
      BY <2>6, <2>7 DEF OrderInv, DeliveredInOrder
    <3>1. CASE a \in 1 .. Len(got[c]) /\ b \in 1 .. Len(got[c])
      BY <2>6, <3>1 DEF OrderInv, DeliveredInOrder
    <3>2. CASE a \in 1 .. Len(got[c]) /\ b = Len(got[c]) + 1
      BY <2>6, <2>9, <3>2 DEF OrderInv, DeliveredInOrder
    <3>3. CASE a = Len(got[c]) + 1
      <4>1. ~(a < b)
        BY <2>6, <3>3
      <4>2. QED
        BY <2>5, <2>6, <3>3, <4>1
    <3>4. QED
      BY <2>8, <3>1, <3>2, <3>3
  <2>12. BufInOrder'
    <3> SUFFICES ASSUME pc' = "forward", NEW d \in Clients, NEW a \in 1 .. Len(got'[d]),
                        got'[d][a].from = buf.from
                 PROVE  got'[d][a].n <= buf.n /\ (Ahead(d)' => got'[d][a].n < buf.n)
      BY <1>0, <1>1, <1>2 DEF BufInOrder, Precedes, ClientOf
    <3>1. CASE d # c
      BY <1>2, <1>3, <2>7, <3>1
    <3>2. CASE d = c
      <4>1. ~Ahead(c)'
        BY <1>0, <1>1, <2>4 DEF Ahead, ClientOf
      <4>2. got'[c][a].n <= buf.n
        <5>1. CASE a \in 1 .. Len(got[c])
          BY <1>2, <2>6, <3>2, <5>1
        <5>2. CASE a = Len(got[c]) + 1
          BY <1>2, <2>6, <5>2 DEF Msg
        <5>3. QED
          BY <2>8, <3>2, <5>1, <5>2
      <4>3. QED
        BY <3>2, <4>1, <4>2
    <3>3. QED
      BY <3>1, <3>2
  <2>13. QED
    BY <1>4, <2>10, <2>11, <2>12 DEF OrderInv
<1>7. QED
  BY <1>5, <1>6

LEMMA OrderStep ==
  ASSUME IInv, Next \/ UNCHANGED vars PROVE OrderInv'
<1>1. CASE Select \/ Skip \/ Accept \/ Hangup \/ Killed
  <2>1. UNCHANGED <<wire, got, buf, sent>> /\ pc' # "forward"
    BY <1>1 DEF Select, Skip, Accept, Hangup, Killed, Advance, clients
  <2>2. QED
    BY <2>1, NoMessageMoves DEF IInv
<1>2. CASE UNCHANGED vars \/ \E c \in Clients : Connect(c)
  <2>1. UNCHANGED <<wire, got, buf, sent, pc, i, j, sockets, accepted>>
    BY <1>2 DEF Connect, vars, server, loops, clients
  <2>2. QED
    BY <2>1 DEF IInv, OrderInv, WireInOrder, GotPrecedesWire, Precedes, BufInOrder, Ahead,
       ClientOf, DeliveredInOrder
<1>3. QED
  BY <1>1, <1>2, ReceiveKeepsOrder, ForwardKeepsOrder, SendKeepsOrder, CloseKeepsOrder
  DEF IInv, Next, ServerStep, ClientStep

-----------------------------------------------------------------------------
(* The server of lab10/zad2: every socket in the table is watched, nothing *)
(* else is unless it hung up, and the clients get each other's messages in *)
(* order, for every number of clients, slots and messages.                 *)
THEOREM TcpIsSound == Spec => []TcpSound
<1>1. Init => IInv
  <2> SUFFICES ASSUME Init PROVE IInv
    OBVIOUS
  <2>1. Len(accepted) = 0 /\ Fds = 1 .. 2
    BY DEF Init, Fds
  <2>2. Typed
    <3>1. sockets \in [Slots -> Fds \cup {Empty}]
      BY <2>1 DEF Init, Inet, Unix
    <3>2. /\ orig \subseteq Fds /\ ready \subseteq Fds /\ ready \subseteq orig /\ maxfd \in Fds
          /\ pc = "select"
      BY <2>1 DEF Init, Listening, Inet, Unix
    <3>3. \A c \in Clients : sent[c] \in 0 .. MaxSend[c]
      <4>1. \A c \in Clients : sent[c] = 0
        BY DEF Init
      <4>2. \A c \in Clients : 0 \in 0 .. MaxSend[c]
        BY SizesAssumption
      <4>3. QED
        BY <4>1, <4>2
    <3>4. /\ accepted \in Seq(Clients) /\ backlog \in [Listening -> Seq(Clients)]
          /\ wire \in [Clients -> Seq(Msg)] /\ got \in [Clients -> Seq(Msg)]
      BY EmptySeq DEF Init
    <3>5. sent \in [Clients -> Nat] /\ cpc \in [Clients -> {"new", "connected", "closed"}]
      BY DEF Init
    <3>6. QED
      BY <3>1, <3>2, <3>3, <3>4, <3>5 DEF Typed, TypeOK
  <2>3. ClientsConnectOnce
    BY <2>1 DEF Init, ClientsConnectOnce, Waiting, Known
  <2>4. \A s \in Slots : sockets[s] = IF s = 0 THEN Inet ELSE IF s = 1 THEN Unix ELSE Empty
    BY DEF Init
  <2>5. TableInOrder
    BY <2>4, SlotsAreNumbers DEF TableInOrder, Inet, Unix, Empty
  <2>6. ReportIsFresh
    BY DEF Init, ReportIsFresh
  <2>7. Watched
    <3>1. EverySocketIsWatched
      BY <2>4 DEF Init, EverySocketIsWatched, Listening, Inet, Unix
    <3>2. InSlot(Inet) /\ InSlot(Unix)
      BY <2>4, SlotsAreNumbers DEF InSlot
    <3>3. WatchedAreKeptOrClosed
      BY <3>2 DEF Init, WatchedAreKeptOrClosed, Listening
    <3>4. QED
      BY <3>1, <3>3 DEF Watched
  <2>8. OrderInv
    BY DEF Init, OrderInv, WireInOrder, GotPrecedesWire, BufInOrder, DeliveredInOrder
  <2>9. QED
    BY <2>2, <2>3, <2>5, <2>6, <2>7, <2>8 DEF IInv
<1>2. IInv /\ [Next]_vars => IInv'
  <2> SUFFICES ASSUME IInv, Next \/ UNCHANGED vars PROVE IInv'
    OBVIOUS
  <2>1. Typed'
    <3>1. CASE UNCHANGED vars
      BY <3>1 DEF vars, server, loops, clients, IInv, Typed, TypeOK, Fds
    <3>2. QED
      BY <3>1, ServerLoopTyped, AcceptTyped, ReceiveTyped, HangupTyped, ClientTyped
      DEF IInv, OrderInv, Next, ServerStep
  <2>2. ClientsConnectOnce'
    <3>1. CASE UNCHANGED vars
      BY <3>1 DEF vars, clients, IInv, ClientsConnectOnce, Waiting, Known
    <3>2. QED
      BY <3>1, ConnectOnceStep, ConnectOnceClient DEF IInv, Next
  <2>3. TableInOrder' /\ ReportIsFresh' /\ Watched'
    BY TableInOrderStep, ReportIsFreshStep, WatchedStep DEF IInv
  <2>4. OrderInv'
    BY OrderStep
  <2>5. QED
    BY <2>1, <2>2, <2>3, <2>4 DEF IInv
<1>3. IInv => TcpSound
  BY DEF IInv, Typed, Watched, OrderInv, TcpSound
<1>4. QED
  BY <1>1, <1>2, <1>3, PTL DEF Spec

-----------------------------------------------------------------------------
(* The client.  Its sizes are natural numbers.                             *)
ClientSizes == BufSize \in Nat /\ MaxLines \in Nat /\ MaxIncoming \in Nat

(* The line the io thread has read and not yet appended (on a full buffer  *)
(* it never will).                                                         *)
InHand == IF io \in {"lock", "append", "crashed"} THEN 1 ELSE 0

(* A line that was typed is in the buffer, has left it, or is in the hand  *)
(* of the io thread.                                                       *)
LinesCounted == /\ taken \in Nat
                /\ typed = taken + waiting + InHand
                /\ io \in {"lock", "append"} => line = typed

(* An entry of the buffer is the line that many places after the last one  *)
(* taken, or was blanked.                                                  *)
BufferHoldsNext ==
  \A n \in 1 .. BufSize : n <= waiting => messages[n] \in {Blank, taken + n}

(* The handler has made its copies and sends them.                         *)
HasCopies == handler \in {"unlock", "send"}
BeforeCopies == taken - Len(copies)

(* The copies are the lines taken last, in order; the count read before    *)
(* the mutex is at most their number, as the buffer only grows meanwhile.  *)
CopiesAreLast ==
  /\ copies \in Seq(0 .. MaxLines)
  /\ handler \in {"lock", "copy"} => num <= waiting
  /\ HasCopies => /\ num <= Len(copies) /\ Len(copies) <= taken
                  /\ \A n \in 1 .. Len(copies) : copies[n] \in {Blank, BeforeCopies + n}
  /\ handler = "send" => k <= num + 1

(* No line that has been sent is among those still to be sent.             *)
SentUpTo == CASE handler = "unlock" -> BeforeCopies
              [] handler = "send" -> BeforeCopies + k - 1
              [] OTHER -> taken

SentAreEarlier == /\ outgoing \in Seq(Int)
                  /\ \A m \in 1 .. Len(outgoing) : outgoing[m] <= SentUpTo

ClientInv == /\ ClientTypeOK /\ LinesCounted /\ BufferHoldsNext /\ CopiesAreLast
        /\ SentAreEarlier /\ SentInOrder

-----------------------------------------------------------------------------
(* A step that leaves the buffer, the handler and what was sent alone: all *)
(* of the io thread but the append, and all of the receiving loop.         *)
LEMMA BufferUntouched ==
  ASSUME ClientInv, UNCHANGED <<messages, waiting, taken, handlervars, outgoing>>
  PROVE  BufferHoldsNext' /\ CopiesAreLast' /\ SentAreEarlier' /\ SentInOrder'
BY DEF ClientInv, handlervars, BufferHoldsNext, CopiesAreLast, HasCopies, BeforeCopies,
       SentAreEarlier, SentUpTo, SentInOrder

(* stdin_read_fun: a line is read, appended, and the handler called.       *)
LEMMA IoStepKeeps ==
  ASSUME ClientSizes, ClientInv, IoStep \/ ReadLine
  PROVE  ClientInv'
<1> USE DEF iovars, handlervars, mainvars
<1>1. ASSUME ReadLine PROVE ClientInv'
  <2>1. ClientTypeOK' /\ LinesCounted'
    BY <1>1 DEF ReadLine, ClientInv, ClientTypeOK, LinesCounted, InHand, ClientSizes
  <2>2. UNCHANGED <<messages, waiting, taken, handlervars, outgoing>>
    BY <1>1 DEF ReadLine
  <2>3. QED
    BY <2>1, <2>2, BufferUntouched DEF ClientInv
<1>2. ASSUME IoLock PROVE ClientInv'
  <2>1. ClientTypeOK' /\ LinesCounted'
    BY <1>2 DEF IoLock, ClientInv, ClientTypeOK, LinesCounted, InHand, ClientSizes
  <2>2. UNCHANGED <<messages, waiting, taken, handlervars, outgoing>>
    BY <1>2 DEF IoLock
  <2>3. QED
    BY <2>1, <2>2, BufferUntouched DEF ClientInv
<1>3. ASSUME IoUnlock PROVE ClientInv'
  <2>1. ClientTypeOK' /\ LinesCounted'
    BY <1>3 DEF IoUnlock, ClientInv, ClientTypeOK, LinesCounted, InHand, ClientSizes
  <2>2. UNCHANGED <<messages, waiting, taken, handlervars, outgoing>>
    BY <1>3 DEF IoUnlock
  <2>3. QED
    BY <2>1, <2>2, BufferUntouched DEF ClientInv
<1>4. ASSUME Kill PROVE ClientInv'
  <2>1. ClientTypeOK' /\ LinesCounted'
    BY <1>4 DEF Kill, Raised, ClientInv, ClientTypeOK, LinesCounted, InHand, ClientSizes
  <2>2. UNCHANGED <<messages, waiting, taken, handlervars, outgoing>>
    BY <1>4 DEF Kill
  <2>3. QED
    BY <2>1, <2>2, BufferUntouched DEF ClientInv
<1>5. ASSUME AppendLine, Full PROVE ClientInv'
  <2>1. ClientTypeOK' /\ LinesCounted'
    BY <1>5 DEF AppendLine, ClientInv, ClientTypeOK, LinesCounted, InHand, ClientSizes
  <2>2. UNCHANGED <<messages, waiting, taken, handlervars, outgoing>>
    BY <1>5 DEF AppendLine
  <2>3. QED
    BY <2>1, <2>2, BufferUntouched DEF ClientInv
<1>6. ASSUME AppendLine, ~Full PROVE ClientInv'
  <2>1. /\ messages' = [messages EXCEPT ![waiting + 1] = line]
        /\ waiting' = waiting + 1 /\ io' = "unlock" /\ io = "append"
        /\ UNCHANGED <<mutex, line, typed, pending, handlervars, outgoing, taken, mainvars>>
    BY <1>6 DEF AppendLine
  <2>2. /\ waiting \in Nat /\ taken \in Nat /\ waiting < BufSize /\ BufSize \in Nat
        /\ line = taken + waiting + 1
    BY <1>6, <2>1 DEF Full, ClientInv, ClientTypeOK, LinesCounted, InHand, ClientSizes
  <2>3. ClientTypeOK'
    BY <2>1, <2>2 DEF ClientInv, ClientTypeOK, LinesCounted
  <2>4. LinesCounted'
    BY <2>1, <2>2 DEF ClientInv, ClientTypeOK, LinesCounted, InHand
  <2>5. ASSUME NEW n \in 1 .. BufSize, n <= waiting'
        PROVE  messages'[n] \in {Blank, taken' + n}
    <3>1. CASE n = waiting + 1
      BY <2>1, <2>2, <3>1 DEF ClientInv, ClientTypeOK
    <3>2. CASE n # waiting + 1
      BY <2>1, <2>2, <2>5, <3>2 DEF ClientInv, ClientTypeOK, BufferHoldsNext
    <3>3. QED
      BY <3>1, <3>2
  <2>6. CopiesAreLast' /\ SentAreEarlier' /\ SentInOrder'
    BY <2>1, <2>2 DEF ClientInv, ClientTypeOK, CopiesAreLast, HasCopies, BeforeCopies,
        SentAreEarlier, SentUpTo, SentInOrder
  <2>7. QED
    BY <2>3, <2>4, <2>5, <2>6 DEF ClientInv, BufferHoldsNext
<1>7. QED
  BY <1>1, <1>2, <1>3, <1>4, <1>5, <1>6 DEF IoStep

(* sender_receiver_fun, the server and the end of the connection.          *)
LEMMA MainStepKeeps ==
  ASSUME ClientSizes, ClientInv, MainStep \/ Arrive \/ CloseConnection
  PROVE  ClientInv'
<1> USE DEF iovars, handlervars, mainvars
<1>1. ASSUME ClientSelect PROVE ClientInv'
  <2>1. ClientTypeOK' /\ LinesCounted'
    BY <1>1 DEF ClientSelect, ClientInv, ClientTypeOK, LinesCounted, InHand, ClientSizes
  <2>2. UNCHANGED <<messages, waiting, taken, handlervars, outgoing>>
    BY <1>1 DEF ClientSelect
  <2>3. QED
    BY <2>1, <2>2, BufferUntouched DEF ClientInv
<1>2. ASSUME Recv PROVE ClientInv'
  <2>1. ClientTypeOK' /\ LinesCounted'
    BY <1>2 DEF Recv, ClientInv, ClientTypeOK, LinesCounted, InHand, ClientSizes
  <2>2. UNCHANGED <<messages, waiting, taken, handlervars, outgoing>>
    BY <1>2 DEF Recv
  <2>3. QED
    BY <2>1, <2>2, BufferUntouched DEF ClientInv
<1>3. ASSUME Arrive PROVE ClientInv'
  <2>1. ClientTypeOK' /\ LinesCounted'
    BY <1>3 DEF Arrive, ClientInv, ClientTypeOK, LinesCounted, InHand, ClientSizes
  <2>2. UNCHANGED <<messages, waiting, taken, handlervars, outgoing>>
    BY <1>3 DEF Arrive
  <2>3. QED
    BY <2>1, <2>2, BufferUntouched DEF ClientInv
<1>4. ASSUME CloseConnection PROVE ClientInv'
  <2>1. ClientTypeOK' /\ LinesCounted'
    BY <1>4 DEF CloseConnection, ClientInv, ClientTypeOK, LinesCounted, InHand, ClientSizes
  <2>2. UNCHANGED <<messages, waiting, taken, handlervars, outgoing>>
    BY <1>4 DEF CloseConnection
  <2>3. QED
    BY <2>1, <2>2, BufferUntouched DEF ClientInv
<1>5. QED
  BY <1>1, <1>2, <1>3, <1>4 DEF MainStep

(* The handler before it copies: it reads the count, and waits.            *)
LEMMA HandlerBeforeCopy ==
  ASSUME ClientSizes, ClientInv, Deliver \/ TestWaiting \/ HandlerLock
  PROVE  ClientInv'
<1> USE DEF iovars, handlervars, mainvars
<1>1. ASSUME Deliver PROVE ClientInv'
  <2>1. ClientTypeOK' /\ LinesCounted' /\ BufferHoldsNext'
    BY <1>1 DEF Deliver, AfterSignal, ClientInv, ClientTypeOK, LinesCounted, InHand, BufferHoldsNext
  <2>2. CopiesAreLast'
    BY <1>1 DEF Deliver, AfterSignal, ClientInv, ClientTypeOK, CopiesAreLast, HasCopies
  <2>3. SentAreEarlier' /\ SentInOrder'
    BY <1>1 DEF Deliver, ClientInv, SentAreEarlier, SentUpTo, SentInOrder
  <2>4. QED
    BY <2>1, <2>2, <2>3 DEF ClientInv
<1>2. ASSUME TestWaiting PROVE ClientInv'
  <2>1. ClientTypeOK' /\ LinesCounted' /\ BufferHoldsNext'
    BY <1>2 DEF TestWaiting, NumToSend, ClientInv, ClientTypeOK, LinesCounted, InHand, BufferHoldsNext
  <2>2. CopiesAreLast'
    BY <1>2 DEF TestWaiting, NumToSend, ClientInv, ClientTypeOK, CopiesAreLast, HasCopies
  <2>3. SentAreEarlier' /\ SentInOrder'
    BY <1>2 DEF TestWaiting, ClientInv, SentAreEarlier, SentUpTo, SentInOrder
  <2>4. QED
    BY <2>1, <2>2, <2>3 DEF ClientInv
<1>3. ASSUME HandlerLock PROVE ClientInv'
  <2>1. ClientTypeOK' /\ LinesCounted' /\ BufferHoldsNext'
    BY <1>3 DEF HandlerLock, ClientInv, ClientTypeOK, LinesCounted, InHand, BufferHoldsNext
  <2>2. CopiesAreLast'
    BY <1>3 DEF HandlerLock, ClientInv, ClientTypeOK, CopiesAreLast, HasCopies
  <2>3. SentAreEarlier' /\ SentInOrder'
    BY <1>3 DEF HandlerLock, ClientInv, SentAreEarlier, SentUpTo, SentInOrder
  <2>4. QED
    BY <2>1, <2>2, <2>3 DEF ClientInv
<1>4. QED
  BY <1>1, <1>2, <1>3

(* The copying loop: the copies are the whole buffer in order, but for the *)
(* second entry, which is blank by then.                                   *)
LEMMA CopyAllKeeps ==
  ASSUME ClientSizes, ClientInv, CopyAll
  PROVE  ClientInv'
<1> USE DEF iovars, handlervars, mainvars
<1>1. /\ copies' = [n \in 1 .. waiting |-> Copied(n)]
      /\ messages' = [messages EXCEPT ![2] = Blank]
      /\ taken' = taken + waiting /\ waiting' = 0
      /\ handler = "copy" /\ handler' = "unlock"
      /\ UNCHANGED <<mutex, iovars, pending, num, k, outgoing, mainvars>>
  BY DEF CopyAll, Emptied
<1>2. /\ BufSize \in Nat /\ MaxLines \in Nat /\ waiting \in Nat /\ waiting <= BufSize
      /\ taken \in Nat /\ taken + waiting <= MaxLines
      /\ messages \in [1 .. BufSize -> 0 .. MaxLines]
  BY DEF ClientSizes, ClientInv, ClientTypeOK, LinesCounted, InHand
<1>3. ASSUME NEW n \in 1 .. waiting
      PROVE  Copied(n) \in 0 .. MaxLines /\ Copied(n) \in {Blank, taken + n}
  <2>1. n \in 1 .. BufSize /\ n <= waiting
    BY <1>2
  <2>2. messages[n] \in 0 .. MaxLines /\ messages[n] \in {Blank, taken + n}
    BY <1>2, <2>1 DEF ClientInv, BufferHoldsNext
  <2>3. QED
    BY <1>2, <2>2 DEF Copied, Blank
<1>4. copies' \in Seq(0 .. MaxLines) /\ Len(copies') = waiting
  <2>1. copies' \in [1 .. waiting -> 0 .. MaxLines]
    BY <1>1, <1>3
  <2>2. copies' \in Seq(0 .. MaxLines)
    BY <1>2, <2>1, SeqDef
  <2>3. Len(copies') \in Nat /\ 1 .. Len(copies') = 1 .. waiting
    BY <2>1, <2>2, LenProperties
  <2>4. QED
    BY <1>2, <2>2, <2>3
<1>5. ClientTypeOK'
  <2>1. messages' \in [1 .. BufSize -> 0 .. MaxLines]
    <3>1. Blank \in 0 .. MaxLines
      BY <1>2 DEF Blank
    <3>2. QED
      BY <1>1, <1>2, <3>1
  <2>2. taken' \in 0 .. MaxLines /\ waiting' \in 0 .. BufSize
    BY <1>1, <1>2
  <2>3. QED
    BY <1>1, <2>1, <2>2 DEF ClientInv, ClientTypeOK
<1>6. LinesCounted' /\ BufferHoldsNext'
  BY <1>1, <1>2 DEF ClientInv, ClientTypeOK, LinesCounted, InHand, BufferHoldsNext
<1>7. CopiesAreLast'
  <2>1. num' <= Len(copies') /\ Len(copies') <= taken'
    BY <1>1, <1>2, <1>4 DEF ClientInv, CopiesAreLast
  <2>2. \A n \in 1 .. Len(copies') : copies'[n] \in {Blank, BeforeCopies' + n}
    BY <1>1, <1>2, <1>3, <1>4 DEF BeforeCopies
  <2>3. QED
    BY <1>1, <1>4, <2>1, <2>2 DEF CopiesAreLast, HasCopies
<1>8. SentAreEarlier' /\ SentInOrder'
  <2>1. SentUpTo = taken /\ SentUpTo' = taken
    BY <1>1, <1>2, <1>4 DEF SentUpTo, BeforeCopies
  <2>2. QED
    BY <1>1, <2>1 DEF ClientInv, SentAreEarlier, SentInOrder
<1>9. QED
  BY <1>5, <1>6, <1>7, <1>8 DEF ClientInv

(* The handler after it copied: the copies go out one by one.              *)
LEMMA HandlerAfterCopy ==
  ASSUME ClientSizes, ClientInv, HandlerUnlock \/ SendOne \/ Return
  PROVE  ClientInv'
<1> USE DEF iovars, handlervars, mainvars
<1>1. ASSUME HandlerUnlock PROVE ClientInv'
  <2>1. ClientTypeOK' /\ LinesCounted' /\ BufferHoldsNext'
    BY <1>1 DEF HandlerUnlock, ClientInv, ClientTypeOK, LinesCounted, InHand, BufferHoldsNext, ClientSizes
  <2>2. CopiesAreLast'
    BY <1>1 DEF HandlerUnlock, ClientInv, ClientTypeOK, CopiesAreLast, HasCopies, BeforeCopies
  <2>3. SentAreEarlier' /\ SentInOrder'
    BY <1>1 DEF HandlerUnlock, ClientInv, ClientTypeOK, LinesCounted, CopiesAreLast, BeforeCopies,
        SentAreEarlier, SentUpTo, SentInOrder
  <2>4. QED
    BY <2>1, <2>2, <2>3 DEF ClientInv
<1>2. ASSUME SendOne PROVE ClientInv'
  <2>1. /\ handler = "send" /\ handler' = "send" /\ k <= num /\ k' = k + 1
        /\ outgoing' = Append(outgoing, copies[k])
        /\ UNCHANGED <<messages, waiting, mutex, iovars, pending, num, copies, taken, mainvars>>
    BY <1>2 DEF SendOne
  <2>2. /\ k \in Nat /\ num \in 0 .. BufSize /\ BufSize \in Nat /\ k \in 1 .. Len(copies)
        /\ Len(copies) \in Nat /\ taken \in Nat /\ Len(copies) <= taken
        /\ copies[k] \in {Blank, BeforeCopies + k}
    BY <2>1 DEF ClientInv, ClientTypeOK, ClientSizes, LinesCounted, CopiesAreLast, HasCopies
  <2>3. ClientTypeOK' /\ LinesCounted' /\ BufferHoldsNext'
    BY <2>1, <2>2 DEF ClientInv, ClientTypeOK, LinesCounted, InHand, BufferHoldsNext
  <2>4. CopiesAreLast'
    BY <2>1, <2>2 DEF ClientInv, CopiesAreLast, HasCopies, BeforeCopies
  <2> DEFINE c == copies[k]
             B == BeforeCopies
  <2>5. B \in Nat /\ c \in Int /\ (c = Blank \/ c = B + k)
    BY <2>2 DEF BeforeCopies, Blank
  <2>6. SentUpTo = B + k - 1 /\ SentUpTo' = B + k
    BY <2>1, <2>2 DEF SentUpTo, BeforeCopies
  <2>7. /\ outgoing \in Seq(Int) /\ outgoing' = Append(outgoing, c)
        /\ \A m \in 1 .. Len(outgoing) : outgoing[m] <= B + k - 1
    BY <2>1, <2>6 DEF ClientInv, SentAreEarlier
  <2> HIDE DEF c, B
  <2>8. /\ outgoing' \in Seq(Int) /\ Len(outgoing') = Len(outgoing) + 1 /\ Len(outgoing) \in Nat
        /\ outgoing'[Len(outgoing) + 1] = c
        /\ \A m \in 1 .. Len(outgoing) : outgoing'[m] = outgoing[m] /\ outgoing[m] \in Int
    BY <2>5, <2>7
  <2>9. SentAreEarlier'
    <3>1. ASSUME NEW m \in 1 .. Len(outgoing') PROVE outgoing'[m] <= B + k
      BY <2>2, <2>5, <2>7, <2>8 DEF Blank
    <3>2. QED
      BY <2>6, <2>8, <3>1 DEF SentAreEarlier
  <2>10. SentInOrder'
    <3>1. SUFFICES ASSUME NEW m \in 1 .. Len(outgoing'), NEW n \in 1 .. Len(outgoing'),
                          m < n, outgoing'[m] # Blank, outgoing'[n] # Blank
                   PROVE  outgoing'[m] < outgoing'[n]
      BY <2>8 DEF SentInOrder
    <3>2. CASE n = Len(outgoing) + 1
      BY <2>2, <2>5, <2>7, <2>8, <3>1, <3>2
    <3>3. CASE n # Len(outgoing) + 1
      <4>1. m \in DOMAIN outgoing /\ n \in DOMAIN outgoing
        BY <2>7, <2>8, <3>1, <3>3
      <4>2. outgoing'[m] = outgoing[m] /\ outgoing'[n] = outgoing[n]
        BY <2>8, <3>1, <3>3
      <4>3. QED
        BY <3>1, <4>1, <4>2 DEF ClientInv, SentInOrder
    <3>4. QED
      BY <3>2, <3>3
  <2>11. QED
    BY <2>3, <2>4, <2>9, <2>10 DEF ClientInv
<1>3. ASSUME Return PROVE ClientInv'
  <2>1. ClientTypeOK' /\ LinesCounted' /\ BufferHoldsNext'
    BY <1>3 DEF Return, ClientInv, ClientTypeOK, LinesCounted, InHand, BufferHoldsNext
  <2>2. CopiesAreLast'
    BY <1>3 DEF Return, ClientInv, CopiesAreLast, HasCopies
  <2>3. SentAreEarlier' /\ SentInOrder'
    <3>1. /\ taken \in Nat /\ num \in Nat /\ k \in Nat /\ k <= num + 1
          /\ num <= Len(copies) /\ Len(copies) \in Nat
      BY <1>3 DEF Return, ClientInv, ClientTypeOK, LinesCounted, CopiesAreLast, HasCopies, ClientSizes
    <3>2. SentUpTo \in Int /\ SentUpTo <= taken /\ SentUpTo' = taken
      BY <1>3, <3>1 DEF Return, SentUpTo, BeforeCopies
    <3>3. QED
      BY <1>3, <3>1, <3>2 DEF Return, ClientInv, SentAreEarlier, SentInOrder
  <2>4. QED
    BY <2>1, <2>2, <2>3 DEF ClientInv
<1>4. QED
  BY <1>1, <1>2, <1>3

(* The lines that the lab10 client sends are the lines typed, in order,    *)
(* none twice and none before it was copied out of the buffer, for every   *)
(* size of the buffer and every interleaving of the io thread with the     *)
(* SIGUSR1 handler.                                                        *)
THEOREM ClientIsSound == ASSUME ClientSizes PROVE ClientSpec => []ClientSound
<1>1. ClientInit => ClientInv
  <2> SUFFICES ASSUME ClientInit PROVE ClientInv
    OBVIOUS
  <2>1. messages \in [1 .. BufSize -> 0 .. MaxLines] /\ line \in 0 .. MaxLines
    BY DEF ClientInit, ClientSizes, Blank
  <2>2. ClientTypeOK
    <3>1. /\ waiting = 0 /\ num = 0 /\ k = 1 /\ typed = 0 /\ taken = 0
          /\ arrived = 0 /\ printed = 0
      BY DEF ClientInit
    <3>2. /\ waiting \in 0 .. BufSize /\ num \in 0 .. BufSize /\ k \in 1 .. BufSize + 1
          /\ typed \in 0 .. MaxLines /\ taken \in 0 .. MaxLines
          /\ arrived \in 0 .. MaxIncoming /\ printed \in 0 .. arrived
      BY <3>1 DEF ClientSizes
    <3>3. /\ mutex = "nobody" /\ io = "read" /\ pending = FALSE /\ handler = "idle"
          /\ main = "select" /\ closed = FALSE
      BY DEF ClientInit
    <3>4. QED
      BY <2>1, <3>2, <3>3 DEF ClientTypeOK
  <2>3. LinesCounted
    BY DEF ClientInit, LinesCounted, InHand
  <2>4. BufferHoldsNext
    BY DEF ClientInit, BufferHoldsNext
  <2>5. CopiesAreLast
    BY DEF ClientInit, CopiesAreLast, HasCopies
  <2>6. SentAreEarlier /\ SentInOrder
    BY DEF ClientInit, SentAreEarlier, SentInOrder
  <2>7. QED
    BY <2>2, <2>3, <2>4, <2>5, <2>6 DEF ClientInv
<1>2. ClientInv /\ [ClientNext]_clientVars => ClientInv'
  <2> SUFFICES ASSUME ClientInv, [ClientNext]_clientVars PROVE ClientInv'
    OBVIOUS
  <2>1. CASE UNCHANGED clientVars
    <3>1. ClientTypeOK' /\ LinesCounted'
      BY <2>1 DEF clientVars, iovars, handlervars, mainvars, ClientInv, ClientTypeOK, LinesCounted, InHand
    <3>2. UNCHANGED <<messages, waiting, taken, handlervars, outgoing>>
      BY <2>1 DEF clientVars
    <3>3. QED
      BY <3>1, <3>2, BufferUntouched DEF ClientInv
  <2>2. CASE HandlerStep
    BY <2>2, HandlerBeforeCopy, CopyAllKeeps, HandlerAfterCopy DEF HandlerStep
  <2>3. QED
    BY <2>1, <2>2, IoStepKeeps, MainStepKeeps DEF ClientNext, Environment
<1>3. ClientInv => ClientSound
  BY DEF ClientInv, ClientSound, CopiesAreLast, HasCopies, NoUnmadeCopy
<1>4. QED
  BY <1>1, <1>2, <1>3, PTL DEF ClientSpec

-----------------------------------------------------------------------------
(* The UDP server.                                                         *)
(* The sizes are natural numbers, and the tables have a slot.              *)
Sizes == /\ TableSize \in Nat \ {0} /\ Timeout \in Nat /\ QueueLen \in Nat
         /\ MaxTexts \in [Peers -> Nat]

Message == [from : Peers, n : Nat]
Entry == [peer : Peers, age : Ages]

UdpTyped ==
  /\ UdpTypeOK
  /\ table \in [Family -> [Cells -> Entry \cup {NoPeer}]]
  /\ phase = "forward" => turn < 2 * TableSize /\ msg \in Message /\ ~IsRegister(msg)
  /\ stage \in [Peers -> {"new", "on", "sending", "gone"}]
  /\ texts \in [Peers -> Nat]
  /\ net \subseteq Message /\ inbox \in Seq(Message)
  /\ unread \in [Local -> Nat]
  /\ heard \in [Peers -> Ages]
  /\ delivered \in [Peers -> Seq(Message)]

(* The datagrams on their way to the server; each family has its way.      *)
Queued == {inbox[x] : x \in 1 .. Len(inbox)}
Coming == net \cup Queued

ByFamily == /\ \A m \in net : m.from \notin Local
            /\ \A m \in Queued : m.from \in Local

(* A text is queued once.                                                  *)
QueuedOnce == \A x, y \in 1 .. Len(inbox) :
                inbox[x] = inbox[y] /\ ~IsRegister(inbox[x]) => x = y

(* The texts the server has taken.                                         *)
GotBy(c) == {delivered[c][a] : a \in 1 .. Len(delivered[c])}
UdpInHand == IF phase = "forward" THEN {msg} ELSE {}
TakenUp == UdpInHand \cup UNION {GotBy(c) : c \in Peers}

(* What the server has taken to forward are texts that are not on their    *)
(* way any more, and no text has a number its writer has not used; the one *)
(* that is about to be sent is the first with its number.                  *)
NumbersUsed ==
  /\ \A m \in TakenUp : m \notin Coming /\ ~IsRegister(m)
  /\ \A m \in TakenUp \cup Coming : ~IsRegister(m) =>
       /\ m.n <= texts[m.from]
       /\ stage[m.from] = "sending" => m.n < texts[m.from]

(* While the server forwards, the peer that wrote the text has no slot but *)
(* the one the server found for it, ...                                    *)
SenderHasSlot ==
  phase = "forward" =>
    \A s \in SlotsOf(msg.from) : s = sender

(* ... and no peer in a slot still to be visited has received the text.    *)
Place(f, s) == 2 * s + (IF f = FamilyOf(msg.from) THEN 0 ELSE 1)
AheadHaveNot ==
  phase = "forward" =>
    \A f \in Family, s \in Cells, c \in Peers :
      Used(f, s) /\ table[f][s].peer = c /\ Place(f, s) >= turn => msg \notin GotBy(c)

UdpInv == /\ UdpTyped /\ ByFamily /\ QueuedOnce /\ NumbersUsed /\ SenderHasSlot /\ AheadHaveNot
        /\ NoPeerTwice /\ RecentPeersAreKept /\ ForwardedOnce

-----------------------------------------------------------------------------
LEMMA Numbers ==
  ASSUME Sizes
  PROVE  /\ TableSize \in Nat /\ TableSize >= 1 /\ Timeout \in Nat /\ QueueLen \in Nat
         /\ Cells \subseteq Nat /\ \A s \in Cells : s < TableSize
         /\ Ages \subseteq Nat /\ 0 \in Ages /\ Timeout + 1 \in Ages
BY DEF Sizes, Cells, Ages

LEMMA Halves ==
  ASSUME NEW n \in Nat
  PROVE  n \div 2 \in Nat /\ n % 2 \in {0, 1} /\ n = 2 * (n \div 2) + (n % 2)
OBVIOUS

(* A set of natural numbers has a least element.                           *)
LEMMA LowestIsIn ==
  ASSUME NEW S, S \subseteq Nat, S # {} PROVE Lowest(S) \in S
<1>1. PICK m \in S : \A n \in S : ~(<<n, m>> \in OpToRel(<, Nat))
  BY NatLessThanWellFounded, WFMin
<1>2. \A n \in S : ~(n < m)
  BY <1>1 DEF OpToRel
<1>3. \E s \in S : \A t \in S : s <= t
  BY <1>2
<1>4. QED
  BY <1>3 DEF Lowest

LEMMA FamilyIs == \A c : FamilyOf(c) \in Family
BY DEF FamilyOf, Family

(* An entry is not an empty slot.                                          *)
LEMMA EntryIsUsed ==
  ASSUME Sizes, UdpTyped, NEW f \in Family, NEW s \in Cells
  PROVE  Used(f, s) <=> table[f][s] \in Entry
<1>1. table[f][s] \in Entry \cup {NoPeer}
  BY DEF UdpTyped
<1>2. NoPeer.age = -1 /\ \A e \in Entry : e.age \in Nat
  BY Numbers DEF NoPeer, Entry
<1>3. NoPeer \notin Entry
  BY <1>2
<1>4. QED
  BY <1>1, <1>3 DEF Used

(* The search finds the slot of a peer, else a free one, else none.        *)
LEMMA SlotForFinds ==
  ASSUME Sizes, NEW c
  PROVE  \/ SlotFor(c) = Missing /\ SlotsOf(c) = {}
         \/ SlotFor(c) \in Cells /\ SlotFor(c) # Missing /\ SlotFor(c) \in SlotsOf(c)
         \/ /\ SlotFor(c) \in Cells /\ SlotFor(c) # Missing /\ SlotsOf(c) = {}
            /\ ~Used(FamilyOf(c), SlotFor(c))
<1>1. SlotsOf(c) \subseteq Cells /\ Free(FamilyOf(c)) \subseteq Cells
  BY DEF SlotsOf, Free
<1>2. SlotsOf(c) \subseteq Nat /\ Free(FamilyOf(c)) \subseteq Nat /\ \A s \in Cells : s # Missing
  BY <1>1, Numbers DEF Missing
<1>3. CASE SlotsOf(c) # {}
  <2>1. SlotFor(c) = Lowest(SlotsOf(c))
    BY <1>3 DEF SlotFor
  <2>2. QED
    BY <1>1, <1>2, <1>3, <2>1, LowestIsIn
<1>4. CASE SlotsOf(c) = {} /\ Free(FamilyOf(c)) # {}
  <2>1. SlotFor(c) = Lowest(Free(FamilyOf(c)))
    BY <1>4 DEF SlotFor
  <2>2. SlotFor(c) \in Free(FamilyOf(c))
    BY <1>2, <1>4, <2>1, LowestIsIn
  <2>3. QED
    BY <1>1, <1>2, <1>4, <2>2 DEF Free
<1>5. CASE SlotsOf(c) = {} /\ Free(FamilyOf(c)) = {}
  BY <1>5 DEF SlotFor
<1>6. QED
  BY <1>3, <1>4, <1>5

(* A datagram renews the slot of its writer or gives it one, and leaves    *)
(* all other peers where they are.                                         *)
LEMMA HandleTable ==
  ASSUME Sizes, UdpTyped, NoPeerTwice, RecentPeersAreKept, NEW m \in Message, Handle(m)
  PROVE  /\ table' \in [Family -> [Cells -> Entry \cup {NoPeer}]]
         /\ heard' \in [Peers -> Ages] /\ sender' \in Cells \cup {Missing}
         /\ \A f \in Family, s \in Cells :
              Used(f, s)' => /\ table'[f][s].peer \in Peers
                             /\ FamilyOf(table'[f][s].peer) = f
         /\ NoPeerTwice' /\ RecentPeersAreKept'
         /\ \A s \in SlotsOf(m.from)' : s = sender'
<1> DEFINE c == m.from
           f0 == FamilyOf(c)
<1>0. c \in Peers /\ f0 \in Family /\ sender' = SlotFor(c)
  BY FamilyIs DEF Message, Handle
<1>1. PICK s0 : s0 = SlotFor(c)
  OBVIOUS
<1>2. CASE s0 = Missing
  <2>1. UNCHANGED <<table, heard>> /\ SlotsOf(c) = {}
    BY <1>1, <1>2, SlotForFinds, Numbers DEF Handle, Missing
  <2>2. SlotsOf(c)' = {}
    BY <2>1 DEF SlotsOf, Used
  <2>3. QED
    BY <1>0, <1>1, <1>2, <2>1, <2>2
       DEF NoPeerTwice, RecentPeersAreKept, Used, UdpTyped, UdpTypeOK
<1>3. CASE s0 # Missing
  <2>1. /\ s0 \in Cells
        /\ \/ Used(f0, s0) /\ table[f0][s0].peer = c
           \/ ~Used(f0, s0) /\ SlotsOf(c) = {}
    BY <1>1, <1>3, SlotForFinds DEF SlotsOf
  <2>2. PICK e \in Entry : e = Stamped(c) /\ e.peer = c /\ e.age = 0
    <3>1. 0 \in Ages
      BY Numbers
    <3>2. Stamped(c) = [peer |-> c, age |-> 0] /\ Stamped(c) \in Entry
      BY <1>0, <3>1 DEF Stamped, Entry
    <3>3. QED
      BY <3>2
  <2>3. /\ table' = [table EXCEPT ![f0][s0] = e]
        /\ heard' = [heard EXCEPT ![c] = 0]
    BY <1>1, <1>3, <2>2 DEF Handle
  <2>4. /\ table'[f0][s0] = e
        /\ \A f \in Family, s \in Cells : f # f0 \/ s # s0 => table'[f][s] = table[f][s]
    BY <1>0, <2>1, <2>3 DEF UdpTyped
  <2>5. table' \in [Family -> [Cells -> Entry \cup {NoPeer}]]
    BY <1>0, <2>1, <2>3 DEF UdpTyped
  <2>6. heard' \in [Peers -> Ages] /\ heard'[c] = 0 /\ \A d \in Peers : d # c => heard'[d] = heard[d]
    BY <1>0, <2>3, Numbers DEF UdpTyped
  <2>7. e # NoPeer
    <3>1. NoPeer.age = -1
      BY DEF NoPeer
    <3>2. QED
      BY <2>2, <3>1
  <2>8. Used(f0, s0)' /\ table'[f0][s0].peer = c
    BY <2>2, <2>4, <2>7 DEF Used
  <2>9. \A f \in Family, s \in Cells :
          f # f0 \/ s # s0 => (Used(f, s)' <=> Used(f, s)) /\ table'[f][s] = table[f][s]
    BY <2>4 DEF Used
  (* No other slot of the family holds this peer. *)
  <2>10. \A s \in Cells : s # s0 => ~(Used(f0, s) /\ table[f0][s].peer = c)
    BY <1>0, <2>1 DEF NoPeerTwice, SlotsOf
  <2>11. \A f \in Family, s \in Cells :
           Used(f, s)' => table'[f][s].peer \in Peers /\ FamilyOf(table'[f][s].peer) = f
    BY <1>0, <2>8, <2>9 DEF UdpTyped, UdpTypeOK
  <2>12. NoPeerTwice'
    <3>1. SUFFICES ASSUME NEW f \in Family, NEW s \in Cells, NEW t \in Cells,
                          Used(f, s)', Used(f, t)', table'[f][s].peer = table'[f][t].peer
                   PROVE  s = t
      BY DEF NoPeerTwice
    <3>2. CASE f # f0 \/ (s # s0 /\ t # s0)
      BY <2>9, <3>1, <3>2 DEF NoPeerTwice
    <3>3. CASE f = f0 /\ (s = s0 \/ t = s0)
      BY <1>0, <2>8, <2>9, <2>10, <3>1, <3>3
    <3>4. QED
      BY <3>2, <3>3
  <2>13. RecentPeersAreKept'
    <3>1. SUFFICES ASSUME NEW d \in Peers, heard'[d] <= Timeout
                   PROVE  \E s \in Cells : /\ Used(FamilyOf(d), s)'
                                           /\ table'[FamilyOf(d)][s] = [peer |-> d, age |-> heard'[d]]
      BY DEF RecentPeersAreKept
    <3>2. CASE d = c
      BY <2>1, <2>2, <2>4, <2>6, <2>8, <3>2 DEF Stamped
    <3>3. CASE d # c
      <4>1. PICK s \in Cells : /\ Used(FamilyOf(d), s)
                               /\ table[FamilyOf(d)][s] = [peer |-> d, age |-> heard[d]]
        BY <2>6, <3>1, <3>3 DEF RecentPeersAreKept
      <4>2. FamilyOf(d) # f0 \/ s # s0
        BY <2>1, <3>3, <4>1
      <4>3. FamilyOf(d) \in Family
        BY FamilyIs
      <4>4. QED
        BY <2>6, <2>9, <3>3, <4>1, <4>2, <4>3
    <3>4. QED
      BY <3>2, <3>3
  <2>14. \A s \in SlotsOf(c)' : s = sender'
    BY <1>0, <1>1, <2>9, <2>10 DEF SlotsOf
  <2>15. QED
    BY <1>0, <1>1, <2>1, <2>5, <2>6, <2>11, <2>12, <2>13, <2>14
<1>4. QED
  BY <1>2, <1>3

(* The server takes a datagram that was on its way.                        *)
LEMMA HandleKeeps ==
  ASSUME Sizes, UdpInv, NEW m \in Coming, phase = "select", Handle(m), UNCHANGED <<client, unread, delivered>>,
         net' \subseteq net, inbox' \in Seq(Message), Len(inbox') <= QueueLen,
         Queued' \subseteq Queued, QueuedOnce', ~IsRegister(m) => m \notin Coming'
  PROVE  UdpInv'
<1>1. m \in Message /\ Coming' \subseteq Coming
  <2>1. Queued \subseteq Message
    BY ElementOfSeq, LenProperties DEF Queued, UdpInv, UdpTyped
  <2>2. QED
    BY <2>1 DEF Coming, UdpInv, UdpTyped
<1>2. /\ phase' \in {"select", "forward"} /\ turn' = 0 /\ msg' = m
      /\ phase' = "forward" => ~IsRegister(m)
  BY DEF Handle
<1>3. /\ table' \in [Family -> [Cells -> Entry \cup {NoPeer}]]
      /\ heard' \in [Peers -> Ages] /\ sender' \in Cells \cup {Missing}
      /\ \A f \in Family, s \in Cells :
           Used(f, s)' => table'[f][s].peer \in Peers /\ FamilyOf(table'[f][s].peer) = f
      /\ NoPeerTwice' /\ RecentPeersAreKept'
      /\ \A s \in SlotsOf(m.from)' : s = sender'
  BY <1>1, HandleTable DEF UdpInv
<1>4. UdpTyped'
  <2>1. ASSUME NEW f \in Family, NEW s \in Cells, Used(f, s)' PROVE table'[f][s].age \in Ages
    BY <1>3, <2>1 DEF Used, Entry
  <2>2. 0 < 2 * TableSize /\ 0 \in 0 .. 2 * TableSize
    BY Numbers
  <2>3. UdpTypeOK'
    BY <1>2, <1>3, <2>1, <2>2 DEF client, UdpInv, UdpTyped, UdpTypeOK
  <2>4. QED
    BY <1>1, <1>2, <1>3, <2>2, <2>3 DEF client, UdpInv, UdpTyped
<1>5. \A c \in Peers : GotBy(c)' = GotBy(c)
  BY DEF GotBy
<1>6. NumbersUsed'
  <2>1. \A dg \in TakenUp' : dg \in TakenUp \/ (dg = m /\ ~IsRegister(m))
    BY <1>2, <1>5 DEF TakenUp, UdpInHand
  <2>2. \A dg \in TakenUp' \cup Coming' : dg \in TakenUp \cup Coming
    BY <1>1, <2>1
  <2>3. QED
    BY <1>1, <2>1, <2>2 DEF UdpInv, NumbersUsed, client
<1>7. ByFamily'
  BY DEF UdpInv, ByFamily
<1>8. SenderHasSlot'
  BY <1>2, <1>3 DEF SenderHasSlot
<1>9. AheadHaveNot'
  <2>1. phase' = "forward" => \A c \in Peers : m \notin GotBy(c)
    BY <1>2 DEF UdpInv, NumbersUsed, TakenUp
  <2>2. QED
    BY <1>2, <1>3, <1>5, <2>1 DEF AheadHaveNot
<1>10. ForwardedOnce'
  BY DEF UdpInv, ForwardedOnce
<1>11. QED
  BY <1>3, <1>4, <1>6, <1>7, <1>8, <1>9, <1>10 DEF UdpInv

LEMMA ReceiveInetKeeps ==
  ASSUME Sizes, UdpInv, ReceiveInet
  PROVE  UdpInv'
<1>1. PICK m \in net : Handle(m) /\ net' = net \ {m}
  BY DEF ReceiveInet
<1>2. phase = "select" /\ UNCHANGED <<client, inbox, unread, delivered>>
  BY DEF ReceiveInet
<1>3. Queued' = Queued /\ QueuedOnce' /\ m \in Coming
  BY <1>1, <1>2 DEF Queued, QueuedOnce, Coming, UdpInv
<1>4. m \notin Coming'
  BY <1>1, <1>3 DEF Coming, UdpInv, ByFamily
<1>5. inbox' \in Seq(Message) /\ Len(inbox') <= QueueLen
  BY <1>2 DEF UdpInv, UdpTyped, UdpTypeOK
<1>6. QED
  BY <1>1, <1>2, <1>3, <1>4, <1>5, HandleKeeps

LEMMA ReceiveUnixKeeps ==
  ASSUME Sizes, UdpInv, ReceiveUnix
  PROVE  UdpInv'
<1>1. /\ phase = "select" /\ inbox # <<>> /\ Handle(Head(inbox)) /\ inbox' = Tail(inbox)
      /\ UNCHANGED <<client, net, unread, delivered>>
  BY DEF ReceiveUnix
<1>2. /\ inbox' \in Seq(Message) /\ Len(inbox') = Len(inbox) - 1 /\ Len(inbox) \in Nat
      /\ Len(inbox) >= 1 /\ Head(inbox) = inbox[1]
      /\ \A x \in 1 .. Len(inbox) - 1 : inbox'[x] = inbox[x + 1]
  BY <1>1, HeadTailProperties, LenProperties DEF UdpInv, UdpTyped
<1>3. PICK m : m = inbox[1]
  OBVIOUS
<1>4. m \in Queued /\ m \in Coming /\ Handle(m)
  BY <1>1, <1>2, <1>3 DEF Queued, Coming
<1>5. Queued' \subseteq Queued
  BY <1>2 DEF Queued
<1>6. QueuedOnce'
  <2>1. SUFFICES ASSUME NEW x \in 1 .. Len(inbox'), NEW y \in 1 .. Len(inbox'),
                        inbox'[x] = inbox'[y], ~IsRegister(inbox'[x])
                 PROVE  x = y
    BY DEF QueuedOnce
  <2>2. x + 1 \in 1 .. Len(inbox) /\ y + 1 \in 1 .. Len(inbox)
    BY <1>2
  <2>3. x + 1 = y + 1
    BY <1>2, <2>1, <2>2 DEF UdpInv, QueuedOnce
  <2>4. QED
    BY <1>2, <2>3
<1>7. ASSUME ~IsRegister(m) PROVE m \notin Coming'
  <2>1. m \notin net'
    BY <1>1, <1>4 DEF UdpInv, ByFamily
  <2>2. ASSUME NEW x \in 1 .. Len(inbox'), inbox'[x] = m PROVE FALSE
    <3>1. x + 1 \in 1 .. Len(inbox) /\ inbox[x + 1] = m /\ 1 \in 1 .. Len(inbox) /\ x + 1 # 1
      BY <1>2, <2>2
    <3>2. QED
      BY <1>3, <1>7, <3>1 DEF UdpInv, QueuedOnce
  <2>3. QED
    BY <2>1, <2>2 DEF Coming, Queued
<1>8. Len(inbox') <= QueueLen
  BY <1>2, Numbers DEF UdpInv, UdpTyped, UdpTypeOK
<1>9. QED
  BY <1>1, <1>2, <1>4, <1>5, <1>6, <1>7, <1>8, HandleKeeps

-----------------------------------------------------------------------------
LEMMA PlaceIsNat ==
  ASSUME Sizes, NEW f, NEW s \in Cells PROVE Place(f, s) \in Nat
<1>1. s \in Nat
  BY Numbers
<1>2. QED
  BY <1>1 DEF Place

(* The loop over the slots comes to the places in turn.                    *)
LEMMA VisitedPlace ==
  ASSUME Sizes, UdpTyped, phase = "forward"
  PROVE  /\ Visited.f \in Family /\ Visited.s \in Cells
         /\ Place(Visited.f, Visited.s) = turn /\ turn \in Nat /\ turn < 2 * TableSize
<1>1. turn \in Nat /\ turn < 2 * TableSize
  BY Numbers DEF UdpTyped, UdpTypeOK
<1>2. turn \div 2 \in Nat /\ turn % 2 \in {0, 1} /\ turn = 2 * (turn \div 2) + (turn % 2)
  BY <1>1, Halves
<1>3. turn \div 2 < TableSize
  BY <1>1, <1>2, Numbers
<1>4. FamilyOf(msg.from) \in Family /\ Other(FamilyOf(msg.from)) # FamilyOf(msg.from)
      /\ Other(FamilyOf(msg.from)) \in Family
  BY FamilyIs DEF Family, Other
<1>5. Visited.s = turn \div 2 /\ Visited.s \in Cells
  BY <1>2, <1>3, Numbers DEF Visited, Cells
<1>6. CASE turn % 2 = 0
  <2>1. Visited.f = FamilyOf(msg.from)
    BY <1>6 DEF Visited
  <2>2. QED
    BY <1>1, <1>2, <1>4, <1>5, <1>6, <2>1 DEF Place
<1>7. CASE turn % 2 = 1
  <2>1. Visited.f = Other(FamilyOf(msg.from))
    BY <1>7 DEF Visited
  <2>2. QED
    BY <1>1, <1>2, <1>4, <1>5, <1>7, <2>1 DEF Place
<1>8. QED
  BY <1>2, <1>6, <1>7

(* A step of the loop gives nobody a slot.                                 *)
LEMMA LoopKeeps ==
  ASSUME Sizes, UdpInv, phase = "forward", NextTurn \/ (phase' = "dead" /\ turn' = turn),
         UNCHANGED <<msg, sender, client, net, inbox, heard>>,
         table' \in [Family -> [Cells -> Entry \cup {NoPeer}]],
         \A f \in Family, s \in Cells : Used(f, s)' => Used(f, s) /\ table'[f][s] = table[f][s],
         \A c \in Peers : GotBy(c)' \subseteq GotBy(c) \cup {msg},
         delivered' \in [Peers -> Seq(Message)],
         unread' \in [Local -> Nat], \A c \in Local : unread'[c] <= QueueLen
  PROVE  /\ UdpTyped' /\ ByFamily' /\ QueuedOnce' /\ NumbersUsed' /\ SenderHasSlot' /\ NoPeerTwice'
         /\ phase' = "forward" => turn' = turn + 1
<1>1. turn \in Nat /\ turn < 2 * TableSize /\ TableSize \in Nat
  BY Numbers, VisitedPlace DEF UdpInv
<1>2. /\ phase' \in {"select", "forward", "dead"} /\ turn' \in 0 .. 2 * TableSize
      /\ phase' = "forward" => turn' = turn + 1 /\ turn' < 2 * TableSize
  BY <1>1 DEF NextTurn
<1>3. UdpTyped'
  <2>1. UdpTypeOK'
    BY <1>2, Numbers DEF client, UdpInv, UdpTyped, UdpTypeOK
  <2>2. QED
    BY <1>2, <2>1 DEF client, UdpInv, UdpTyped
<1>4. ByFamily' /\ QueuedOnce' /\ Coming' = Coming
  BY DEF UdpInv, ByFamily, QueuedOnce, Coming, Queued
<1>5. TakenUp' \subseteq TakenUp
  BY DEF TakenUp, UdpInHand
<1>6. NumbersUsed'
  BY <1>4, <1>5 DEF UdpInv, NumbersUsed, client
<1>7. SenderHasSlot'
  <2>1. SlotsOf(msg.from)' \subseteq SlotsOf(msg.from)
    BY FamilyIs DEF SlotsOf
  <2>2. QED
    BY <2>1 DEF UdpInv, SenderHasSlot
<1>8. NoPeerTwice'
  BY DEF UdpInv, NoPeerTwice
<1>9. QED
  BY <1>2, <1>3, <1>4, <1>6, <1>7, <1>8

(* Passing a slot, and stopping at a peer that is gone.                    *)
LEMMA PassKeeps ==
  ASSUME Sizes, UdpInv, Pass \/ Refused
  PROVE  UdpInv'
<1>1. /\ phase = "forward" /\ (NextTurn \/ (phase' = "dead" /\ turn' = turn))
      /\ UNCHANGED <<table, msg, sender, client, net, inbox, unread, heard, delivered>>
  BY DEF Pass, Refused, Due, network
<1>2. \A c \in Peers : GotBy(c)' = GotBy(c)
  BY <1>1 DEF GotBy
<1>3. \A f \in Family, s \in Cells : Used(f, s)' <=> Used(f, s)
  BY <1>1 DEF Used
<1>4. /\ UdpTyped' /\ ByFamily' /\ QueuedOnce' /\ NumbersUsed' /\ SenderHasSlot' /\ NoPeerTwice'
      /\ phase' = "forward" => turn' = turn + 1
  <2>1. /\ table' \in [Family -> [Cells -> Entry \cup {NoPeer}]]
        /\ delivered' \in [Peers -> Seq(Message)]
        /\ unread' \in [Local -> Nat] /\ \A c \in Local : unread'[c] <= QueueLen
    BY <1>1, Numbers DEF UdpInv, UdpTyped, UdpTypeOK
  <2>2. \A f \in Family, s \in Cells : Used(f, s)' => Used(f, s) /\ table'[f][s] = table[f][s]
    BY <1>1, <1>3
  <2>3. \A c \in Peers : GotBy(c)' \subseteq GotBy(c) \cup {msg}
    BY <1>2
  <2>4. QED
    BY <1>1, <2>1, <2>2, <2>3, LoopKeeps
<1>5. AheadHaveNot'
  <2>1. SUFFICES ASSUME phase' = "forward", NEW f \in Family, NEW s \in Cells, NEW c \in Peers,
                        Used(f, s), table[f][s].peer = c, Place(f, s) >= turn + 1
                 PROVE  msg \notin GotBy(c)
    BY <1>1, <1>2, <1>3, <1>4 DEF AheadHaveNot, Place
  <2>2. Place(f, s) >= turn
    BY <1>1, <2>1, PlaceIsNat, VisitedPlace DEF UdpInv
  <2>3. QED
    BY <1>1, <2>1, <2>2 DEF UdpInv, AheadHaveNot
<1>6. RecentPeersAreKept' /\ ForwardedOnce'
  BY <1>1 DEF UdpInv, RecentPeersAreKept, ForwardedOnce, Used
<1>7. QED
  BY <1>4, <1>5, <1>6 DEF UdpInv

(* Forgetting a peer: it is one that has been silent for too long.         *)
LEMMA ExpireKeeps ==
  ASSUME Sizes, UdpInv, Expire
  PROVE  UdpInv'
<1>1. /\ phase = "forward" /\ NextTurn
      /\ UNCHANGED <<msg, sender, client, net, inbox, unread, heard, delivered>>
  BY DEF Expire, network
<1>2. PICK f0 \in Family, s0 \in Cells :
           /\ f0 = Visited.f /\ s0 = Visited.s /\ Used(f0, s0) /\ Expired(table[f0][s0])
           /\ table' = [table EXCEPT ![f0][s0] = NoPeer]
  BY <1>1, VisitedPlace DEF Expire, UdpInv
<1>3. /\ table' \in [Family -> [Cells -> Entry \cup {NoPeer}]]
      /\ table'[f0][s0] = NoPeer
      /\ \A f \in Family, s \in Cells : f # f0 \/ s # s0 => table'[f][s] = table[f][s]
  BY <1>2 DEF UdpInv, UdpTyped
<1>4. \A f \in Family, s \in Cells :
        Used(f, s)' => Used(f, s) /\ table'[f][s] = table[f][s]
  BY <1>3 DEF Used
<1>5. \A c \in Peers : GotBy(c)' = GotBy(c)
  BY <1>1 DEF GotBy
<1>6. /\ UdpTyped' /\ ByFamily' /\ QueuedOnce' /\ NumbersUsed' /\ SenderHasSlot' /\ NoPeerTwice'
      /\ phase' = "forward" => turn' = turn + 1
  <2>1. /\ delivered' \in [Peers -> Seq(Message)]
        /\ unread' \in [Local -> Nat] /\ \A c \in Local : unread'[c] <= QueueLen
    BY <1>1, Numbers DEF UdpInv, UdpTyped, UdpTypeOK
  <2>2. \A c \in Peers : GotBy(c)' \subseteq GotBy(c) \cup {msg}
    BY <1>5
  <2>3. QED
    BY <1>1, <1>3, <1>4, <2>1, <2>2, LoopKeeps
<1>7. AheadHaveNot'
  <2>1. SUFFICES ASSUME phase' = "forward", NEW f \in Family, NEW s \in Cells, NEW c \in Peers,
                        Used(f, s), table[f][s].peer = c, Place(f, s) >= turn + 1
                 PROVE  msg \notin GotBy(c)
    BY <1>1, <1>4, <1>5, <1>6 DEF AheadHaveNot, Place
  <2>2. Place(f, s) >= turn
    BY <1>1, <2>1, PlaceIsNat, VisitedPlace DEF UdpInv
  <2>3. QED
    BY <1>1, <2>1, <2>2 DEF UdpInv, AheadHaveNot
<1>8. RecentPeersAreKept'
  <2>1. SUFFICES ASSUME NEW d \in Peers, heard[d] <= Timeout
                 PROVE  \E s \in Cells : /\ Used(FamilyOf(d), s)'
                                         /\ table'[FamilyOf(d)][s] = [peer |-> d, age |-> heard[d]]
    BY <1>1 DEF RecentPeersAreKept
  <2>2. PICK s \in Cells : /\ Used(FamilyOf(d), s)
                           /\ table[FamilyOf(d)][s] = [peer |-> d, age |-> heard[d]]
    BY <2>1 DEF UdpInv, RecentPeersAreKept
  <2>3. heard[d] \in Nat /\ FamilyOf(d) \in Family
    BY Numbers, FamilyIs DEF UdpInv, UdpTyped
  <2>4. ~(FamilyOf(d) = f0 /\ s = s0)
    BY <1>2, <2>1, <2>2, <2>3, Numbers DEF Expired
  <2>5. QED
    BY <1>3, <2>2, <2>3, <2>4 DEF Used
<1>9. ForwardedOnce'
  BY <1>1 DEF UdpInv, ForwardedOnce
<1>10. QED
  BY <1>6, <1>7, <1>8, <1>9 DEF UdpInv

(* Sending to a peer: it is not the writer, whose slot is passed over, and *)
(* has not been sent the text, as it has one slot only.                    *)
LEMMA SendToKeeps ==
  ASSUME Sizes, UdpInv, SendTo
  PROVE  UdpInv'
<1>1. /\ phase = "forward" /\ NextTurn /\ ~SkipsOwn
      /\ UNCHANGED <<table, msg, sender, client, net, inbox, heard>>
  BY DEF SendTo, Due
<1>2. PICK f0 \in Family, s0 \in Cells, d \in Peers :
           /\ f0 = Visited.f /\ s0 = Visited.s /\ Used(f0, s0) /\ d = Receiver
           /\ table[f0][s0].peer = d /\ FamilyOf(d) = f0 /\ Place(f0, s0) = turn
  BY <1>1, VisitedPlace DEF SendTo, Due, Receiver, UdpInv, UdpTyped, UdpTypeOK
<1>3. /\ msg \in Message /\ turn \in Nat
      /\ delivered' = [delivered EXCEPT ![d] = Append(delivered[d], msg)]
  BY <1>1, <1>2, VisitedPlace DEF SendTo, UdpInv, UdpTyped
<1>4. /\ delivered'[d] = Append(delivered[d], msg) /\ Len(delivered[d]) \in Nat
      /\ Len(delivered'[d]) = Len(delivered[d]) + 1 /\ delivered'[d][Len(delivered[d]) + 1] = msg
      /\ \A a \in 1 .. Len(delivered[d]) : delivered'[d][a] = delivered[d][a]
      /\ delivered' \in [Peers -> Seq(Message)]
      /\ DOMAIN delivered'[d] = 1 .. Len(delivered[d]) + 1 /\ DOMAIN delivered[d] = 1 .. Len(delivered[d])
  <2>1. delivered[d] \in Seq(Message)
    BY DEF UdpInv, UdpTyped
  <2>2. /\ Append(delivered[d], msg) \in Seq(Message) /\ Len(delivered[d]) \in Nat
        /\ Len(Append(delivered[d], msg)) = Len(delivered[d]) + 1
        /\ Append(delivered[d], msg)[Len(delivered[d]) + 1] = msg
        /\ \A a \in 1 .. Len(delivered[d]) : Append(delivered[d], msg)[a] = delivered[d][a]
        /\ DOMAIN Append(delivered[d], msg) = 1 .. Len(delivered[d]) + 1 /\ DOMAIN delivered[d] = 1 .. Len(delivered[d])
    BY <1>3, <2>1, AppendProperties, LenProperties
  <2>3. delivered'[d] = Append(delivered[d], msg)
    BY <1>3 DEF UdpInv, UdpTyped
  <2>4. delivered' \in [Peers -> Seq(Message)]
    BY <1>3, <2>2 DEF UdpInv, UdpTyped
  <2>5. QED
    BY <2>2, <2>3, <2>4
<1>5. \A c \in Peers : c # d => delivered'[c] = delivered[c] /\ GotBy(c)' = GotBy(c)
  BY <1>3 DEF GotBy, UdpInv, UdpTyped
<1>6. GotBy(d)' \subseteq GotBy(d) \cup {msg}
  BY <1>4 DEF GotBy
<1>7. unread' \in [Local -> Nat] /\ \A c \in Local : unread'[c] <= QueueLen
  <2>1. CASE d \in Local
    <3>1. unread' = [unread EXCEPT ![d] = unread[d] + 1] /\ unread[d] < QueueLen
      BY <1>2, <2>1 DEF SendTo
    <3>2. unread[d] \in Nat /\ unread[d] + 1 \in Nat /\ unread[d] + 1 <= QueueLen
      BY <2>1, <3>1, Numbers DEF UdpInv, UdpTyped
    <3>3. QED
      BY <2>1, <3>1, <3>2, Numbers DEF UdpInv, UdpTyped, UdpTypeOK
  <2>2. CASE d \notin Local
    BY <1>2, <2>2, Numbers DEF SendTo, UdpInv, UdpTyped, UdpTypeOK
  <2>3. QED
    BY <2>1, <2>2
<1>8. \A f \in Family, s \in Cells : Used(f, s)' <=> Used(f, s)
  BY <1>1 DEF Used
<1>9. /\ UdpTyped' /\ ByFamily' /\ QueuedOnce' /\ NumbersUsed' /\ SenderHasSlot' /\ NoPeerTwice'
      /\ phase' = "forward" => turn' = turn + 1
  <2>1. table' \in [Family -> [Cells -> Entry \cup {NoPeer}]]
    BY <1>1 DEF UdpInv, UdpTyped
  <2>2. \A f \in Family, s \in Cells : Used(f, s)' => Used(f, s) /\ table'[f][s] = table[f][s]
    BY <1>1, <1>8
  <2>3. \A c \in Peers : GotBy(c)' \subseteq GotBy(c) \cup {msg}
    BY <1>5, <1>6
  <2>4. QED
    BY <1>1, <1>4, <1>7, <2>1, <2>2, <2>3, LoopKeeps
<1>10. AheadHaveNot'
  <2>1. SUFFICES ASSUME phase' = "forward", NEW f \in Family, NEW s \in Cells, NEW c \in Peers,
                        Used(f, s), table[f][s].peer = c, Place(f, s) >= turn + 1
                 PROVE  msg \notin GotBy(c)'
    BY <1>1, <1>8, <1>9 DEF AheadHaveNot, Place
  <2>2. Place(f, s) >= turn /\ Place(f, s) # turn
    BY <1>3, <2>1, PlaceIsNat
  <2>3. c # d
    <3>1. SUFFICES ASSUME c = d PROVE FALSE
      OBVIOUS
    <3>2. f = f0
      BY <1>2, <2>1, <3>1 DEF UdpInv, UdpTyped, UdpTypeOK
    <3>3. s = s0
      BY <1>2, <2>1, <3>1, <3>2 DEF UdpInv, NoPeerTwice
    <3>4. QED
      BY <1>2, <2>2, <3>2, <3>3
  <2>4. msg \notin GotBy(c)
    BY <1>1, <2>1, <2>2 DEF UdpInv, AheadHaveNot
  <2>5. QED
    BY <1>5, <2>3, <2>4
<1>11. RecentPeersAreKept'
  BY <1>1 DEF UdpInv, RecentPeersAreKept, Used
<1>12. ForwardedOnce'
  <2>1. msg \notin GotBy(d)
    BY <1>1, <1>2, <1>3 DEF UdpInv, AheadHaveNot
  <2>2. msg.from # d
    <3>1. SUFFICES ASSUME msg.from = d PROVE FALSE
      OBVIOUS
    <3>2. s0 \in SlotsOf(msg.from)
      BY <1>2, <3>1 DEF SlotsOf
    <3>3. s0 = sender
      BY <1>1, <3>2 DEF UdpInv, SenderHasSlot
    <3>4. QED
      BY <1>1, <1>2, <3>1, <3>3 DEF SkipsOwn
  <2>3. SUFFICES ASSUME NEW c \in Peers, NEW a \in DOMAIN delivered'[c], NEW b \in DOMAIN delivered'[c]
                 PROVE  delivered'[c][a].from # c /\ (delivered'[c][a] = delivered'[c][b] => a = b)
    BY DEF ForwardedOnce
  <2>4. CASE c # d
    BY <1>5, <2>3, <2>4 DEF UdpInv, ForwardedOnce
  <2>5. CASE c = d
    <3>1. /\ a \in 1 .. Len(delivered[d]) \/ a = Len(delivered[d]) + 1
          /\ b \in 1 .. Len(delivered[d]) \/ b = Len(delivered[d]) + 1
      <4>1. a \in DOMAIN delivered'[d] /\ b \in DOMAIN delivered'[d]
        BY <2>3, <2>5
      <4>2. Len(delivered[d]) \in Nat /\ DOMAIN delivered'[d] = 1 .. Len(delivered[d]) + 1
        BY <1>4
      <4>3. a \in 1 .. Len(delivered[d]) + 1 /\ b \in 1 .. Len(delivered[d]) + 1
        BY <4>1, <4>2
      <4>4. QED
        BY <4>2, <4>3
    <3>2. \A x \in 1 .. Len(delivered[d]) : delivered[d][x] # msg /\ delivered[d][x].from # d
      BY <1>4, <2>1 DEF GotBy, UdpInv, ForwardedOnce
    <3>3. CASE a \in 1 .. Len(delivered[d]) /\ b \in 1 .. Len(delivered[d])
      BY <1>4, <2>5, <3>3 DEF UdpInv, ForwardedOnce
    <3>4. CASE a = Len(delivered[d]) + 1 \/ b = Len(delivered[d]) + 1
      BY <1>4, <2>2, <2>5, <3>1, <3>2, <3>4
    <3>5. QED
      BY <3>1, <3>3, <3>4
  <2>6. QED
    BY <2>4, <2>5
<1>13. QED
  BY <1>9, <1>10, <1>11, <1>12 DEF UdpInv

-----------------------------------------------------------------------------
(* What the clients do leaves the server's table and what it has sent.     *)
LEMMA ServerKept ==
  ASSUME UdpInv, UNCHANGED <<udpServer, heard, delivered>>
  PROVE  /\ SenderHasSlot' /\ AheadHaveNot' /\ NoPeerTwice' /\ RecentPeersAreKept'
         /\ ForwardedOnce' /\ TakenUp' = TakenUp
<1>1. /\ \A f \in Family, s \in Cells : Used(f, s)' <=> Used(f, s)
      /\ \A c \in Peers : GotBy(c)' = GotBy(c)
  BY DEF udpServer, Used, GotBy
<1>2. SenderHasSlot'
  BY DEF udpServer, UdpInv, SenderHasSlot, SlotsOf, Used
<1>3. AheadHaveNot'
  BY <1>1 DEF udpServer, UdpInv, AheadHaveNot, Place
<1>4. NoPeerTwice' /\ RecentPeersAreKept' /\ ForwardedOnce'
  BY DEF udpServer, UdpInv, NoPeerTwice, RecentPeersAreKept, ForwardedOnce, Used
<1>5. TakenUp' = TakenUp
  BY <1>1 DEF udpServer, TakenUp, UdpInHand
<1>6. QED
  BY <1>2, <1>3, <1>4, <1>5

(* A datagram a client sends is one more on its way.                       *)
LEMMA TransmitKeeps ==
  ASSUME Sizes, UdpInv, NEW c \in Peers, NEW m \in Message, m.from = c, Transmit(c, m),
         ~IsRegister(m) => m \notin Coming
  PROVE  /\ net' \subseteq Message /\ inbox' \in Seq(Message) /\ Len(inbox') <= QueueLen
         /\ ByFamily' /\ QueuedOnce'
         /\ \A dg \in Coming' : dg \in Coming \/ dg = m
<1>1. CASE c \in Local
  <2>1. inbox' = Append(inbox, m) /\ net' = net /\ Len(inbox) < QueueLen
    BY <1>1 DEF Transmit, HasRoom
  <2>2. /\ inbox' \in Seq(Message) /\ Len(inbox) \in Nat /\ Len(inbox') = Len(inbox) + 1
        /\ \A x \in 1 .. Len(inbox) : inbox'[x] = inbox[x]
        /\ inbox'[Len(inbox) + 1] = m
    BY <2>1, AppendProperties, LenProperties DEF UdpInv, UdpTyped
  <2>3. \A dg \in Queued' : dg \in Queued \/ dg = m
    BY <2>2 DEF Queued
  <2>4. ByFamily' /\ \A dg \in Coming' : dg \in Coming \/ dg = m
    BY <1>1, <2>1, <2>3 DEF UdpInv, ByFamily, Coming
  <2>5. QueuedOnce'
    <3>1. SUFFICES ASSUME NEW x \in 1 .. Len(inbox'), NEW y \in 1 .. Len(inbox'),
                          inbox'[x] = inbox'[y], ~IsRegister(inbox'[x])
                   PROVE  x = y
      BY DEF QueuedOnce
    <3>2. /\ x \in 1 .. Len(inbox) \/ x = Len(inbox) + 1
          /\ y \in 1 .. Len(inbox) \/ y = Len(inbox) + 1
      BY <2>2
    <3>3. CASE x \in 1 .. Len(inbox) /\ y \in 1 .. Len(inbox)
      BY <2>2, <3>1, <3>3 DEF UdpInv, QueuedOnce
    <3>4. CASE x \in 1 .. Len(inbox) /\ y = Len(inbox) + 1
      BY <2>2, <3>1, <3>4 DEF Coming, Queued
    <3>5. CASE x = Len(inbox) + 1 /\ y \in 1 .. Len(inbox)
      BY <2>2, <3>1, <3>5 DEF Coming, Queued
    <3>6. CASE x = Len(inbox) + 1 /\ y = Len(inbox) + 1
      BY <3>6
    <3>7. QED
      BY <3>2, <3>3, <3>4, <3>5, <3>6
  <2>6. Len(inbox') <= QueueLen
    BY <2>1, <2>2, Numbers
  <2>7. QED
    BY <2>1, <2>2, <2>4, <2>5, <2>6 DEF UdpInv, UdpTyped
<1>2. CASE c \notin Local
  <2>1. net' = net \cup {m} /\ inbox' = inbox
    BY <1>2 DEF Transmit
  <2>2. QED
    BY <1>2, <2>1 DEF UdpInv, UdpTyped, UdpTypeOK, ByFamily, QueuedOnce, Queued, Coming
<1>3. QED
  BY <1>1, <1>2

(* A client joins, or sends the text it has written, or writes the next.   *)
LEMMA SendingKeeps ==
  ASSUME Sizes, UdpInv, NEW c \in Peers, Join(c) \/ SendText(c) \/ Write(c)
  PROVE  UdpInv'
<1>1. UNCHANGED <<udpServer, unread, heard, delivered>>
  BY DEF Join, SendText, Write, network
<1>2. texts[c] \in Nat /\ MaxTexts[c] \in Nat
  BY DEF UdpInv, UdpTyped, Sizes
<1>3. ASSUME NEW m \in Message, m.from = c, Transmit(c, m), stage[c] # "on",
             stage' = [stage EXCEPT ![c] = "on"], texts' = texts,
             m \notin Coming \/ IsRegister(m), ~IsRegister(m) => m \notin TakenUp,
             m.n <= texts[c]
      PROVE  UdpInv'
  <2>1. /\ net' \subseteq Message /\ inbox' \in Seq(Message) /\ Len(inbox') <= QueueLen
        /\ ByFamily' /\ QueuedOnce'
        /\ \A dg \in Coming' : dg \in Coming \/ dg = m
    BY <1>3, TransmitKeeps
  <2>2. stage'[c] = "on" /\ \A d \in Peers : d # c => stage'[d] = stage[d]
    BY <1>3 DEF UdpInv, UdpTyped
  <2>3. UdpTyped'
    <3>1. stage' \in [Peers -> {"new", "on", "sending", "gone"}]
      BY <1>3 DEF UdpInv, UdpTyped
    <3>2. UdpTypeOK'
      BY <1>1, <1>3, <2>1, <3>1 DEF udpServer, UdpInv, UdpTyped, UdpTypeOK, Used
    <3>3. QED
      BY <1>1, <1>3, <2>1, <3>1, <3>2 DEF udpServer, UdpInv, UdpTyped
  <2>4. NumbersUsed'
    <3>1. TakenUp' = TakenUp
      BY <1>1, ServerKept
    <3>2. \A dg \in TakenUp : dg \notin Coming'
      BY <1>3, <2>1 DEF UdpInv, NumbersUsed
    <3>3. ASSUME NEW dg \in TakenUp \cup Coming', ~IsRegister(dg)
          PROVE  dg.n <= texts[dg.from] /\ (stage'[dg.from] = "sending" => dg.n < texts[dg.from])
      <4>1. dg \in TakenUp \cup Coming \/ dg = m
        BY <2>1, <3>3
      <4>2. dg \in Message
        <5>1. Queued \subseteq Message /\ TakenUp \subseteq Message
          BY ElementOfSeq, LenProperties
             DEF Queued, TakenUp, UdpInHand, GotBy, UdpInv, UdpTyped
        <5>2. QED
          BY <4>1, <5>1 DEF Coming, UdpInv, UdpTyped
      <4>3. dg.from \in Peers
        BY <4>2 DEF Message
      <4>4. QED
        BY <1>3, <2>2, <3>3, <4>1, <4>3 DEF UdpInv, NumbersUsed
    <3>4. QED
      BY <1>3, <3>1, <3>2, <3>3 DEF UdpInv, NumbersUsed
  <2>5. QED
    BY <1>1, <2>1, <2>3, <2>4, ServerKept DEF UdpInv
<1>4. CASE Join(c)
  <2>1. Register(c) \in Message /\ Register(c).from = c /\ Register(c).n = 0
    BY DEF Register, Message
  <2>2. QED
    BY <1>2, <1>3, <1>4, <2>1 DEF Join, IsRegister
<1>5. CASE SendText(c)
  <2>1. PICK m \in Message : m = [from |-> c, n |-> texts[c]]
    BY <1>2 DEF Message
  <2>2. ~IsRegister(m) => m \notin Coming /\ m \notin TakenUp
    BY <1>2, <1>5, <2>1 DEF SendText, UdpInv, NumbersUsed
  <2>3. m.from = c /\ m.n = texts[c]
    BY <2>1
  <2>4. QED
    BY <1>2, <1>3, <1>5, <2>1, <2>2, <2>3 DEF SendText
<1>6. CASE Write(c)
  <2>1. /\ texts' = [texts EXCEPT ![c] = texts[c] + 1] /\ texts[c] < MaxTexts[c]
        /\ stage' = [stage EXCEPT ![c] = "sending"] /\ UNCHANGED <<net, inbox>>
    BY <1>6 DEF Write, network
  <2>2. /\ texts'[c] = texts[c] + 1 /\ texts[c] + 1 \in Nat /\ texts[c] + 1 <= MaxTexts[c]
        /\ \A d \in Peers : d # c => texts'[d] = texts[d] /\ stage'[d] = stage[d]
    BY <1>2, <2>1 DEF UdpInv, UdpTyped
  <2>3. UdpTyped'
    <3>1. /\ texts' \in [Peers -> Nat]
          /\ stage' \in [Peers -> {"new", "on", "sending", "gone"}]
      BY <2>1, <2>2 DEF UdpInv, UdpTyped
    <3>2. \A d \in Peers : texts'[d] \in 0 .. MaxTexts[d]
      BY <1>2, <2>2 DEF UdpInv, UdpTyped, UdpTypeOK
    <3>3. UdpTypeOK'
      BY <1>1, <2>1, <3>1, <3>2 DEF udpServer, UdpInv, UdpTyped, UdpTypeOK, Used
    <3>4. QED
      BY <1>1, <2>1, <3>1, <3>3 DEF udpServer, UdpInv, UdpTyped
  <2>4. ByFamily' /\ QueuedOnce' /\ Coming' = Coming
    BY <2>1 DEF UdpInv, ByFamily, QueuedOnce, Coming, Queued
  <2>5. NumbersUsed'
    <3>1. TakenUp' = TakenUp
      BY <1>1, ServerKept
    <3>2. ASSUME NEW dg \in TakenUp \cup Coming, ~IsRegister(dg)
          PROVE  dg.n <= texts'[dg.from] /\ (stage'[dg.from] = "sending" => dg.n < texts'[dg.from])
      <4>1. dg \in Message
        <5>1. Queued \subseteq Message /\ TakenUp \subseteq Message
          BY ElementOfSeq, LenProperties
             DEF Queued, TakenUp, UdpInHand, GotBy, UdpInv, UdpTyped
        <5>2. QED
          BY <5>1 DEF Coming, UdpInv, UdpTyped
      <4>2. dg.from \in Peers /\ dg.n \in Nat
        BY <4>1 DEF Message
      <4>3. dg.n <= texts[dg.from] /\ (stage[dg.from] = "sending" => dg.n < texts[dg.from])
        BY <3>2 DEF UdpInv, NumbersUsed
      <4>4. QED
        BY <1>2, <2>2, <4>2, <4>3
    <3>3. QED
      BY <2>4, <3>1, <3>2 DEF UdpInv, NumbersUsed
  <2>6. QED
    BY <1>1, <2>3, <2>4, <2>5, ServerKept DEF UdpInv
<1>7. QED
  BY <1>4, <1>5, <1>6

(* Reading, leaving, and losing a datagram.                                *)
LEMMA OthersKeep ==
  ASSUME Sizes, UdpInv, Lose \/ \E c \in Peers : Read(c) \/ Leave(c)
  PROVE  UdpInv'
<1>1. /\ UNCHANGED <<udpServer, texts, inbox, heard, delivered>> /\ net' \subseteq net
  BY DEF Lose, Read, Leave, client, network
<1>2. unread' \in [Local -> Nat] /\ \A c \in Local : unread'[c] \in 0 .. QueueLen
  <2>1. ASSUME NEW c \in Peers, Read(c)
        PROVE  unread' \in [Local -> Nat] /\ \A d \in Local : unread'[d] \in 0 .. QueueLen
    <3>1. c \in Local /\ unread[c] > 0 /\ unread' = [unread EXCEPT ![c] = unread[c] - 1]
      BY <2>1 DEF Read
    <3>2. unread[c] \in Nat /\ unread[c] <= QueueLen
      BY <3>1, Numbers DEF UdpInv, UdpTyped, UdpTypeOK
    <3>3. unread[c] - 1 \in Nat /\ unread[c] - 1 \in 0 .. QueueLen
      BY <3>1, <3>2, Numbers
    <3>4. QED
      BY <3>1, <3>3 DEF UdpInv, UdpTyped, UdpTypeOK
  <2>2. CASE unread' = unread
    BY <2>2 DEF UdpInv, UdpTyped, UdpTypeOK
  <2>3. QED
    BY <2>1, <2>2 DEF Lose, Leave, network
<1>3. /\ stage' \in [Peers -> {"new", "on", "sending", "gone"}]
      /\ \A d \in Peers : stage'[d] = "sending" => stage[d] = "sending"
  <2>1. stage' = stage \/ \E c \in Peers : stage' = [stage EXCEPT ![c] = "gone"]
    BY DEF Lose, Read, Leave, client
  <2>2. QED
    BY <2>1 DEF UdpInv, UdpTyped
<1>4. UdpTyped'
  <2>1. UdpTypeOK'
    BY <1>1, <1>2, <1>3 DEF udpServer, UdpInv, UdpTyped, UdpTypeOK, Used
  <2>2. QED
    BY <1>1, <1>2, <1>3, <2>1 DEF udpServer, UdpInv, UdpTyped
<1>5. ByFamily' /\ QueuedOnce' /\ Coming' \subseteq Coming
  BY <1>1 DEF UdpInv, ByFamily, QueuedOnce, Coming, Queued
<1>6. NumbersUsed'
  <2>1. TakenUp' = TakenUp
    BY <1>1, ServerKept
  <2>2. \A dg \in TakenUp \cup Coming : dg.from \in Peers
    <3>1. Queued \subseteq Message /\ TakenUp \subseteq Message
      BY ElementOfSeq, LenProperties
         DEF Queued, TakenUp, UdpInHand, GotBy, UdpInv, UdpTyped
    <3>2. QED
      BY <3>1 DEF Coming, Message, UdpInv, UdpTyped
  <2>3. QED
    BY <1>1, <1>3, <1>5, <2>1, <2>2 DEF UdpInv, NumbersUsed
<1>7. QED
  BY <1>1, <1>4, <1>5, <1>6, ServerKept DEF UdpInv

(* Time passes for the table and for the history alike.                    *)
LEMMA TickKeeps ==
  ASSUME Sizes, UdpInv, Tick
  PROVE  UdpInv'
<1>1. UNCHANGED <<phase, msg, sender, turn, client, net, inbox, unread, delivered>>
  BY DEF Tick, network
<1>2. \A a \in Ages : Older(a) \in Ages /\ (Older(a) <= Timeout => Older(a) = a + 1 /\ a <= Timeout)
  BY Numbers DEF Older, Ages
<1>3. heard' \in [Peers -> Ages] /\ \A c \in Peers : heard'[c] = Older(heard[c])
  BY <1>2 DEF Tick, UdpInv, UdpTyped
<1>4. \A f \in Family, s \in Cells :
        table'[f][s] = IF Used(f, s) THEN [table[f][s] EXCEPT !.age = Older(@)] ELSE NoPeer
  BY DEF Tick
<1>5. ASSUME NEW f \in Family, NEW s \in Cells, Used(f, s)
      PROVE  /\ table'[f][s] = [peer |-> table[f][s].peer, age |-> Older(table[f][s].age)]
             /\ table'[f][s] \in Entry /\ Used(f, s)' /\ table[f][s].age \in Ages
  <2>1. PICK e \in Entry : e = table[f][s]
    BY <1>5, EntryIsUsed DEF UdpInv
  <2>2. table'[f][s] = [e EXCEPT !.age = Older(e.age)]
    BY <1>4, <1>5, <2>1
  <2>3. e.age \in Ages /\ Older(e.age) \in Ages /\ e.peer \in Peers
    BY <1>2 DEF Entry
  <2>4. [e EXCEPT !.age = Older(e.age)] = [peer |-> e.peer, age |-> Older(e.age)]
    BY DEF Entry
  <2>5. table'[f][s] \in Entry
    BY <2>2, <2>3, <2>4 DEF Entry
  <2>6. NoPeer.age = -1 /\ table'[f][s].age \in Nat
    BY <2>2, <2>3, <2>4, Numbers DEF NoPeer
  <2>7. Used(f, s)'
    BY <2>6 DEF Used
  <2>8. QED
    BY <2>1, <2>2, <2>3, <2>4, <2>5, <2>7
<1>6. \A f \in Family, s \in Cells : Used(f, s)' <=> Used(f, s)
  BY <1>4, <1>5 DEF Used
<1>7. \A f \in Family, s \in Cells : Used(f, s) => table'[f][s].peer = table[f][s].peer
  <2>1. SUFFICES ASSUME NEW f \in Family, NEW s \in Cells, Used(f, s)
                 PROVE  table'[f][s].peer = table[f][s].peer
    OBVIOUS
  <2>2. table'[f][s] = [peer |-> table[f][s].peer, age |-> Older(table[f][s].age)]
    BY <1>5, <2>1
  <2>3. QED
    BY <2>2
<1>8. table' \in [Family -> [Cells -> Entry \cup {NoPeer}]]
  <2>1. \A f \in Family, s \in Cells : table'[f][s] \in Entry \cup {NoPeer}
    BY <1>4, <1>5
  <2>2. table' = [f \in Family |-> [s \in Cells |-> table'[f][s]]]
    BY DEF Tick
  <2>3. QED
    BY <2>1, <2>2
<1>9. UdpTyped'
  <2>1. \A f \in Family, s \in Cells : Used(f, s)' =>
          /\ table'[f][s].peer \in Peers /\ FamilyOf(table'[f][s].peer) = f
          /\ table'[f][s].age \in Ages
    BY <1>5, <1>6, <1>7 DEF Entry, UdpInv, UdpTyped, UdpTypeOK
  <2>2. UdpTypeOK'
    BY <1>1, <2>1 DEF client, UdpInv, UdpTyped, UdpTypeOK
  <2>3. QED
    BY <1>1, <1>3, <1>8, <2>2 DEF client, UdpInv, UdpTyped
<1>10. \A c \in Peers : GotBy(c)' = GotBy(c)
  BY <1>1 DEF GotBy
<1>11. ByFamily' /\ QueuedOnce' /\ Coming' = Coming /\ TakenUp' = TakenUp
  BY <1>1, <1>10 DEF UdpInv, ByFamily, QueuedOnce, Coming, Queued, TakenUp, UdpInHand
<1>12. NumbersUsed' /\ ForwardedOnce'
  BY <1>1, <1>11 DEF client, UdpInv, NumbersUsed, ForwardedOnce
<1>13. SenderHasSlot'
  <2>1. SlotsOf(msg.from)' = SlotsOf(msg.from)
    BY <1>1, <1>6, <1>7, FamilyIs DEF SlotsOf
  <2>2. QED
    BY <1>1, <2>1 DEF UdpInv, SenderHasSlot
<1>14. AheadHaveNot' /\ NoPeerTwice'
  BY <1>1, <1>6, <1>7, <1>10 DEF UdpInv, AheadHaveNot, NoPeerTwice, Place
<1>15. RecentPeersAreKept'
  <2>1. SUFFICES ASSUME NEW d \in Peers, heard'[d] <= Timeout
                 PROVE  \E s \in Cells : /\ Used(FamilyOf(d), s)'
                                         /\ table'[FamilyOf(d)][s] = [peer |-> d, age |-> heard'[d]]
    BY DEF RecentPeersAreKept
  <2>2. heard[d] <= Timeout /\ heard'[d] = Older(heard[d])
    BY <1>2, <1>3, <2>1 DEF UdpInv, UdpTyped
  <2>3. PICK s \in Cells : /\ Used(FamilyOf(d), s)
                           /\ table[FamilyOf(d)][s] = [peer |-> d, age |-> heard[d]]
    BY <2>2 DEF UdpInv, RecentPeersAreKept
  <2>4. FamilyOf(d) \in Family
    BY FamilyIs
  <2>5. QED
    BY <1>5, <2>2, <2>3, <2>4
<1>16. QED
  BY <1>9, <1>11, <1>12, <1>13, <1>14, <1>15 DEF UdpInv

-----------------------------------------------------------------------------
LEMMA UdpInvInit == ASSUME Sizes, UdpInit PROVE UdpInv
<1>1. \A f \in Family, s \in Cells : ~Used(f, s)
  BY DEF UdpInit, Used
<1>2. Queued = {} /\ Coming = {} /\ \A c \in Peers : GotBy(c) = {}
  BY DEF UdpInit, Queued, Coming, GotBy
<1>3. TakenUp = {}
  BY <1>2 DEF UdpInit, TakenUp, UdpInHand
<1>4. UdpTyped
  <2>1. /\ inbox \in Seq(Message) /\ Len(inbox) = 0 /\ delivered \in [Peers -> Seq(Message)]
    BY EmptySeq DEF UdpInit
  <2>2. UdpTypeOK
    <3>1. 0 \in 0 .. 2 * TableSize /\ 0 \in 0 .. QueueLen
      BY Numbers
    <3>2. \A c \in Peers : 0 \in 0 .. MaxTexts[c]
      BY DEF Sizes
    <3>3. QED
      BY <1>1, <2>1, <3>1, <3>2, Numbers DEF UdpInit, UdpTypeOK
  <2>3. QED
    BY <2>1, <2>2, Numbers DEF UdpInit, UdpTyped
<1>5. RecentPeersAreKept
  BY Numbers DEF UdpInit, RecentPeersAreKept
<1>6. ForwardedOnce
  BY DEF UdpInit, ForwardedOnce
<1>7. QED
  BY <1>1, <1>2, <1>3, <1>4, <1>5, <1>6
     DEF UdpInit, UdpInv, ByFamily, QueuedOnce, NumbersUsed, SenderHasSlot, AheadHaveNot, NoPeerTwice

LEMMA UdpInvStep == ASSUME Sizes, UdpInv, [UdpNext]_udpVars PROVE UdpInv'
<1>1. CASE UdpServerStep
  BY <1>1, ReceiveInetKeeps, ReceiveUnixKeeps, PassKeeps, ExpireKeeps, SendToKeeps DEF UdpServerStep
<1>2. CASE Lose \/ \E c \in Peers : PeerStep(c)
  BY <1>2, SendingKeeps, OthersKeep DEF PeerStep
<1>3. CASE UNCHANGED udpVars
  <2>1. UNCHANGED <<udpServer, client, network, heard, delivered>>
    BY <1>3 DEF udpVars
  <2>2. UNCHANGED <<table, phase, msg, sender, turn, stage, texts, net, inbox, unread, heard, delivered>>
    BY <2>1 DEF udpServer, client, network
  <2>3. UdpTyped'
    BY <2>2 DEF UdpInv, UdpTyped, UdpTypeOK, Used
  <2>4. ByFamily' /\ QueuedOnce' /\ Coming' = Coming
    BY <2>2 DEF UdpInv, ByFamily, QueuedOnce, Coming, Queued
  <2>5. NumbersUsed'
    BY <2>1, <2>2, <2>4, ServerKept DEF UdpInv, NumbersUsed
  <2>6. QED
    BY <2>1, <2>3, <2>4, <2>5, ServerKept DEF UdpInv
<1>4. QED
  BY <1>1, <1>2, <1>3, TickKeeps DEF UdpNext

(* The server registers nobody twice, though slots in front of a peer's    *)
(* own fall free; it forgets nobody it heard of within the time-out; and   *)
(* each text goes to each peer once at most and never to its writer,       *)
(* whatever is lost, overtaken or forgotten meanwhile.                     *)
THEOREM UdpIsSound == ASSUME Sizes PROVE UdpSpec => []UdpSound
<1>1. UdpInit => UdpInv
  BY UdpInvInit
<1>2. UdpInv /\ [UdpNext]_udpVars => UdpInv'
  BY UdpInvStep
<1>3. UdpInv => UdpSound
  BY DEF UdpInv, UdpTyped, UdpSound
<1>4. QED
  BY <1>1, <1>2, <1>3, PTL DEF UdpSpec
=============================================================================
