--------------------------- MODULE SysVChatProofs ----------------------------
(***************************************************************************)
(* What holds of the System V chat of lab6 for any number of clients,      *)
(* identifiers, inodes and slots, any capacity of the queues, with clients *)
(* that are killed and a server that shuts down: the accepting thread      *)
(* finds a slot, slots hold queues that exist, and texts arrive in order.  *)
(***************************************************************************)
EXTENDS SysVChat, SequenceTheorems, FiniteSetTheorems, WellFoundedInduction, TLAPS

Message == [to : {"server", "client"}, body : {"text", "exit"},
            from : Clients \cup {"server"}, n : Nat]

ClientLabels == {"start", "announce", "poll", "open", "talk", "cleanup", "gone"}

Typed ==
  /\ TypeOK
  /\ files \in [Ids -> Keys \cup {NoKey}]
  /\ queueOf \in [Keys \cup {BadKey} -> 0 .. created]
  /\ msgs \in [Queues -> Seq(Message)]
  /\ mainQueue \in Seq(Ids)
  /\ acceptor \in [pc : {"receive", "file", "queue", "slot", "stopped"},
                   id : Ids \cup {NoKey}, q : Nat]
  /\ acceptor.pc \in {"file", "queue", "slot"} => acceptor.id \in Ids
  /\ com.pc \in {"poll", "remove", "free", "forward"}
  /\ com.i \in Slots /\ com.j \in Slots
  /\ com = [pc |-> com.pc, i |-> com.i, j |-> com.j, msg |-> com.msg]
  /\ com.pc = "forward" => com.msg \in Message
  /\ command \in [pc : {"read", "tell", "sleep", "gone"}, k : Slots, removed : BOOLEAN]
  /\ cpc \in [Clients -> ClientLabels]
  /\ sent \in [Clients -> Nat]
  /\ seen \in [Clients -> Seq(Message)]

(* num_clients is at least the number of slots in use, and leaves room for *)
(* the client that is being accepted.                                      *)
RoomForOne == /\ Cardinality(Taken) <= numClients
              /\ acceptor.pc \in {"file", "queue", "slot"} => numClients < MaxClients

(* A queue is in one slot at most, and the one to be put into a slot is in *)
(* none.                                                                   *)
QueuesInOneSlot ==
  /\ \A s, t \in Taken : slots[s] = slots[t] => s = t
  /\ acceptor.pc = "slot" => /\ acceptor.q \in 1 .. created
                             /\ \A s \in Slots : slots[s] # acceptor.q

(* While the server runs, nobody but the communicator removes a queue, and *)
(* only the one of the client that leaves.                                 *)
QueuesLive ==
  Run => /\ acceptor.pc = "slot" => Alive(acceptor.q)
         /\ \A s \in Taken : Alive(slots[s]) \/ (com.pc = "free" /\ com.i = s)

SlotInv == Typed /\ RoomForOne /\ QueuesInOneSlot /\ QueuesLive

-----------------------------------------------------------------------------
(* The texts a client has seen.                                            *)
Seen(c) == {seen[c][a] : a \in 1 .. Len(seen[c])}

(* A client has written nothing and seen nothing before it opens its       *)
(* queue, and then it keeps that queue.                                    *)
NothingBeforeOpen ==
  \A c \in Clients :
    /\ cpc[c] \in {"start", "announce", "poll", "open"} => cq[c] = NoQueue
    /\ cpc[c] = "talk" => cq[c] # NoQueue
    /\ cq[c] = NoQueue => sent[c] = 0 /\ Seen(c) = {}

(* The texts in a queue, to the server or to the client, and those the     *)
(* communicator has not read.                                              *)
TextAt(q, x) == msgs[q][x].body = "text"
Texts(q, to) == {msgs[q][x] : x \in {y \in 1 .. Len(msgs[q]) : TextAt(q, y) /\ msgs[q][y].to = to}}
Unread == UNION {Texts(q, "server") : q \in Queues}

(* A text to the server is in the queue of the client that wrote it.       *)
InOwnQueue ==
  \A q \in Queues : \A m \in Texts(q, "server") :
    m.from \in Clients /\ cq[m.from] = q /\ m.n <= sent[m.from]

(* The texts of one client in a queue are in order.                        *)
InOrder(q) ==
  \A x, y \in 1 .. Len(msgs[q]) :
    /\ TextAt(q, x) /\ TextAt(q, y) /\ x < y
    /\ msgs[q][x].to = msgs[q][y].to /\ msgs[q][x].from = msgs[q][y].from
    => msgs[q][x].n < msgs[q][y].n

(* The slots the communicator has not come to yet.                         *)
Ahead(q) == \E s \in Slots : s >= com.j /\ slots[s] = q

(* A text that was put into q for its client: of a client of another       *)
(* queue; all that this client has written and the communicator has not    *)
(* read is later, and so is what it is about to put into q.                *)
Past(m, q) ==
  /\ m \in Message /\ m.from \in Clients
  /\ cq[m.from] # q /\ cq[m.from] # NoQueue /\ m.n <= sent[m.from]
  /\ \A l \in Unread : l.from = m.from => m.n < l.n
  /\ com.pc = "forward" /\ com.msg.from = m.from =>
       m.n <= com.msg.n /\ (Ahead(q) => m.n < com.msg.n)

PastInQueues == \A q \in Queues : \A m \in Texts(q, "client") : Past(m, q)

(* What a client has seen is past, and earlier than what waits for it.     *)
PastInSeen ==
  \A c \in Clients : \A m \in Seen(c) : \A q \in Queues : cq[c] = q =>
    /\ Past(m, q)
    /\ \A l \in Texts(q, "client") : l.from = m.from => m.n < l.n

(* The text in hand was taken from the slot of its writer's queue.         *)
TextInHand ==
  com.pc = "forward" =>
    /\ com.msg.body = "text" /\ com.msg.from \in Clients
    /\ slots[com.i] = cq[com.msg.from] /\ cq[com.msg.from] # NoQueue
    /\ com.msg.n <= sent[com.msg.from]
    /\ \A l \in Unread : l.from = com.msg.from => com.msg.n < l.n

(* Nothing has been forwarded to a queue that has not been in a slot.      *)
NewQueues ==
  /\ \A q \in Queues : q > created => msgs[q] = <<>>
  /\ \A q \in Queues : acceptor.pc = "slot" /\ acceptor.q = q =>
       Texts(q, "client") = {} /\ \A c \in Clients : cq[c] = q => Seen(c) = {}

OrderInv == /\ NothingBeforeOpen /\ InOwnQueue /\ (\A q \in Queues : InOrder(q))
            /\ PastInQueues /\ PastInSeen /\ TextInHand /\ NewQueues /\ TextsInOrder

-----------------------------------------------------------------------------
LEMMA Numbers ==
  /\ MaxClients \in Nat \ {0} /\ QueueCap \in Nat \ {0} /\ MaxQueues \in Nat
  /\ Slots \subseteq Nat /\ 1 \in Slots /\ MaxClients \in Slots
BY SizesAssumption, FS_CardinalityType DEF MaxQueues, Slots

(* A set of natural numbers has a least element.                           *)
LEMMA LeastOf ==
  ASSUME NEW S, S \subseteq Nat, S # {} PROVE \E m \in S : \A n \in S : m <= n
<1>1. PICK m \in S : \A n \in S : ~(<<n, m>> \in OpToRel(<, Nat))
  BY NatLessThanWellFounded, WFMin
<1>2. \A n \in S : ~(n < m)
  BY <1>1 DEF OpToRel
<1>3. QED
  BY <1>2

(* The search for a free slot finds the first one, and fills that one.     *)
LEMMA FirstFreeExists ==
  ASSUME FreeSlots # {}
  PROVE  \E s \in Slots : /\ slots[s] = NoQueue
                          /\ \A t \in Slots : FirstFree(t) <=> t = s
<1>1. PICK s \in FreeSlots : \A t \in FreeSlots : s <= t
  BY LeastOf, Numbers DEF FreeSlots
<1>2. s \in Slots /\ FirstFree(s) /\ slots[s] = NoQueue
  BY <1>1 DEF FreeSlots, FirstFree
<1>3. \A t \in Slots : FirstFree(t) => t = s
  BY <1>1, Numbers DEF FreeSlots, FirstFree
<1>4. QED
  BY <1>2, <1>3

LEMMA TakenIsFinite == IsFiniteSet(Taken) /\ Cardinality(Taken) \in Nat
<1>1. IsFiniteSet(Slots)
  BY Numbers, FS_Interval DEF Slots
<1>2. Taken \in SUBSET Slots
  BY DEF Taken
<1>3. QED
  BY <1>1, <1>2, FS_Subset, FS_CardinalityType

(* Fewer slots in use than there are leave one free.                       *)
LEMMA FewTakenOneFree ==
  ASSUME Cardinality(Taken) < MaxClients PROVE FreeSlots # {}
<1> SUFFICES ASSUME FreeSlots = {} PROVE FALSE
  OBVIOUS
<1>1. Taken = 1 .. MaxClients
  BY DEF FreeSlots, Taken, Slots
<1>2. Cardinality(1 .. MaxClients) = MaxClients
  BY Numbers, FS_Interval
<1>3. QED
  BY <1>1, <1>2, Numbers

(* A queue that is alive was created.                                      *)
LEMMA AliveIsCreated ==
  ASSUME Typed, NEW q, Alive(q)
  PROVE  q \in 1 .. created /\ q \in Queues
<1>1. PICK k \in Keys \cup {BadKey} : q # NoQueue /\ queueOf[k] = q
  BY DEF Alive, Typed
<1>2. q \in 0 .. created /\ created \in 0 .. MaxQueues
  BY <1>1 DEF Typed, TypeOK
<1>3. QED
  BY <1>1, <1>2, Numbers DEF NoQueue, Queues

(* msgsnd and msgrcv keep a queue a queue.                                 *)
LEMMA RemoveAtProperties ==
  ASSUME NEW S, NEW s \in Seq(S), NEW n \in 1 .. Len(s)
  PROVE  /\ RemoveAt(s, n) \in Seq(S)
         /\ Len(RemoveAt(s, n)) = Len(s) - 1
         /\ \A x \in 1 .. Len(s) - 1 : RemoveAt(s, n)[x] = IF x < n THEN s[x] ELSE s[x + 1]
<1> DEFINE head == SubSeq(s, 1, n - 1)
           tail == SubSeq(s, n + 1, Len(s))
<1>0. Len(s) \in Nat
  BY LenProperties
<1>1. head \in Seq(S) /\ Len(head) = n - 1 /\ \A x \in 1 .. n - 1 : head[x] = s[x]
  BY <1>0
<1>2. tail \in Seq(S) /\ Len(tail) = Len(s) - n /\ \A x \in 1 .. Len(s) - n : tail[x] = s[x + n]
  BY <1>0
<1> HIDE DEF head, tail
<1>3. /\ head \o tail \in Seq(S) /\ Len(head \o tail) = Len(s) - 1
      /\ \A x \in 1 .. Len(s) - 1 :
           (head \o tail)[x] = IF x <= n - 1 THEN head[x] ELSE tail[x - (n - 1)]
  <2>1. /\ head \o tail \in Seq(S) /\ Len(head \o tail) = Len(head) + Len(tail)
        /\ \A x \in 1 .. Len(head) + Len(tail) :
             (head \o tail)[x] = IF x <= Len(head) THEN head[x] ELSE tail[x - Len(head)]
    BY <1>1, <1>2, ConcatProperties
  <2>2. Len(head) + Len(tail) = Len(s) - 1
    BY <1>0, <1>1, <1>2
  <2>3. QED
    BY <1>1, <2>1, <2>2
<1>4. ASSUME NEW x \in 1 .. Len(s) - 1
      PROVE  (head \o tail)[x] = IF x < n THEN s[x] ELSE s[x + 1]
  <2>1. CASE x < n
    BY <1>0, <1>1, <1>3, <2>1
  <2>2. CASE x >= n
    <3>1. (head \o tail)[x] = tail[x - (n - 1)]
      BY <1>0, <1>3, <2>2
    <3>2. x - (n - 1) \in 1 .. Len(s) - n /\ (x - (n - 1)) + n = x + 1
      BY <1>0, <2>2
    <3>3. QED
      BY <1>0, <1>2, <2>2, <3>1, <3>2
  <2>3. x < n \/ x >= n
    BY <1>0
  <2>4. QED
    BY <2>1, <2>2, <2>3
<1>5. QED
  BY <1>3, <1>4 DEF RemoveAt, head, tail

LEMMA FirstMailExists ==
  ASSUME Typed, NEW q \in Queues, NEW to, Mail(q, to) # {}
  PROVE  /\ FirstMail(q, to) \in 1 .. Len(msgs[q])
         /\ msgs[q][FirstMail(q, to)].to = to
         /\ \A x \in 1 .. Len(msgs[q]) : msgs[q][x].to = to => FirstMail(q, to) <= x
         /\ msgs[q][FirstMail(q, to)] \in Message
<1>1. msgs[q] \in Seq(Message) /\ DOMAIN msgs[q] = 1 .. Len(msgs[q]) /\ Len(msgs[q]) \in Nat
  BY LenProperties DEF Typed
<1>2. Mail(q, to) \subseteq Nat
  BY <1>1 DEF Mail
<1>3. \E n \in Mail(q, to) : \A l \in Mail(q, to) : n <= l
  BY <1>2, LeastOf
<1>4. /\ FirstMail(q, to) \in Mail(q, to)
      /\ \A l \in Mail(q, to) : FirstMail(q, to) <= l
  BY <1>3 DEF FirstMail
<1>5. QED
  BY <1>1, <1>4, ElementOfSeq DEF Mail

(* msgsnd puts the message behind those that are there, or does nothing.   *)
LEMMA SendProperties ==
  ASSUME Typed, NEW q, NEW m \in Message, Send(q, m)
  PROVE  /\ msgs' \in [Queues -> Seq(Message)]
         /\ \A p \in Queues : Len(msgs'[p]) <= QueueCap
         /\ \/ msgs' = msgs
            \/ /\ q \in Queues /\ Alive(q)
               /\ msgs' = [msgs EXCEPT ![q] = Append(@, m)]
               /\ Len(msgs'[q]) = Len(msgs[q]) + 1 /\ Len(msgs[q]) \in Nat
               /\ \A x \in 1 .. Len(msgs[q]) : msgs'[q][x] = msgs[q][x]
               /\ msgs'[q][Len(msgs[q]) + 1] = m
               /\ \A p \in Queues : p # q => msgs'[p] = msgs[p]
<1>1. CASE msgs' = msgs
  BY <1>1 DEF Typed, TypeOK
<1>2. CASE msgs' # msgs
  <2>1. /\ Alive(q) /\ Len(msgs[q]) < QueueCap
        /\ msgs' = [msgs EXCEPT ![q] = Append(@, m)]
    BY <1>2 DEF Send
  <2>2. q \in Queues
    BY <2>1, AliveIsCreated
  <2>3. msgs[q] \in Seq(Message) /\ msgs'[q] = Append(msgs[q], m)
    BY <2>1, <2>2 DEF Typed
  <2>4. /\ Append(msgs[q], m) \in Seq(Message) /\ Len(msgs[q]) \in Nat
        /\ Len(Append(msgs[q], m)) = Len(msgs[q]) + 1
        /\ \A x \in 1 .. Len(msgs[q]) : Append(msgs[q], m)[x] = msgs[q][x]
        /\ Append(msgs[q], m)[Len(msgs[q]) + 1] = m
    BY <2>3, AppendProperties, LenProperties
  <2>5. \A p \in Queues : p # q => msgs'[p] = msgs[p]
    BY <2>1 DEF Typed
  <2>6. Len(msgs[q]) + 1 <= QueueCap
    BY <2>1, <2>4, Numbers
  <2>7. \A p \in Queues : Len(msgs'[p]) <= QueueCap
    BY <2>3, <2>4, <2>5, <2>6 DEF Typed, TypeOK
  <2>8. msgs' \in [Queues -> Seq(Message)]
    BY <2>1, <2>4 DEF Typed
  <2>9. QED
    BY <2>1, <2>2, <2>3, <2>4, <2>5, <2>7, <2>8
<1>3. QED
  BY <1>1, <1>2

(* msgrcv takes one message out and closes the gap.                        *)
LEMMA ReceiveProperties ==
  ASSUME Typed, NEW q \in Queues, NEW n \in 1 .. Len(msgs[q]),
         msgs' = [msgs EXCEPT ![q] = RemoveAt(@, n)]
  PROVE  /\ msgs' \in [Queues -> Seq(Message)]
         /\ \A p \in Queues : Len(msgs'[p]) <= QueueCap
         /\ Len(msgs'[q]) = Len(msgs[q]) - 1 /\ Len(msgs[q]) \in Nat
         /\ \A x \in 1 .. Len(msgs[q]) - 1 :
              msgs'[q][x] = IF x < n THEN msgs[q][x] ELSE msgs[q][x + 1]
         /\ \A p \in Queues : p # q => msgs'[p] = msgs[p]
<1>1. msgs[q] \in Seq(Message) /\ Len(msgs[q]) \in Nat /\ msgs'[q] = RemoveAt(msgs[q], n)
  BY LenProperties DEF Typed
<1>2. /\ RemoveAt(msgs[q], n) \in Seq(Message)
      /\ Len(RemoveAt(msgs[q], n)) = Len(msgs[q]) - 1
      /\ \A x \in 1 .. Len(msgs[q]) - 1 :
           RemoveAt(msgs[q], n)[x] = IF x < n THEN msgs[q][x] ELSE msgs[q][x + 1]
  BY <1>1, RemoveAtProperties
<1>3. \A p \in Queues : p # q => msgs'[p] = msgs[p]
  BY DEF Typed
<1>4. Len(msgs[q]) - 1 <= QueueCap
  BY <1>1, Numbers DEF Typed, TypeOK
<1>5. \A p \in Queues : Len(msgs'[p]) <= QueueCap
  BY <1>1, <1>2, <1>3, <1>4 DEF Typed, TypeOK
<1>6. msgs' \in [Queues -> Seq(Message)]
  BY <1>2 DEF Typed
<1>7. QED
  BY <1>1, <1>2, <1>3, <1>5, <1>6

-----------------------------------------------------------------------------
(* The variables stay in their ranges: the accepting thread, ...           *)
LEMMA AcceptTyped ==
  ASSUME Typed, RoomForOne, QueuesInOneSlot,
         AcceptReceive \/ AcceptFile \/ AcceptQueue \/ AcceptSlot
  PROVE  Typed'
<1>1. UNCHANGED <<msgs, com, command, cpc, cq, sent, seen>>
  BY DEF AcceptReceive, AcceptFile, AcceptQueue, AcceptSlot, clients, kernel
<1>2. CASE AcceptReceive
  <2>1. mainQueue' \in Seq(Ids) /\ Head(mainQueue) \in Ids
    BY <1>2, HeadTailProperties DEF AcceptReceive, Typed
  <2>2. /\ acceptor' \in [pc : {"receive", "file", "queue", "slot", "stopped"},
                          id : Ids \cup {NoKey}, q : Nat]
        /\ acceptor'.pc \in {"file", "queue", "slot"} => acceptor'.id \in Ids
    <3>1. CASE Full
      BY <1>2, <3>1 DEF AcceptReceive, NextAnnouncement, AcceptorTo, Typed
    <3>2. CASE ~Full
      <4>1. acceptor' = [pc |-> "file", id |-> Head(mainQueue), q |-> 0]
        BY <1>2, <3>2 DEF AcceptReceive, NoQueue
      <4>2. QED
        BY <2>1, <4>1
    <3>3. QED
      BY <3>1, <3>2
  <2>3. QED
    BY <1>1, <1>2, <2>1, <2>2 DEF AcceptReceive, Typed, TypeOK
<1>3. CASE AcceptFile
  <2>1. files' \in [Ids -> Keys \cup {NoKey}]
    BY <1>3 DEF AcceptFile, Typed
  <2>2. /\ acceptor' \in [pc : {"receive", "file", "queue", "slot", "stopped"},
                          id : Ids \cup {NoKey}, q : Nat]
        /\ acceptor'.pc \in {"file", "queue", "slot"} => acceptor'.id \in Ids
    BY <1>3 DEF AcceptFile, NextAnnouncement, AcceptorTo, Typed
  <2>3. QED
    BY <1>1, <1>3, <2>1, <2>2 DEF AcceptFile, Typed, TypeOK
<1>4. CASE AcceptQueue
  <2>1. created \in Nat /\ created' \in 0 .. MaxQueues /\ created' \in {created, created + 1}
    <3>1. created \in 0 .. MaxQueues /\ MaxQueues \in Nat
      BY Numbers DEF Typed, TypeOK
    <3>2. created' = created \/ (created' = created + 1 /\ created < MaxQueues)
      BY <1>4 DEF AcceptQueue, CreateQueue
    <3>3. QED
      BY <3>1, <3>2
  <2>2. queueOf' \in [Keys \cup {BadKey} -> 0 .. created']
    BY <1>4, <2>1 DEF AcceptQueue, CreateQueue, Typed
  <2>3. /\ acceptor' \in [pc : {"receive", "file", "queue", "slot", "stopped"},
                          id : Ids \cup {NoKey}, q : Nat]
        /\ acceptor'.pc \in {"file", "queue", "slot"} => acceptor'.id \in Ids
    <3>1. CASE queueOf[KeyOf(acceptor.id)] # NoQueue
      BY <1>4, <3>1 DEF AcceptQueue, NextAnnouncement, AcceptorTo, Typed
    <3>2. CASE queueOf[KeyOf(acceptor.id)] = NoQueue
      <4>1. acceptor' = [acceptor EXCEPT !.pc = "slot", !.q = created + 1]
        BY <1>4, <3>2 DEF AcceptQueue
      <4>2. created + 1 \in Nat /\ acceptor.id \in Ids
        BY <1>4, <2>1 DEF AcceptQueue, Typed
      <4>3. QED
        BY <4>1, <4>2 DEF Typed
    <3>3. QED
      BY <3>1, <3>2
  <2>4. slots' \in [Slots -> 0 .. created'] /\ cq' \in [Clients -> 0 .. created']
    BY <1>1, <1>4, <2>1 DEF AcceptQueue, Typed, TypeOK
  <2>5. QED
    BY <1>1, <1>4, <2>1, <2>2, <2>3, <2>4 DEF AcceptQueue, Typed, TypeOK
<1>5. CASE AcceptSlot
  <2>1. slots' \in [Slots -> 0 .. created]
    <3>1. acceptor.q \in 0 .. created
      BY <1>5 DEF AcceptSlot, QueuesInOneSlot, Typed, TypeOK
    <3>2. QED
      BY <1>5, <3>1 DEF AcceptSlot, Typed, TypeOK
  <2>2. numClients' \in 0 .. MaxClients
    <3>1. numClients \in 0 .. MaxClients
      BY DEF Typed, TypeOK
    <3>2. numClients < MaxClients /\ numClients' = numClients + 1
      BY <1>5 DEF AcceptSlot, RoomForOne
    <3>3. QED
      BY <3>1, <3>2, Numbers
  <2>3. /\ acceptor' \in [pc : {"receive", "file", "queue", "slot", "stopped"},
                          id : Ids \cup {NoKey}, q : Nat]
        /\ acceptor'.pc \in {"file", "queue", "slot"} => acceptor'.id \in Ids
    BY <1>5 DEF AcceptSlot, NextAnnouncement, AcceptorTo, Typed
  <2>4. QED
    BY <1>1, <1>5, <2>1, <2>2, <2>3 DEF AcceptSlot, kernel, Typed, TypeOK
<1>6. QED
  BY <1>2, <1>3, <1>4, <1>5

(* ... the communicator, ...                                               *)
LEMMA ComTyped ==
  ASSUME Typed, (\E s \in Slots : ComReceive(s)) \/ ComRemove \/ ComFree \/ ComForward
  PROVE  Typed'
<1>1. UNCHANGED <<files, created, mainQueue, numClients, acceptor, command, cpc, cq, sent, seen>>
  BY DEF ComReceive, ComRemove, ComFree, ComForward, clients, kernel
<1>2. ASSUME NEW s \in Slots, ComReceive(s) PROVE Typed'
  <2> DEFINE q == slots[s]
             n == FirstMail(q, "server")
  <2>1. q \in Queues
    BY <1>2, AliveIsCreated DEF ComReceive
  <2>2. /\ n \in 1 .. Len(msgs[q]) /\ msgs[q][n] \in Message
        /\ msgs' = [msgs EXCEPT ![q] = RemoveAt(@, n)]
    BY <1>2, <2>1, FirstMailExists DEF ComReceive
  <2>3. msgs' \in [Queues -> Seq(Message)] /\ \A p \in Queues : Len(msgs'[p]) <= QueueCap
    BY <2>1, <2>2, ReceiveProperties
  <2>4. /\ com'.pc \in {"poll", "remove", "free", "forward"}
        /\ com'.i \in Slots /\ com'.j \in Slots
        /\ com' = [pc |-> com'.pc, i |-> com'.i, j |-> com'.j, msg |-> com'.msg]
        /\ com'.pc = "forward" => com'.msg \in Message
    BY <1>2, <2>2, Numbers DEF ComReceive, Typed
  <2>5. UNCHANGED <<queueOf, slots>>
    BY <1>2 DEF ComReceive
  <2>6. QED
    BY <1>1, <2>3, <2>4, <2>5 DEF Typed, TypeOK
<1>3. CASE ComRemove \/ ComFree
  <2>0. 0 \in 0 .. created
    BY Numbers DEF Typed, TypeOK
  <2>1. queueOf' \in [Keys \cup {BadKey} -> 0 .. created] /\ msgs' = msgs
    <3>1. CASE ComRemove
      BY <2>0, <3>1 DEF ComRemove, RemoveQueue, NoQueue, Typed
    <3>2. CASE ComFree
      BY <3>2 DEF ComFree, kernel, Typed
    <3>3. QED
      BY <1>3, <3>1, <3>2
  <2>2. slots' \in [Slots -> 0 .. created]
    <3>1. CASE ComRemove
      BY <3>1 DEF ComRemove, Typed, TypeOK
    <3>2. CASE ComFree
      BY <2>0, <3>2 DEF ComFree, NoQueue, Typed, TypeOK
    <3>3. QED
      BY <1>3, <3>1, <3>2
  <2>3. /\ com'.pc \in {"poll", "remove", "free", "forward"}
        /\ com'.i \in Slots /\ com'.j \in Slots
        /\ com' = [pc |-> com'.pc, i |-> com'.i, j |-> com'.j, msg |-> com'.msg]
        /\ com'.pc = "forward" => com'.msg \in Message
    BY <1>3 DEF ComRemove, ComFree, Typed
  <2>4. QED
    BY <1>1, <2>1, <2>2, <2>3 DEF Typed, TypeOK
<1>4. CASE ComForward
  <2>1. msgs' \in [Queues -> Seq(Message)] /\ \A p \in Queues : Len(msgs'[p]) <= QueueCap
    <3>1. Forwarded(com.msg) \in Message
      BY <1>4 DEF ComForward, Forwarded, Message, Typed
    <3>2. CASE msgs' = msgs
      BY <3>2 DEF Typed, TypeOK
    <3>3. CASE Send(slots[com.j], Forwarded(com.msg))
      BY <3>1, <3>3, SendProperties
    <3>4. QED
      BY <1>4, <3>2, <3>3 DEF ComForward
  <2>2. /\ com'.pc \in {"poll", "remove", "free", "forward"}
        /\ com'.i \in Slots /\ com'.j \in Slots
        /\ com' = [pc |-> com'.pc, i |-> com'.i, j |-> com'.j, msg |-> com'.msg]
        /\ com'.pc = "forward" => com'.msg \in Message
    <3>1. com.j # MaxClients => com.j + 1 \in Slots
      BY Numbers DEF Typed, Slots
    <3>2. QED
      BY <1>4, <3>1 DEF ComForward, Typed
  <2>3. UNCHANGED <<queueOf, slots>>
    BY <1>4 DEF ComForward
  <2>4. QED
    BY <1>1, <2>1, <2>2, <2>3 DEF Typed, TypeOK
<1>5. QED
  BY <1>2, <1>3, <1>4

(* ... the thread that shuts the server down, ...                          *)
LEMMA CommandTyped ==
  ASSUME Typed, TypeShutDown \/ TellClients \/ RemoveAll \/ ExitAgain
  PROVE  Typed'
<1>1. /\ UNCHANGED <<files, created, mainQueue, slots, numClients, acceptor, com>>
      /\ UNCHANGED <<cpc, cq, sent, seen>>
  BY DEF TypeShutDown, TellClients, RemoveAll, ExitAgain, clients, kernel
<1>2. msgs' \in [Queues -> Seq(Message)] /\ \A p \in Queues : Len(msgs'[p]) <= QueueCap
  <2>1. ServerExit \in Message
    BY DEF ServerExit, Message
  <2>2. msgs' = msgs \/ Send(slots[command.k], ServerExit)
    BY DEF TypeShutDown, TellClients, RemoveAll, ExitAgain, kernel
  <2>3. QED
    BY <2>1, <2>2, SendProperties DEF Typed, TypeOK
<1>3. queueOf' \in [Keys \cup {BadKey} -> 0 .. created]
  <2>1. 0 \in 0 .. created
    BY Numbers DEF Typed, TypeOK
  <2>2. CASE RemoveAll
    BY <2>1, <2>2 DEF RemoveAll, NoQueue, Typed
  <2>3. CASE queueOf' = queueOf
    BY <2>3 DEF Typed
  <2>4. QED
    BY <2>2, <2>3 DEF TypeShutDown, TellClients, ExitAgain, kernel
<1>4. command' \in [pc : {"read", "tell", "sleep", "gone"}, k : Slots, removed : BOOLEAN]
  <2>1. command.k # MaxClients => command.k + 1 \in Slots
    BY Numbers DEF Typed, Slots
  <2>2. QED
    BY <2>1 DEF TypeShutDown, TellClients, RemoveAll, ExitAgain, Typed
<1>5. QED
  BY <1>1, <1>2, <1>3, <1>4 DEF Typed, TypeOK

(* ... and the clients.                                                    *)
LEMMA ClientTyped ==
  ASSUME Typed, NEW c \in Clients, ClientStep(c) \/ Kill(c)
  PROVE  Typed'
<1>0. IdOf[c] \in Ids
  BY IdsAssumption
<1>1. UNCHANGED server
  BY DEF ClientStep, Start, Announce, FindFile, TimeOut, Open, SendText, TypeExit, Show,
     Cleanup, Kill
<1>2. cpc' \in [Clients -> ClientLabels]
  <2>1. cpc' = cpc \/ \E l \in ClientLabels : cpc' = [cpc EXCEPT ![c] = l]
    <3>1. CASE Start(c) \/ Announce(c)
      BY <3>1 DEF Start, Announce, ClientTo, ClientLabels
    <3>2. CASE FindFile(c) \/ TimeOut(c) \/ Open(c) \/ SendText(c)
      BY <3>2 DEF FindFile, TimeOut, Open, SendText, ClientTo, ClientLabels
    <3>3. CASE TypeExit(c) \/ Show(c) \/ Cleanup(c) \/ Kill(c)
      BY <3>3 DEF TypeExit, Show, Cleanup, Kill, ClientTo, ClientLabels
    <3>4. QED
      BY <3>1, <3>2, <3>3 DEF ClientStep
  <2>2. QED
    BY <2>1 DEF Typed
<1>3. CASE Open(c)
  <2>1. created \in Nat /\ created' \in 0 .. MaxQueues /\ created' \in {created, created + 1}
    <3>1. created \in 0 .. MaxQueues /\ MaxQueues \in Nat
      BY Numbers DEF Typed, TypeOK
    <3>2. created' = created \/ (created' = created + 1 /\ created < MaxQueues)
      BY <1>3 DEF Open, CreateQueue
    <3>3. QED
      BY <3>1, <3>2
  <2>2. KeyOf(IdOf[c]) \in Keys \cup {BadKey}
    BY <1>0 DEF KeyOf, Typed
  <2>3. /\ queueOf' \in [Keys \cup {BadKey} -> 0 .. created']
        /\ cq' \in [Clients -> 0 .. created']
    <3>1. CASE queueOf[KeyOf(IdOf[c])] = NoQueue
      <4>1. /\ created' = created + 1
            /\ queueOf' = [queueOf EXCEPT ![KeyOf(IdOf[c])] = created + 1]
            /\ cq' = [cq EXCEPT ![c] = created + 1]
        BY <1>3, <3>1 DEF Open, CreateQueue
      <4>2. created + 1 \in 0 .. created' /\ 0 .. created \subseteq 0 .. created'
        BY <2>1, <4>1
      <4>3. QED
        BY <4>1, <4>2 DEF Typed, TypeOK
    <3>2. CASE queueOf[KeyOf(IdOf[c])] # NoQueue
      <4>1. /\ queueOf[KeyOf(IdOf[c])] \in 0 .. created /\ UNCHANGED <<queueOf, created>>
            /\ cq' = [cq EXCEPT ![c] = queueOf[KeyOf(IdOf[c])]]
        BY <1>3, <2>2, <3>2 DEF Open, Typed
      <4>2. QED
        BY <4>1 DEF Typed, TypeOK
    <3>3. QED
      BY <3>1, <3>2
  <2>5. slots' \in [Slots -> 0 .. created']
    BY <1>1, <2>1 DEF server, Typed, TypeOK
  <2>6. QED
    BY <1>1, <1>2, <1>3, <2>1, <2>3, <2>5 DEF Open, server, Typed, TypeOK
<1>4. CASE ~Open(c)
  <2>1. UNCHANGED <<queueOf, created, cq>>
    BY <1>4 DEF ClientStep, Start, Announce, FindFile, TimeOut, SendText, TypeExit, Show,
       Cleanup, Kill, kernel
  <2>2. files' \in [Ids -> Keys \cup {NoKey}]
    BY <1>0, <1>4 DEF ClientStep, Start, Announce, FindFile, TimeOut, SendText, TypeExit, Show,
       Cleanup, Kill, kernel, Typed
  <2>3. mainQueue' \in Seq(Ids)
    <3>1. Append(mainQueue, IdOf[c]) \in Seq(Ids)
      BY <1>0, AppendProperties DEF Typed
    <3>2. QED
      BY <3>1, <1>4 DEF ClientStep, Start, Announce, FindFile, TimeOut, SendText, TypeExit,
         Show, Cleanup, Kill, kernel, Typed
  <2>4. sent' \in [Clients -> Nat] /\ \A d \in Clients : sent'[d] \in 0 .. MaxSend[d]
    <3>1. CASE SendText(c)
      <4>1. sent' = [sent EXCEPT ![c] = sent[c] + 1] /\ sent[c] < MaxSend[c]
        BY <3>1 DEF SendText
      <4>2. sent[c] \in Nat /\ MaxSend[c] \in Nat
        BY SizesAssumption DEF Typed
      <4>3. sent[c] + 1 \in 0 .. MaxSend[c] /\ sent[c] + 1 \in Nat
        BY <4>1, <4>2
      <4>4. QED
        BY <4>1, <4>3 DEF Typed, TypeOK
    <3>2. CASE sent' = sent
      BY <3>2 DEF Typed, TypeOK
    <3>3. QED
      BY <1>4, <3>1, <3>2 DEF ClientStep, Start, Announce, FindFile, TimeOut, TypeExit, Show,
         Cleanup, Kill
  <2>5. /\ msgs' \in [Queues -> Seq(Message)] /\ \A p \in Queues : Len(msgs'[p]) <= QueueCap
        /\ seen' \in [Clients -> Seq(Message)]
    <3>1. CASE SendText(c) \/ TypeExit(c)
      <4>1. Text(c, sent[c] + 1) \in Message /\ ExitTyped(c) \in Message
        BY DEF Text, ExitTyped, Message, Typed
      <4>2. seen' = seen
        BY <3>1 DEF SendText, TypeExit
      <4>3. QED
        BY <3>1, <4>1, <4>2, SendProperties DEF SendText, TypeExit, Typed
    <3>2. CASE Show(c)
      <4>1. PICK q \in Queues : q = cq[c] /\ Mail(q, "client") # {}
        BY <3>2, AliveIsCreated DEF Show
      <4>2. PICK n \in 1 .. Len(msgs[q]) : n = FirstMail(q, "client") /\ msgs[q][n] \in Message
        BY <4>1, FirstMailExists
      <4>3. msgs' = [msgs EXCEPT ![q] = RemoveAt(@, n)]
        BY <3>2, <4>1, <4>2 DEF Show
      <4>4. seen' = seen \/ seen' = [seen EXCEPT ![c] = Append(@, msgs[q][n])]
        BY <3>2, <4>1, <4>2 DEF Show
      <4>5. Append(seen[c], msgs[q][n]) \in Seq(Message)
        BY <4>2, AppendProperties DEF Typed
      <4>6. msgs' \in [Queues -> Seq(Message)] /\ \A p \in Queues : Len(msgs'[p]) <= QueueCap
        BY <4>3, ReceiveProperties
      <4>7. seen' \in [Clients -> Seq(Message)]
        BY <4>4, <4>5 DEF Typed
      <4>8. QED
        BY <4>6, <4>7
    <3>3. CASE msgs' = msgs /\ seen' = seen
      BY <3>3 DEF Typed, TypeOK
    <3>4. QED
      BY <1>4, <3>1, <3>2, <3>3 DEF ClientStep, Start, Announce, FindFile, TimeOut, Cleanup,
         Kill, kernel
  <2>6. QED
    BY <1>1, <1>2, <2>1, <2>2, <2>3, <2>4, <2>5 DEF server, Typed, TypeOK
<1>5. QED
  BY <1>3, <1>4

-----------------------------------------------------------------------------
(* A queue that is not removed stays, whatever is created besides.         *)
LEMMA AliveStays ==
  ASSUME Typed, NEW q, Alive(q), DOMAIN queueOf' = DOMAIN queueOf,
         \A k \in DOMAIN queueOf : queueOf[k] = q => queueOf'[k] = q
  PROVE  Alive(q)'
<1>1. PICK k \in DOMAIN queueOf : q # NoQueue /\ queueOf[k] = q
  BY DEF Alive
<1>2. QED
  BY <1>1 DEF Alive

(* A queue is created under a key that has none, with an ordinal no queue  *)
(* has had.                                                                *)
LEMMA CreateKeepsAlive ==
  ASSUME Typed, NEW k \in Keys \cup {BadKey}, queueOf[k] = NoQueue, CreateQueue(k)
  PROVE  /\ \A q : Alive(q) => Alive(q)'
         /\ Alive(created)'
         /\ \A s \in Slots : slots[s] # created + 1
         /\ \A c \in Clients : cq[c] # created + 1
         /\ created' = created + 1 /\ created \in Nat
<1>1. /\ created' = created + 1
      /\ queueOf' = [queueOf EXCEPT ![k] = created + 1]
  BY DEF CreateQueue
<1>2. DOMAIN queueOf = Keys \cup {BadKey} /\ DOMAIN queueOf' = Keys \cup {BadKey}
  BY <1>1 DEF Typed
<1>3. ASSUME NEW q, Alive(q) PROVE Alive(q)'
  <2>1. q # NoQueue
    BY <1>3 DEF Alive
  <2>2. \A l \in DOMAIN queueOf : queueOf[l] = q => queueOf'[l] = q
    BY <1>1, <1>2, <2>1
  <2>3. QED
    BY <1>2, <1>3, <2>2, AliveStays
<1>4. created \in Nat
  BY Numbers DEF Typed, TypeOK
<1>5. Alive(created)'
  BY <1>1, <1>2, <1>4 DEF Alive, NoQueue
<1>6. \A s \in Slots : slots[s] # created + 1
  BY <1>4 DEF Typed, TypeOK
<1>7. \A c \in Clients : cq[c] # created + 1
  BY <1>4 DEF Typed, TypeOK
<1>8. QED
  BY <1>1, <1>3, <1>4, <1>5, <1>6, <1>7

-----------------------------------------------------------------------------
(* The slots while none of them changes: a new queue may be created, and   *)
(* the accepting thread gets nearer to a slot only if there is room.       *)
LEMMA SlotsKept ==
  ASSUME SlotInv, UNCHANGED <<slots, numClients>>, created' \in Nat, created <= created',
         acceptor'.pc \in {"file", "queue", "slot"} =>
           (acceptor.pc \in {"file", "queue", "slot"} \/ numClients < MaxClients),
         acceptor'.pc = "slot" =>
           \/ acceptor.pc = "slot" /\ acceptor'.q = acceptor.q
           \/ /\ acceptor'.q \in 1 .. created' /\ \A s \in Slots : slots[s] # acceptor'.q
              /\ Alive(acceptor.q)',
         \A q : Alive(q) => Alive(q)',
         Run' => Run, com.pc # "free" \/ com' = com
  PROVE  RoomForOne' /\ QueuesInOneSlot' /\ QueuesLive'
<1>1. Taken' = Taken
  BY DEF Taken
<1>2. RoomForOne'
  BY <1>1 DEF SlotInv, RoomForOne
<1>3. QueuesInOneSlot'
  <2>1. created \in Nat
    BY Numbers DEF SlotInv, Typed, TypeOK
  <2>2. 1 .. created \subseteq 1 .. created'
    BY <2>1
  <2>3. acceptor.pc = "slot" => acceptor.q \in 1 .. created' /\ \A s \in Slots : slots[s] # acceptor.q
    BY <2>2 DEF SlotInv, QueuesInOneSlot
  <2>4. QED
    BY <1>1, <2>3 DEF SlotInv, QueuesInOneSlot
<1>4. ASSUME Run' PROVE /\ (acceptor.pc = "slot" => Alive(acceptor.q))'
                        /\ (\A s \in Taken : Alive(slots[s]) \/ (com.pc = "free" /\ com.i = s))'
  <2>1. Run /\ QueuesLive
    BY <1>4 DEF SlotInv
  <2>2. ASSUME acceptor'.pc = "slot" PROVE Alive(acceptor.q)'
    <3>1. CASE acceptor.pc = "slot" /\ acceptor'.q = acceptor.q
      <4>1. PICK q : q = acceptor.q
        OBVIOUS
      <4>2. Alive(q) /\ acceptor'.q = q
        BY <2>1, <3>1, <4>1 DEF QueuesLive
      <4>3. Alive(q)'
        BY <4>2
      <4>4. QED
        BY <4>2, <4>3 DEF Alive
    <3>2. QED
      BY <2>2, <3>1
  <2>3. ASSUME NEW s \in Taken PROVE Alive(slots[s])' \/ (com'.pc = "free" /\ com'.i = s)
    <3>1. PICK q : q = slots[s]
      OBVIOUS
    <3>2. Alive(q) \/ (com.pc = "free" /\ com.i = s)
      BY <2>1, <3>1 DEF QueuesLive
    <3>3. Alive(q) => Alive(slots[s])'
      <4>1. SUFFICES ASSUME Alive(q) PROVE Alive(slots[s])'
        OBVIOUS
      <4>2. Alive(q)'
        BY <4>1
      <4>3. slots'[s] = q
        BY <3>1
      <4>4. QED
        BY <4>2, <4>3 DEF Alive
    <3>4. QED
      BY <3>2, <3>3
  <2>4. QED
    BY <1>1, <2>2, <2>3
<1>5. QED
  BY <1>2, <1>3, <1>4 DEF QueuesLive

(* The accepting thread on its way to a slot, ...                          *)
LEMMA AcceptKeepsSlots ==
  ASSUME SlotInv, AcceptReceive \/ AcceptFile \/ AcceptQueue
  PROVE  RoomForOne' /\ QueuesInOneSlot' /\ QueuesLive'
<1>1. /\ UNCHANGED <<slots, numClients, com, command>>
      /\ created \in Nat /\ (Run' => Run)
  BY Numbers DEF AcceptReceive, AcceptFile, AcceptQueue, Run, SlotInv, Typed, TypeOK
<1>2. CASE AcceptReceive
  <2>1. numClients \in 0 .. MaxClients /\ MaxClients \in Nat
    BY Numbers DEF SlotInv, Typed, TypeOK
  <2>2. acceptor'.pc \in {"file", "queue", "slot"} => numClients < MaxClients
    BY <1>2, <2>1 DEF AcceptReceive, Full, NextAnnouncement, AcceptorTo, SlotInv, Typed
  <2>3. acceptor'.pc # "slot" /\ UNCHANGED <<created, queueOf>>
    BY <1>2 DEF AcceptReceive, Full, NextAnnouncement, AcceptorTo, SlotInv, Typed
  <2>4. \A q : Alive(q) => Alive(q)'
    BY <2>3 DEF Alive
  <2>5. QED
    BY <1>1, <2>2, <2>3, <2>4, SlotsKept
<1>3. CASE AcceptFile
  <2>1. /\ acceptor'.pc # "slot" /\ UNCHANGED <<created, queueOf>>
        /\ acceptor.pc = "file"
    BY <1>3 DEF AcceptFile, NextAnnouncement, AcceptorTo, SlotInv, Typed
  <2>2. \A q : Alive(q) => Alive(q)'
    BY <2>1 DEF Alive
  <2>3. QED
    BY <1>1, <2>1, <2>2, SlotsKept
<1>4. CASE AcceptQueue
  <2> DEFINE k == KeyOf(acceptor.id)
  <2>1. acceptor.pc = "queue" /\ acceptor.id \in Ids
    BY <1>4 DEF AcceptQueue, SlotInv, Typed
  <2>2. k \in Keys \cup {BadKey}
    BY <2>1 DEF KeyOf, SlotInv, Typed
  <2>3. CASE queueOf[k] # NoQueue
    <3>1. acceptor'.pc # "slot" /\ UNCHANGED <<created, queueOf>>
      BY <1>4, <2>3 DEF AcceptQueue, NextAnnouncement, AcceptorTo, SlotInv, Typed
    <3>2. \A q : Alive(q) => Alive(q)'
      BY <3>1 DEF Alive
    <3>3. QED
      BY <1>1, <2>1, <3>1, <3>2, SlotsKept
  <2>4. CASE queueOf[k] = NoQueue
    <3>1. CreateQueue(k) /\ acceptor' = [acceptor EXCEPT !.pc = "slot", !.q = created + 1]
      BY <1>4, <2>4 DEF AcceptQueue
    <3>2. /\ \A q : Alive(q) => Alive(q)'
          /\ Alive(created)' /\ created' = created + 1
          /\ \A s \in Slots : slots[s] # created + 1
      BY <2>2, <2>4, <3>1, CreateKeepsAlive DEF SlotInv
    <3>3. acceptor'.q = created' /\ acceptor'.q \in 1 .. created'
      BY <1>1, <3>1, <3>2 DEF SlotInv, Typed
    <3>4. Alive(acceptor.q)'
      BY <3>2, <3>3 DEF Alive
    <3>5. created' \in Nat /\ created <= created'
      BY <1>1, <3>2
    <3>6. QED
      BY <1>1, <2>1, <3>2, <3>3, <3>4, <3>5, SlotsKept
  <2>5. QED
    BY <2>3, <2>4
<1>5. QED
  BY <1>2, <1>3, <1>4

(* ... and filling one: with fewer slots in use than clients counted, one  *)
(* is free.                                                                *)
LEMMA AcceptSlotKeepsSlots ==
  ASSUME SlotInv, AcceptSlot
  PROVE  RoomForOne' /\ QueuesInOneSlot' /\ QueuesLive'
<1>1. /\ acceptor.pc = "slot" /\ numClients' = numClients + 1
      /\ UNCHANGED <<queueOf, created, com, command>>
      /\ acceptor'.pc \in {"receive", "stopped"}
  BY DEF AcceptSlot, NextAnnouncement, AcceptorTo, kernel, SlotInv, Typed
<1>2. numClients \in Nat /\ numClients < MaxClients /\ MaxClients \in Nat
  BY <1>1, Numbers DEF SlotInv, RoomForOne, Typed, TypeOK
<1>3. Cardinality(Taken) <= numClients /\ Cardinality(Taken) \in Nat /\ IsFiniteSet(Taken)
  BY TakenIsFinite DEF SlotInv, RoomForOne
<1>4. FreeSlots # {}
  BY <1>2, <1>3, FewTakenOneFree
<1>5. PICK s0 \in Slots : slots[s0] = NoQueue /\ \A t \in Slots : FirstFree(t) <=> t = s0
  BY <1>4, FirstFreeExists
<1>6. slots' = [slots EXCEPT ![s0] = acceptor.q]
  BY <1>5 DEF AcceptSlot, SlotInv, Typed, TypeOK
<1>7. acceptor.q \in 1 .. created /\ \A s \in Slots : slots[s] # acceptor.q
  BY <1>1 DEF SlotInv, QueuesInOneSlot
<1>8. acceptor.q # NoQueue
  BY <1>7 DEF NoQueue
<1>9. /\ slots'[s0] = acceptor.q
      /\ \A s \in Slots : s # s0 => slots'[s] = slots[s]
  BY <1>5, <1>6 DEF SlotInv, Typed, TypeOK
<1>10. Taken' = Taken \cup {s0} /\ s0 \notin Taken
  BY <1>5, <1>8, <1>9 DEF Taken
<1>11. RoomForOne'
  <2>1. Cardinality(Taken \cup {s0}) = Cardinality(Taken) + 1
    BY <1>3, <1>10, FS_AddElement
  <2>2. Cardinality(Taken') <= numClients'
    BY <1>1, <1>2, <1>3, <1>10, <2>1
  <2>3. QED
    BY <1>1, <2>2 DEF RoomForOne
<1>12. QueuesInOneSlot'
  <2>1. ASSUME NEW s \in Taken', NEW t \in Taken', slots'[s] = slots'[t] PROVE s = t
    BY <1>7, <1>9, <1>10, <2>1 DEF SlotInv, QueuesInOneSlot, Taken
  <2>2. QED
    BY <1>1, <2>1 DEF QueuesInOneSlot
<1>13. QueuesLive'
  <2>1. SUFFICES ASSUME Run', NEW s \in Taken'
                 PROVE  (Alive(slots[s]) \/ (com.pc = "free" /\ com.i = s))'
    BY <1>1 DEF QueuesLive
  <2>2. Run
    BY <1>1, <2>1 DEF Run
  <2>3. CASE s = s0
    BY <1>1, <1>9, <2>2, <2>3 DEF SlotInv, QueuesLive, Alive
  <2>4. CASE s # s0
    <3>1. s \in Taken /\ slots'[s] = slots[s]
      BY <1>9, <1>10, <2>1, <2>4 DEF Taken
    <3>2. Alive(slots[s]) \/ (com.pc = "free" /\ com.i = s)
      BY <2>2, <3>1 DEF SlotInv, QueuesLive
    <3>3. QED
      BY <1>1, <3>1, <3>2 DEF Alive
  <2>5. QED
    BY <2>3, <2>4
<1>14. QED
  BY <1>11, <1>12, <1>13

(* The communicator removes the queue of the client that leaves, ...       *)
LEMMA ComRemoveKeepsSlots ==
  ASSUME SlotInv, ComRemove
  PROVE  RoomForOne' /\ QueuesInOneSlot' /\ QueuesLive'
<1>1. /\ com.pc = "remove" /\ com'.pc = "free" /\ com'.i = com.i /\ com.i \in Slots
      /\ UNCHANGED <<slots, created, numClients, acceptor, command>>
  BY DEF ComRemove, SlotInv, Typed
<1>2. PICK gone : gone = slots[com.i]
  OBVIOUS
<1>3. ASSUME NEW q, Alive(q), q # gone PROVE Alive(q)'
  BY <1>2, <1>3, AliveStays DEF ComRemove, RemoveQueue, SlotInv
<1>4. Taken' = Taken
  BY <1>1 DEF Taken
<1>5. RoomForOne' /\ QueuesInOneSlot'
  BY <1>1, <1>4 DEF SlotInv, RoomForOne, QueuesInOneSlot
<1>6. SUFFICES ASSUME Run' PROVE /\ (acceptor.pc = "slot" => Alive(acceptor.q))'
                                 /\ (\A s \in Taken : Alive(slots[s]) \/ (com.pc = "free" /\ com.i = s))'
  BY <1>5 DEF QueuesLive
<1>7. Run
  BY <1>1, <1>6 DEF Run
<1>8. ASSUME acceptor'.pc = "slot" PROVE Alive(acceptor.q)'
  <2>1. PICK q : q = acceptor.q
    OBVIOUS
  <2>2. Alive(q) /\ q # gone /\ acceptor'.q = q
    BY <1>1, <1>2, <1>7, <1>8, <2>1 DEF SlotInv, QueuesLive, QueuesInOneSlot
  <2>3. Alive(q)'
    BY <1>3, <2>2
  <2>4. QED
    BY <2>2, <2>3 DEF Alive
<1>9. ASSUME NEW s \in Taken, s # com.i PROVE Alive(slots[s])'
  <2>1. PICK q : q = slots[s]
    OBVIOUS
  <2>2. s \in Slots /\ q # NoQueue
    BY <2>1 DEF Taken
  <2>3. q # gone
    BY <1>1, <1>2, <1>9, <2>1, <2>2 DEF SlotInv, QueuesInOneSlot, Taken
  <2>4. Alive(q) /\ slots'[s] = q
    BY <1>1, <1>7, <2>1 DEF SlotInv, QueuesLive
  <2>5. Alive(q)'
    BY <1>3, <2>3, <2>4
  <2>6. QED
    BY <2>4, <2>5 DEF Alive
<1>10. QED
  BY <1>1, <1>4, <1>8, <1>9

(* ... and only then frees the slot.                                       *)
LEMMA ComFreeKeepsSlots ==
  ASSUME SlotInv, ComFree
  PROVE  RoomForOne' /\ QueuesInOneSlot' /\ QueuesLive'
<1>1. /\ com.pc = "free" /\ com'.pc = "poll" /\ com.i \in Slots
      /\ UNCHANGED <<queueOf, created, numClients, acceptor, command>>
      /\ slots' = [slots EXCEPT ![com.i] = NoQueue]
  BY DEF ComFree, LeavingSlot, kernel, SlotInv, Typed
<1>2. /\ slots'[com.i] = NoQueue
      /\ \A s \in Slots : s # com.i => slots'[s] = slots[s]
  BY <1>1 DEF SlotInv, Typed, TypeOK
<1>3. Taken' = Taken \ {com.i}
  BY <1>2 DEF Taken
<1>4. RoomForOne'
  <2>1. PICK taken : taken = Taken'
    OBVIOUS
  <2>2. /\ taken \subseteq Taken /\ IsFiniteSet(Taken)
        /\ Cardinality(Taken) \in Nat /\ Cardinality(Taken) <= numClients
    BY <1>3, <2>1, TakenIsFinite DEF SlotInv, RoomForOne
  <2>3. Cardinality(taken) \in Nat /\ Cardinality(taken) <= Cardinality(Taken)
    BY <2>2, FS_Subset, FS_CardinalityType
  <2>4. numClients \in Nat
    BY Numbers DEF SlotInv, Typed, TypeOK
  <2>5. Cardinality(taken) <= numClients
    BY <2>2, <2>3, <2>4
  <2>6. QED
    BY <1>1, <2>1, <2>5 DEF SlotInv, RoomForOne
<1>5. QueuesInOneSlot'
  <2>1. ASSUME NEW s \in Taken', NEW t \in Taken', slots'[s] = slots'[t] PROVE s = t
    BY <1>2, <1>3, <2>1 DEF SlotInv, QueuesInOneSlot, Taken
  <2>2. ASSUME acceptor'.pc = "slot" PROVE /\ acceptor'.q \in 1 .. created'
                                           /\ \A s \in Slots : slots'[s] # acceptor'.q
    <3>1. acceptor.q \in 1 .. created /\ \A s \in Slots : slots[s] # acceptor.q
      BY <1>1, <2>2 DEF SlotInv, QueuesInOneSlot
    <3>2. acceptor.q # NoQueue
      BY <3>1 DEF NoQueue
    <3>3. QED
      BY <1>1, <1>2, <3>1, <3>2
  <2>3. QED
    BY <2>1, <2>2 DEF QueuesInOneSlot
<1>6. QueuesLive'
  <2>1. SUFFICES ASSUME Run' PROVE /\ acceptor'.pc = "slot" => Alive(acceptor.q)'
                                   /\ \A s \in Taken' : Alive(slots[s])'
    BY DEF QueuesLive
  <2>2. Run
    BY <1>1, <2>1 DEF Run
  <2>3. acceptor'.pc = "slot" => Alive(acceptor.q)'
    BY <1>1, <2>2 DEF SlotInv, QueuesLive, Alive
  <2>4. ASSUME NEW s \in Taken' PROVE Alive(slots[s])'
    <3>1. s \in Taken /\ s # com.i /\ slots'[s] = slots[s]
      BY <1>2, <1>3, <2>4 DEF Taken
    <3>2. Alive(slots[s])
      BY <2>2, <3>1 DEF SlotInv, QueuesLive
    <3>3. QED
      BY <1>1, <3>1, <3>2 DEF Alive
  <2>5. QED
    BY <2>3, <2>4
<1>7. QED
  BY <1>4, <1>5, <1>6

(* Receiving and forwarding, and going down, leave the slots alone.        *)
LEMMA OthersKeepSlots ==
  ASSUME SlotInv,
         \/ (\E s \in Slots : ComReceive(s)) \/ ComForward
         \/ TypeShutDown \/ TellClients \/ RemoveAll \/ ExitAgain
  PROVE  RoomForOne' /\ QueuesInOneSlot' /\ QueuesLive'
<1>1. /\ UNCHANGED <<slots, numClients, acceptor, created>> /\ created \in Nat
  <2>1. created \in Nat
    BY Numbers DEF SlotInv, Typed, TypeOK
  <2>2. UNCHANGED <<slots, numClients, acceptor, created>>
    BY DEF ComReceive, ComForward, TypeShutDown, TellClients, RemoveAll, ExitAgain, kernel
  <2>3. QED
    BY <2>1, <2>2
<1>2. CASE (\E s \in Slots : ComReceive(s)) \/ ComForward
  <2>1. UNCHANGED <<queueOf, command>> /\ com.pc # "free" /\ (Run' => Run)
    BY <1>2 DEF ComReceive, ComForward, Run
  <2>2. \A q : Alive(q) => Alive(q)'
    BY <2>1 DEF Alive
  <2>3. QED
    BY <1>1, <2>1, <2>2, SlotsKept
<1>3. CASE TypeShutDown \/ TellClients \/ RemoveAll \/ ExitAgain
  <2>1. ~Run'
    BY <1>3 DEF TypeShutDown, TellClients, RemoveAll, ExitAgain, Run, SlotInv, Typed
  <2>2. Taken' = Taken
    BY <1>1 DEF Taken
  <2>3. QED
    BY <1>1, <2>1, <2>2 DEF SlotInv, RoomForOne, QueuesInOneSlot, QueuesLive
<1>4. QED
  BY <1>2, <1>3

(* A client may create a queue, but takes none away.                       *)
LEMMA ClientKeepsSlots ==
  ASSUME SlotInv, NEW c \in Clients, ClientStep(c) \/ Kill(c)
  PROVE  RoomForOne' /\ QueuesInOneSlot' /\ QueuesLive'
<1>1. UNCHANGED server
  BY DEF ClientStep, Start, Announce, FindFile, TimeOut, Open, SendText, TypeExit, Show,
     Cleanup, Kill
<1>2. UNCHANGED <<slots, numClients, acceptor, com>> /\ (Run' => Run) /\ created \in Nat
  BY <1>1, Numbers DEF server, Run, SlotInv, Typed, TypeOK
<1>3. created' \in Nat /\ created <= created' /\ \A q : Alive(q) => Alive(q)'
  <2>1. CASE UNCHANGED <<queueOf, created>>
    BY <1>2, <2>1 DEF Alive
  <2>2. CASE Open(c) /\ queueOf[KeyOf(IdOf[c])] = NoQueue
    <3>1. KeyOf(IdOf[c]) \in Keys \cup {BadKey}
      BY IdsAssumption DEF KeyOf, SlotInv, Typed
    <3>2. CreateQueue(KeyOf(IdOf[c]))
      BY <2>2 DEF Open
    <3>3. QED
      BY <1>2, <2>2, <3>1, <3>2, CreateKeepsAlive DEF SlotInv
  <2>3. QED
    BY <2>1, <2>2 DEF ClientStep, Start, Announce, FindFile, TimeOut, Open, SendText, TypeExit,
       Show, Cleanup, Kill, kernel
<1>4. QED
  BY <1>2, <1>3, SlotsKept

-----------------------------------------------------------------------------
LEMMA SlotInvInit == Init => SlotInv
<1> SUFFICES ASSUME Init PROVE SlotInv
  OBVIOUS
<1>1. Typed
  <2>1. 0 \in 0 .. created /\ created \in 0 .. MaxQueues /\ 0 \in 0 .. MaxClients
    BY Numbers DEF Init
  <2>2. \A c \in Clients : sent[c] \in 0 .. MaxSend[c]
    BY SizesAssumption DEF Init
  <2>3. /\ msgs \in [Queues -> Seq(Message)] /\ \A q \in Queues : Len(msgs[q]) <= QueueCap
        /\ mainQueue \in Seq(Ids) /\ seen \in [Clients -> Seq(Message)]
    BY Numbers, EmptySeq DEF Init
  <2>4. /\ slots \in [Slots -> 0 .. created] /\ cq \in [Clients -> 0 .. created]
        /\ queueOf \in [Keys \cup {BadKey} -> 0 .. created]
    BY <2>1 DEF Init, NoQueue
  <2>5. /\ acceptor \in [pc : {"receive", "file", "queue", "slot", "stopped"},
                         id : Ids \cup {NoKey}, q : Nat]
        /\ command \in [pc : {"read", "tell", "sleep", "gone"}, k : Slots, removed : BOOLEAN]
    BY Numbers DEF Init, NoQueue
  <2>6. QED
    BY <2>1, <2>2, <2>3, <2>4, <2>5, Numbers DEF Init, Typed, TypeOK, ClientLabels
<1>2. Taken = {}
  BY DEF Init, Taken
<1>3. RoomForOne
  BY <1>2, FS_EmptySet DEF Init, RoomForOne
<1>4. QED
  BY <1>1, <1>2, <1>3 DEF SlotInv, QueuesInOneSlot, QueuesLive, Init

LEMMA SlotInvStep == SlotInv /\ [Next]_vars => SlotInv'
<1> SUFFICES ASSUME SlotInv, [Next]_vars PROVE SlotInv'
  OBVIOUS
<1>1. CASE AcceptReceive \/ AcceptFile \/ AcceptQueue \/ AcceptSlot
  <2>1. Typed'
    BY <1>1, AcceptTyped DEF SlotInv
  <2>2. QED
    BY <1>1, <2>1, AcceptKeepsSlots, AcceptSlotKeepsSlots DEF SlotInv
<1>2. CASE (\E s \in Slots : ComReceive(s)) \/ ComRemove \/ ComFree \/ ComForward
  <2>1. Typed'
    BY <1>2, ComTyped DEF SlotInv
  <2>2. QED
    BY <1>2, <2>1, ComRemoveKeepsSlots, ComFreeKeepsSlots, OthersKeepSlots DEF SlotInv
<1>3. CASE TypeShutDown \/ TellClients \/ RemoveAll \/ ExitAgain
  <2>1. Typed'
    BY <1>3, CommandTyped DEF SlotInv
  <2>2. QED
    BY <1>3, <2>1, OthersKeepSlots DEF SlotInv
<1>4. ASSUME NEW c \in Clients, ClientStep(c) \/ Kill(c) PROVE SlotInv'
  <2>1. Typed'
    BY <1>4, ClientTyped DEF SlotInv
  <2>2. QED
    BY <1>4, <2>1, ClientKeepsSlots DEF SlotInv
<1>5. CASE UNCHANGED vars
  <2>1. UNCHANGED <<files, queueOf, msgs, created, mainQueue, slots, numClients, acceptor,
                    com, command, cpc, cq, sent, seen>>
    BY <1>5 DEF vars, kernel, server, clients
  <2>2. Typed' /\ Taken' = Taken
    BY <2>1 DEF SlotInv, Typed, TypeOK, Taken
  <2>3. RoomForOne' /\ QueuesInOneSlot'
    BY <2>1, <2>2 DEF SlotInv, RoomForOne, QueuesInOneSlot
  <2>4. QueuesLive'
    BY <2>1, <2>2 DEF SlotInv, QueuesLive, Alive, Run
  <2>5. QED
    BY <2>2, <2>3, <2>4 DEF SlotInv
<1>6. QED
  BY <1>1, <1>2, <1>3, <1>4, <1>5 DEF Next, ServerStep

(* The accepting thread always finds a free slot: num_clients, which it    *)
(* alone counts, is never below the number of slots in use, which the      *)
(* communicator lowers, so that the unbounded search for a slot ends.      *)
THEOREM SlotIsAlwaysFound == Spec => []SlotIsFound
<1>1. SlotInv => SlotIsFound
  <2> SUFFICES ASSUME SlotInv PROVE SlotIsFound
    OBVIOUS
  <2>1. TypeOK /\ Cardinality(Taken) <= numClients
    BY DEF SlotInv, Typed, RoomForOne
  <2>2. ASSUME acceptor.pc = "slot" PROVE FreeSlots # {}
    <3>1. numClients < MaxClients /\ numClients \in Nat /\ Cardinality(Taken) \in Nat
      BY <2>2, Numbers, TakenIsFinite DEF SlotInv, RoomForOne, Typed, TypeOK
    <3>2. Cardinality(Taken) < MaxClients
      BY <2>1, <3>1, Numbers
    <3>3. QED
      BY <3>2, FewTakenOneFree
  <2>3. QED
    BY <2>1, <2>2 DEF SlotIsFound
<1>2. QED
  BY <1>1, SlotInvInit, SlotInvStep, PTL DEF Spec

(* While the server runs, no queue is in two slots and every queue in a    *)
(* slot exists, but for the one the communicator has removed and is about  *)
(* to take out of its slot.                                                *)
THEOREM SlotsAlwaysHoldLiveQueues == Spec => []SlotsHoldLiveQueues
<1>1. SlotInv => SlotsHoldLiveQueues
  BY DEF SlotInv, QueuesInOneSlot, QueuesLive, SlotsHoldLiveQueues
<1>2. QED
  BY <1>1, SlotInvInit, SlotInvStep, PTL DEF Spec

-----------------------------------------------------------------------------
(* The order of texts.  msgsnd adds at most the text it is given, behind   *)
(* those that are there; msgrcv takes one away.                            *)
LEMMA TextsOf ==
  ASSUME Typed, NEW q \in Queues, NEW x \in 1 .. Len(msgs[q]), TextAt(q, x)
  PROVE  /\ msgs[q][x] \in Texts(q, msgs[q][x].to)
         /\ msgs[q][x].to = "server" => msgs[q][x] \in Unread
BY DEF Texts, Unread

LEMMA SendTexts ==
  ASSUME Typed, NEW q, NEW m \in Message, Send(q, m), NEW p \in Queues, NEW to,
         NEW l \in Texts(p, to)'
  PROVE  l \in Texts(p, to) \/ (p = q /\ l = m /\ m.body = "text" /\ m.to = to)
<1>1. PICK x \in 1 .. Len(msgs'[p]) : l = msgs'[p][x] /\ l.body = "text" /\ l.to = to
  BY DEF Texts, TextAt
<1>2. CASE x \in 1 .. Len(msgs[p]) /\ msgs'[p][x] = msgs[p][x]
  BY <1>1, <1>2 DEF Texts, TextAt
<1>3. CASE p = q /\ msgs'[p][x] = m
  BY <1>1, <1>3
<1>4. (x \in 1 .. Len(msgs[p]) /\ msgs'[p][x] = msgs[p][x]) \/ (p = q /\ msgs'[p][x] = m)
  BY <1>1, SendProperties
<1>5. QED
  BY <1>2, <1>3, <1>4

LEMMA SendInOrder ==
  ASSUME Typed, NEW q, NEW m \in Message, Send(q, m), NEW p \in Queues, InOrder(p),
         p = q /\ m.body = "text" => \A l \in Texts(p, m.to) : l.from = m.from => l.n < m.n
  PROVE  InOrder(p)'
<1>1. CASE msgs'[p] = msgs[p]
  BY <1>1 DEF InOrder, TextAt
<1>2. CASE p = q /\ msgs' # msgs
  <2>1. /\ Len(msgs'[p]) = Len(msgs[p]) + 1 /\ Len(msgs[p]) \in Nat
        /\ \A x \in 1 .. Len(msgs[p]) : msgs'[p][x] = msgs[p][x]
        /\ msgs'[p][Len(msgs[p]) + 1] = m
    BY <1>2, SendProperties
  <2>2. SUFFICES ASSUME NEW x \in 1 .. Len(msgs'[p]), NEW y \in 1 .. Len(msgs'[p]),
                        TextAt(p, x)', TextAt(p, y)', x < y, msgs'[p][x].to = msgs'[p][y].to,
                        msgs'[p][x].from = msgs'[p][y].from
                 PROVE  msgs'[p][x].n < msgs'[p][y].n
    BY DEF InOrder
  <2>3. x \in 1 .. Len(msgs[p]) /\ msgs'[p][x] = msgs[p][x] /\ TextAt(p, x)
    BY <2>1, <2>2 DEF TextAt
  <2>4. CASE y \in 1 .. Len(msgs[p])
    BY <2>1, <2>2, <2>3, <2>4 DEF InOrder, TextAt
  <2>5. CASE y = Len(msgs[p]) + 1
    <3>1. msgs'[p][y] = m /\ m.body = "text"
      BY <2>1, <2>2, <2>5 DEF TextAt
    <3>2. msgs[p][x] \in Texts(p, m.to) /\ msgs[p][x].from = m.from
      BY <2>2, <2>3, <3>1, TextsOf
    <3>3. QED
      BY <1>2, <2>3, <3>1, <3>2
  <2>6. y \in 1 .. Len(msgs[p]) \/ y = Len(msgs[p]) + 1
    BY <2>1
  <2>7. QED
    BY <2>4, <2>5, <2>6
<1>3. msgs'[p] = msgs[p] \/ (p = q /\ msgs' # msgs)
  BY SendProperties
<1>4. QED
  BY <1>1, <1>2, <1>3

(* msgrcv of the n-th message of q.                                        *)
Takes(q, n) == msgs' = [msgs EXCEPT ![q] = RemoveAt(@, n)]

(* What is left keeps its place in the row.                                *)
LEMMA LeftInPlace ==
  ASSUME Typed, NEW q \in Queues, NEW n \in 1 .. Len(msgs[q]),
         Takes(q, n), NEW p \in Queues
  PROVE  /\ \A x \in 1 .. Len(msgs'[p]) :
              \E u \in 1 .. Len(msgs[p]) : msgs'[p][x] = msgs[p][u] /\ (p = q => u # n)
         /\ \A x, y \in 1 .. Len(msgs'[p]) : x < y =>
              \E u, v \in 1 .. Len(msgs[p]) :
                u < v /\ msgs'[p][x] = msgs[p][u] /\ msgs'[p][y] = msgs[p][v]
<1>1. CASE p # q
  <2>1. msgs'[p] = msgs[p]
    BY <1>1 DEF Takes, Typed
  <2>2. QED
    BY <1>1, <2>1
<1>2. CASE p = q
  <2>1. /\ Len(msgs'[p]) = Len(msgs[p]) - 1 /\ Len(msgs[p]) \in Nat
        /\ \A x \in 1 .. Len(msgs[p]) - 1 :
             msgs'[p][x] = IF x < n THEN msgs[p][x] ELSE msgs[p][x + 1]
    BY <1>2, ReceiveProperties DEF Takes
  <2> DEFINE old(x) == IF x < n THEN x ELSE x + 1
  <2>2. \A x \in 1 .. Len(msgs'[p]) :
          old(x) \in 1 .. Len(msgs[p]) /\ msgs'[p][x] = msgs[p][old(x)] /\ old(x) # n
    BY <1>2, <2>1
  <2>3. \A x, y \in 1 .. Len(msgs'[p]) : x < y => old(x) < old(y)
    BY <1>2, <2>1
  <2> HIDE DEF old
  <2>4. ASSUME NEW x \in 1 .. Len(msgs'[p]), NEW y \in 1 .. Len(msgs'[p]), x < y
        PROVE  \E u, v \in 1 .. Len(msgs[p]) :
                 u < v /\ msgs'[p][x] = msgs[p][u] /\ msgs'[p][y] = msgs[p][v]
    <3>1. old(x) < old(y) /\ old(x) \in 1 .. Len(msgs[p]) /\ old(y) \in 1 .. Len(msgs[p])
      BY <2>2, <2>3, <2>4
    <3>2. QED
      BY <2>2, <3>1
  <2>5. ASSUME NEW x \in 1 .. Len(msgs'[p])
        PROVE  \E u \in 1 .. Len(msgs[p]) : msgs'[p][x] = msgs[p][u] /\ u # n
    BY <2>2
  <2>6. QED
    BY <2>4, <2>5
<1>3. QED
  BY <1>1, <1>2

LEMMA ReceiveTexts ==
  ASSUME Typed, NEW q \in Queues, NEW n \in 1 .. Len(msgs[q]),
         Takes(q, n), NEW p \in Queues
  PROVE  /\ \A to : Texts(p, to)' \subseteq Texts(p, to)
         /\ InOrder(p) => InOrder(p)'
<1>1. /\ \A x \in 1 .. Len(msgs'[p]) :
              \E u \in 1 .. Len(msgs[p]) : msgs'[p][x] = msgs[p][u]
      /\ \A x, y \in 1 .. Len(msgs'[p]) : x < y =>
              \E u, v \in 1 .. Len(msgs[p]) :
                u < v /\ msgs'[p][x] = msgs[p][u] /\ msgs'[p][y] = msgs[p][v]
  BY LeftInPlace
<1>2. ASSUME NEW to, NEW l \in Texts(p, to)' PROVE l \in Texts(p, to)
  <2>1. PICK x \in 1 .. Len(msgs'[p]) : l = msgs'[p][x] /\ l.body = "text" /\ l.to = to
    BY <1>2 DEF Texts, TextAt
  <2>2. PICK u \in 1 .. Len(msgs[p]) : l = msgs[p][u]
    BY <1>1, <2>1
  <2>3. u \in {y \in 1 .. Len(msgs[p]) : TextAt(p, y) /\ msgs[p][y].to = to}
    BY <2>1, <2>2 DEF TextAt
  <2>4. QED
    BY <2>2, <2>3 DEF Texts
<1>3. ASSUME InOrder(p) PROVE InOrder(p)'
  <2>1. SUFFICES ASSUME NEW x \in 1 .. Len(msgs'[p]), NEW y \in 1 .. Len(msgs'[p]),
                        TextAt(p, x)', TextAt(p, y)', x < y, msgs'[p][x].to = msgs'[p][y].to,
                        msgs'[p][x].from = msgs'[p][y].from
                 PROVE  msgs'[p][x].n < msgs'[p][y].n
    BY DEF InOrder
  <2>2. PICK u \in 1 .. Len(msgs[p]), v \in 1 .. Len(msgs[p]) :
             u < v /\ msgs'[p][x] = msgs[p][u] /\ msgs'[p][y] = msgs[p][v]
    BY <1>1, <2>1
  <2>3. QED
    BY <1>3, <2>1, <2>2 DEF InOrder, TextAt
<1>4. QED
  BY <1>2, <1>3

(* The text taken is earlier than the texts of its writer that are left.   *)
LEMMA FirstIsEarliest ==
  ASSUME Typed, NEW q \in Queues, NEW to, Mail(q, to) # {}, InOrder(q),
         NEW n, n = FirstMail(q, to), TextAt(q, n),
         Takes(q, n),
         NEW l \in Texts(q, to)', l.from = msgs[q][n].from
  PROVE  msgs[q][n].n < l.n
<1>1. /\ n \in 1 .. Len(msgs[q]) /\ msgs[q][n].to = to
      /\ \A x \in 1 .. Len(msgs[q]) : msgs[q][x].to = to => n <= x
      /\ Len(msgs[q]) \in Nat
  <2>1. msgs[q] \in Seq(Message)
    BY DEF Typed
  <2>2. Len(msgs[q]) \in Nat
    BY <2>1, LenProperties
  <2>3. QED
    BY <2>2, FirstMailExists
<1>2. PICK x \in 1 .. Len(msgs'[q]) : l = msgs'[q][x] /\ l.body = "text" /\ l.to = to
  BY DEF Texts, TextAt
<1>3. \A z \in 1 .. Len(msgs'[q]) :
        \E u \in 1 .. Len(msgs[q]) : msgs'[q][z] = msgs[q][u] /\ u # n
  BY <1>1, LeftInPlace
<1>4. PICK y \in 1 .. Len(msgs[q]) : l = msgs[q][y] /\ y # n
  BY <1>2, <1>3
<1>5. n < y /\ TextAt(q, y)
  BY <1>1, <1>2, <1>4 DEF TextAt
<1>6. QED
  BY <1>1, <1>2, <1>4, <1>5 DEF InOrder

LEMMA QueueOfClient == ASSUME Typed, NEW c \in Clients, cq[c] # NoQueue PROVE cq[c] \in Queues
<1>1. cq[c] \in 0 .. created /\ created \in 0 .. MaxQueues
  BY DEF Typed, TypeOK
<1>2. QED
  BY <1>1, Numbers DEF NoQueue, Queues

(* A step that adds no text keeps the order.                               *)
LEMMA FewerTextsInOrder ==
  ASSUME OrderInv, UNCHANGED <<cq, sent, seen>>,
         com'.pc = "forward" => UNCHANGED <<com, slots>>,
         \A p \in Queues : InOrder(p)' /\ \A to : Texts(p, to)' \subseteq Texts(p, to),
         NothingBeforeOpen', NewQueues'
  PROVE  OrderInv'
<1>1. Unread' \subseteq Unread
  BY DEF Unread
<1>2. ASSUME NEW m, NEW q, Past(m, q) PROVE Past(m, q)'
  <2>1. ASSUME com'.pc = "forward" PROVE Ahead(q)' = Ahead(q)
    BY <2>1 DEF Ahead
  <2>2. QED
    BY <1>1, <1>2, <2>1 DEF Past
<1>3. \A c \in Clients : Seen(c)' = Seen(c)
  BY DEF Seen
<1>4. InOwnQueue'
  BY DEF OrderInv, InOwnQueue
<1>5. PastInQueues'
  BY <1>2 DEF OrderInv, PastInQueues
<1>6. PastInSeen'
  BY <1>2, <1>3 DEF OrderInv, PastInSeen
<1>7. TextInHand'
  BY <1>1 DEF OrderInv, TextInHand
<1>8. TextsInOrder'
  BY DEF OrderInv, TextsInOrder
<1>9. QED
  BY <1>4, <1>5, <1>6, <1>7, <1>8 DEF OrderInv

(* So it is with the steps that move no text, ...                          *)
LEMMA QuietInOrder ==
  ASSUME SlotInv, OrderInv,
         \/ AcceptReceive \/ AcceptFile \/ AcceptQueue \/ ComRemove \/ ComFree
         \/ TypeShutDown \/ RemoveAll \/ ExitAgain
         \/ \E c \in Clients : \/ Start(c) \/ Announce(c) \/ FindFile(c) \/ TimeOut(c)
                               \/ Cleanup(c) \/ Kill(c)
  PROVE  OrderInv'
<1>1. UNCHANGED <<msgs, cq, sent, seen>>
  BY DEF AcceptReceive, AcceptFile, AcceptQueue, ComRemove, ComFree, TypeShutDown, RemoveAll,
     ExitAgain, Start, Announce, FindFile, TimeOut, Cleanup, Kill, kernel, clients
<1>2. com'.pc = "forward" => UNCHANGED <<com, slots>>
  <2>1. CASE ComRemove \/ ComFree
    BY <2>1 DEF ComRemove, ComFree, SlotInv, Typed
  <2>2. CASE UNCHANGED <<com, slots>>
    BY <2>2
  <2>3. QED
    BY <2>1, <2>2 DEF AcceptReceive, AcceptFile, AcceptQueue, TypeShutDown, RemoveAll,
       ExitAgain, Start, Announce, FindFile, TimeOut, Cleanup, Kill, kernel, clients, server
<1>3. \A p \in Queues : InOrder(p)' /\ \A to : Texts(p, to)' = Texts(p, to)
  BY <1>1 DEF OrderInv, InOrder, Texts, TextAt
<1>4. \A c \in Clients : Seen(c)' = Seen(c)
  BY <1>1 DEF Seen
<1>5. NothingBeforeOpen'
  <2>1. CASE cpc' = cpc
    BY <1>1, <1>4, <2>1 DEF OrderInv, NothingBeforeOpen
  <2>2. ASSUME NEW c \in Clients, Start(c) \/ Announce(c) \/ FindFile(c)
        PROVE  NothingBeforeOpen'
    <3>1. /\ cpc[c] \in {"start", "announce", "poll"}
          /\ \E l \in {"announce", "gone", "cleanup", "poll", "open"} :
               cpc' = [cpc EXCEPT ![c] = l]
      BY <2>2 DEF Start, Announce, FindFile, ClientTo
    <3>2. QED
      BY <1>1, <1>4, <3>1 DEF OrderInv, NothingBeforeOpen, SlotInv, Typed
  <2>3. ASSUME NEW c \in Clients, TimeOut(c) \/ Cleanup(c) \/ Kill(c)
        PROVE  NothingBeforeOpen'
    <3>1. \E l \in {"gone", "cleanup"} : cpc' = [cpc EXCEPT ![c] = l]
      BY <2>3 DEF TimeOut, Cleanup, Kill, ClientTo
    <3>2. QED
      BY <1>1, <1>4, <3>1 DEF OrderInv, NothingBeforeOpen, SlotInv, Typed
  <2>4. QED
    BY <2>1, <2>2, <2>3 DEF AcceptReceive, AcceptFile, AcceptQueue, ComRemove, ComFree,
       TypeShutDown, RemoveAll, ExitAgain, clients
<1>6. NewQueues'
  <2>1. CASE AcceptQueue /\ acceptor' # acceptor /\ acceptor'.pc = "slot"
    <3>1. /\ queueOf[KeyOf(acceptor.id)] = NoQueue /\ created' = created + 1
          /\ acceptor' = [acceptor EXCEPT !.pc = "slot", !.q = created + 1]
      BY <2>1 DEF AcceptQueue, CreateQueue, NextAnnouncement, AcceptorTo, SlotInv, Typed
    <3>2. created \in Nat /\ created + 1 > created
      BY Numbers DEF SlotInv, Typed, TypeOK
    <3>3. acceptor'.q = created + 1
      BY <3>1 DEF SlotInv, Typed
    <3>4. \A c \in Clients : cq[c] # created + 1
      BY <3>2 DEF SlotInv, Typed, TypeOK
    <3>5. \A q \in Queues : q > created' => msgs'[q] = <<>>
      BY <1>1, <3>1, <3>2, Numbers DEF OrderInv, NewQueues, Queues
    <3>6. ASSUME NEW q \in Queues, acceptor'.q = q
          PROVE  Texts(q, "client")' = {} /\ \A c \in Clients : cq'[c] = q => Seen(c)' = {}
      <4>1. msgs'[q] = <<>>
        BY <1>1, <3>2, <3>3, <3>6 DEF OrderInv, NewQueues
      <4>2. Texts(q, "client")' = {}
        BY <4>1 DEF Texts
      <4>3. QED
        BY <1>1, <3>3, <3>4, <3>6, <4>2
    <3>7. QED
      BY <3>5, <3>6 DEF NewQueues
  <2>2. CASE UNCHANGED created /\ (acceptor'.pc = "slot" => acceptor' = acceptor)
    BY <1>1, <1>3, <1>4, <2>2 DEF OrderInv, NewQueues
  <2>3. CASE AcceptQueue /\ acceptor'.pc # "slot"
    <3>1. UNCHANGED created
      BY <2>3 DEF AcceptQueue, CreateQueue, NextAnnouncement, AcceptorTo, SlotInv, Typed
    <3>2. QED
      BY <2>2, <2>3, <3>1
  <2>4. CASE AcceptReceive \/ AcceptFile
    <3>1. UNCHANGED created /\ acceptor'.pc # "slot"
      BY <2>4 DEF AcceptReceive, AcceptFile, NextAnnouncement, AcceptorTo, SlotInv, Typed
    <3>2. QED
      BY <2>2, <3>1
  <2>5. CASE AcceptQueue /\ acceptor' = acceptor
    <3>1. acceptor'.pc # "slot"
      BY <2>5 DEF AcceptQueue
    <3>2. QED
      BY <2>3, <2>5, <3>1
  <2>6. CASE UNCHANGED <<created, acceptor>>
    BY <2>2, <2>6
  <2>7. QED
    BY <2>1, <2>3, <2>4, <2>5, <2>6 DEF ComRemove, ComFree, TypeShutDown, RemoveAll,
       ExitAgain, Start, Announce, FindFile, TimeOut, Cleanup, Kill, kernel, clients, server
<1>7. QED
  BY <1>1, <1>2, <1>3, <1>5, <1>6, FewerTextsInOrder

(* ... with those that put or take an "exit", ...                          *)
LEMMA ExitSentInOrder ==
  ASSUME SlotInv, OrderInv, TellClients \/ \E c \in Clients : TypeExit(c)
  PROVE  OrderInv'
<1>1. UNCHANGED <<created, slots, acceptor, com, cq, sent, seen>>
  BY DEF TellClients, TypeExit, clients, server
<1>2. PICK q, m : m \in Message /\ m.body = "exit" /\ (msgs' = msgs \/ Send(q, m))
  <2>1. CASE TellClients
    <3>1. ServerExit \in Message /\ ServerExit.body = "exit"
      BY DEF ServerExit, Message
    <3>2. msgs' = msgs \/ Send(slots[command.k], ServerExit)
      BY <2>1 DEF TellClients
    <3>3. QED
      BY <3>1, <3>2
  <2>2. ASSUME NEW c \in Clients, TypeExit(c)
        PROVE  \E q, m : m \in Message /\ m.body = "exit" /\ (msgs' = msgs \/ Send(q, m))
    <3>1. ExitTyped(c) \in Message /\ ExitTyped(c).body = "exit"
      BY DEF ExitTyped, Message
    <3>2. Send(cq[c], ExitTyped(c))
      BY <2>2 DEF TypeExit
    <3>3. QED
      BY <3>1, <3>2
  <2>3. QED
    BY <2>1, <2>2
<1>3. \A p \in Queues : InOrder(p)' /\ \A to : Texts(p, to)' \subseteq Texts(p, to)
  <2>1. CASE msgs' = msgs
    BY <2>1 DEF OrderInv, InOrder, Texts, TextAt
  <2>2. CASE Send(q, m)
    <3>1. \A p \in Queues : InOrder(p)'
      BY <1>2, <2>2, SendInOrder DEF OrderInv, SlotInv
    <3>2. \A p \in Queues : \A to : \A l \in Texts(p, to)' : l \in Texts(p, to)
      BY <1>2, <2>2, SendTexts DEF SlotInv
    <3>3. QED
      BY <3>1, <3>2
  <2>3. QED
    BY <1>2, <2>1, <2>2
<1>4. \A c \in Clients : Seen(c)' = Seen(c)
  BY <1>1 DEF Seen
<1>5. NothingBeforeOpen'
  <2>1. cpc' = cpc \/ \E c \in Clients : cpc' = [cpc EXCEPT ![c] = "cleanup"]
    BY DEF TellClients, TypeExit, ClientTo, clients
  <2>2. QED
    BY <1>1, <1>4, <2>1 DEF OrderInv, NothingBeforeOpen, SlotInv, Typed
<1>6. NewQueues'
  <2>1. ASSUME NEW p \in Queues, p > created' PROVE msgs'[p] = <<>>
    <3>1. msgs[p] = <<>>
      BY <1>1, <2>1 DEF OrderInv, NewQueues
    <3>2. CASE p = q /\ Alive(q)
      <4>1. q \in 1 .. created
        BY <3>2, AliveIsCreated DEF SlotInv
      <4>2. created \in Nat
        BY Numbers DEF SlotInv, Typed, TypeOK
      <4>3. QED
        BY <1>1, <2>1, <3>2, <4>1, <4>2
    <3>3. CASE p # q \/ ~Alive(q)
      BY <1>2, <3>1, <3>3, SendProperties DEF SlotInv
    <3>4. QED
      BY <3>2, <3>3
  <2>2. QED
    BY <1>1, <1>3, <1>4, <2>1 DEF OrderInv, NewQueues
<1>7. QED
  BY <1>1, <1>3, <1>5, <1>6, FewerTextsInOrder

(* Taking a message away leaves an empty queue empty.                      *)
LEMMA TakesFromNew ==
  ASSUME SlotInv, OrderInv, NEW q \in Queues, NEW n \in 1 .. Len(msgs[q]), Takes(q, n),
         UNCHANGED <<created, acceptor, cq>>,
         \A c \in Clients : acceptor.pc = "slot" /\ cq[c] = acceptor.q => Seen(c)' = Seen(c)
  PROVE  NewQueues'
<1>1. \A p \in Queues : \A to : Texts(p, to)' \subseteq Texts(p, to)
  BY ReceiveTexts DEF SlotInv
<1>2. ASSUME NEW p \in Queues, p > created' PROVE msgs'[p] = <<>>
  <2>1. msgs[p] = <<>>
    BY <1>2 DEF OrderInv, NewQueues
  <2>2. p # q
    BY <2>1
  <2>3. QED
    BY <2>1, <2>2, ReceiveProperties DEF Takes, SlotInv
<1>3. QED
  BY <1>1, <1>2 DEF OrderInv, NewQueues

(* The communicator reads: an "exit", ...                                  *)
LEMMA ComReceiveInOrder ==
  ASSUME SlotInv, OrderInv, NEW s \in Slots, ComReceive(s)
  PROVE  OrderInv'
<1>1. /\ com.pc = "poll"
      /\ UNCHANGED <<created, slots, acceptor, cpc, cq, sent, seen>>
  BY DEF ComReceive, clients
<1>2. PICK q \in Queues : q = slots[s] /\ Mail(q, "server") # {}
  BY AliveIsCreated DEF ComReceive, SlotInv
<1>3. PICK n \in 1 .. Len(msgs[q]) : /\ n = FirstMail(q, "server") /\ msgs[q][n].to = "server"
                                     /\ msgs[q][n] \in Message
  BY <1>2, FirstMailExists DEF SlotInv
<1>4. PICK m \in Message : m = msgs[q][n]
  BY <1>3
<1>5. Takes(q, n)
  BY <1>2, <1>3 DEF ComReceive, Takes
<1>6. \A p \in Queues : InOrder(p)' /\ \A to : Texts(p, to)' \subseteq Texts(p, to)
  BY <1>5, ReceiveTexts DEF OrderInv, SlotInv
<1>7. \A c \in Clients : Seen(c)' = Seen(c)
  BY <1>1 DEF Seen
<1>8. NothingBeforeOpen'
  BY <1>1, <1>7 DEF OrderInv, NothingBeforeOpen
<1>9. NewQueues'
  BY <1>1, <1>5, <1>7, TakesFromNew
<1>10. CASE m.body = "exit"
  <2>1. com'.pc = "remove"
    BY <1>2, <1>3, <1>4, <1>10 DEF ComReceive, SlotInv, Typed
  <2>2. QED
    BY <1>1, <1>6, <1>8, <1>9, <2>1, FewerTextsInOrder
<1>11. CASE m.body # "exit"
  (* ... or a text, the earliest its writer has in the queue. *)
  <2>1. com'.pc = "forward" /\ com'.i = s /\ com'.msg = m /\ m.body = "text"
    BY <1>2, <1>3, <1>4, <1>11 DEF ComReceive, Message
  <2>2. m \in Texts(q, "server") /\ m \in Unread
    BY <1>3, <1>4, <2>1 DEF Texts, TextAt, Unread
  <2>3. m.from \in Clients /\ cq[m.from] = q /\ m.n <= sent[m.from]
    BY <2>2 DEF OrderInv, InOwnQueue
  <2>4. q # NoQueue
    BY DEF NoQueue, Queues
  <2>5. Unread' \subseteq Unread
    BY <1>6 DEF Unread
  <2>6. InOwnQueue'
    BY <1>1, <1>6 DEF OrderInv, InOwnQueue
  <2>7. ASSUME NEW l \in Unread', l.from = m.from PROVE m.n < l.n
    <3>1. PICK p \in Queues : l \in Texts(p, "server")'
      BY DEF Unread
    <3>2. p = q
      BY <1>1, <2>3, <2>6, <2>7, <3>1 DEF InOwnQueue
    <3>3. TextAt(q, n) /\ InOrder(q)
      BY <1>4, <2>1 DEF TextAt, OrderInv
    <3>4. QED
      BY <1>2, <1>3, <1>4, <1>5, <2>7, <3>1, <3>2, <3>3, FirstIsEarliest DEF SlotInv
  <2>8. TextInHand'
    BY <1>1, <1>2, <2>1, <2>3, <2>4, <2>7 DEF TextInHand
  <2>9. ASSUME NEW k, NEW p, Past(k, p) PROVE Past(k, p)'
    <3>1. k.from = m.from => k.n < m.n
      BY <2>2, <2>9 DEF Past
    <3>2. k.from = m.from => k.n <= m.n
      <4>1. m.n \in Nat
        BY DEF Message
      <4>2. k.n \in Nat
        BY <2>9 DEF Past, Message
      <4>3. QED
        BY <3>1, <4>1, <4>2
    <3>3. QED
      BY <1>1, <2>1, <2>5, <2>9, <3>1, <3>2 DEF Past
  <2>10. PastInQueues'
    BY <1>6, <2>9 DEF OrderInv, PastInQueues
  <2>11. PastInSeen'
    BY <1>1, <1>6, <1>7, <2>9 DEF OrderInv, PastInSeen
  <2>12. TextsInOrder'
    BY <1>1 DEF OrderInv, TextsInOrder
  <2>13. QED
    BY <1>6, <1>8, <1>9, <2>6, <2>8, <2>10, <2>11, <2>12 DEF OrderInv
<1>12. QED
  BY <1>10, <1>11

(* A queue that gets a slot while a text is being forwarded has received   *)
(* nothing yet.                                                            *)
LEMMA AcceptSlotInOrder ==
  ASSUME SlotInv, OrderInv, AcceptSlot
  PROVE  OrderInv'
<1>1. /\ acceptor.pc = "slot" /\ acceptor'.pc # "slot"
      /\ UNCHANGED <<msgs, created, com, cpc, cq, sent, seen>>
  BY DEF AcceptSlot, NextAnnouncement, AcceptorTo, kernel, clients, SlotInv, Typed
<1>2. PICK new \in Queues : new = acceptor.q
  <2>1. acceptor.q \in 1 .. created /\ created \in 0 .. MaxQueues
    BY <1>1 DEF SlotInv, QueuesInOneSlot, Typed, TypeOK
  <2>2. QED
    BY <2>1, Numbers DEF Queues
<1>3. /\ \A s \in Slots : slots'[s] = slots[s] \/ (slots[s] = NoQueue /\ slots'[s] = new)
  BY <1>2 DEF AcceptSlot, FirstFree, FreeSlots
<1>4. \A p \in Queues : \A to : Texts(p, to)' = Texts(p, to)
  BY <1>1 DEF Texts, TextAt
<1>5. Unread' = Unread /\ \A c \in Clients : Seen(c)' = Seen(c)
  BY <1>1, <1>4 DEF Unread, Seen
<1>6. /\ Texts(new, "client") = {}
      /\ \A c \in Clients : cq[c] = new => Seen(c) = {}
  BY <1>1, <1>2 DEF OrderInv, NewQueues
<1>7. ASSUME NEW m, NEW q, q # new, Past(m, q) PROVE Past(m, q)'
  <2>1. Ahead(q)' => Ahead(q)
    BY <1>1, <1>3, <1>7 DEF Ahead
  <2>2. QED
    BY <1>1, <1>5, <1>7, <2>1 DEF Past
<1>8. NothingBeforeOpen'
  BY <1>1, <1>5 DEF OrderInv, NothingBeforeOpen
<1>9. InOwnQueue' /\ \A q \in Queues : InOrder(q)'
  BY <1>1, <1>4 DEF OrderInv, InOwnQueue, InOrder, TextAt
<1>10. PastInQueues'
  BY <1>4, <1>6, <1>7 DEF OrderInv, PastInQueues
<1>11. PastInSeen'
  BY <1>1, <1>4, <1>5, <1>6, <1>7 DEF OrderInv, PastInSeen
<1>12. TextInHand'
  <2>1. com.i \in Slots
    BY DEF SlotInv, Typed
  <2>2. QED
    BY <1>1, <1>3, <1>5, <2>1 DEF OrderInv, TextInHand
<1>13. NewQueues' /\ TextsInOrder'
  BY <1>1 DEF OrderInv, NewQueues, TextsInOrder
<1>14. QED
  BY <1>8, <1>9, <1>10, <1>11, <1>12, <1>13 DEF OrderInv

(* The text in hand goes to a slot that has not had it, behind all that    *)
(* was forwarded there before it.                                          *)
LEMMA ForwardInOrder ==
  ASSUME SlotInv, OrderInv, ComForward
  PROVE  OrderInv'
<1>1. /\ com.pc = "forward" /\ com.i \in Slots /\ com.j \in Slots /\ com.j \in Nat
      /\ com.msg \in Message
      /\ UNCHANGED <<created, slots, acceptor, cpc, cq, sent, seen>>
  BY Numbers DEF ComForward, clients, SlotInv, Typed
<1>2. PICK m \in Message : m = Forwarded(com.msg)
  BY <1>1 DEF Forwarded, Message
<1>3. PICK f \in Clients : /\ f = com.msg.from /\ com.msg.body = "text"
                           /\ slots[com.i] = cq[f] /\ cq[f] # NoQueue /\ com.msg.n <= sent[f]
                           /\ \A l \in Unread : l.from = f => com.msg.n < l.n
  BY <1>1 DEF OrderInv, TextInHand
<1>4. m.from = f /\ m.n = com.msg.n /\ m.body = "text" /\ m.to = "client" /\ m.n \in Nat
  BY <1>1, <1>2, <1>3 DEF Forwarded, Message
<1>5. com'.pc = "forward" => com'.msg = com.msg /\ com'.i = com.i /\ com'.j = com.j + 1
  BY <1>1 DEF ComForward, SlotInv, Typed
<1>6. ASSUME NEW q, com'.pc = "forward" PROVE Ahead(q)' => Ahead(q)
  BY <1>1, <1>5, <1>6, Numbers DEF Ahead
<1>7. \A c \in Clients : Seen(c)' = Seen(c)
  BY <1>1 DEF Seen
<1>8. CASE msgs' = msgs
  <2>1. \A p \in Queues : InOrder(p)' /\ \A to : Texts(p, to)' = Texts(p, to)
    BY <1>8 DEF OrderInv, InOrder, Texts, TextAt
  <2>2. Unread' = Unread
    BY <2>1 DEF Unread
  <2>3. ASSUME NEW k, NEW q, Past(k, q) PROVE Past(k, q)'
    BY <1>1, <1>5, <1>6, <2>2, <2>3 DEF Past
  <2>4. NothingBeforeOpen' /\ InOwnQueue' /\ NewQueues'
    BY <1>1, <1>7, <1>8, <2>1 DEF OrderInv, NothingBeforeOpen, InOwnQueue, NewQueues
  <2>5. PastInQueues'
    BY <2>1, <2>3 DEF OrderInv, PastInQueues
  <2>6. PastInSeen'
    BY <1>1, <1>7, <2>1, <2>3 DEF OrderInv, PastInSeen
  <2>7. TextInHand' /\ TextsInOrder'
    BY <1>1, <1>5, <2>2 DEF OrderInv, TextInHand, TextsInOrder
  <2>8. QED
    BY <2>1, <2>4, <2>5, <2>6, <2>7 DEF OrderInv
<1>9. CASE msgs' # msgs
  <2>1. PICK p : p = slots[com.j] /\ com.i # com.j /\ p # NoQueue /\ Send(p, m)
    BY <1>2, <1>9 DEF ComForward, ToOthers
  <2>2. p \in Queues /\ p \in 1 .. created
    BY <1>9, <2>1, AliveIsCreated DEF Send, SlotInv
  <2>3. cq[f] # p
    BY <1>1, <1>3, <2>1 DEF SlotInv, QueuesInOneSlot, Taken
  <2>4. acceptor.pc = "slot" => acceptor.q # p
    BY <1>1, <2>1 DEF SlotInv, QueuesInOneSlot
  <2>5. Ahead(p)
    BY <1>1, <2>1 DEF Ahead
  <2>6. ~(com'.pc = "forward" /\ Ahead(p)')
    <3>1. SUFFICES ASSUME com'.pc = "forward", NEW s \in Slots, s >= com.j + 1, slots[s] = p
                   PROVE  FALSE
      BY <1>1, <1>5 DEF Ahead
    <3>2. s = com.j
      BY <1>1, <2>1, <3>1 DEF SlotInv, QueuesInOneSlot, Taken
    <3>3. QED
      BY <1>1, <3>1, <3>2
  <2>7. \A q \in Queues : \A to : \A l \in Texts(q, to)' :
          l \in Texts(q, to) \/ (q = p /\ l = m /\ to = "client")
    BY <1>4, <2>1, SendTexts DEF SlotInv
  <2>8. Unread' \subseteq Unread
    BY <2>7 DEF Unread
  <2>9. \A l \in Texts(p, "client") : l.from = f => l.n < m.n
    BY <1>1, <1>3, <1>4, <2>2, <2>5 DEF OrderInv, PastInQueues, Past
  <2>10. \A q \in Queues : InOrder(q)'
    BY <1>4, <2>1, <2>9, SendInOrder DEF OrderInv, SlotInv
  <2>11. ASSUME NEW k, NEW q, Past(k, q) PROVE Past(k, q)'
    BY <1>1, <1>5, <1>6, <2>8, <2>11 DEF Past
  <2>12. Past(m, p)'
    <3>1. \A l \in Unread' : l.from = f => m.n < l.n
      BY <1>3, <1>4, <2>8
    <3>2. com'.pc = "forward" => m.n <= com'.msg.n
      BY <1>4, <1>5
    <3>3. QED
      BY <1>1, <1>3, <1>4, <2>3, <2>6, <3>1, <3>2 DEF Past
  <2>13. NothingBeforeOpen' /\ InOwnQueue'
    BY <1>1, <1>7, <2>7 DEF OrderInv, NothingBeforeOpen, InOwnQueue
  <2>14. PastInQueues'
    BY <2>7, <2>11, <2>12 DEF OrderInv, PastInQueues
  <2>15. PastInSeen'
    <3>1. SUFFICES ASSUME NEW c \in Clients, NEW k \in Seen(c), NEW q \in Queues, cq[c] = q,
                          NEW l \in Texts(q, "client")', l.from = k.from
                   PROVE  k.n < l.n
      BY <1>1, <1>7, <2>11 DEF OrderInv, PastInSeen
    <3>2. CASE l \in Texts(q, "client")
      BY <3>1, <3>2 DEF OrderInv, PastInSeen
    <3>3. CASE q = p /\ l = m
      BY <1>1, <1>3, <1>4, <2>5, <3>1, <3>3 DEF OrderInv, PastInSeen, Past
    <3>4. QED
      BY <2>7, <3>2, <3>3
  <2>16. NewQueues'
    <3>1. created \in Nat
      BY Numbers DEF SlotInv, Typed, TypeOK
    <3>2. \A q \in Queues : q > created' => msgs'[q] = <<>>
      BY <1>1, <2>1, <2>2, <3>1, SendProperties DEF OrderInv, NewQueues, SlotInv
    <3>3. QED
      BY <1>1, <1>7, <2>4, <2>7, <3>2 DEF OrderInv, NewQueues
  <2>17. TextInHand' /\ TextsInOrder'
    BY <1>1, <1>5, <2>8 DEF OrderInv, TextInHand, TextsInOrder
  <2>18. QED
    BY <2>10, <2>13, <2>14, <2>15, <2>16, <2>17 DEF OrderInv
<1>10. QED
  BY <1>8, <1>9

(* A client that opens its queue has not written anything yet.             *)
LEMMA OpenInOrder ==
  ASSUME SlotInv, OrderInv, NEW c \in Clients, Open(c)
  PROVE  OrderInv'
<1>1. /\ cpc[c] = "open" /\ cpc' = [cpc EXCEPT ![c] = "talk"]
      /\ UNCHANGED <<msgs, slots, acceptor, com, sent, seen>>
  BY DEF Open, ClientTo, server
<1>2. cq[c] = NoQueue /\ sent[c] = 0 /\ Seen(c) = {}
  BY <1>1 DEF OrderInv, NothingBeforeOpen
<1>3. /\ created \in Nat /\ created' \in Nat /\ created <= created'
      /\ cq'[c] # NoQueue
      /\ \A d \in Clients : d # c => cq'[d] = cq[d]
  <2>1. created \in Nat /\ KeyOf(IdOf[c]) \in Keys \cup {BadKey}
    BY Numbers, IdsAssumption DEF KeyOf, SlotInv, Typed, TypeOK
  <2>2. CASE queueOf[KeyOf(IdOf[c])] = NoQueue
    <3>1. created' = created + 1 /\ cq' = [cq EXCEPT ![c] = created + 1]
      BY <2>2 DEF Open, CreateQueue
    <3>2. cq'[c] = created + 1
      BY <3>1 DEF SlotInv, Typed, TypeOK
    <3>3. \A d \in Clients : d # c => cq'[d] = cq[d]
      BY <3>1 DEF SlotInv, Typed, TypeOK
    <3>4. QED
      BY <2>1, <3>1, <3>2, <3>3 DEF NoQueue
  <2>3. CASE queueOf[KeyOf(IdOf[c])] # NoQueue
    <3>1. created' = created /\ cq' = [cq EXCEPT ![c] = queueOf[KeyOf(IdOf[c])]]
      BY <2>3 DEF Open
    <3>2. /\ cq'[c] = queueOf[KeyOf(IdOf[c])]
          /\ \A d \in Clients : d # c => cq'[d] = cq[d]
      BY <3>1 DEF SlotInv, Typed, TypeOK
    <3>3. QED
      BY <2>1, <2>3, <3>1, <3>2
  <2>4. QED
    BY <2>2, <2>3
<1>4. \A p \in Queues : \A to : Texts(p, to)' = Texts(p, to)
  BY <1>1 DEF Texts, TextAt
<1>5. Unread' = Unread /\ \A d \in Clients : Seen(d)' = Seen(d)
  BY <1>1, <1>4 DEF Unread, Seen
<1>6. \A q \in Queues : q # NoQueue
  BY DEF Queues, NoQueue
<1>7. ASSUME NEW m, NEW q, Past(m, q) PROVE Past(m, q)'
  <2>1. m.from # c /\ Ahead(q)' = Ahead(q)
    BY <1>1, <1>2, <1>7 DEF Past, Ahead
  <2>2. QED
    BY <1>1, <1>3, <1>5, <1>7, <2>1 DEF Past
<1>8. NothingBeforeOpen'
  BY <1>1, <1>3, <1>5 DEF OrderInv, NothingBeforeOpen, SlotInv, Typed
<1>9. InOwnQueue'
  BY <1>1, <1>2, <1>3, <1>4, <1>6 DEF OrderInv, InOwnQueue
<1>10. \A q \in Queues : InOrder(q)'
  BY <1>1 DEF OrderInv, InOrder, TextAt
<1>11. PastInQueues'
  BY <1>4, <1>7 DEF OrderInv, PastInQueues
<1>12. PastInSeen'
  BY <1>2, <1>3, <1>4, <1>5, <1>7 DEF OrderInv, PastInSeen
<1>13. TextInHand'
  BY <1>1, <1>2, <1>3, <1>5 DEF OrderInv, TextInHand
<1>14. NewQueues'
  <2>1. \A q \in Queues : q > created' => msgs'[q] = <<>>
    BY <1>1, <1>3, Numbers DEF OrderInv, NewQueues, Queues
  <2>2. QED
    BY <1>1, <1>2, <1>3, <1>4, <1>5, <2>1 DEF OrderInv, NewQueues
<1>15. TextsInOrder'
  BY <1>1 DEF OrderInv, TextsInOrder
<1>16. QED
  BY <1>8, <1>9, <1>10, <1>11, <1>12, <1>13, <1>14, <1>15 DEF OrderInv

(* What a client writes is later than all it has written.                  *)
LEMMA SendTextInOrder ==
  ASSUME SlotInv, OrderInv, NEW c \in Clients, SendText(c)
  PROVE  OrderInv'
<1>1. /\ cpc[c] = "talk" /\ sent' = [sent EXCEPT ![c] = sent[c] + 1]
      /\ UNCHANGED <<created, slots, acceptor, com, cpc, cq, seen>>
  BY DEF SendText, server
<1>2. PICK q \in Queues : q = cq[c]
  BY <1>1, QueueOfClient DEF OrderInv, NothingBeforeOpen, SlotInv
<1>3. PICK m \in Message : m = Text(c, sent[c] + 1)
  <2>1. sent[c] + 1 \in Nat
    BY DEF SlotInv, Typed
  <2>2. QED
    BY <2>1 DEF Text, Message
<1>4. /\ m.from = c /\ m.n = sent[c] + 1 /\ m.body = "text" /\ m.to = "server"
      /\ sent[c] \in Nat /\ sent'[c] = m.n /\ Send(q, m)
  BY <1>1, <1>2, <1>3 DEF SendText, Text, SlotInv, Typed
<1>5. \A d \in Clients : sent[d] \in Nat /\ sent'[d] \in Nat /\ sent[d] <= sent'[d]
  BY <1>1 DEF SlotInv, Typed
<1>6. \A p \in Queues : \A to : \A l \in Texts(p, to)' :
        l \in Texts(p, to) \/ (p = q /\ l = m /\ to = "server")
  BY <1>4, SendTexts DEF SlotInv
<1>7. \A l \in Unread' : l \in Unread \/ l = m
  BY <1>6 DEF Unread
<1>8. \A d \in Clients : Seen(d)' = Seen(d)
  BY <1>1 DEF Seen
<1>9. ASSUME NEW p \in Queues, NEW l \in Texts(p, "server") PROVE l \in Message
  BY <1>9, ElementOfSeq, LenProperties DEF Texts, SlotInv, Typed
<1>10. InOwnQueue'
  <2>1. SUFFICES ASSUME NEW p \in Queues, NEW l \in Texts(p, "server")'
                 PROVE  l.from \in Clients /\ cq[l.from] = p /\ l.n <= sent'[l.from]
    BY <1>1 DEF InOwnQueue
  <2>2. CASE p = q /\ l = m
    BY <1>2, <1>4, <2>2
  <2>3. CASE l \in Texts(p, "server")
    <3>1. l.from \in Clients /\ cq[l.from] = p /\ l.n <= sent[l.from] /\ l.n \in Nat
      BY <1>9, <2>3 DEF OrderInv, InOwnQueue, Message
    <3>2. QED
      BY <1>5, <3>1
  <2>4. QED
    BY <1>6, <2>1, <2>2, <2>3
<1>11. \A p \in Queues : InOrder(p)'
  <2>1. \A l \in Texts(q, "server") : l.from = c => l.n < m.n
    <3>1. \A l \in Texts(q, "server") : l.from = c => l.n <= sent[c] /\ l.n \in Nat
      BY <1>9 DEF OrderInv, InOwnQueue, Message
    <3>2. QED
      BY <1>4, <3>1
  <2>2. QED
    BY <1>4, <2>1, SendInOrder DEF OrderInv, SlotInv
<1>12. ASSUME NEW k, NEW p, Past(k, p) PROVE Past(k, p)'
  <2>1. k.n \in Nat /\ k.from \in Clients /\ k.n <= sent[k.from]
    BY <1>12 DEF Past, Message
  <2>2. k.n <= sent'[k.from]
    BY <1>5, <2>1
  <2>3. k.from = c => k.n < m.n
    BY <1>4, <2>1
  <2>4. Ahead(p)' = Ahead(p)
    BY <1>1 DEF Ahead
  <2>5. QED
    BY <1>1, <1>4, <1>7, <1>12, <2>2, <2>3, <2>4 DEF Past
<1>13. NothingBeforeOpen'
  <2>1. \A d \in Clients : cq[d] = NoQueue => sent'[d] = sent[d]
    BY <1>1, <1>2 DEF OrderInv, NothingBeforeOpen, SlotInv, Typed
  <2>2. QED
    BY <1>1, <1>8, <2>1 DEF OrderInv, NothingBeforeOpen
<1>14. PastInQueues' /\ PastInSeen'
  BY <1>1, <1>6, <1>8, <1>12 DEF OrderInv, PastInQueues, PastInSeen
<1>15. TextInHand'
  <2>1. SUFFICES ASSUME com.pc = "forward"
                 PROVE  /\ com.msg.n <= sent'[com.msg.from]
                        /\ \A l \in Unread' : l.from = com.msg.from => com.msg.n < l.n
    BY <1>1 DEF OrderInv, TextInHand
  <2>2. com.msg.n \in Nat /\ com.msg.from \in Clients /\ com.msg.n <= sent[com.msg.from]
    BY <2>1 DEF OrderInv, TextInHand, Message, SlotInv, Typed
  <2>3. com.msg.n <= sent'[com.msg.from]
    BY <1>5, <2>2
  <2>4. com.msg.from = c => com.msg.n < m.n
    BY <1>4, <2>2
  <2>5. QED
    BY <1>4, <1>7, <2>1, <2>3, <2>4 DEF OrderInv, TextInHand
<1>16. NewQueues'
  <2>1. ASSUME NEW p \in Queues, p > created' PROVE msgs'[p] = <<>>
    <3>1. q \in 0 .. created /\ created \in Nat
      BY <1>2, Numbers DEF SlotInv, Typed, TypeOK
    <3>2. p # q
      BY <1>1, <2>1, <3>1
    <3>3. msgs'[p] = msgs[p]
      BY <1>4, <3>2, SendProperties DEF SlotInv
    <3>4. QED
      BY <1>1, <2>1, <3>3 DEF OrderInv, NewQueues
  <2>2. QED
    BY <1>1, <1>6, <1>8, <2>1 DEF OrderInv, NewQueues
<1>17. TextsInOrder'
  BY <1>1 DEF OrderInv, TextsInOrder
<1>18. QED
  BY <1>10, <1>11, <1>13, <1>14, <1>15, <1>16, <1>17 DEF OrderInv

(* A client sees the earliest text of its writer that waits for it.        *)
LEMMA ShowInOrder ==
  ASSUME SlotInv, OrderInv, NEW c \in Clients, Show(c)
  PROVE  OrderInv'
<1>1. UNCHANGED <<created, slots, acceptor, com, cq, sent>>
  BY DEF Show, server
<1>2. PICK q \in Queues : q = cq[c] /\ Mail(q, "client") # {}
  BY AliveIsCreated DEF Show, SlotInv
<1>3. PICK n \in 1 .. Len(msgs[q]) : /\ n = FirstMail(q, "client") /\ msgs[q][n].to = "client"
                                     /\ msgs[q][n] \in Message
  BY <1>2, FirstMailExists DEF SlotInv
<1>4. PICK m \in Message : m = msgs[q][n]
  BY <1>3
<1>5. Takes(q, n)
  BY <1>2, <1>3 DEF Show, Takes
<1>6. \A p \in Queues : InOrder(p)' /\ \A to : Texts(p, to)' \subseteq Texts(p, to)
  BY <1>5, ReceiveTexts DEF OrderInv, SlotInv
<1>7. CASE m.body = "exit"
  <2>1. seen' = seen /\ cpc' = [cpc EXCEPT ![c] = "cleanup"]
    BY <1>2, <1>3, <1>4, <1>7 DEF Show, ClientTo
  <2>2. \A d \in Clients : Seen(d)' = Seen(d)
    BY <2>1 DEF Seen
  <2>3. NothingBeforeOpen'
    BY <1>1, <2>1, <2>2 DEF OrderInv, NothingBeforeOpen, SlotInv, Typed
  <2>4. NewQueues'
    BY <1>1, <1>5, <2>2, TakesFromNew
  <2>5. QED
    BY <1>1, <1>6, <2>1, <2>3, <2>4, FewerTextsInOrder
<1>8. CASE m.body # "exit"
  <2>1. seen' = [seen EXCEPT ![c] = Append(seen[c], m)] /\ cpc' = cpc /\ m.body = "text"
    BY <1>2, <1>3, <1>4, <1>8 DEF Show, Message
  <2>2. m \in Texts(q, "client")
    BY <1>3, <1>4, <2>1 DEF Texts, TextAt
  <2>3. /\ Len(seen[c]) \in Nat /\ seen'[c] = Append(seen[c], m)
        /\ Len(seen'[c]) = Len(seen[c]) + 1 /\ seen'[c][Len(seen[c]) + 1] = m
        /\ \A a \in 1 .. Len(seen[c]) : seen'[c][a] = seen[c][a]
    BY <2>1, AppendProperties, LenProperties DEF SlotInv, Typed
  <2>4. \A d \in Clients : d # c => seen'[d] = seen[d] /\ Seen(d)' = Seen(d)
    BY <2>1 DEF Seen, SlotInv, Typed
  <2>5. \A l \in Seen(c)' : l \in Seen(c) \/ l = m
    BY <2>3 DEF Seen
  <2>6. Unread' \subseteq Unread
    BY <1>6 DEF Unread
  <2>7. ASSUME NEW k, NEW p, Past(k, p) PROVE Past(k, p)'
    <3>1. Ahead(p)' = Ahead(p)
      BY <1>1 DEF Ahead
    <3>2. QED
      BY <1>1, <2>6, <2>7, <3>1 DEF Past
  <2>8. Past(m, q)
    BY <2>2 DEF OrderInv, PastInQueues
  <2>9. NothingBeforeOpen'
    <3>1. q # NoQueue
      BY DEF Queues, NoQueue
    <3>2. QED
      BY <1>1, <1>2, <2>1, <2>4, <3>1 DEF OrderInv, NothingBeforeOpen
  <2>10. InOwnQueue' /\ PastInQueues' /\ TextInHand'
    BY <1>1, <1>6, <2>6, <2>7 DEF OrderInv, InOwnQueue, PastInQueues, TextInHand
  <2>11. PastInSeen'
    <3>1. ASSUME NEW l \in Texts(q, "client")', l.from = m.from PROVE m.n < l.n
      <4>1. TextAt(q, n) /\ InOrder(q)
        BY <1>4, <2>1 DEF TextAt, OrderInv
      <4>2. QED
        BY <1>2, <1>3, <1>4, <1>5, <3>1, <4>1, FirstIsEarliest DEF SlotInv
    <3>2. \A d \in Clients : \A k \in Seen(d)' : k \in Seen(d) \/ (d = c /\ k = m)
      BY <2>4, <2>5
    <3>3. QED
      BY <1>1, <1>2, <1>6, <2>7, <2>8, <3>1, <3>2 DEF OrderInv, PastInSeen
  <2>12. NewQueues'
    <3>1. acceptor.pc = "slot" => acceptor.q # q
      BY <2>2 DEF OrderInv, NewQueues
    <3>2. QED
      BY <1>1, <1>2, <1>5, <2>4, <3>1, TakesFromNew
  <2>13. TextsInOrder'
    <3>1. ASSUME NEW d \in Clients, NEW a \in DOMAIN seen'[d], NEW b \in DOMAIN seen'[d]
          PROVE  /\ seen'[d][a].from # d
                 /\ a < b /\ seen'[d][a].from = seen'[d][b].from => seen'[d][a].n < seen'[d][b].n
      <4>1. CASE d # c
        BY <2>4, <3>1, <4>1 DEF OrderInv, TextsInOrder
      <4>2. CASE d = c
        <5>1. /\ DOMAIN seen'[c] = 1 .. Len(seen[c]) + 1 /\ DOMAIN seen[c] = 1 .. Len(seen[c])
          BY <2>3, AppendProperties, LenProperties DEF SlotInv, Typed
        <5>2. m.from # c
          BY <1>2, <2>8 DEF Past
        <5>3. \A x \in 1 .. Len(seen[c]) : seen[c][x].from = m.from => seen[c][x].n < m.n
          BY <1>2, <2>2 DEF OrderInv, PastInSeen, Seen
        <5>4. CASE a \in 1 .. Len(seen[c]) /\ b \in 1 .. Len(seen[c])
          BY <2>3, <4>2, <5>1, <5>4 DEF OrderInv, TextsInOrder
        <5>5. CASE a \in 1 .. Len(seen[c]) /\ b = Len(seen[c]) + 1
          BY <2>3, <4>2, <5>1, <5>3, <5>5 DEF OrderInv, TextsInOrder
        <5>6. CASE a = Len(seen[c]) + 1
          BY <2>3, <3>1, <4>2, <5>1, <5>2, <5>6
        <5>7. /\ a \in 1 .. Len(seen[c]) \/ a = Len(seen[c]) + 1
              /\ b \in 1 .. Len(seen[c]) \/ b = Len(seen[c]) + 1
          BY <2>3, <3>1, <4>2, <5>1
        <5>8. QED
          BY <5>4, <5>5, <5>6, <5>7
      <4>3. QED
        BY <4>1, <4>2
    <3>2. QED
      BY <3>1 DEF TextsInOrder
  <2>14. QED
    BY <1>6, <2>9, <2>10, <2>11, <2>12, <2>13 DEF OrderInv
<1>9. QED
  BY <1>7, <1>8

LEMMA OrderInvInit == Init => OrderInv
<1> SUFFICES ASSUME Init PROVE OrderInv
  OBVIOUS
<1>1. \A q \in Queues : msgs[q] = <<>>
  BY DEF Init
<1>2. \A q \in Queues : InOrder(q) /\ \A to : Texts(q, to) = {}
  BY <1>1 DEF InOrder, Texts
<1>3. \A c \in Clients : seen[c] = <<>> /\ Seen(c) = {}
  BY DEF Init, Seen
<1>4. NothingBeforeOpen
  BY <1>3 DEF Init, NothingBeforeOpen
<1>5. TextsInOrder
  BY <1>3 DEF TextsInOrder
<1>6. InOwnQueue /\ PastInQueues /\ PastInSeen
  BY <1>2, <1>3 DEF InOwnQueue, PastInQueues, PastInSeen
<1>7. TextInHand /\ NewQueues
  BY <1>1 DEF Init, TextInHand, NewQueues
<1>8. QED
  BY <1>2, <1>4, <1>5, <1>6, <1>7 DEF OrderInv

LEMMA OrderInvStep == SlotInv /\ OrderInv /\ [Next]_vars => OrderInv'
<1> SUFFICES ASSUME SlotInv, OrderInv, [Next]_vars PROVE OrderInv'
  OBVIOUS
<1>1. CASE AcceptReceive \/ AcceptFile \/ AcceptQueue \/ AcceptSlot
  BY <1>1, QuietInOrder, AcceptSlotInOrder
<1>2. CASE (\E s \in Slots : ComReceive(s)) \/ ComRemove \/ ComFree \/ ComForward
  BY <1>2, QuietInOrder, ComReceiveInOrder, ForwardInOrder
<1>3. CASE TypeShutDown \/ TellClients \/ RemoveAll \/ ExitAgain
  BY <1>3, QuietInOrder, ExitSentInOrder
<1>4. ASSUME NEW c \in Clients, ClientStep(c) \/ Kill(c) PROVE OrderInv'
  BY <1>4, QuietInOrder, ExitSentInOrder, OpenInOrder, SendTextInOrder, ShowInOrder
     DEF ClientStep
<1>5. CASE UNCHANGED vars
  <2>1. UNCHANGED <<msgs, created, slots, acceptor, com, cpc, cq, sent, seen>>
    BY <1>5 DEF vars, kernel, server, clients
  <2>2. \A p \in Queues : InOrder(p)' /\ \A to : Texts(p, to)' = Texts(p, to)
    BY <2>1 DEF OrderInv, InOrder, Texts, TextAt
  <2>3. \A c \in Clients : Seen(c)' = Seen(c)
    BY <2>1 DEF Seen
  <2>4. NothingBeforeOpen' /\ NewQueues'
    BY <2>1, <2>2, <2>3 DEF OrderInv, NothingBeforeOpen, NewQueues
  <2>5. QED
    BY <2>1, <2>2, <2>4, FewerTextsInOrder
<1>6. QED
  BY <1>1, <1>2, <1>3, <1>4, <1>5 DEF Next, ServerStep

(* A client sees the texts of each other client in the order in which they *)
(* were typed, none twice and none of its own: the queue a text waits in   *)
(* and the slots the communicator has yet to come to never let a later     *)
(* text in before it, though slots are freed and filled meanwhile.         *)
THEOREM TextsAlwaysInOrder == Spec => []TextsInOrder
<1>1. Init => SlotInv /\ OrderInv
  BY SlotInvInit, OrderInvInit
<1>2. SlotInv /\ OrderInv /\ [Next]_vars => (SlotInv /\ OrderInv)'
  BY SlotInvStep, OrderInvStep
<1>3. SlotInv /\ OrderInv => TextsInOrder
  BY DEF OrderInv
<1>4. QED
  BY <1>1, <1>2, <1>3, PTL DEF Spec
=============================================================================
