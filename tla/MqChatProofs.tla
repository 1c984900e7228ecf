---------------------------- MODULE MqChatProofs ----------------------------
(***************************************************************************)
(* What holds of the POSIX chat for every number of clients, names, slots  *)
(* and messages, whenever the server is told to exit.                      *)
(***************************************************************************)
EXTENDS MqChat, SequenceTheorems, FiniteSetTheorems, WellFoundedInduction, TLAPS

Text == [from : Clients, n : Nat \ {0}]

Typed ==
  /\ linked \in [Ids -> Nat] /\ mainLinked \in BOOLEAN
  /\ main \in Seq(ClientMessage) /\ Len(main) <= QueueLen
  /\ queue \in [Queues -> Seq(Delivery)] /\ \A q \in Queues : Len(queue[q]) <= QueueLen
  /\ num \in 0 .. MaxClients
  /\ slot \in [Slots -> {Free} \cup [queue : Queues, name : Ids]]
  /\ spc \in {"receive", "forward", "exiting", "gone"}
  /\ msg \in {<<>>} \cup ClientMessage /\ j \in Slots
  /\ cmd \in {"wait", "closing", "sleep", "gone"} /\ i \in 0 .. MaxClients
  /\ cpc \in [Clients -> {"new", "init", "poll", "on", "gone"}]
  /\ count \in [Clients -> Nat] /\ \A c \in Clients : count[c] <= Polls
  /\ mine \in [Clients -> Nat]
  /\ kind \in [Clients -> {"init", "text"}]
  /\ texts \in [Clients -> Nat] /\ \A c \in Clients : texts[c] <= MaxTexts[c]
  /\ got \in [Clients -> Seq(Text)]

(* Where the threads are, and what they hold there.                        *)
AtLabels ==
  /\ spc = "gone" <=> cmd = "gone"
  /\ spc = "forward" => msg \in ClientMessage /\ msg.n # ExitText
  /\ cmd = "wait" => i = 0
  /\ cmd = "closing" => i < MaxClients
  /\ cmd = "sleep" => i = MaxClients
  /\ \A c \in Clients : /\ cpc[c] = "on" => mine[c] # NoQueue
                        /\ cpc[c] = "poll" => mine[c] = NoQueue /\ count[c] < Polls
                        /\ cpc[c] \in {"new", "init"} => mine[c] = NoQueue /\ count[c] = 0
                        /\ mine[c] = NoQueue => got[c] = <<>>

(* A queue is in one slot at most, num counts the queues, and a name that  *)
(* leads somewhere leads to the queue of its slot.                         *)
Taken == {s \in Slots : Used(s)}
SlotInv ==
  /\ Cardinality(Taken) <= num
  /\ \A s \in Taken : slot[s].queue <= num
  /\ \A s, t \in Taken : slot[s].queue = slot[t].queue => s = t
  /\ \A id \in Ids : linked[id] # NoQueue =>
       \E s \in Slots : SlotsNamed(id) = {s} /\ slot[s].queue = linked[id]
  /\ NamesMatchSlots
  /\ \A c \in Clients : mine[c] <= num
  /\ \A q \in Queues : q > num => queue[q] = <<>>

(* The exit handler has told all up to slot i, but for the one slot that   *)
(* the communicator's last message may have filled.                        *)
Missed == {s \in Taken : s < i /\ slot[s].queue \notin told}
MissedInv ==
  cmd \in {"closing", "sleep"} => /\ spc # "exiting" => Missed = {}
                                  /\ \E x \in Slots : Missed \subseteq {x}

(* No text is in the queue of its writer's name.                           *)
TextsIn(seq) == {seq[x] : x \in {y \in 1 .. Len(seq) : seq[y].n # ExitText}}
NotOwn ==
  /\ \A s \in Taken : \A m \in TextsIn(queue[slot[s].queue]) : NameOf[m.from] # slot[s].name
  /\ \A c \in Clients : mine[c] # NoQueue =>
       /\ \A s \in Taken : slot[s].queue = mine[c] => slot[s].name = NameOf[c]
       /\ \A m \in TextsIn(queue[mine[c]]) : NameOf[m.from] # NameOf[c]
       /\ \A a \in 1 .. Len(got[c]) : NameOf[got[c][a].from] # NameOf[c]

(* The texts in the main queue are in order...                             *)
MainInOrder ==
  \A a \in 1 .. Len(main) : main[a].n # ExitText =>
    /\ main[a].n <= texts[main[a].from]
    /\ spc = "forward" /\ main[a].from = msg.from => msg.n < main[a].n
    /\ \A b \in 1 .. Len(main) :
         a < b /\ main[b].n # ExitText /\ main[a].from = main[b].from => main[a].n < main[b].n

HandInOrder == spc = "forward" => msg.n <= texts[msg.from]

(* ... after the one in the communicator's hand, and after the texts that  *)
(* have been put in queue q.                                               *)
Past(m, q) ==
  /\ m.n <= texts[m.from]
  /\ \A a \in 1 .. Len(main) :
       main[a].n # ExitText /\ main[a].from = m.from => m.n < main[a].n
  /\ spc = "forward" /\ msg.from = m.from =>
       \/ m.n < msg.n
       \/ m.n = msg.n /\ \A s \in Taken : s >= j => slot[s].queue # q

InOrder(seq) ==
  \A a, b \in 1 .. Len(seq) :
    a < b /\ seq[a].n # ExitText /\ seq[b].n # ExitText
      /\ seq[a].from = seq[b].from => seq[a].n < seq[b].n

GotInOrder(c) ==
  /\ Proper(got[c])
  /\ \A a \in 1 .. Len(got[c]) :
       /\ Past(got[c][a], mine[c])
       /\ \A m \in TextsIn(queue[mine[c]]) : m.from = got[c][a].from => got[c][a].n < m.n

OrderInv ==
  /\ MainInOrder
  /\ HandInOrder
  /\ \A q \in Queues : InOrder(queue[q]) /\ \A m \in TextsIn(queue[q]) : Past(m, q)
  /\ \A c \in Clients : mine[c] # NoQueue => GotInOrder(c)

IInv == Typed /\ AtLabels /\ SlotInv /\ MissedInv /\ NotOwn /\ OrderInv

-----------------------------------------------------------------------------
LEMMA Sizes ==
  /\ MaxClients \in Nat \ {0} /\ QueueLen \in Nat /\ Polls \in Nat \ {0}
  /\ Slots \subseteq Nat /\ Queues \subseteq Nat \ {0} /\ 0 \in Slots
BY SizesAssumption DEF Slots, Queues

(* A set of natural numbers has a least element.                           *)
LEMMA LowestIsIn ==
  ASSUME NEW S, S \subseteq Nat, S # {} PROVE Lowest(S) \in S
<1>1. PICK m \in S : \A n \in S : ~(<<n, m>> \in OpToRel(<, Nat))
  BY NatLessThanWellFounded, WFMin
<1>2. \A n \in S : m <= n
  <2>1. \A n \in S : ~(n < m)
    BY <1>1 DEF OpToRel
  <2>2. QED
    BY <2>1
<1>3. QED
  BY <1>2 DEF Lowest

LEMMA TakenIsFinite == IsFiniteSet(Taken) /\ Cardinality(Taken) \in Nat
<1>1. IsFiniteSet(Slots)
  BY Sizes, FS_Interval DEF Slots
<1>2. Taken \in SUBSET Slots
  BY DEF Taken
<1>3. QED
  BY <1>1, <1>2, FS_Subset, FS_CardinalityType

(* While a client can still be counted in there is a free slot.            *)
LEMMA FewTakenOneFree ==
  ASSUME Cardinality(Taken) < MaxClients PROVE \E s \in Slots : ~Used(s)
<1> SUFFICES ASSUME \A s \in Slots : Used(s) PROVE FALSE
  OBVIOUS
<1>1. Taken = 0 .. MaxClients - 1
  BY DEF Taken, Slots
<1>2. Cardinality(0 .. MaxClients - 1) = MaxClients
  BY Sizes, FS_Interval
<1>3. QED
  BY <1>1, <1>2, Sizes

(* An INIT changes nothing, or puts a new queue into a free slot.          *)
LEMMA WelcomeIs ==
  ASSUME Typed, SlotInv, NEW id \in Ids, Welcome(id)
  PROVE  \/ UNCHANGED <<linked, num, slot>>
         \/ /\ num < MaxClients /\ num + 1 \in Queues /\ num' = num + 1
            /\ linked[id] = NoQueue /\ linked' = [linked EXCEPT ![id] = num + 1]
            /\ \E s \in Slots : /\ ~Used(s)
                                /\ slot' = [slot EXCEPT ![s] = [queue |-> num + 1, name |-> id]]
<1> SUFFICES ASSUME num # MaxClients, linked[id] = NoQueue
    PROVE  /\ num < MaxClients /\ num + 1 \in Queues /\ num' = num + 1
           /\ linked' = [linked EXCEPT ![id] = num + 1]
           /\ \E s \in Slots : /\ ~Used(s)
                               /\ slot' = [slot EXCEPT ![s] = [queue |-> num + 1, name |-> id]]
  BY DEF Welcome
<1>1. num \in 0 .. MaxClients /\ num < MaxClients /\ num + 1 \in Queues
  BY Sizes DEF Typed, Queues
<1> DEFINE free == {t \in Slots : ~Used(t)}
<1>2. Cardinality(Taken) < MaxClients
  BY <1>1, TakenIsFinite, Sizes DEF SlotInv
<1>3. free # {} /\ free \subseteq Nat
  BY <1>2, FewTakenOneFree, Sizes
<1>4. Lowest(free) \in free
  BY <1>3, LowestIsIn
<1>5. num' = num + 1 /\ linked' = [linked EXCEPT ![id] = num + 1]
      /\ slot' = [slot EXCEPT ![Lowest(free)] = [queue |-> num + 1, name |-> id]]
  BY DEF Welcome, Counted
<1>6. QED
  BY <1>1, <1>4, <1>5

(* A goodbye empties the slot of that name, if there is one.               *)
LEMMA FarewellIs ==
  ASSUME Typed, SlotInv, cmd # "gone", NEW id \in Ids, Farewell(id)
  PROVE  /\ linked' = [linked EXCEPT ![id] = NoQueue] /\ num' = num
         /\ slot' = [s \in Slots |-> IF s \in SlotsNamed(id) THEN Free ELSE slot[s]]
<1>1. SlotsNamed(id) \subseteq Slots
  BY DEF SlotsNamed
<1>2. SlotsNamed(id) = {} \/ \E s \in Slots : SlotsNamed(id) = {s}
  BY DEF SlotInv, NamesMatchSlots
<1>3. Emptied(id) = SlotsNamed(id)
  <2>1. CASE SlotsNamed(id) = {}
    BY <2>1 DEF Emptied
  <2>2. CASE SlotsNamed(id) # {}
    <3>1. Lowest(SlotsNamed(id)) \in SlotsNamed(id)
      BY <1>1, <2>2, LowestIsIn, Sizes
    <3>2. QED
      BY <3>1, <2>2, <1>2 DEF Emptied
  <2>3. QED
    BY <2>1, <2>2
<1>4. QED
  BY <1>3 DEF Farewell

-----------------------------------------------------------------------------
(* The variables keep their types, and the threads their places.           *)
LEMMA ReceiveIs ==
  ASSUME Typed, AtLabels, SlotInv, Receive
  PROVE  /\ spc = "receive" /\ cmd # "gone" /\ main # <<>> /\ main' = Tail(main)
         /\ Head(main) \in ClientMessage /\ NameOf[Head(main).from] \in Ids
         /\ UNCHANGED <<mainLinked, queue, j, cmd, i, client, told>>
         /\ \/ Welcome(NameOf[Head(main).from]) /\ spc' = AfterMessage /\ msg' = msg
            \/ Farewell(NameOf[Head(main).from]) /\ spc' = AfterMessage /\ msg' = msg
            \/ /\ spc' = "forward" /\ msg' = Head(main) /\ Head(main).n # ExitText
               /\ UNCHANGED <<linked, num, slot>>
<1>1. spc = "receive" /\ main # <<>> /\ main' = Tail(main)
  BY DEF Receive
<1>2. Head(main) \in ClientMessage
  BY <1>1, HeadTailProperties DEF Typed
<1>3. Head(main).from \in Clients
  BY <1>2 DEF ClientMessage
<1>4. cmd # "gone"
  BY <1>1 DEF AtLabels
<1>5. QED
  BY <1>1, <1>2, <1>3, <1>4, NamesAssumption DEF Receive

LEMMA ReceiveTyped ==
  ASSUME Typed, AtLabels, SlotInv, Receive
  PROVE  Typed' /\ AtLabels'
<1>1. main' \in Seq(ClientMessage) /\ Len(main') <= QueueLen
  <2>1. main \in Seq(ClientMessage) /\ main # <<>> /\ main' = Tail(main) /\ Len(main) <= QueueLen
    BY DEF Receive, Typed
  <2>2. Len(main') = Len(main) - 1 /\ main' \in Seq(ClientMessage) /\ Len(main) \in Nat
    BY <2>1, HeadTailProperties, LenProperties
  <2>3. QED
    BY <2>1, <2>2, Sizes
<1>2. /\ linked' \in [Ids -> Nat] /\ num' \in 0 .. MaxClients
      /\ slot' \in [Slots -> {Free} \cup [queue : Queues, name : Ids]]
  <2>1. PICK id \in Ids : Welcome(id) \/ Farewell(id) \/ UNCHANGED <<linked, num, slot>>
    BY ReceiveIs
  <2>2. cmd # "gone"
    BY ReceiveIs
  <2>3. CASE UNCHANGED <<linked, num, slot>>
    BY <2>3 DEF Typed
  <2>4. CASE Farewell(id)
    <3>1. /\ linked' = [linked EXCEPT ![id] = NoQueue] /\ num' = num
          /\ slot' = [s \in Slots |-> IF s \in SlotsNamed(id) THEN Free ELSE slot[s]]
      BY <2>2, <2>4, FarewellIs
    <3>2. QED
      BY <3>1 DEF Typed, NoQueue
  <2>5. CASE Welcome(id) /\ ~UNCHANGED <<linked, num, slot>>
    <3>1. /\ num < MaxClients /\ num + 1 \in Queues /\ num' = num + 1
          /\ linked' = [linked EXCEPT ![id] = num + 1]
          /\ \E s \in Slots : slot' = [slot EXCEPT ![s] = [queue |-> num + 1, name |-> id]]
      BY <2>5, WelcomeIs
    <3>2. num + 1 \in Nat /\ num + 1 \in 0 .. MaxClients
      BY <3>1, Sizes DEF Typed
    <3>3. [queue |-> num + 1, name |-> id] \in [queue : Queues, name : Ids]
      BY <3>1
    <3>4. QED
      BY <3>1, <3>2, <3>3 DEF Typed
  <2>6. QED
    BY <2>1, <2>3, <2>4, <2>5
<1>3. spc' \in {"receive", "forward", "exiting"} /\ cmd' = cmd /\ cmd # "gone"
  BY ReceiveIs DEF AfterMessage
<1>4. msg' \in {<<>>} \cup ClientMessage
  BY ReceiveIs DEF Typed
<1>5. UNCHANGED <<mainLinked, queue, j, cmd, i, cpc, count, mine, kind, texts, got>>
  BY ReceiveIs DEF client
<1>6. Typed'
  BY <1>1, <1>2, <1>3, <1>4, <1>5 DEF Typed
<1>7. spc' = "forward" => msg' \in ClientMessage /\ msg'.n # ExitText
  BY ReceiveIs DEF AfterMessage
<1>8. AtLabels'
  BY <1>3, <1>5, <1>7 DEF AtLabels
<1>9. QED
  BY <1>6, <1>8

LEMMA ForwardTyped ==
  ASSUME Typed, AtLabels, Forward
  PROVE  Typed' /\ AtLabels'
<1>1. /\ spc = "forward" /\ msg \in ClientMessage /\ msg.n # ExitText
      /\ UNCHANGED <<linked, mainLinked, main, num, slot, cmd, i, cpc, count, mine, kind, texts, got>>
  BY DEF Forward, AtLabels, client
<1>2. queue' \in [Queues -> Seq(Delivery)] /\ \A q \in Queues : Len(queue'[q]) <= QueueLen
  <2>1. CASE UNCHANGED queue
    BY <2>1 DEF Typed
  <2>2. CASE ToOthers(j) /\ HasRoom(slot[j].queue)
             /\ queue' = [queue EXCEPT ![slot[j].queue] = Append(@, [from |-> msg.from, n |-> msg.n])]
    <3>1. slot[j].queue \in Queues
      BY <2>2 DEF Typed, ToOthers, Used
    <3>2. [from |-> msg.from, n |-> msg.n] \in Delivery
      BY <1>1 DEF ClientMessage, Delivery
    <3>3. queue[slot[j].queue] \in Seq(Delivery) /\ Len(queue[slot[j].queue]) < QueueLen
      BY <2>2, <3>1 DEF Typed, HasRoom
    <3>4. LET new == Append(queue[slot[j].queue], [from |-> msg.from, n |-> msg.n])
          IN  new \in Seq(Delivery) /\ Len(new) <= QueueLen
      BY <3>2, <3>3, AppendProperties, LenProperties, Sizes
    <3>5. QED
      BY <2>2, <3>1, <3>4 DEF Typed
  <2>3. QED
    BY <2>1, <2>2 DEF Forward
<1>3. j' \in Slots
  <2>1. j \in 0 .. MaxClients - 1 /\ Advanced(j) = j + 1
    BY DEF Typed, Slots, Advanced
  <2>2. j' = 0 \/ (j' = j + 1 /\ j + 1 # MaxClients)
    BY <2>1 DEF Forward
  <2>3. QED
    BY <2>1, <2>2, Sizes DEF Slots
<1>4. \/ spc' = "forward" /\ msg' = msg
      \/ spc' \in {"receive", "exiting"} /\ msg' = <<>>
  BY DEF Forward, AfterMessage
<1>5. Typed'
  BY <1>1, <1>2, <1>3, <1>4 DEF Typed
<1>6. AtLabels'
  BY <1>1, <1>4 DEF AtLabels
<1>7. QED
  BY <1>5, <1>6

LEMMA CommandTyped ==
  ASSUME Typed, AtLabels, Command \/ Close \/ Unlink \/ SecondExit
  PROVE  Typed' /\ AtLabels'
<1> USE DEF client, queues
<1>1. CASE Command
  <2>1. Typed'
    BY <1>1 DEF Command, Typed
  <2>2. 0 < MaxClients
    BY Sizes
  <2>3. QED
    BY <1>1, <2>1, <2>2 DEF Command, Typed, AtLabels
<1>2. CASE Close
  <2>1. /\ cmd = "closing" /\ i < MaxClients /\ i' = i + 1
        /\ cmd' = IF i' = MaxClients THEN "sleep" ELSE "closing"
        /\ UNCHANGED <<linked, mainLinked, main, num, slot, spc, msg, j, cpc, count, mine, kind, texts, got>>
    BY <1>2 DEF Close, AtLabels
  <2>2. i' \in 0 .. MaxClients /\ (i' # MaxClients => i' < MaxClients)
    BY <2>1, Sizes DEF Typed
  <2>3. queue' \in [Queues -> Seq(Delivery)] /\ \A q \in Queues : Len(queue'[q]) <= QueueLen
    <3>1. CASE UNCHANGED queue
      BY <3>1 DEF Typed
    <3>2. CASE Used(i) /\ HasRoom(slot[i].queue)
               /\ queue' = [queue EXCEPT ![slot[i].queue] = Append(@, [n |-> ExitText])]
      <4>1. i \in Slots
        BY <2>1, Sizes DEF Typed, Slots
      <4>2. slot[i].queue \in Queues
        BY <3>2, <4>1 DEF Typed, Used
      <4>3. [n |-> ExitText] \in Delivery
        BY DEF Delivery
      <4>4. queue[slot[i].queue] \in Seq(Delivery) /\ Len(queue[slot[i].queue]) < QueueLen
        BY <3>2, <4>2 DEF Typed, HasRoom
      <4>5. LET new == Append(queue[slot[i].queue], [n |-> ExitText])
            IN  new \in Seq(Delivery) /\ Len(new) <= QueueLen
        BY <4>3, <4>4, AppendProperties, LenProperties, Sizes
      <4>6. QED
        BY <3>2, <4>2, <4>5 DEF Typed
    <3>3. QED
      BY <1>2, <3>1, <3>2 DEF Close
  <2>4. Typed'
    BY <2>1, <2>2, <2>3 DEF Typed
  <2>5. AtLabels'
    BY <2>1, <2>2 DEF AtLabels
  <2>6. QED
    BY <2>4, <2>5
<1>3. CASE Unlink
  <2>1. linked' \in [Ids -> Nat]
    BY <1>3 DEF Unlink, Typed, NoQueue
  <2>2. QED
    BY <1>3, <2>1 DEF Unlink, MainNameGone, Typed, AtLabels
<1>4. CASE SecondExit
  BY <1>4 DEF SecondExit, Typed, AtLabels
<1>5. QED
  BY <1>1, <1>2, <1>3, <1>4

(* A message is appended to the main queue.                                *)
LEMMA PostTyped ==
  ASSUME Typed, NEW m \in ClientMessage, Post(m)
  PROVE  main' = Append(main, m) /\ main' \in Seq(ClientMessage) /\ Len(main') <= QueueLen
<1>1. main' = Append(main, m) /\ main \in Seq(ClientMessage) /\ Len(main) < QueueLen
  BY DEF Post, Typed
<1>2. QED
  BY <1>1, AppendProperties, LenProperties, Sizes

LEMMA ClientTyped ==
  ASSUME Typed, AtLabels, SlotInv, NEW c \in Clients, ClientNext(c)
  PROVE  Typed' /\ AtLabels'
<1> USE DEF client, queues, server
<1>1. CASE Start(c)
  <2>1. Typed'
    BY <1>1 DEF Start, Typed
  <2>2. AtLabels'
    BY <1>1 DEF Start, Typed, AtLabels
  <2>3. QED
    BY <2>1, <2>2
<1>2. CASE SendInit(c)
  <2>1. [kind |-> "init", from |-> c, n |-> 0] \in ClientMessage
    BY DEF ClientMessage
  <2>2. main' \in Seq(ClientMessage) /\ Len(main') <= QueueLen
    BY <1>2, <2>1, PostTyped DEF SendInit
  <2>3. Typed'
    BY <1>2, <2>2 DEF SendInit, Typed
  <2>4. 0 < Polls
    BY Sizes
  <2>5. AtLabels'
    BY <1>2, <2>4 DEF SendInit, Typed, AtLabels
  <2>6. QED
    BY <2>3, <2>5
<1>3. CASE Poll(c)
  <2>1. cpc[c] = "poll" /\ UNCHANGED <<queues, server, texts, got>>
    BY <1>3 DEF Poll
  <2>2. NameOf[c] \in Ids
    BY NamesAssumption
  <2>3. CASE linked[NameOf[c]] # NoQueue
    <3>1. /\ mine' = [mine EXCEPT ![c] = linked[NameOf[c]]] /\ cpc' = [cpc EXCEPT ![c] = "on"]
          /\ count' = count /\ \E t \in {"init", "text"} : kind' = [kind EXCEPT ![c] = t]
      BY <1>3, <2>3 DEF Poll
    <3>2. Typed'
      BY <2>1, <2>2, <3>1 DEF Typed
    <3>3. AtLabels'
      BY <2>1, <2>3, <3>1 DEF Typed, AtLabels
    <3>4. QED
      BY <3>2, <3>3
  <2>4. CASE linked[NameOf[c]] = NoQueue
    <3>1. /\ count' = [count EXCEPT ![c] = @ + 1] /\ mine' = mine /\ kind' = kind
          /\ cpc' = [cpc EXCEPT ![c] = IF count'[c] = Polls THEN "gone" ELSE "poll"]
      BY <1>3, <2>4 DEF Poll
    <3>2. count[c] < Polls /\ count[c] \in Nat /\ mine[c] = NoQueue
      BY <2>1 DEF Typed, AtLabels
    <3>3. count'[c] = count[c] + 1 /\ count[c] + 1 <= Polls
      BY <3>1, <3>2, Sizes DEF Typed
    <3>4. Typed'
      BY <2>1, <3>1, <3>3 DEF Typed
    <3>5. AtLabels'
      BY <2>1, <3>1, <3>2, <3>3, Sizes DEF Typed, AtLabels
    <3>6. QED
      BY <3>4, <3>5
  <2>5. QED
    BY <2>3, <2>4
<1>4. CASE Write(c)
  <2>1. /\ texts[c] < MaxTexts[c] /\ texts' = [texts EXCEPT ![c] = @ + 1]
        /\ texts[c] \in Nat /\ kind[c] \in {"init", "text"}
    BY <1>4 DEF Write, Typed
  <2>2. [kind |-> kind[c], from |-> c, n |-> texts[c] + 1] \in ClientMessage
    BY <2>1 DEF ClientMessage
  <2>3. main' \in Seq(ClientMessage) /\ Len(main') <= QueueLen
    BY <1>4, <2>2, PostTyped DEF Write
  <2>4. texts' \in [Clients -> Nat] /\ \A d \in Clients : texts'[d] <= MaxTexts[d]
    <3>1. MaxTexts[c] \in Nat
      BY SizesAssumption
    <3>2. texts'[c] = texts[c] + 1 /\ texts[c] + 1 \in Nat /\ texts[c] + 1 <= MaxTexts[c]
      BY <2>1, <3>1 DEF Typed
    <3>3. QED
      BY <2>1, <3>2 DEF Typed
  <2>5. UNCHANGED <<linked, mainLinked, queue, server, cpc, count, mine, kind, got>>
    BY <1>4 DEF Write
  <2>6. QED
    BY <2>3, <2>4, <2>5 DEF Typed, AtLabels
<1>5. CASE Leave(c)
  <2>1. [kind |-> kind[c], from |-> c, n |-> ExitText] \in ClientMessage
    BY DEF ClientMessage, ExitText, Typed
  <2>2. main' \in Seq(ClientMessage) /\ Len(main') <= QueueLen
    BY <1>5, <2>1, PostTyped DEF Leave
  <2>3. Typed'
    BY <1>5, <2>2 DEF Leave, Typed
  <2>4. AtLabels'
    BY <1>5 DEF Leave, Typed, AtLabels
  <2>5. QED
    BY <2>3, <2>4
<1>6. CASE Show(c)
  <2> DEFINE q == mine[c]
  <2>1. /\ cpc[c] = "on" /\ queue[q] # <<>> /\ queue' = [queue EXCEPT ![q] = Tail(@)]
        /\ UNCHANGED <<linked, mainLinked, main, server, count, mine, kind, texts>>
        /\ \/ cpc' = [cpc EXCEPT ![c] = "gone"] /\ UNCHANGED got
           \/ /\ Head(queue[q]).n # ExitText /\ UNCHANGED cpc
              /\ got' = [got EXCEPT ![c] = Append(@, Head(queue[q]))]
    BY <1>6 DEF Show
  <2>2. q \in Queues
    <3>1. mine[c] # NoQueue /\ mine[c] <= num
      BY <2>1 DEF AtLabels, SlotInv
    <3>2. QED
      BY <3>1, Sizes DEF Typed, Queues, NoQueue
  <2>3. /\ Tail(queue[q]) \in Seq(Delivery) /\ Len(Tail(queue[q])) <= QueueLen
        /\ Head(queue[q]).n # ExitText => Head(queue[q]) \in Text
    <3>1. queue[q] \in Seq(Delivery) /\ Len(queue[q]) <= QueueLen
      BY <2>2 DEF Typed
    <3>2. Head(queue[q]) \in Delivery /\ Len(Tail(queue[q])) = Len(queue[q]) - 1
          /\ Tail(queue[q]) \in Seq(Delivery) /\ Len(queue[q]) \in Nat
      BY <2>1, <3>1, HeadTailProperties, LenProperties
    <3>3. QED
      BY <3>1, <3>2, Sizes DEF Delivery, Text, ExitText
  <2>4. queue' \in [Queues -> Seq(Delivery)] /\ \A r \in Queues : Len(queue'[r]) <= QueueLen
    BY <2>1, <2>2, <2>3 DEF Typed
  <2>5. got' \in [Clients -> Seq(Text)]
    <3>1. \A m \in Text : Append(got[c], m) \in Seq(Text)
      BY AppendProperties DEF Typed
    <3>2. QED
      BY <2>1, <2>3, <3>1 DEF Typed
  <2>6. Typed'
    BY <2>1, <2>4, <2>5 DEF Typed
  <2>7. AtLabels'
    BY <2>1 DEF Typed, AtLabels
  <2>8. QED
    BY <2>6, <2>7
<1>7. QED
  BY <1>1, <1>2, <1>3, <1>4, <1>5, <1>6 DEF ClientNext

-----------------------------------------------------------------------------
(* Slots, names and queues.                                                *)
LEMMA SlotsKept ==
  ASSUME Typed, SlotInv, UNCHANGED <<linked, num, slot, mine>>, cmd = "gone" => cmd' = "gone",
         \A q \in Queues : queue[q] = <<>> => queue'[q] = <<>> \/ q <= num
  PROVE  SlotInv'
<1>1. Taken' = Taken /\ \A id : SlotsNamed(id)' = SlotsNamed(id)
  BY DEF Taken, Used, SlotsNamed
<1>2. NamesMatchSlots'
  BY <1>1 DEF SlotInv, NamesMatchSlots
<1>3. \A q \in Queues : q > num' => queue'[q] = <<>>
  BY Sizes DEF SlotInv, Typed
<1>4. QED
  BY <1>1, <1>2, <1>3 DEF SlotInv

LEMMA WelcomeSlots ==
  ASSUME Typed, SlotInv, NEW id \in Ids, NEW s \in Slots, ~Used(s),
         num < MaxClients, num + 1 \in Queues, num' = num + 1, linked[id] = NoQueue,
         linked' = [linked EXCEPT ![id] = num + 1], cmd # "gone",
         slot' = [slot EXCEPT ![s] = [queue |-> num + 1, name |-> id]],
         UNCHANGED <<mine, queue, cmd>>
  PROVE  SlotInv'
<1> DEFINE new == [queue |-> num + 1, name |-> id]
<1>1. num \in Nat /\ num + 1 \in Nat /\ num + 1 # NoQueue
  BY DEF Typed, NoQueue
<1>2. slot'[s] = new /\ new # Free /\ \A t \in Slots : t # s => slot'[t] = slot[t]
  BY DEF Typed, Free
<1>3. Taken' = Taken \cup {s} /\ s \notin Taken
  BY <1>2 DEF Taken, Used
<1>4. Cardinality(Taken') <= num'
  <2>1. Cardinality(Taken \cup {s}) = Cardinality(Taken) + 1
    BY <1>3, TakenIsFinite, FS_AddElement
  <2>2. QED
    BY <1>1, <1>3, <2>1, TakenIsFinite DEF SlotInv
<1>5. \A t \in Taken : slot[t].queue <= num /\ slot[t].queue \in Nat
  BY DEF SlotInv, Typed, Taken, Used, Queues
<1>6. \A t \in Taken' : slot'[t].queue <= num'
  BY <1>1, <1>2, <1>3, <1>5 DEF Taken
<1>7. \A t, u \in Taken' : slot'[t].queue = slot'[u].queue => t = u
  BY <1>1, <1>2, <1>3, <1>5 DEF SlotInv, Taken
<1>8. SlotsNamed(id) = {} /\ SlotsNamed(id)' = {s} /\ slot'[s].queue = linked'[id]
  <2>1. SlotsNamed(id) = {}
    BY DEF SlotInv, NamesMatchSlots
  <2>2. SlotsNamed(id)' = {s}
    BY <1>2, <2>1 DEF SlotsNamed, Used
  <2>3. QED
    BY <1>2, <2>1, <2>2 DEF Typed
<1>9. \A x \in Ids : x # id => SlotsNamed(x)' = SlotsNamed(x) /\ linked'[x] = linked[x] /\ s \notin SlotsNamed(x)
  BY <1>2 DEF SlotsNamed, Used, Typed
<1>10. \A x \in Ids : linked'[x] # NoQueue =>
         \E t \in Slots : SlotsNamed(x)' = {t} /\ slot'[t].queue = linked'[x]
  <2> SUFFICES ASSUME NEW x \in Ids, linked'[x] # NoQueue
               PROVE  \E t \in Slots : SlotsNamed(x)' = {t} /\ slot'[t].queue = linked'[x]
    OBVIOUS
  <2>1. CASE x = id
    BY <2>1, <1>8
  <2>2. CASE x # id
    <3>1. PICK t \in Slots : SlotsNamed(x) = {t} /\ slot[t].queue = linked[x]
      BY <1>9, <2>2 DEF SlotInv
    <3>2. t # s
      BY <1>9, <2>2, <3>1
    <3>3. QED
      BY <1>2, <1>9, <2>2, <3>1, <3>2
  <2>3. QED
    BY <2>1, <2>2
<1>11. \A x \in Ids : linked'[x] = NoQueue => SlotsNamed(x)' = {}
  <2>1. \A x \in Ids : linked[x] = NoQueue => SlotsNamed(x) = {}
    BY DEF SlotInv, NamesMatchSlots
  <2>2. linked'[id] # NoQueue
    BY <1>1 DEF Typed
  <2>3. QED
    BY <2>1, <2>2, <1>9
<1>12. NamesMatchSlots'
  BY <1>10, <1>11 DEF NamesMatchSlots
<1>13. \A c \in Clients : mine'[c] <= num'
  BY <1>1 DEF SlotInv, Typed
<1>14. \A q \in Queues : q > num' => queue'[q] = <<>>
  BY <1>1, Sizes DEF SlotInv
<1>15. QED
  BY <1>4, <1>6, <1>7, <1>10, <1>12, <1>13, <1>14 DEF SlotInv

LEMMA FarewellSlots ==
  ASSUME Typed, SlotInv, NEW id \in Ids, linked' = [linked EXCEPT ![id] = NoQueue], num' = num,
         slot' = [s \in Slots |-> IF s \in SlotsNamed(id) THEN Free ELSE slot[s]],
         UNCHANGED <<mine, queue, cmd>>
  PROVE  SlotInv' /\ Taken' \subseteq Taken /\ \A t \in Taken' : slot'[t] = slot[t]
<1>1. Taken' \subseteq Taken /\ \A t \in Taken' : slot'[t] = slot[t]
  BY DEF Taken, Used
<1>2. Cardinality(Taken') <= num'
  <2>1. PICK taken : taken = Taken'
    OBVIOUS
  <2>2. Cardinality(taken) \in Nat /\ Cardinality(taken) <= Cardinality(Taken)
    BY <1>1, <2>1, TakenIsFinite, FS_Subset, FS_CardinalityType
  <2>3. num \in Nat /\ Cardinality(Taken) <= num /\ Cardinality(Taken) \in Nat
    BY TakenIsFinite DEF SlotInv, Typed
  <2>4. Cardinality(taken) <= num
    BY <2>2, <2>3
  <2>5. QED
    BY <2>1, <2>4
<1>3. SlotsNamed(id)' = {} /\ \A x \in Ids : x # id => SlotsNamed(x)' = SlotsNamed(x)
  BY DEF SlotsNamed, Used
<1>4. linked'[id] = NoQueue /\ \A x \in Ids : x # id => linked'[x] = linked[x]
  BY DEF Typed
<1>5. \A x \in Ids : linked'[x] # NoQueue =>
        \E t \in Slots : SlotsNamed(x)' = {t} /\ slot'[t].queue = linked'[x]
  <2> SUFFICES ASSUME NEW x \in Ids, linked'[x] # NoQueue
               PROVE  \E t \in Slots : SlotsNamed(x)' = {t} /\ slot'[t].queue = linked'[x]
    OBVIOUS
  <2>1. x # id /\ linked[x] # NoQueue /\ linked'[x] = linked[x]
    BY <1>4
  <2>2. PICK t \in Slots : SlotsNamed(x) = {t} /\ slot[t].queue = linked[x]
    BY <2>1 DEF SlotInv
  <2>3. t \notin SlotsNamed(id)
    BY <2>1, <2>2 DEF SlotsNamed
  <2>4. QED
    BY <1>3, <2>1, <2>2, <2>3
<1>6. NamesMatchSlots'
  <2>1. ASSUME cmd # "gone", NEW x \in Ids, linked'[x] = NoQueue PROVE SlotsNamed(x)' = {}
    BY <2>1, <1>3, <1>4 DEF SlotInv, NamesMatchSlots
  <2>2. QED
    BY <2>1, <1>5 DEF NamesMatchSlots
<1>7. /\ \A s \in Taken' : slot'[s].queue <= num'
      /\ \A s, t \in Taken' : slot'[s].queue = slot'[t].queue => s = t
  BY <1>1 DEF SlotInv
<1>8. /\ \A c \in Clients : mine'[c] <= num'
      /\ \A q \in Queues : q > num' => queue'[q] = <<>>
  BY DEF SlotInv
<1>9. QED
  BY <1>1, <1>2, <1>5, <1>6, <1>7, <1>8 DEF SlotInv

(* A message that is put into the queue of a slot, by the communicator or  *)
(* the exit handler, goes into a queue that exists.                        *)
LEMMA QueueExists ==
  ASSUME Typed, SlotInv, NEW s \in Taken
  PROVE  slot[s].queue \in Queues /\ slot[s].queue <= num
BY DEF SlotInv, Typed, Taken, Used

LEMMA SlotInvStep ==
  ASSUME Typed, AtLabels, SlotInv, [Next]_vars
  PROVE  SlotInv'
<1>1. CASE Receive
  <2>1. UNCHANGED <<mine, queue, cmd>> /\ cmd # "gone"
    BY <1>1, ReceiveIs DEF client
  <2>2. PICK id \in Ids : Welcome(id) \/ Farewell(id) \/ UNCHANGED <<linked, num, slot>>
    BY <1>1, ReceiveIs
  <2>3. CASE UNCHANGED <<linked, num, slot>>
    BY <2>1, <2>3, SlotsKept
  <2>4. CASE Farewell(id)
    BY <2>1, <2>4, FarewellIs, FarewellSlots
  <2>5. CASE Welcome(id) /\ ~UNCHANGED <<linked, num, slot>>
    BY <2>1, <2>5, WelcomeIs, WelcomeSlots
  <2>6. QED
    BY <2>2, <2>3, <2>4, <2>5
<1>2. CASE Forward
  <2>1. UNCHANGED <<linked, num, slot, mine, cmd>>
    BY <1>2 DEF Forward, client
  <2>2. UNCHANGED queue \/ (j \in Taken /\ \E m : queue' = [queue EXCEPT ![slot[j].queue] = m])
    BY <1>2 DEF Forward, ToOthers, Taken, Typed
  <2>3. \A q \in Queues : queue[q] = <<>> => queue'[q] = <<>> \/ q <= num
    BY <2>2, QueueExists DEF Typed
  <2>4. QED
    BY <2>1, <2>3, SlotsKept
<1>3. CASE Close
  <2>1. UNCHANGED <<linked, num, slot, mine>> /\ cmd = "closing"
    BY <1>3 DEF Close, client
  <2>2. i \in Slots
    BY <1>3, Sizes DEF Close, AtLabels, Typed, Slots
  <2>3. UNCHANGED queue \/ (i \in Taken /\ \E m : queue' = [queue EXCEPT ![slot[i].queue] = m])
    BY <1>3, <2>2 DEF Close, Taken
  <2>4. \A q \in Queues : queue[q] = <<>> => queue'[q] = <<>> \/ q <= num
    BY <2>3, QueueExists DEF Typed
  <2>5. QED
    BY <2>1, <2>4, SlotsKept
<1>4. CASE Command \/ SecondExit
  BY <1>4, SlotsKept DEF Command, SecondExit, queues, client
<1>5. CASE Unlink
  <2>1. /\ UNCHANGED <<queue, num, slot, mine>> /\ cmd = "sleep" /\ cmd' = "gone"
        /\ linked' = [id \in Ids |-> IF SlotsNamed(id) # {} THEN NoQueue ELSE linked[id]]
    BY <1>5 DEF Unlink, client
  <2>2. Taken' = Taken /\ \A id : SlotsNamed(id)' = SlotsNamed(id)
    BY <2>1 DEF Taken, Used, SlotsNamed
  <2>3. \A id \in Ids : linked'[id] # NoQueue => linked'[id] = linked[id]
    BY <2>1
  <2>4. NamesMatchSlots'
    BY <2>1 DEF NamesMatchSlots
  <2>5. QED
    BY <2>1, <2>2, <2>3, <2>4 DEF SlotInv
<1>6. ASSUME NEW c \in Clients, ClientNext(c) PROVE SlotInv'
  <2>1. UNCHANGED <<linked, num, slot, cmd>>
    BY <1>6 DEF ClientNext, Start, SendInit, Poll, Write, Leave, Show, queues, server
  <2>2. CASE Poll(c)
    <3>1. queue' = queue /\ NameOf[c] \in Ids
      BY <2>2, NamesAssumption DEF Poll, queues
    <3>2. mine' = mine \/ (linked[NameOf[c]] # NoQueue /\ mine' = [mine EXCEPT ![c] = linked[NameOf[c]]])
      BY <2>2 DEF Poll
    <3>3. \A id \in Ids : linked[id] # NoQueue => linked[id] <= num
      <4> SUFFICES ASSUME NEW id \in Ids, linked[id] # NoQueue PROVE linked[id] <= num
        OBVIOUS
      <4>1. PICK t \in Slots : SlotsNamed(id) = {t} /\ slot[t].queue = linked[id]
        BY DEF SlotInv
      <4>2. t \in Taken
        BY <4>1 DEF SlotsNamed, Taken
      <4>3. QED
        BY <4>1, <4>2 DEF SlotInv
    <3>4. \A d \in Clients : mine'[d] <= num'
      BY <2>1, <3>1, <3>2, <3>3 DEF SlotInv, Typed
    <3>5. Taken' = Taken /\ \A id : SlotsNamed(id)' = SlotsNamed(id)
      BY <2>1 DEF Taken, Used, SlotsNamed
    <3>6. NamesMatchSlots'
      BY <2>1, <3>5 DEF SlotInv, NamesMatchSlots
    <3>7. QED
      BY <2>1, <3>1, <3>4, <3>5, <3>6 DEF SlotInv
  <2>3. CASE Show(c)
    <3>1. mine' = mine /\ queue[mine[c]] # <<>> /\ queue' = [queue EXCEPT ![mine[c]] = Tail(@)]
      BY <2>3 DEF Show
    <3>2. \A q \in Queues : queue[q] = <<>> => queue'[q] = <<>>
      BY <3>1 DEF Typed
    <3>3. QED
      BY <2>1, <3>1, <3>2, SlotsKept
  <2>4. CASE Start(c) \/ SendInit(c) \/ Write(c) \/ Leave(c)
    <3>1. UNCHANGED <<queue, mine>>
      BY <2>4 DEF Start, SendInit, Write, Leave, queues
    <3>2. QED
      BY <2>1, <3>1, SlotsKept
  <2>5. QED
    BY <1>6, <2>2, <2>3, <2>4 DEF ClientNext
<1>7. CASE UNCHANGED vars
  BY <1>7, SlotsKept DEF vars, queues, server, client
<1>8. QED
  BY <1>1, <1>2, <1>3, <1>4, <1>5, <1>6, <1>7 DEF Next

-----------------------------------------------------------------------------
(* The exit handler leaves out at most the slot of the last INIT.          *)
LEMMA MissedInvStep ==
  ASSUME Typed, AtLabels, SlotInv, MissedInv, [Next]_vars
  PROVE  MissedInv'
<1>1. CASE Receive
  <2>1. /\ spc = "receive" /\ UNCHANGED <<cmd, i, told>>
        /\ \/ spc' = "forward" /\ UNCHANGED slot
           \/ cmd \in {"closing", "sleep"} => spc' = "exiting"
    BY <1>1, ReceiveIs DEF AfterMessage
  <2>2. PICK id \in Ids : \/ UNCHANGED slot /\ spc' = "forward"
                          \/ (Welcome(id) \/ Farewell(id)) /\ spc' = AfterMessage
    BY <1>1, ReceiveIs
  <2>3. cmd # "gone"
    BY <1>1, ReceiveIs
  <2> SUFFICES ASSUME cmd \in {"closing", "sleep"}
               PROVE  /\ spc' # "exiting" => Missed' = {}
                      /\ \E x \in Slots : Missed' \subseteq {x}
    BY <2>1 DEF MissedInv
  <2>4. Missed = {}
    BY <2>1 DEF MissedInv
  <2>5. CASE UNCHANGED slot
    BY <2>1, <2>4, <2>5, Sizes DEF Missed, Taken, Used
  <2>6. CASE Farewell(id) /\ spc' = AfterMessage
    <3>1. Taken' \subseteq Taken /\ \A t \in Taken' : slot'[t] = slot[t]
      BY <2>3, <2>6, FarewellIs DEF Taken, Used
    <3>2. QED
      BY <2>1, <2>4, <3>1, Sizes DEF Missed
  <2>7. CASE Welcome(id) /\ spc' = AfterMessage /\ ~UNCHANGED slot
    <3>1. PICK s \in Slots : slot' = [slot EXCEPT ![s] = [queue |-> num + 1, name |-> id]]
      BY <2>7, WelcomeIs
    <3>2. \A t \in Slots \ {s} : slot'[t] = slot[t]
      BY <3>1 DEF Typed
    <3>3. Missed' \subseteq {s}
      BY <2>1, <2>4, <3>2 DEF Missed, Taken, Used
    <3>4. spc' = "exiting"
      BY <2>7 DEF AfterMessage
    <3>5. QED
      BY <3>3, <3>4
  <2>8. QED
    BY <2>2, <2>5, <2>6, <2>7
<1>2. CASE Forward
  <2>1. UNCHANGED <<slot, cmd, i, told>> /\ spc = "forward"
    BY <1>2 DEF Forward
  <2>2. Missed' = Missed
    BY <2>1 DEF Missed, Taken, Used
  <2>3. QED
    BY <2>1, <2>2 DEF MissedInv
<1>3. CASE Command
  <2>1. i' = 0
    BY <1>3 DEF Command, AtLabels
  <2>2. \A s \in Slots : ~(s < 0)
    BY Sizes DEF Slots
  <2>3. Missed' = {}
    BY <2>1, <2>2 DEF Missed, Taken
  <2>4. QED
    BY <2>3, Sizes DEF MissedInv
<1>4. CASE Close
  <2>1. UNCHANGED <<slot, spc>> /\ cmd = "closing" /\ i' = i + 1 /\ i \in Nat
        /\ (Used(i) => told' = told \cup {slot[i].queue}) /\ (~Used(i) => told' = told)
    BY <1>4 DEF Close, Typed
  <2>2. \A s \in Slots : s < i + 1 => s < i \/ s = i
    BY <2>1, Sizes
  <2>3. Missed' \subseteq Missed
    BY <2>1, <2>2 DEF Missed, Taken, Used
  <2>4. QED
    BY <2>1, <2>3 DEF MissedInv
<1>5. CASE Unlink \/ SecondExit
  BY <1>5 DEF Unlink, SecondExit, MissedInv
<1>6. CASE UNCHANGED <<slot, spc, cmd, i, told>>
  <2>1. Missed' = Missed
    BY <1>6 DEF Missed, Taken, Used
  <2>2. QED
    BY <1>6, <2>1 DEF MissedInv
<1>7. ASSUME NEW c \in Clients, ClientNext(c) PROVE UNCHANGED <<slot, spc, cmd, i, told>>
  BY <1>7 DEF ClientNext, Start, SendInit, Poll, Write, Leave, Show, server
<1>8. QED
  BY <1>1, <1>2, <1>3, <1>4, <1>5, <1>6, <1>7 DEF Next, vars, server

-----------------------------------------------------------------------------
(* Texts that come into a queue, and out of it.                            *)
LEMMA TextsAppended ==
  ASSUME Typed, NEW q \in Queues, NEW m \in Delivery,
         queue' = [queue EXCEPT ![q] = Append(@, m)], NEW r \in Queues
  PROVE  /\ TextsIn(queue'[r]) \subseteq TextsIn(queue[r]) \cup (IF r = q /\ m.n # ExitText THEN {m} ELSE {})
         /\ InOrder(queue[r]) /\ (r = q /\ m.n # ExitText => \A x \in TextsIn(queue[r]) : x.from = m.from => x.n < m.n)
              => InOrder(queue'[r])
<1>1. CASE r # q
  <2>1. queue'[r] = queue[r]
    BY <1>1 DEF Typed
  <2>2. QED
    BY <1>1, <2>1 DEF TextsIn, InOrder
<1>2. CASE r = q
  <2> DEFINE old == queue[q]
             new == queue'[q]
  <2>1. new = Append(old, m) /\ old \in Seq(Delivery)
    BY DEF Typed
  <2>2. Len(old) \in Nat /\ Len(new) = Len(old) + 1 /\ new[Len(old) + 1] = m
        /\ \A x \in 1 .. Len(old) : new[x] = old[x]
    BY <2>1, AppendProperties, LenProperties
  <2> HIDE DEF old, new
  <2>3. \A x \in 1 .. Len(new) : x \in 1 .. Len(old) \/ x = Len(old) + 1
    BY <2>2
  <2>4. TextsIn(queue'[q]) \subseteq TextsIn(queue[q]) \cup (IF m.n # ExitText THEN {m} ELSE {})
    <3> SUFFICES ASSUME NEW x \in 1 .. Len(new), new[x].n # ExitText
                 PROVE  new[x] \in TextsIn(queue[q]) \/ (new[x] = m /\ m.n # ExitText)
      BY DEF TextsIn, new
    <3>1. CASE x \in 1 .. Len(old)
      BY <3>1, <2>2 DEF TextsIn, old
    <3>2. CASE x = Len(old) + 1
      BY <3>2, <2>2
    <3>3. QED
      BY <2>3, <3>1, <3>2
  <2>5. ASSUME InOrder(queue[q]), m.n # ExitText => \A x \in TextsIn(queue[q]) : x.from = m.from => x.n < m.n
        PROVE  InOrder(queue'[q])
    <3> SUFFICES ASSUME NEW a \in 1 .. Len(new), NEW b \in 1 .. Len(new), a < b,
                        new[a].n # ExitText, new[b].n # ExitText, new[a].from = new[b].from
                 PROVE  new[a].n < new[b].n
      BY DEF InOrder, new
    <3>1. a \in 1 .. Len(old) /\ new[a] = old[a]
      BY <2>2, <2>3
    <3>2. CASE b \in 1 .. Len(old)
      BY <3>1, <3>2, <2>2, <2>5 DEF InOrder, old
    <3>3. CASE b = Len(old) + 1
      <4>1. old[a] \in TextsIn(queue[q])
        BY <3>1 DEF TextsIn, old
      <4>2. QED
        BY <3>1, <3>3, <4>1, <2>2, <2>5
    <3>4. QED
      BY <2>3, <3>2, <3>3
  <2>6. QED
    BY <1>2, <2>4, <2>5
<1>3. QED
  BY <1>1, <1>2

LEMMA TextsTaken ==
  ASSUME Typed, NEW q \in Queues, queue[q] # <<>>,
         queue' = [queue EXCEPT ![q] = Tail(@)], NEW r \in Queues
  PROVE  /\ TextsIn(queue'[r]) \subseteq TextsIn(queue[r])
         /\ InOrder(queue[r]) => InOrder(queue'[r])
         /\ Head(queue[q]).n # ExitText => Head(queue[q]) \in TextsIn(queue[q]) /\ Head(queue[q]) \in Text
         /\ InOrder(queue[q]) /\ Head(queue[q]).n # ExitText =>
              \A m \in TextsIn(queue'[q]) : m.from = Head(queue[q]).from => Head(queue[q]).n < m.n
<1> DEFINE old == queue[q]
           new == queue'[q]
<1>1. new = Tail(old) /\ old \in Seq(Delivery) /\ old # <<>>
  BY DEF Typed
<1>2. /\ Len(old) \in Nat /\ Len(new) = Len(old) - 1 /\ Head(old) = old[1] /\ 1 \in 1 .. Len(old)
      /\ \A x \in 1 .. Len(new) : new[x] = old[x + 1] /\ x + 1 \in 1 .. Len(old) /\ 1 < x + 1
      /\ old[1] \in Delivery
  <2>1. /\ Len(old) \in Nat /\ Len(new) = Len(old) - 1 /\ Head(old) = old[1] /\ Len(old) # 0
        /\ \A x \in 1 .. Len(new) : new[x] = old[x + 1]
        /\ Head(old) \in Delivery
    <3>1. Len(old) \in Nat \ {0}
      BY <1>1, EmptySeq
    <3>2. Head(old) = old[1]
      BY <1>1, <3>1
    <3>3. /\ Len(new) = Len(old) - 1 /\ Head(old) \in Delivery
          /\ \A x \in 1 .. Len(new) : new[x] = old[x + 1]
      BY <1>1, HeadTailProperties
    <3>4. QED
      BY <3>1, <3>2, <3>3
  <2> HIDE DEF old, new
  <2>2. QED
    BY <2>1
<1> HIDE DEF old, new
<1>3. TextsIn(queue'[q]) \subseteq TextsIn(queue[q])
  BY <1>2 DEF TextsIn, old, new
<1>4. InOrder(queue[q]) => InOrder(queue'[q])
  <2> SUFFICES ASSUME InOrder(queue[q]), NEW a \in 1 .. Len(new), NEW b \in 1 .. Len(new), a < b,
                      new[a].n # ExitText, new[b].n # ExitText, new[a].from = new[b].from
               PROVE  new[a].n < new[b].n
    BY DEF InOrder, new
  <2>1. a + 1 < b + 1
    BY <1>2
  <2>2. QED
    BY <1>2, <2>1 DEF InOrder, old
<1>5. Head(old).n # ExitText => Head(old) \in TextsIn(queue[q]) /\ Head(old) \in Text
  BY <1>2 DEF TextsIn, old, Delivery, Text, ExitText
<1>6. ASSUME InOrder(queue[q]), Head(old).n # ExitText,
             NEW m \in TextsIn(queue'[q]), m.from = Head(old).from
      PROVE  Head(old).n < m.n
  <2>1. PICK x \in 1 .. Len(new) : m = new[x] /\ m.n # ExitText
    BY <1>6 DEF TextsIn, new
  <2>2. QED
    BY <1>2, <1>6, <2>1 DEF InOrder, old
<1>7. r # q => TextsIn(queue'[r]) = TextsIn(queue[r]) /\ InOrder(queue'[r]) = InOrder(queue[r])
  <2>1. r # q => queue'[r] = queue[r]
    BY DEF Typed
  <2>2. QED
    BY <2>1 DEF TextsIn, InOrder
<1>8. QED
  BY <1>3, <1>4, <1>5, <1>6, <1>7 DEF old

(* An opened queue is one the server has made.                             *)
LEMMA MineExists ==
  ASSUME Typed, SlotInv, NEW c \in Clients, mine[c] # NoQueue
  PROVE  mine[c] \in Queues
<1>1. mine[c] \in Nat /\ num \in Nat /\ mine[c] <= num /\ num <= MaxClients /\ mine[c] # 0
  BY Sizes DEF SlotInv, Typed, NoQueue
<1>2. QED
  BY <1>1, Sizes, SMT DEF Queues

-----------------------------------------------------------------------------
(* No text comes into a queue of its writer's name.                        *)
LEMMA NotOwnStep ==
  ASSUME Typed, AtLabels, SlotInv, NotOwn, [Next]_vars
  PROVE  NotOwn'
<1>1. CASE Receive
  <2>1. UNCHANGED <<queue, mine, got, cmd>> /\ cmd # "gone"
    BY <1>1, ReceiveIs DEF client
  <2>2. \A q : TextsIn(queue'[q]) = TextsIn(queue[q])
    BY <2>1 DEF TextsIn
  <2>3. PICK id \in Ids : Welcome(id) \/ Farewell(id) \/ UNCHANGED <<linked, num, slot>>
    BY <1>1, ReceiveIs
  <2>4. CASE Taken' \subseteq Taken /\ \A t \in Taken' : slot'[t] = slot[t]
    BY <2>1, <2>2, <2>4 DEF NotOwn
  <2>5. CASE UNCHANGED slot
    BY <2>4, <2>5 DEF Taken, Used
  <2>6. CASE Farewell(id)
    BY <2>1, <2>4, <2>6, FarewellIs DEF Taken, Used
  <2>7. CASE Welcome(id) /\ ~UNCHANGED <<linked, num, slot>>
    <3>1. PICK s \in Slots : slot' = [slot EXCEPT ![s] = [queue |-> num + 1, name |-> id]]
      BY <2>7, WelcomeIs
    <3>2. num \in Nat /\ num + 1 \in Queues /\ num + 1 > num
      BY <2>7, WelcomeIs DEF Typed
    <3>3. TextsIn(queue[num + 1]) = {}
      <4>1. queue[num + 1] = <<>>
        BY <3>2 DEF SlotInv
      <4>2. QED
        BY <4>1 DEF TextsIn
    <3>4. \A t \in Taken' : t # s => t \in Taken /\ slot'[t] = slot[t]
      BY <3>1 DEF Taken, Used, Typed
    <3>5. slot'[s].queue = num + 1 /\ slot'[s].name = id
      BY <3>1 DEF Typed
    <3>6. \A c \in Clients : mine[c] # num + 1
      BY <3>2 DEF SlotInv, Typed
    <3>7. \A t \in Taken' : \A m \in TextsIn(queue[slot'[t].queue]) : NameOf[m.from] # slot'[t].name
      BY <3>3, <3>4, <3>5 DEF NotOwn
    <3>8. \A c \in Clients : mine[c] # NoQueue =>
            \A t \in Taken' : slot'[t].queue = mine[c] => slot'[t].name = NameOf[c]
      BY <3>4, <3>5, <3>6 DEF NotOwn
    <3>9. QED
      BY <2>1, <2>2, <3>7, <3>8 DEF NotOwn
  <2>8. QED
    BY <2>3, <2>5, <2>6, <2>7
<1>2. CASE Forward
  <2>1. UNCHANGED <<slot, mine, got>> /\ spc = "forward" /\ msg \in ClientMessage /\ msg.n # ExitText
    BY <1>2 DEF Forward, client, AtLabels
  <2>2. Taken' = Taken
    BY <2>1 DEF Taken, Used
  <2>3. CASE UNCHANGED queue
    BY <2>1, <2>2, <2>3 DEF NotOwn
  <2>4. CASE ToOthers(j)
    <3> DEFINE q0 == slot[j].queue
               m0 == [from |-> msg.from, n |-> msg.n]
    <3>1. /\ j \in Taken /\ slot[j].name # NameOf[msg.from]
          /\ queue' = [queue EXCEPT ![q0] = Append(@, m0)]
      BY <1>2, <2>4 DEF Forward, ToOthers, Taken, Typed
    <3>2. q0 \in Queues /\ m0 \in Delivery
      BY <2>1, <3>1, QueueExists DEF ClientMessage, Delivery
    <3>3. \A r \in Queues : TextsIn(queue'[r]) \subseteq TextsIn(queue[r]) \cup (IF r = q0 THEN {m0} ELSE {})
      <4> HIDE DEF q0, m0
      <4>1. ASSUME NEW r \in Queues
            PROVE  TextsIn(queue'[r]) \subseteq
                     TextsIn(queue[r]) \cup (IF r = q0 /\ m0.n # ExitText THEN {m0} ELSE {})
        BY <3>1, <3>2, TextsAppended
      <4>2. QED
        BY <4>1
    <3>4. \A s \in Taken : slot[s].queue \in Queues /\ (slot[s].queue = q0 => s = j)
      BY <3>1, QueueExists DEF SlotInv
    <3>5. \A c \in Clients : mine[c] # NoQueue => mine[c] \in Queues
      BY MineExists
    <3>6. \A s \in Taken : \A m \in TextsIn(queue'[slot[s].queue]) : NameOf[m.from] # slot[s].name
      BY <3>1, <3>3, <3>4 DEF NotOwn
    <3>7. ASSUME NEW c \in Clients, mine[c] # NoQueue, NEW m \in TextsIn(queue'[mine[c]])
          PROVE  NameOf[m.from] # NameOf[c]
      <4>1. m \in TextsIn(queue[mine[c]]) \/ (mine[c] = q0 /\ m = m0)
        BY <3>3, <3>5, <3>7
      <4>2. mine[c] = q0 => slot[j].name = NameOf[c]
        BY <3>1, <3>7 DEF NotOwn
      <4>3. QED
        BY <3>1, <3>7, <4>1, <4>2 DEF NotOwn
    <3>8. \A s \in Taken' : \A m \in TextsIn(queue'[slot'[s].queue]) : NameOf[m.from] # slot'[s].name
      BY <2>1, <2>2, <3>6
    <3>9. \A c \in Clients : mine'[c] # NoQueue => \A m \in TextsIn(queue'[mine'[c]]) : NameOf[m.from] # NameOf[c]
      BY <2>1, <3>7
    <3>10. QED
      BY <2>1, <2>2, <3>8, <3>9 DEF NotOwn
  <2>5. QED
    BY <1>2, <2>3, <2>4 DEF Forward
<1>3. CASE UNCHANGED <<slot, mine, got>> /\ \A r \in Queues : TextsIn(queue'[r]) \subseteq TextsIn(queue[r])
  <2>1. Taken' = Taken
    BY <1>3 DEF Taken, Used
  <2>2. \A s \in Taken : slot[s].queue \in Queues
    BY QueueExists
  <2>3. \A c \in Clients : mine[c] # NoQueue => mine[c] \in Queues
    BY MineExists
  <2>4. \A s \in Taken : \A m \in TextsIn(queue'[slot[s].queue]) : NameOf[m.from] # slot[s].name
    BY <1>3, <2>2 DEF NotOwn
  <2>5. \A c \in Clients : mine[c] # NoQueue => \A m \in TextsIn(queue'[mine[c]]) : NameOf[m.from] # NameOf[c]
    BY <1>3, <2>3 DEF NotOwn
  <2>6. \A s \in Taken' : \A m \in TextsIn(queue'[slot'[s].queue]) : NameOf[m.from] # slot'[s].name
    BY <1>3, <2>1, <2>4
  <2>7. \A c \in Clients : mine'[c] # NoQueue => \A m \in TextsIn(queue'[mine'[c]]) : NameOf[m.from] # NameOf[c]
    BY <1>3, <2>5
  <2>8. QED
    BY <1>3, <2>1, <2>6, <2>7 DEF NotOwn
<1>4. CASE UNCHANGED <<slot, mine, got, queue>>
  BY <1>3, <1>4 DEF TextsIn
<1>5. CASE Close
  <2>1. UNCHANGED <<slot, mine, got>> /\ i \in Slots
    BY <1>5, Sizes DEF Close, client, AtLabels, Typed, Slots
  <2>2. CASE Used(i) /\ queue' = [queue EXCEPT ![slot[i].queue] = Append(@, [n |-> ExitText])]
    <3> DEFINE q0 == slot[i].queue
               m0 == [n |-> ExitText]
    <3>1. q0 \in Queues /\ m0 \in Delivery /\ m0.n = ExitText /\ queue' = [queue EXCEPT ![q0] = Append(@, m0)]
      BY <2>1, <2>2, QueueExists DEF Taken, Delivery
    <3>2. \A r \in Queues : TextsIn(queue'[r]) \subseteq TextsIn(queue[r])
      <4> HIDE DEF q0, m0
      <4>1. ASSUME NEW r \in Queues
            PROVE  TextsIn(queue'[r]) \subseteq
                     TextsIn(queue[r]) \cup (IF r = q0 /\ m0.n # ExitText THEN {m0} ELSE {})
        BY <3>1, TextsAppended
      <4>2. QED
        BY <3>1, <4>1
    <3>3. QED
      BY <1>3, <2>1, <3>2
  <2>3. QED
    BY <1>4, <1>5, <2>1, <2>2 DEF Close
<1>6. CASE Command \/ Unlink \/ SecondExit \/ UNCHANGED vars
  BY <1>4, <1>6 DEF Command, Unlink, SecondExit, vars, queues, client, server
<1>7. ASSUME NEW c \in Clients, ClientNext(c) PROVE NotOwn'
  <2>1. CASE Start(c) \/ SendInit(c) \/ Write(c) \/ Leave(c)
    BY <1>4, <2>1 DEF Start, SendInit, Write, Leave, queues, server
  <2>2. CASE Poll(c) /\ mine' = mine
    BY <1>4, <2>2 DEF Poll, queues, server
  <2>3. CASE Poll(c) /\ linked[NameOf[c]] # NoQueue /\ mine' = [mine EXCEPT ![c] = linked[NameOf[c]]]
    <3>1. UNCHANGED <<slot, got, queue>> /\ NameOf[c] \in Ids /\ got[c] = <<>>
      BY <2>3, NamesAssumption DEF Poll, queues, server, AtLabels
    <3>2. PICK t \in Slots : SlotsNamed(NameOf[c]) = {t} /\ slot[t].queue = linked[NameOf[c]]
      BY <2>3, <3>1 DEF SlotInv
    <3>3. t \in Taken /\ slot[t].name = NameOf[c] /\ slot[t].queue = mine'[c]
      BY <2>3, <3>2 DEF SlotsNamed, Taken, Typed
    <3>4. /\ \A s \in Taken : slot[s].queue = mine'[c] => slot[s].name = NameOf[c]
          /\ \A m \in TextsIn(queue[mine'[c]]) : NameOf[m.from] # NameOf[c]
      BY <3>3 DEF NotOwn, SlotInv
    <3>5. \A d \in Clients : d # c => mine'[d] = mine[d]
      BY <2>3 DEF Typed
    <3>6. Taken' = Taken /\ \A q : TextsIn(queue'[q]) = TextsIn(queue[q])
      BY <3>1 DEF Taken, Used, TextsIn
    <3>7. Len(got[c]) = 0
      BY <3>1
    <3>8. \A d \in Clients : mine'[d] # NoQueue =>
            /\ \A s \in Taken : slot[s].queue = mine'[d] => slot[s].name = NameOf[d]
            /\ \A m \in TextsIn(queue[mine'[d]]) : NameOf[m.from] # NameOf[d]
            /\ \A a \in 1 .. Len(got[d]) : NameOf[got[d][a].from] # NameOf[d]
      BY <3>4, <3>5, <3>7 DEF NotOwn
    <3>9. QED
      BY <3>1, <3>6, <3>8 DEF NotOwn
  <2>4. CASE Show(c)
    <3> DEFINE q == mine[c]
               m == Head(queue[q])
    <3>1. /\ q # NoQueue /\ queue[q] # <<>> /\ queue' = [queue EXCEPT ![q] = Tail(@)]
          /\ UNCHANGED <<slot, mine>>
          /\ got' = got \/ (m.n # ExitText /\ got' = [got EXCEPT ![c] = Append(@, m)])
      BY <2>4 DEF Show, server, AtLabels
    <3>2. q \in Queues
      BY <3>1, MineExists
    <3>3. \A r \in Queues : TextsIn(queue'[r]) \subseteq TextsIn(queue[r])
      BY <3>1, <3>2, TextsTaken
    <3>4. CASE got' = got
      BY <1>3, <3>1, <3>3, <3>4
    <3>5. CASE m.n # ExitText /\ got' = [got EXCEPT ![c] = Append(@, m)]
      <4>1. m \in TextsIn(queue[q]) /\ m \in Text
        BY <3>1, <3>2, <3>5, TextsTaken
      <4>2. NameOf[m.from] # NameOf[c]
        BY <3>1, <4>1 DEF NotOwn
      <4>3. ASSUME NEW d \in Clients, mine[d] # NoQueue, NEW a \in 1 .. Len(got'[d])
            PROVE  NameOf[got'[d][a].from] # NameOf[d]
        <5>1. CASE d # c
          <6>1. got'[d] = got[d]
            BY <3>5, <5>1 DEF Typed
          <6>2. QED
            BY <4>3, <6>1 DEF NotOwn
        <5>2. CASE d = c
          <6>1. got'[c] = Append(got[c], m) /\ got[c] \in Seq(Text)
            BY <3>5 DEF Typed
          <6>2. /\ Len(got[c]) \in Nat /\ Len(got'[c]) = Len(got[c]) + 1 /\ got'[c][Len(got[c]) + 1] = m
                /\ \A x \in 1 .. Len(got[c]) : got'[c][x] = got[c][x]
            BY <4>1, <6>1, AppendProperties, LenProperties
          <6>3. a \in 1 .. Len(got[c]) \/ a = Len(got[c]) + 1
            BY <4>3, <5>2, <6>2
          <6>4. QED
            BY <4>2, <4>3, <5>2, <6>2, <6>3 DEF NotOwn
        <5>3. QED
          BY <5>1, <5>2
      <4>4. Taken' = Taken
        BY <3>1 DEF Taken, Used
      <4>5. \A s \in Taken : slot[s].queue \in Queues
        BY QueueExists
      <4>6. \A d \in Clients : mine[d] # NoQueue => mine[d] \in Queues
        BY MineExists
      <4>7. \A s \in Taken : \A x \in TextsIn(queue'[slot[s].queue]) : NameOf[x.from] # slot[s].name
        BY <3>3, <4>5 DEF NotOwn
      <4>8. \A d \in Clients : mine[d] # NoQueue => \A x \in TextsIn(queue'[mine[d]]) : NameOf[x.from] # NameOf[d]
        BY <3>3, <4>6 DEF NotOwn
      <4>9. \A s \in Taken' : \A x \in TextsIn(queue'[slot'[s].queue]) : NameOf[x.from] # slot'[s].name
        BY <3>1, <4>4, <4>7
      <4>10. \A d \in Clients : mine'[d] # NoQueue => \A x \in TextsIn(queue'[mine'[d]]) : NameOf[x.from] # NameOf[d]
        BY <3>1, <4>8
      <4>11. QED
        BY <3>1, <4>3, <4>4, <4>9, <4>10 DEF NotOwn
    <3>6. QED
      BY <3>1, <3>4, <3>5
  <2>5. Poll(c) => mine' = mine \/ (linked[NameOf[c]] # NoQueue /\ mine' = [mine EXCEPT ![c] = linked[NameOf[c]]])
    BY DEF Poll
  <2>6. QED
    BY <1>7, <2>1, <2>2, <2>3, <2>4, <2>5 DEF ClientNext
<1>8. QED
  BY <1>1, <1>2, <1>5, <1>6, <1>7 DEF Next
-----------------------------------------------------------------------------
(* What a step does to the main queue and to the message in the            *)
(* communicator's hand: it takes one, a client writes a text, or sends     *)
(* something else, or the step is elsewhere.                               *)
Takes == /\ main # <<>> /\ main' = Tail(main) /\ texts' = texts /\ spc # "forward"
         /\ spc' = "forward" => msg' = Head(main) /\ Head(main).n # ExitText
Writes(m) == /\ main' = Append(main, m) /\ m.n = texts[m.from] + 1
             /\ texts' = [texts EXCEPT ![m.from] = @ + 1]
             /\ UNCHANGED <<spc, msg, j, slot>>
Sends(m) == /\ main' = Append(main, m) /\ m.n = ExitText
            /\ UNCHANGED <<texts, spc, msg, j, slot>>
Elsewhere == /\ UNCHANGED <<main, texts>>
             /\ spc' = "forward" => /\ UNCHANGED <<spc, msg, slot>>
                                    /\ j' \in {j, j + 1}

LEMMA HandStep ==
  ASSUME Typed, AtLabels, SlotInv, [Next]_vars
  PROVE  Takes \/ Elsewhere \/ \E m \in ClientMessage : Writes(m) \/ Sends(m)
<1>1. CASE Receive
  <2>1. Takes
    BY <1>1, ReceiveIs DEF Takes, client, AfterMessage
  <2>2. QED
    BY <2>1
<1>2. CASE Forward
  <2>1. Elsewhere
    BY <1>2 DEF Forward, Elsewhere, client, Advanced, AfterMessage
  <2>2. QED
    BY <2>1
<1>3. CASE Command \/ Close \/ Unlink \/ SecondExit
  <2>1. Elsewhere
    BY <1>3 DEF Command, Close, Unlink, SecondExit, Elsewhere, client, queues
  <2>2. QED
    BY <2>1
<1>4. CASE UNCHANGED vars
  BY <1>4 DEF vars, queues, server, client, Elsewhere
<1>5. ASSUME NEW c \in Clients, ClientNext(c)
      PROVE  Elsewhere \/ \E m \in ClientMessage : Writes(m) \/ Sends(m)
  <2>1. CASE Start(c) \/ Poll(c) \/ Show(c)
    BY <2>1 DEF Start, Poll, Show, queues, server, Elsewhere
  <2>2. CASE SendInit(c)
    <3> DEFINE m == [kind |-> "init", from |-> c, n |-> 0]
    <3>1. m \in ClientMessage /\ m.n = ExitText
      BY DEF ClientMessage, ExitText
    <3>2. main' = Append(main, m) /\ UNCHANGED <<texts, spc, msg, j, slot>>
      BY <2>2 DEF SendInit, Post, server
    <3>3. QED
      BY <3>1, <3>2 DEF Sends
  <2>3. CASE Leave(c)
    <3> DEFINE m == [kind |-> kind[c], from |-> c, n |-> ExitText]
    <3>1. m \in ClientMessage /\ m.n = ExitText
      BY DEF ClientMessage, ExitText, Typed
    <3>2. main' = Append(main, m) /\ UNCHANGED <<texts, spc, msg, j, slot>>
      BY <2>3 DEF Leave, Post, server
    <3>3. QED
      BY <3>1, <3>2 DEF Sends
  <2>4. CASE Write(c)
    <3> DEFINE m == [kind |-> kind[c], from |-> c, n |-> texts[c] + 1]
    <3>1. texts[c] + 1 \in Nat
      BY DEF Typed
    <3>2. m \in ClientMessage
      BY <3>1 DEF ClientMessage, Typed
    <3>3. main' = Append(main, m) /\ UNCHANGED <<spc, msg, j, slot>>
          /\ texts' = [texts EXCEPT ![c] = @ + 1]
      BY <2>4 DEF Write, Post, server
    <3>4. QED
      BY <3>2, <3>3 DEF Writes
  <2>5. QED
    BY <1>5, <2>1, <2>2, <2>3, <2>4 DEF ClientNext
<1>6. QED
  BY <1>1, <1>2, <1>3, <1>4, <1>5 DEF Next

(* The messages of the main queue when one is taken, or one is added.      *)
LEMMA MainTaken ==
  ASSUME Typed, main # <<>>, main' = Tail(main)
  PROVE  /\ Len(main) \in Nat /\ 1 \in 1 .. Len(main) /\ Head(main) = main[1]
         /\ \A a \in 1 .. Len(main') : /\ a + 1 \in 1 .. Len(main) /\ 1 < a + 1
                                       /\ main'[a] = main[a + 1]
<1>1. Len(main) \in Nat \ {0} /\ main \in Seq(ClientMessage)
  BY EmptySeq DEF Typed
<1>2. Head(main) = main[1]
  BY <1>1
<1>3. Len(main') = Len(main) - 1 /\ \A a \in 1 .. Len(main') : main'[a] = main[a + 1]
  BY <1>1, HeadTailProperties
<1>4. QED
  BY <1>1, <1>2, <1>3

LEMMA MainAdded ==
  ASSUME Typed, NEW m \in ClientMessage, main' = Append(main, m)
  PROVE  \A a \in 1 .. Len(main') :
           \/ a \in 1 .. Len(main) /\ main'[a] = main[a]
           \/ a = Len(main) + 1 /\ main'[a] = m /\ \A b \in 1 .. Len(main) : b < a
<1>1. Len(main) \in Nat /\ main \in Seq(ClientMessage)
  BY LenProperties DEF Typed
<1>2. /\ Len(main') = Len(main) + 1 /\ main'[Len(main) + 1] = m
      /\ \A a \in 1 .. Len(main) : main'[a] = main[a]
  BY <1>1, AppendProperties
<1>3. QED
  BY <1>1, <1>2

LEMMA MainTyped ==
  ASSUME Typed, NEW a \in 1 .. Len(main)
  PROVE  main[a] \in ClientMessage /\ main[a].from \in Clients /\ main[a].n \in Nat
<1>1. main[a] \in ClientMessage
  BY ElementOfSeq DEF Typed
<1>2. QED
  BY <1>1 DEF ClientMessage

(* What is behind the texts of the main queue stays behind them.           *)
LEMMA PastStep ==
  ASSUME Typed, AtLabels, SlotInv, [Next]_vars, NEW m \in Text, NEW q, Past(m, q)
  PROVE  Past(m, q)'
<1> DEFINE behind == \A a \in 1 .. Len(main) :
                       main[a].n # ExitText /\ main[a].from = m.from => m.n < main[a].n
           inHand == spc = "forward" /\ msg.from = m.from =>
                       \/ m.n < msg.n
                       \/ m.n = msg.n /\ \A s \in Taken : s >= j => slot[s].queue # q
<1>1. /\ m.n <= texts[m.from] /\ behind /\ inHand
      /\ m.from \in Clients /\ m.n \in Nat /\ texts[m.from] \in Nat
  BY DEF Past, Text, Typed
<1>2. CASE Takes
  <2>1. behind'
    BY <1>1, <1>2, MainTaken DEF Takes
  <2>2. inHand'
    BY <1>1, <1>2, MainTaken DEF Takes
  <2>3. QED
    BY <1>1, <1>2, <2>1, <2>2 DEF Takes, Past
<1>3. CASE Elsewhere
  <2>1. behind' /\ m.n <= texts'[m.from]
    BY <1>1, <1>3 DEF Elsewhere
  <2>2. inHand'
    <3> SUFFICES ASSUME spc' = "forward", msg'.from = m.from
                 PROVE  \/ m.n < msg'.n
                        \/ m.n = msg'.n /\ \A s \in Taken' : s >= j' => slot'[s].queue # q
      OBVIOUS
    <3>1. UNCHANGED <<spc, msg, slot>> /\ j' \in {j, j + 1}
      BY <1>3 DEF Elsewhere
    <3>2. Taken' = Taken
      BY <3>1 DEF Taken, Used
    <3>3. \A s \in Taken : s >= j' => s >= j
      BY <3>1, Sizes DEF Taken, Typed
    <3>4. QED
      BY <1>1, <3>1, <3>2, <3>3
  <2>3. QED
    BY <2>1, <2>2 DEF Past
<1>4. ASSUME NEW x \in ClientMessage, Writes(x) PROVE Past(m, q)'
  <2>1. UNCHANGED <<spc, msg, j, slot>> /\ x.n = texts[x.from] + 1 /\ x.from \in Clients
        /\ main' = Append(main, x) /\ texts' = [texts EXCEPT ![x.from] = @ + 1]
    BY <1>4 DEF Writes, ClientMessage
  <2>2. m.n <= texts'[m.from]
    BY <1>1, <2>1 DEF Typed
  <2>3. behind'
    <3> SUFFICES ASSUME NEW a \in 1 .. Len(main'), main'[a].n # ExitText, main'[a].from = m.from
                 PROVE  m.n < main'[a].n
      OBVIOUS
    <3>1. CASE a \in 1 .. Len(main) /\ main'[a] = main[a]
      BY <1>1, <3>1
    <3>2. CASE main'[a] = x
      BY <1>1, <2>1, <3>2
    <3>3. QED
      BY <2>1, <3>1, <3>2, MainAdded
  <2>4. inHand'
    BY <1>1, <2>1 DEF Taken, Used
  <2>5. QED
    BY <2>2, <2>3, <2>4 DEF Past
<1>5. ASSUME NEW x \in ClientMessage, Sends(x) PROVE Past(m, q)'
  <2>1. UNCHANGED <<spc, msg, j, slot>> /\ x.n = ExitText /\ main' = Append(main, x) /\ texts' = texts
    BY <1>5 DEF Sends
  <2>2. behind'
    BY <1>1, <2>1, MainAdded
  <2>3. inHand'
    BY <1>1, <2>1 DEF Taken, Used
  <2>4. QED
    BY <1>1, <2>1, <2>2, <2>3 DEF Past
<1>6. QED
  BY <1>2, <1>3, <1>4, <1>5, HandStep

(* The texts in the main queue and in hand stay in order.                  *)
LEMMA MainStep ==
  ASSUME Typed, AtLabels, SlotInv, MainInOrder, HandInOrder, [Next]_vars
  PROVE  MainInOrder' /\ HandInOrder'
<1> DEFINE text(a) == main[a].n # ExitText
<1>1. CASE Takes
  <2>1. /\ main # <<>> /\ main' = Tail(main) /\ texts' = texts
        /\ spc' = "forward" => msg' = main[1] /\ text(1)
    BY <1>1, MainTaken DEF Takes
  <2>2. ASSUME NEW a \in 1 .. Len(main'), main'[a].n # ExitText
        PROVE  /\ main'[a].n <= texts'[main'[a].from]
               /\ spc' = "forward" /\ main'[a].from = msg'.from => msg'.n < main'[a].n
               /\ \A b \in 1 .. Len(main') :
                    a < b /\ main'[b].n # ExitText /\ main'[a].from = main'[b].from => main'[a].n < main'[b].n
    <3>1. a + 1 \in 1 .. Len(main) /\ 1 < a + 1 /\ main'[a] = main[a + 1] /\ 1 \in 1 .. Len(main)
      BY <2>1, MainTaken
    <3>2. main'[a].n <= texts'[main'[a].from]
      BY <2>1, <2>2, <3>1 DEF MainInOrder
    <3>3. spc' = "forward" /\ main'[a].from = msg'.from => msg'.n < main'[a].n
      BY <2>1, <2>2, <3>1 DEF MainInOrder
    <3>4. ASSUME NEW b \in 1 .. Len(main'), a < b, main'[b].n # ExitText, main'[a].from = main'[b].from
          PROVE  main'[a].n < main'[b].n
      <4>1. b + 1 \in 1 .. Len(main) /\ main'[b] = main[b + 1] /\ a + 1 < b + 1
        BY <2>1, <3>4, MainTaken
      <4>2. QED
        BY <2>2, <3>1, <3>4, <4>1 DEF MainInOrder
    <3>5. QED
      BY <3>2, <3>3, <3>4
  <2>3. HandInOrder'
    <3>1. 1 \in 1 .. Len(main)
      BY <2>1, MainTaken
    <3>2. QED
      BY <2>1, <3>1 DEF HandInOrder, MainInOrder
  <2>4. QED
    BY <2>2, <2>3 DEF MainInOrder
<1>2. CASE Elsewhere
  BY <1>2 DEF Elsewhere, MainInOrder, HandInOrder
<1>3. ASSUME NEW x \in ClientMessage, Writes(x) PROVE MainInOrder' /\ HandInOrder'
  <2>1. UNCHANGED <<spc, msg>> /\ x.n = texts[x.from] + 1 /\ x.from \in Clients
        /\ main' = Append(main, x) /\ texts' = [texts EXCEPT ![x.from] = @ + 1]
    BY <1>3 DEF Writes, ClientMessage
  <2>2. \A c \in Clients : texts[c] \in Nat /\ texts'[c] \in Nat /\ texts[c] <= texts'[c]
    BY <2>1 DEF Typed
  <2>3. spc = "forward" => msg.from \in Clients /\ msg.n \in Nat
    BY DEF AtLabels, ClientMessage
  <2>4. HandInOrder'
    BY <2>1, <2>2, <2>3 DEF HandInOrder
  <2>5. ASSUME NEW a \in 1 .. Len(main'), main'[a].n # ExitText
        PROVE  /\ main'[a].n <= texts'[main'[a].from]
               /\ spc' = "forward" /\ main'[a].from = msg'.from => msg'.n < main'[a].n
               /\ \A b \in 1 .. Len(main') :
                    a < b /\ main'[b].n # ExitText /\ main'[a].from = main'[b].from => main'[a].n < main'[b].n
    <3>1. CASE a \in 1 .. Len(main) /\ main'[a] = main[a]
      <4>1. main[a].from \in Clients /\ main[a].n \in Nat /\ main[a].n <= texts[main[a].from]
        BY <2>5, <3>1, MainTyped DEF MainInOrder
      <4>2. main'[a].n <= texts'[main'[a].from]
        BY <2>2, <3>1, <4>1
      <4>3. spc' = "forward" /\ main'[a].from = msg'.from => msg'.n < main'[a].n
        BY <2>1, <2>5, <3>1 DEF MainInOrder
      <4>4. ASSUME NEW b \in 1 .. Len(main'), a < b, main'[b].n # ExitText, main'[a].from = main'[b].from
            PROVE  main'[a].n < main'[b].n
        <5>1. CASE b \in 1 .. Len(main) /\ main'[b] = main[b]
          BY <2>5, <3>1, <4>4, <5>1 DEF MainInOrder
        <5>2. CASE main'[b] = x
          BY <2>1, <2>2, <3>1, <4>1, <4>4, <5>2
        <5>3. QED
          BY <2>1, <5>1, <5>2, MainAdded
      <4>5. QED
        BY <4>2, <4>3, <4>4
    <3>2. CASE a = Len(main) + 1 /\ main'[a] = x
      <4>1. main'[a].n <= texts'[main'[a].from]
        BY <2>1, <2>2, <3>2 DEF Typed
      <4>2. spc' = "forward" /\ main'[a].from = msg'.from => msg'.n < main'[a].n
        BY <2>1, <2>2, <2>3, <3>2 DEF HandInOrder
      <4>3. \A b \in 1 .. Len(main') : ~(a < b)
        BY <2>1, <3>2, MainAdded, LenProperties DEF Typed
      <4>4. QED
        BY <4>1, <4>2, <4>3
    <3>3. QED
      BY <2>1, <3>1, <3>2, MainAdded
  <2>6. QED
    BY <2>4, <2>5 DEF MainInOrder
<1>4. ASSUME NEW x \in ClientMessage, Sends(x) PROVE MainInOrder' /\ HandInOrder'
  <2>1. UNCHANGED <<spc, msg, texts>> /\ x.n = ExitText /\ main' = Append(main, x)
    BY <1>4 DEF Sends
  <2>2. \A a \in 1 .. Len(main') : main'[a].n # ExitText => a \in 1 .. Len(main) /\ main'[a] = main[a]
    BY <2>1, MainAdded
  <2>3. QED
    BY <2>1, <2>2 DEF MainInOrder, HandInOrder
<1>5. QED
  BY <1>1, <1>2, <1>3, <1>4, HandStep
-----------------------------------------------------------------------------
(* The texts in the queues, and those printed, stay in order.              *)
QueuesInOrder == \A q \in Queues : InOrder(queue[q]) /\ \A m \in TextsIn(queue[q]) : Past(m, q)
AllGotInOrder == \A c \in Clients : mine[c] # NoQueue => GotInOrder(c)

LEMMA QueueTexts ==
  ASSUME Typed, NEW q \in Queues PROVE TextsIn(queue[q]) \subseteq Text
<1> DEFINE seq == queue[q]
<1>1. seq \in Seq(Delivery)
  BY DEF Typed
<1> HIDE DEF seq
<1>2. \A x \in 1 .. Len(seq) : seq[x] \in Delivery
  BY <1>1, ElementOfSeq
<1>3. \A x \in 1 .. Len(seq) : seq[x].n # ExitText => seq[x] \in Text
  BY <1>2 DEF Delivery, Text, ExitText
<1>4. QED
  BY <1>3 DEF TextsIn, seq

(* Nothing is added to a queue, by steps of most kinds.                    *)
LEMMA NothingAdded ==
  ASSUME Typed, AtLabels, SlotInv, QueuesInOrder, AllGotInOrder, [Next]_vars, UNCHANGED <<mine, got>>,
         \A r \in Queues : TextsIn(queue'[r]) \subseteq TextsIn(queue[r]) /\ InOrder(queue'[r])
  PROVE  QueuesInOrder' /\ AllGotInOrder'
<1>1. \A q : \A m \in Text : Past(m, q) => Past(m, q)'
  BY PastStep
<1>2. ASSUME NEW r \in Queues, NEW m \in TextsIn(queue'[r]) PROVE Past(m, r)'
  <2>1. m \in Text /\ Past(m, r)
    BY <1>2, QueueTexts DEF QueuesInOrder
  <2>2. QED
    BY <1>1, <2>1
<1>3. ASSUME NEW c \in Clients, mine[c] # NoQueue PROVE GotInOrder(c)'
  <2>1. GotInOrder(c) /\ mine[c] \in Queues /\ mine'[c] = mine[c] /\ got'[c] = got[c]
    BY <1>3, MineExists DEF AllGotInOrder
  <2>2. ASSUME NEW a \in 1 .. Len(got[c]) PROVE Past(got[c][a], mine[c])'
    <3>1. PICK g \in Text, q \in Queues : g = got[c][a] /\ q = mine[c]
      BY <2>1, ElementOfSeq DEF Typed
    <3>2. Past(g, q)'
      BY <1>1, <2>1, <3>1 DEF GotInOrder
    <3>3. g = got'[c][a] /\ q = mine'[c]
      BY <2>1, <3>1
    <3>4. QED
      BY <3>2, <3>3 DEF Past
  <2>3. \A a \in 1 .. Len(got[c]) :
          \A m \in TextsIn(queue'[mine[c]]) : m.from = got[c][a].from => got[c][a].n < m.n
    BY <2>1 DEF GotInOrder
  <2>4. QED
    BY <2>1, <2>2, <2>3 DEF GotInOrder
<1>4. QED
  BY <1>2, <1>3 DEF QueuesInOrder, AllGotInOrder

(* What has been put in the queue of the slot reached is older than the    *)
(* text in hand.                                                           *)
LEMMA BehindHand ==
  ASSUME Typed, spc = "forward", j \in Taken, NEW m \in Text, m.from = msg.from,
         Past(m, slot[j].queue)
  PROVE  m.n < msg.n
<1>1. j \in Nat /\ j >= j
  BY Sizes DEF Typed
<1>2. m.n < msg.n \/ (m.n = msg.n /\ \A s \in Taken : s >= j => slot[s].queue # slot[j].queue)
  BY DEF Past
<1>3. QED
  BY <1>1, <1>2

(* The communicator puts the text in hand into the queue of slot j.        *)
LEMMA ForwardOrder ==
  ASSUME Typed, AtLabels, SlotInv, MainInOrder, HandInOrder, QueuesInOrder, AllGotInOrder, Forward
  PROVE  QueuesInOrder' /\ AllGotInOrder'
<1>1. UNCHANGED <<mine, got, slot>> /\ spc = "forward" /\ msg \in ClientMessage /\ msg.n # ExitText
      /\ UNCHANGED <<main, texts>>
  BY DEF Forward, client, AtLabels
<1>2. \A q : \A m \in Text : Past(m, q) => Past(m, q)'
  BY PastStep DEF Next
<1>3. CASE UNCHANGED queue
  <2>1. \A r \in Queues : TextsIn(queue'[r]) \subseteq TextsIn(queue[r]) /\ InOrder(queue'[r])
    BY <1>3 DEF QueuesInOrder
  <2>2. QED
    BY <1>1, <2>1, NothingAdded DEF Next
<1>4. CASE ToOthers(j)
  <2>0. PICK q0 \in Queues, m0 \in Delivery :
          /\ q0 = slot[j].queue /\ m0 = [from |-> msg.from, n |-> msg.n]
          /\ j \in Taken /\ queue' = [queue EXCEPT ![q0] = Append(@, m0)]
    <3>1. [from |-> msg.from, n |-> msg.n] \in Delivery
      BY <1>1 DEF ClientMessage, Delivery
    <3>2. j \in Taken
      BY <1>4 DEF ToOthers, Taken, Typed
    <3>3. QED
      BY <1>4, <3>1, <3>2, QueueExists DEF Forward
  <2>1. j \in Taken /\ q0 = slot[j].queue /\ queue' = [queue EXCEPT ![q0] = Append(@, m0)]
    BY <2>0
  <2>2. m0 \in Text /\ m0.n = msg.n /\ m0.from = msg.from
    BY <1>1, <2>0 DEF ClientMessage, Text, ExitText
  <2>3. \A x \in Text : x.from = m0.from /\ Past(x, q0) => x.n < m0.n
    BY <1>1, <2>1, <2>2, BehindHand
  <2>4. Past(m0, q0)'
    <3>1. m0.n <= texts'[m0.from]
      BY <1>1, <2>2 DEF HandInOrder
    <3>2. \A a \in 1 .. Len(main') :
            main'[a].n # ExitText /\ main'[a].from = m0.from => m0.n < main'[a].n
      BY <1>1, <2>2 DEF MainInOrder
    <3>3. spc' = "forward" => m0.n = msg'.n /\ \A s \in Taken' : s >= j' => slot'[s].queue # q0
      <4> SUFFICES ASSUME spc' = "forward", NEW s \in Taken, s >= j'
                   PROVE  m0.n = msg'.n /\ slot[s].queue # q0
        <5>1. Taken' = Taken
          BY <1>1 DEF Taken, Used
        <5>2. spc' = "forward" => m0.n = msg'.n
          BY <1>1, <2>2 DEF Forward, AfterMessage
        <5>3. QED
          BY <1>1, <5>1, <5>2
      <4>1. msg' = msg /\ j' = j + 1
        BY DEF Forward, AfterMessage, Advanced
      <4>2. s # j
        BY <4>1, Sizes DEF Taken, Typed
      <4>3. QED
        BY <2>1, <2>2, <4>1, <4>2 DEF SlotInv
    <3>4. QED
      BY <3>1, <3>2, <3>3 DEF Past
  <2>5. ASSUME NEW r \in Queues
        PROVE  /\ TextsIn(queue'[r]) \subseteq TextsIn(queue[r]) \cup (IF r = q0 THEN {m0} ELSE {})
               /\ InOrder(queue'[r])
    <3>1. \A x \in TextsIn(queue[q0]) : x.from = m0.from => x.n < m0.n
      BY <2>2, <2>3, QueueTexts DEF QueuesInOrder
    <3>2. InOrder(queue[r])
      BY DEF QueuesInOrder
    <3>3. /\ TextsIn(queue'[r]) \subseteq TextsIn(queue[r]) \cup (IF r = q0 /\ m0.n # ExitText THEN {m0} ELSE {})
          /\ InOrder(queue[r]) /\ (r = q0 /\ m0.n # ExitText => \A x \in TextsIn(queue[r]) : x.from = m0.from => x.n < m0.n)
               => InOrder(queue'[r])
      BY <2>1, <2>2, TextsAppended
    <3>4. QED
      BY <3>1, <3>2, <3>3
  <2>6. QueuesInOrder'
    <3> SUFFICES ASSUME NEW r \in Queues, NEW m \in TextsIn(queue'[r]) PROVE Past(m, r)'
      BY <2>5 DEF QueuesInOrder
    <3>1. CASE m \in TextsIn(queue[r])
      BY <1>2, <3>1, QueueTexts DEF QueuesInOrder
    <3>2. CASE r = q0 /\ m = m0
      BY <2>4, <3>2
    <3>3. QED
      BY <2>5, <3>1, <3>2
  <2>7. AllGotInOrder'
    <3> SUFFICES ASSUME NEW c \in Clients, mine[c] # NoQueue PROVE GotInOrder(c)'
      BY <1>1 DEF AllGotInOrder
    <3>1. GotInOrder(c) /\ mine[c] \in Queues /\ mine'[c] = mine[c] /\ got'[c] = got[c]
      BY <1>1, MineExists DEF AllGotInOrder
    <3>2. \A a \in 1 .. Len(got[c]) : got[c][a] \in Text
      BY ElementOfSeq DEF Typed
    <3>3. ASSUME NEW a \in 1 .. Len(got[c])
          PROVE  Past(got[c][a], mine[c]) /\ Past(got[c][a], mine[c])'
      <4>1. PICK g \in Text, q \in Queues : g = got[c][a] /\ q = mine[c]
        BY <3>1, <3>2
      <4>2. Past(g, q) /\ Past(g, q)'
        BY <1>2, <3>1, <4>1 DEF GotInOrder
      <4>3. g = got'[c][a] /\ q = mine'[c]
        BY <3>1, <4>1
      <4>4. QED
        BY <4>1, <4>2, <4>3 DEF Past
    <3>4. ASSUME NEW a \in 1 .. Len(got[c]), NEW m \in TextsIn(queue'[mine[c]]), m.from = got[c][a].from
          PROVE  got[c][a].n < m.n
      <4>1. CASE m \in TextsIn(queue[mine[c]])
        BY <3>1, <3>4, <4>1 DEF GotInOrder
      <4>2. CASE mine[c] = q0 /\ m = m0
        BY <2>3, <3>2, <3>3, <3>4, <4>2
      <4>3. QED
        BY <2>5, <3>1, <4>1, <4>2
    <3>5. QED
      BY <1>1, <3>1, <3>3, <3>4 DEF GotInOrder
  <2>8. QED
    BY <2>6, <2>7
<1>5. QED
  BY <1>3, <1>4 DEF Forward

(* A receiver thread prints the first text of its queue.                   *)
LEMMA ShowOrder ==
  ASSUME Typed, AtLabels, SlotInv, QueuesInOrder, AllGotInOrder, NEW c \in Clients, Show(c)
  PROVE  QueuesInOrder' /\ AllGotInOrder'
<1>1. PICK q \in Queues : q = mine[c]
  <2>1. mine[c] # NoQueue
    BY DEF Show, AtLabels
  <2>2. QED
    BY <2>1, MineExists
<1>2. PICK m : m = Head(queue[q])
  OBVIOUS
<1>3. /\ queue[q] # <<>> /\ queue' = [queue EXCEPT ![q] = Tail(@)] /\ mine' = mine
      /\ got' = got \/ (m.n # ExitText /\ got' = [got EXCEPT ![c] = Append(@, m)])
  BY <1>1, <1>2 DEF Show
<1>4. ASSUME NEW r \in Queues
      PROVE  TextsIn(queue'[r]) \subseteq TextsIn(queue[r]) /\ InOrder(queue'[r])
  BY <1>3, TextsTaken DEF QueuesInOrder
<1>5. [Next]_vars
  BY DEF Next, ClientNext
<1>6. CASE got' = got
  BY <1>3, <1>4, <1>5, <1>6, NothingAdded
<1>7. CASE m.n # ExitText /\ got' = [got EXCEPT ![c] = Append(@, m)]
  <2>1. \A p : \A x \in Text : Past(x, p) => Past(x, p)'
    BY <1>5, PastStep
  <2>2. ASSUME NEW r \in Queues, NEW x \in TextsIn(queue'[r]) PROVE Past(x, r)'
    <3>1. x \in Text /\ Past(x, r)
      BY <1>4, <2>2, QueueTexts DEF QueuesInOrder
    <3>2. QED
      BY <2>1, <3>1
  <2>3. /\ m \in TextsIn(queue[q]) /\ m \in Text
        /\ \A x \in TextsIn(queue'[q]) : x.from = m.from => m.n < x.n
    BY <1>2, <1>3, <1>7, TextsTaken DEF QueuesInOrder
  <2>4. Past(m, q) /\ Past(m, q)'
    BY <2>1, <2>3 DEF QueuesInOrder
  <2>5. ASSUME NEW d \in Clients, mine[d] # NoQueue PROVE GotInOrder(d)'
    <3>1. GotInOrder(d) /\ mine[d] \in Queues /\ mine'[d] = mine[d]
      BY <1>3, <2>5, MineExists DEF AllGotInOrder
    <3>2. ASSUME NEW a \in 1 .. Len(got[d])
          PROVE  /\ got[d][a] \in Text
                 /\ \A x \in TextsIn(queue'[mine[d]]) : x.from = got[d][a].from => got[d][a].n < x.n
      BY <1>4, <3>1, ElementOfSeq DEF GotInOrder, Typed
    <3>3. ASSUME NEW a \in 1 .. Len(got[d]), got'[d][a] = got[d][a] PROVE Past(got[d][a], mine[d])'
      <4>1. PICK g \in Text, p \in Queues : g = got[d][a] /\ p = mine[d]
        BY <3>1, <3>2
      <4>2. Past(g, p)'
        BY <2>1, <3>1, <4>1 DEF GotInOrder
      <4>3. g = got'[d][a] /\ p = mine'[d]
        BY <3>1, <3>3, <4>1
      <4>4. QED
        BY <4>2, <4>3 DEF Past
    <3>4. CASE d # c
      <4>1. got'[d] = got[d]
        BY <1>7, <3>4 DEF Typed
      <4>2. QED
        BY <3>1, <3>2, <3>3, <4>1 DEF GotInOrder
    <3>5. CASE d = c
      <4>1. /\ Len(got[c]) \in Nat /\ Len(got'[c]) = Len(got[c]) + 1 /\ got'[c][Len(got[c]) + 1] = m
            /\ \A x \in 1 .. Len(got[c]) : got'[c][x] = got[c][x]
        <5>1. got'[c] = Append(got[c], m) /\ got[c] \in Seq(Text)
          BY <1>7 DEF Typed
        <5>2. QED
          BY <2>3, <5>1, AppendProperties, LenProperties
      <4>2. \A a \in 1 .. Len(got'[c]) : a \in 1 .. Len(got[c]) \/ a = Len(got[c]) + 1
        BY <4>1
      <4>3. ASSUME NEW a \in 1 .. Len(got'[c])
            PROVE  /\ Past(got[c][a], q)'
                   /\ \A x \in TextsIn(queue'[q]) : x.from = got'[c][a].from => got'[c][a].n < x.n
        <5>1. CASE a \in 1 .. Len(got[c])
          <6>1. got'[c][a] = got[c][a]
            BY <4>1, <5>1
          <6>2. Past(got[c][a], mine[c])'
            BY <3>3, <3>5, <5>1, <6>1
          <6>3. QED
            BY <1>1, <1>3, <3>2, <3>5, <5>1, <6>1, <6>2 DEF Past
        <5>2. CASE a = Len(got[c]) + 1
          <6>1. got'[c][a] = m
            BY <4>1, <5>2
          <6>2. QED
            BY <2>3, <2>4, <6>1 DEF Past
        <5>3. QED
          BY <4>2, <5>1, <5>2
      <4>4. Proper(got'[c])
        <5> SUFFICES ASSUME NEW a \in 1 .. Len(got'[c]), NEW b \in 1 .. Len(got'[c]), a < b,
                            got'[c][a].from = got'[c][b].from
                     PROVE  got'[c][a].n < got'[c][b].n
          BY DEF Proper
        <5>1. a \in 1 .. Len(got[c]) /\ got'[c][a] = got[c][a]
          BY <4>1, <4>2
        <5>2. CASE b \in 1 .. Len(got[c])
          BY <3>1, <3>5, <4>1, <5>1, <5>2 DEF GotInOrder, Proper
        <5>3. CASE b = Len(got[c]) + 1
          BY <1>1, <2>3, <3>1, <3>5, <4>1, <5>1, <5>3 DEF GotInOrder
        <5>4. QED
          BY <4>2, <5>2, <5>3
      <4>5. mine'[c] = q
        BY <1>1, <1>3
      <4>6. QED
        BY <3>5, <4>3, <4>4, <4>5 DEF GotInOrder, Past
    <3>6. QED
      BY <3>4, <3>5
  <2>6. QED
    BY <1>3, <1>4, <2>2, <2>5 DEF QueuesInOrder, AllGotInOrder
<1>8. QED
  BY <1>3, <1>6, <1>7

LEMMA OrderInvStep ==
  ASSUME Typed, AtLabels, SlotInv, OrderInv, [Next]_vars
  PROVE  OrderInv'
<1>1. MainInOrder /\ HandInOrder /\ QueuesInOrder /\ AllGotInOrder
  BY DEF OrderInv, QueuesInOrder, AllGotInOrder
<1> SUFFICES QueuesInOrder' /\ AllGotInOrder'
  BY <1>1, MainStep DEF OrderInv, QueuesInOrder, AllGotInOrder
<1>2. CASE UNCHANGED <<mine, got, queue>>
  <2>1. \A r \in Queues : TextsIn(queue'[r]) \subseteq TextsIn(queue[r]) /\ InOrder(queue'[r])
    BY <1>1, <1>2 DEF QueuesInOrder
  <2>2. QED
    BY <1>1, <1>2, <2>1, NothingAdded
<1>3. CASE Receive \/ Command \/ Unlink \/ SecondExit \/ UNCHANGED vars
  BY <1>2, <1>3 DEF Receive, Command, Unlink, SecondExit, vars, queues, client
<1>4. CASE Forward
  BY <1>1, <1>4, ForwardOrder
<1>5. CASE Close
  <2>1. UNCHANGED <<mine, got>> /\ i \in Slots
    BY <1>5, Sizes DEF Close, client, AtLabels, Typed, Slots
  <2>2. CASE Used(i)
    <3>1. PICK q0 \in Queues, m0 \in Delivery :
            m0.n = ExitText /\ queue' = [queue EXCEPT ![q0] = Append(@, m0)]
      <4>1. slot[i].queue \in Queues
        BY <2>1, <2>2, QueueExists DEF Taken
      <4>2. [n |-> ExitText] \in Delivery
        BY DEF Delivery
      <4>3. QED
        BY <1>5, <2>2, <4>1, <4>2 DEF Close
    <3>2. ASSUME NEW r \in Queues
          PROVE  TextsIn(queue'[r]) \subseteq TextsIn(queue[r]) /\ InOrder(queue'[r])
      <4>1. /\ TextsIn(queue'[r]) \subseteq TextsIn(queue[r]) \cup (IF r = q0 /\ m0.n # ExitText THEN {m0} ELSE {})
            /\ InOrder(queue[r]) /\ (r = q0 /\ m0.n # ExitText => \A x \in TextsIn(queue[r]) : x.from = m0.from => x.n < m0.n)
                 => InOrder(queue'[r])
        BY <3>1, TextsAppended
      <4>2. QED
        BY <1>1, <3>1, <4>1 DEF QueuesInOrder
    <3>3. QED
      BY <1>1, <2>1, <3>2, NothingAdded
  <2>3. QED
    BY <1>2, <1>5, <2>1, <2>2 DEF Close
<1>6. ASSUME NEW c \in Clients, ClientNext(c) PROVE QueuesInOrder' /\ AllGotInOrder'
  <2>1. CASE Start(c) \/ SendInit(c) \/ Write(c) \/ Leave(c)
    BY <1>2, <2>1 DEF Start, SendInit, Write, Leave, queues
  <2>2. CASE Show(c)
    BY <1>1, <2>2, ShowOrder
  <2>3. CASE Poll(c)
    <3>1. /\ UNCHANGED <<queue, got, main, texts, spc, msg, slot, j>> /\ got[c] = <<>>
          /\ \A d \in Clients : d # c => mine'[d] = mine[d]
      BY <2>3 DEF Poll, queues, server, AtLabels, Typed
    <3>2. QueuesInOrder'
      BY <1>1, <3>1 DEF QueuesInOrder, Past, Taken, Used
    <3>3. ASSUME NEW d \in Clients, mine'[d] # NoQueue PROVE GotInOrder(d)'
      <4>1. CASE d = c
        <5>1. Len(got'[c]) = 0
          BY <3>1
        <5>2. QED
          BY <4>1, <5>1 DEF GotInOrder, Proper
      <4>2. CASE d # c
        <5>1. GotInOrder(d) /\ mine'[d] = mine[d]
          BY <1>1, <3>1, <3>3, <4>2 DEF AllGotInOrder
        <5>2. QED
          BY <3>1, <5>1 DEF GotInOrder, Past, Taken, Used
      <4>3. QED
        BY <4>1, <4>2
    <3>4. QED
      BY <3>2, <3>3 DEF AllGotInOrder
  <2>4. QED
    BY <1>6, <2>1, <2>2, <2>3 DEF ClientNext
<1>7. QED
  BY <1>3, <1>4, <1>5, <1>6 DEF Next

-----------------------------------------------------------------------------
LEMMA InitIInv == Init => IInv
<1> SUFFICES ASSUME Init PROVE IInv
  OBVIOUS
<1>1. /\ linked = [id \in Ids |-> 0] /\ main = <<>> /\ queue = [q \in Queues |-> <<>>] /\ num = 0
      /\ slot = [s \in Slots |-> Free] /\ spc = "receive" /\ msg = <<>> /\ j = 0 /\ cmd = "wait" /\ i = 0
      /\ mine = [c \in Clients |-> 0] /\ texts = [c \in Clients |-> 0] /\ got = [c \in Clients |-> <<>>]
  BY DEF Init, NoQueue
<1>2. Len(<<>>) = 0 /\ \A S : <<>> \in Seq(S)
  OBVIOUS
<1>3. Typed
  <2>1. \A c \in Clients : 0 <= MaxTexts[c]
    BY SizesAssumption
  <2>2. /\ main \in Seq(ClientMessage) /\ Len(main) <= QueueLen
        /\ queue \in [Queues -> Seq(Delivery)] /\ \A q \in Queues : Len(queue[q]) <= QueueLen
        /\ got \in [Clients -> Seq(Text)]
    BY <1>1, <1>2, Sizes
  <2>3. QED
    BY <1>1, <2>1, <2>2, Sizes DEF Init, Typed
<1>4. AtLabels
  BY <1>1, Sizes DEF Init, AtLabels, NoQueue
<1>5. Taken = {}
  BY <1>1 DEF Taken, Used
<1>6. SlotInv
  <2>1. Cardinality(Taken) = 0
    BY <1>5, FS_EmptySet
  <2>2. \A id \in Ids : SlotsNamed(id) = {}
    BY <1>1 DEF SlotsNamed, Used
  <2>3. QED
    BY <1>1, <1>5, <2>1, <2>2 DEF SlotInv, NamesMatchSlots, NoQueue
<1>7. MissedInv
  BY <1>1 DEF MissedInv
<1>8. NotOwn
  BY <1>1, <1>5 DEF NotOwn, NoQueue
<1>9. OrderInv
  <2>1. \A q \in Queues : Len(queue[q]) = 0
    BY <1>1, <1>2
  <2>2. \A q \in Queues : InOrder(queue[q]) /\ TextsIn(queue[q]) = {}
    BY <2>1 DEF InOrder, TextsIn
  <2>3. MainInOrder
    BY <1>1, <1>2 DEF MainInOrder
  <2>4. QED
    BY <1>1, <2>2, <2>3 DEF OrderInv, HandInOrder, NoQueue
<1>10. QED
  BY <1>3, <1>4, <1>6, <1>7, <1>8, <1>9 DEF IInv

LEMMA TypedStep ==
  ASSUME Typed, AtLabels, SlotInv, [Next]_vars
  PROVE  Typed' /\ AtLabels'
<1>1. CASE UNCHANGED vars
  BY <1>1 DEF vars, queues, server, client, Typed, AtLabels
<1>2. QED
  BY <1>1, ReceiveTyped, ForwardTyped, CommandTyped, ClientTyped DEF Next

LEMMA NextIInv == IInv /\ [Next]_vars => IInv'
BY TypedStep, SlotInvStep, MissedInvStep, NotOwnStep, OrderInvStep DEF IInv

(* What the invariant says of the promises of the chat.                    *)
LEMMA InvIsEnough == IInv => ChatSound
<1> SUFFICES ASSUME IInv PROVE ChatSound
  OBVIOUS
<1>1. Typed /\ AtLabels /\ SlotInv /\ MissedInv /\ NotOwn /\ OrderInv
  BY DEF IInv
<1>2. TypeOK
  <2>1. linked \in [Ids -> {NoQueue} \cup Queues]
    <3>1. \A id \in Ids : linked[id] # NoQueue => linked[id] \in Queues
      BY <1>1 DEF SlotInv, SlotsNamed, Typed, Used
    <3>2. QED
      BY <1>1, <3>1 DEF Typed
  <2>2. mine \in [Clients -> {NoQueue} \cup Queues]
    <3>1. \A c \in Clients : mine[c] # NoQueue => mine[c] \in Queues
      BY <1>1, MineExists
    <3>2. QED
      BY <1>1, <3>1 DEF Typed
  <2>3. \A c \in Clients : texts[c] \in 0 .. MaxTexts[c] /\ got[c] \in Seq(Delivery)
    <3>1. Text \subseteq Delivery
      BY DEF Text, Delivery
    <3>2. \A c \in Clients : got[c] \in Seq(Text)
      BY <1>1 DEF Typed
    <3>3. \A c \in Clients : got[c] \in Seq(Delivery)
      BY <3>1, <3>2
    <3>4. \A c \in Clients : texts[c] \in 0 .. MaxTexts[c]
      BY <1>1, SizesAssumption DEF Typed
    <3>5. QED
      BY <3>3, <3>4
  <2>4. j \in 0 .. MaxClients /\ count \in [Clients -> 0 .. Polls]
    BY <1>1, Sizes DEF Typed, Slots
  <2>5. QED
    BY <1>1, <2>1, <2>2, <2>3, <2>4 DEF Typed, TypeOK
<1>3. SearchEnds
  BY <1>1, FewTakenOneFree, TakenIsFinite, Sizes DEF SearchEnds, SlotInv, Typed
<1>4. TextsInOrder
  <2> SUFFICES ASSUME NEW c \in Clients
               PROVE  /\ Proper(got[c])
                      /\ \A a \in 1 .. Len(got[c]) : NameOf[got[c][a].from] # NameOf[c]
    BY DEF TextsInOrder
  <2>1. CASE mine[c] # NoQueue
    BY <1>1, <2>1 DEF NotOwn, OrderInv, GotInOrder
  <2>2. CASE mine[c] = NoQueue
    <3>1. Len(got[c]) = 0
      BY <1>1, <2>2 DEF AtLabels
    <3>2. QED
      BY <3>1 DEF Proper
  <2>3. QED
    BY <2>1, <2>2
<1>5. ShutdownMissesOne
  <2> SUFFICES ASSUME cmd = "sleep"
               PROVE  Cardinality({s \in Slots : Used(s) /\ slot[s].queue \notin told}) <= 1
    BY DEF ShutdownMissesOne
  <2>1. i = MaxClients /\ \A s \in Slots : s < i
    BY <1>1, Sizes DEF AtLabels, Slots
  <2>2. PICK x \in Slots : Missed \subseteq {x}
    BY <1>1 DEF MissedInv
  <2>3. {s \in Slots : Used(s) /\ slot[s].queue \notin told} \subseteq {x}
    BY <2>1, <2>2 DEF Missed, Taken
  <2>4. IsFiniteSet({x}) /\ Cardinality({x}) = 1
    BY FS_Singleton
  <2>5. QED
    BY <2>3, <2>4, FS_Subset
<1>6. QED
  BY <1>1, <1>2, <1>3, <1>4, <1>5 DEF ChatSound, SlotInv

(* For every number of clients, names, slots and messages, and for every   *)
(* order of commands, messages and time-outs: names and slots agree, there *)
(* is a slot for every queue still to be made, texts reach each client in  *)
(* the order of writing and never their own writer's name, and the exit    *)
(* handler leaves out one client at most.                                  *)
THEOREM ChatIsSound == Spec => []ChatSound
<1>1. Spec => []IInv
  BY InitIInv, NextIInv, PTL DEF Spec
<1>2. QED
  BY <1>1, InvIsEnough, PTL
=============================================================================
