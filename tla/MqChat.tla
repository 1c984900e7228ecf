------------------------------- MODULE MqChat -------------------------------
(***************************************************************************)
(* The chat over POSIX message queues of lab6/zad2.  The server's          *)
(* communicator thread takes every message from the main queue, answers an *)
(* INIT by making a queue under the client's name, and forwards texts to    *)
(* the queues in its slots; its command thread waits for "exit" and then   *)
(* runs the exit handler.  A client has a sender and a receiver thread.    *)
(*                                                                         *)
(* mq_send blocks on a full queue and mq_receive on an empty one.  A queue *)
(* lives on without its name while somebody has it open, so queues are     *)
(* numbered in the order of their creation.                                *)
(***************************************************************************)
EXTENDS Integers, Sequences, FiniteSets

CONSTANTS Clients,      \* client processes
          Ids,          \* the names they are started under
          NameOf,       \* each client's argument, not necessarily unique
          MaxClients,   \* MAX_CLIENTS
          QueueLen,     \* mq_maxmsg
          Polls,        \* how often a client looks for its queue
          MaxTexts      \* bound: how many texts each client writes

(* Every client has a name; the numbers count places, messages and looks.  *)
ASSUME NamesAssumption == NameOf \in [Clients -> Ids]
ASSUME SizesAssumption == /\ MaxClients \in Nat \ {0} /\ QueueLen \in Nat
                          /\ Polls \in Nat \ {0} /\ MaxTexts \in [Clients -> Nat]

Slots == 0 .. MaxClients - 1
Queues == 1 .. MaxClients           \* the server makes no more, see Welcome
NoQueue == 0
Free == [queue |-> NoQueue]
ExitText == 0                       \* "exit\n" of a client, "exit" of the server

VARIABLES linked,     \* the queue each name leads to
          mainLinked, \* the main queue has its name
          main,       \* messages in the main queue
          queue,      \* messages in each client queue
          num, slot,  \* num_clients; clients_queue_ids with client_names
          spc,        \* communicator: "receive", "forward", "exiting", "gone"
          msg, j,     \* in_msg_buf while it is forwarded, and the slot reached
          cmd, i,     \* command thread: "wait", "closing", "sleep", "gone"
          cpc,        \* client: "new", "init", "poll", "on", "gone"
          count,      \* polls made
          mine,       \* the queue a client has opened
          kind,       \* what msg_type of sender_loop happens to hold
          texts,      \* texts written
          got,        \* history: what each receiver thread has printed
          told        \* history: queues the exit handler has written to

queues == <<linked, mainLinked, main, queue>>
server == <<num, slot, spc, msg, j, cmd, i>>
client == <<cpc, count, mine, kind, texts, got>>
vars == <<queues, server, client, told>>

Init ==
  /\ linked = [id \in Ids |-> NoQueue] /\ mainLinked = TRUE
  /\ main = <<>> /\ queue = [q \in Queues |-> <<>>]
  /\ num = 0 /\ slot = [s \in Slots |-> Free]
  /\ spc = "receive" /\ msg = <<>> /\ j = 0
  /\ cmd = "wait" /\ i = 0
  /\ cpc = [c \in Clients |-> "new"]
  /\ count = [c \in Clients |-> 0]
  /\ mine = [c \in Clients |-> NoQueue]
  /\ kind = [c \in Clients |-> "text"]
  /\ texts = [c \in Clients |-> 0]
  /\ got = [c \in Clients |-> <<>>]
  /\ told = {}

Used(s) == slot[s] # Free
SlotsNamed(id) == {s \in Slots : Used(s) /\ slot[s].name = id}
Lowest(S) == CHOOSE s \in S : \A t \in S : s <= t
AlwaysRoom(q) == TRUE               \* planted defect: nothing blocks
HasRoom(q) == Len(queue[q]) < QueueLen

-----------------------------------------------------------------------------
(* The communicator thread.  It looks at run, which is TRUE until the exit *)
(* handler starts, only when it is done with a message.                    *)
RunNotSeen == "receive"               \* planted defect: while (1)
AfterMessage == IF cmd = "wait" THEN "receive" ELSE "exiting"

NotCounted == num                     \* planted defect: ++num_clients missing
Counted == num + 1

(* create_queue fails if the name is taken; nothing ever lowers num, so    *)
(* MaxClients queues are made in all.                                      *)
Welcome(id) ==
  IF num = MaxClients \/ linked[id] # NoQueue
  THEN UNCHANGED <<linked, num, slot>>
  ELSE LET s == Lowest({t \in Slots : ~Used(t)}) IN
       /\ num' = Counted
       /\ linked' = [linked EXCEPT ![id] = num + 1]
       /\ slot' = [slot EXCEPT ![s] = [queue |-> num + 1, name |-> id]]

NothingEmptied(id) == {}              \* planted defect: the slot keeps its queue
Emptied(id) == IF SlotsNamed(id) = {} THEN {} ELSE {Lowest(SlotsNamed(id))}

(* A client's "exit\n": the name goes, and the slot that holds it.         *)
Farewell(id) ==
  /\ linked' = [linked EXCEPT ![id] = NoQueue]
  /\ slot' = [s \in Slots |-> IF s \in Emptied(id) THEN Free ELSE slot[s]]
  /\ UNCHANGED num

Receive ==
  /\ spc = "receive"
  /\ main # <<>>
  /\ main' = Tail(main)
  /\ LET m == Head(main)  id == NameOf[m.from] IN
     \/ /\ m.kind = "init"
        /\ Welcome(id)
        /\ spc' = AfterMessage /\ UNCHANGED msg
     \/ /\ m.kind = "text" /\ m.n = ExitText
        /\ Farewell(id)
        /\ spc' = AfterMessage /\ UNCHANGED msg
     \/ /\ m.kind = "text" /\ m.n # ExitText
        /\ spc' = "forward" /\ msg' = m
        /\ UNCHANGED <<linked, num, slot>>
  /\ UNCHANGED <<mainLinked, queue, j, cmd, i, client, told>>

AdvancedWhenSent(s) ==                \* planted defect: skipping a slot forgets ++j
  IF Used(s) /\ slot[s].name # NameOf[msg.from] THEN s + 1 ELSE s
Advanced(s) == s + 1

ToEveryone(s) == Used(s)              \* planted defect: the name is not compared
ToOthers(s) == Used(s) /\ slot[s].name # NameOf[msg.from]

(* One turn of the loop over the slots, which may block in mq_send.        *)
Forward ==
  /\ spc = "forward"
  /\ IF ToOthers(j)
     THEN /\ HasRoom(slot[j].queue)
          /\ queue' = [queue EXCEPT ![slot[j].queue] = Append(@, [from |-> msg.from, n |-> msg.n])]
     ELSE UNCHANGED queue
  /\ IF Advanced(j) = MaxClients
     THEN j' = 0 /\ spc' = AfterMessage /\ msg' = <<>>
     ELSE j' = Advanced(j) /\ UNCHANGED <<spc, msg>>
  /\ UNCHANGED <<linked, mainLinked, main, num, slot, cmd, i, client, told>>

-----------------------------------------------------------------------------
(* The command thread reads "exit" and calls exit(), whose handler clears  *)
(* run and tells every client, again with a blocking mq_send.              *)
Command ==
  /\ cmd = "wait"
  /\ cmd' = "closing"
  /\ UNCHANGED <<queues, num, slot, spc, msg, j, i, client, told>>

Close ==
  /\ cmd = "closing"
  /\ IF Used(i)
     THEN /\ HasRoom(slot[i].queue)
          /\ queue' = [queue EXCEPT ![slot[i].queue] = Append(@, [n |-> ExitText])]
          /\ told' = told \cup {slot[i].queue}
     ELSE UNCHANGED <<queue, told>>
  /\ i' = i + 1
  /\ cmd' = IF i' = MaxClients THEN "sleep" ELSE "closing"
  /\ UNCHANGED <<linked, mainLinked, main, num, slot, spc, msg, j, client>>

MainNameGone == FALSE

(* After its sleep the handler removes the names, and the process ends.    *)
Unlink ==
  /\ cmd = "sleep"
  /\ mainLinked' = MainNameGone
  /\ linked' = [id \in Ids |-> IF SlotsNamed(id) # {} THEN NoQueue ELSE linked[id]]
  /\ cmd' = "gone" /\ spc' = "gone"
  /\ UNCHANGED <<main, queue, num, slot, msg, j, i, client, told>>

(* main() calls exit() as well when the communicator sees run cleared.     *)
(* Calling it while the handler runs is undefined: the C library may make  *)
(* it wait, or find no handler left and end the process at once.           *)
SecondExit ==
  /\ spc = "exiting"
  /\ cmd' = "gone" /\ spc' = "gone"
  /\ UNCHANGED <<queues, num, slot, msg, j, i, client, told>>

-----------------------------------------------------------------------------
(* A client looks whether its name is in use and opens the main queue.     *)
Start(c) ==
  /\ cpc[c] = "new"
  /\ cpc' = [cpc EXCEPT ![c] = IF linked[NameOf[c]] = NoQueue /\ mainLinked
                               THEN "init" ELSE "gone"]
  /\ UNCHANGED <<queues, server, count, mine, kind, texts, got, told>>

Post(m) == Len(main) < QueueLen /\ main' = Append(main, m)

SendInit(c) ==
  /\ cpc[c] = "init"
  /\ Post([kind |-> "init", from |-> c, n |-> 0])
  /\ cpc' = [cpc EXCEPT ![c] = "poll"]
  /\ UNCHANGED <<linked, mainLinked, queue, server, count, mine, kind, texts, got, told>>

(* Once a second; the queue found may be another client's of that name.    *)
(* The client's threads start, sender_loop with whatever is in msg_type.   *)
Poll(c) ==
  /\ cpc[c] = "poll"
  /\ IF linked[NameOf[c]] # NoQueue
     THEN /\ mine' = [mine EXCEPT ![c] = linked[NameOf[c]]]
          /\ cpc' = [cpc EXCEPT ![c] = "on"]
          /\ \E t \in {"init", "text"} : kind' = [kind EXCEPT ![c] = t]
          /\ UNCHANGED count
     ELSE /\ count' = [count EXCEPT ![c] = @ + 1]
          /\ cpc' = [cpc EXCEPT ![c] = IF count'[c] = Polls THEN "gone" ELSE "poll"]
          /\ UNCHANGED <<mine, kind>>
  /\ UNCHANGED <<queues, server, texts, got, told>>

Write(c) ==
  /\ cpc[c] = "on" /\ texts[c] < MaxTexts[c]
  /\ Post([kind |-> kind[c], from |-> c, n |-> texts[c] + 1])
  /\ texts' = [texts EXCEPT ![c] = @ + 1]
  /\ UNCHANGED <<linked, mainLinked, queue, server, cpc, count, mine, kind, got, told>>

(* The client ends as soon as its "exit\n" is in the main queue.           *)
Leave(c) ==
  /\ cpc[c] = "on"
  /\ Post([kind |-> kind[c], from |-> c, n |-> ExitText])
  /\ cpc' = [cpc EXCEPT ![c] = "gone"]
  /\ UNCHANGED <<linked, mainLinked, queue, server, count, mine, kind, texts, got, told>>

Show(c) ==
  /\ cpc[c] = "on" /\ queue[mine[c]] # <<>>
  /\ LET m == Head(queue[mine[c]]) IN
     IF m.n = ExitText
     THEN cpc' = [cpc EXCEPT ![c] = "gone"] /\ UNCHANGED got
     ELSE got' = [got EXCEPT ![c] = Append(@, m)] /\ UNCHANGED cpc
  /\ queue' = [queue EXCEPT ![mine[c]] = Tail(@)]
  /\ UNCHANGED <<linked, mainLinked, main, server, count, mine, kind, texts, told>>

ClientNext(c) == \/ Start(c) \/ SendInit(c) \/ Poll(c)
                 \/ Write(c) \/ Leave(c) \/ Show(c)

Next == \/ Receive \/ Forward \/ Command \/ Close \/ Unlink \/ SecondExit
        \/ \E c \in Clients : ClientNext(c)

(* Every thread runs.  Nobody need write, leave, or stop the server.       *)
Spec == /\ Init /\ [][Next]_vars
        /\ WF_vars(Receive) /\ WF_vars(Forward)
        /\ WF_vars(Close) /\ WF_vars(Unlink)
        /\ \A c \in Clients : WF_vars(SendInit(c)) /\ WF_vars(Poll(c)) /\ WF_vars(Show(c))

-----------------------------------------------------------------------------
ClientMessage == [kind : {"init", "text"}, from : Clients, n : Nat]
Delivery == [from : Clients, n : Nat] \cup [n : {ExitText}]

(* Types of the state of server, clients and queues.                       *)
TypeOK ==
  /\ linked \in [Ids -> {NoQueue} \cup Queues] /\ mainLinked \in BOOLEAN
  /\ main \in Seq(ClientMessage) /\ Len(main) <= QueueLen
  /\ \A q \in Queues : queue[q] \in Seq(Delivery) /\ Len(queue[q]) <= QueueLen
  /\ num \in 0 .. MaxClients
  /\ slot \in [Slots -> {Free} \cup [queue : Queues, name : Ids]]
  /\ spc \in {"receive", "forward", "exiting", "gone"}
  /\ msg \in {<<>>} \cup ClientMessage /\ j \in 0 .. MaxClients
  /\ cmd \in {"wait", "closing", "sleep", "gone"} /\ i \in 0 .. MaxClients
  /\ cpc \in [Clients -> {"new", "init", "poll", "on", "gone"}]
  /\ count \in [Clients -> 0 .. Polls]
  /\ mine \in [Clients -> {NoQueue} \cup Queues]
  /\ kind \in [Clients -> {"init", "text"}]
  /\ \A c \in Clients : texts[c] \in 0 .. MaxTexts[c] /\ got[c] \in Seq(Delivery)

(* While the server is up, a name leads to a queue exactly if one slot     *)
(* holds that queue under that name, however joining, leaving and texts    *)
(* mistaken for INIT follow each other.                                    *)
NamesMatchSlots ==
  cmd # "gone" =>
    \A id \in Ids :
      IF linked[id] = NoQueue
      THEN SlotsNamed(id) = {}
      ELSE \E s \in Slots : SlotsNamed(id) = {s} /\ slot[s].queue = linked[id]

(* The search for an empty slot has no bound: while a client can still be  *)
(* counted in there must be one.                                           *)
SearchEnds == num < MaxClients => \E s \in Slots : ~Used(s)

Proper(seq) == \A a, b \in 1 .. Len(seq) :
                 a < b /\ seq[a].from = seq[b].from => seq[a].n < seq[b].n

(* Whoever is printed by a client has another name, and the texts of one   *)
(* sender appear once each and in the order of writing, also when two      *)
(* clients of one name take from the same queue.                           *)
TextsInOrder == \A c \in Clients :
  /\ Proper(got[c])
  /\ \A a \in 1 .. Len(got[c]) : NameOf[got[c][a].from] # NameOf[c]

(* When the exit handler has told everybody, at most one client is left    *)
(* out: one whose INIT the communicator served meanwhile, for it looks at   *)
(* run after every message.                                                *)
ShutdownMissesOne ==
  cmd = "sleep" => Cardinality({s \in Slots : Used(s) /\ slot[s].queue \notin told}) <= 1

(* What the server and its clients hold to, in every order of commands,    *)
(* messages and time-outs: names and slots agree, the search for a slot    *)
(* ends, texts stay in order, and the shut-down forgets one client at most.*)
ChatSound == /\ TypeOK /\ NamesMatchSlots /\ SearchEnds
             /\ TextsInOrder /\ ShutdownMissesOne

(* A slot whose queue is full and read by nobody any more.                 *)
Unread(s) == /\ Used(s) /\ ~HasRoom(slot[s].queue)
             /\ \A c \in Clients : cpc[c] = "on" => mine[c] # slot[s].queue
SomeUnread == \E s \in Slots : Unread(s)

(* The communicator comes back from forwarding, and the exit handler gets  *)
(* to its end, unless a queue is full that nobody reads: its client left,  *)
(* or gave up, before the server heard of it, or said so in a message of   *)
(* the wrong type.                                                         *)
Sending == spc = "forward" \/ cmd = "closing"
ServerGoesOn == Sending ~> (~Sending \/ SomeUnread)
=============================================================================
