------------------------------ MODULE SysVChat ------------------------------
(***************************************************************************)
(* The chat of lab6/zad1 over System V message queues.                     *)
(*                                                                         *)
(* A client announces itself on the server's main queue and polls for a    *)
(* lock file named after its id; the server's accepting thread creates the *)
(* file and then a queue whose key is derived from the file, and puts the  *)
(* queue into a slot; the communicator thread polls the slots and forwards *)
(* every message to all other slots.  Both directions of a connection      *)
(* share one queue, told apart by the message type.                        *)
(*                                                                         *)
(* A key is the inode of a lock file: a file that is created again may get *)
(* the inode of one that was removed.  A queue is identified by the        *)
(* ordinal of its creation.  The module starts with the server running.    *)
(***************************************************************************)
EXTENDS Integers, Sequences, FiniteSets, SequencesExt

CONSTANTS Clients,       \* client processes
          Ids,           \* the identifiers clients are started with
          IdOf,          \* which client is started with which identifier
          Keys,          \* the inodes lock files can get
          MaxClients,    \* MAX_CLIENTS
          QueueCap,      \* messages a queue holds before msgsnd blocks
          MaxSend,       \* bound: how many texts each client sends
          Mortal,        \* clients that may be killed without their cleanup
          MayShutDown    \* whether "exit" is typed at the server

ASSUME IdsAssumption == IdOf \in [Clients -> Ids]
ASSUME SizesAssumption == /\ MaxClients \in Nat \ {0}
                          /\ QueueCap \in Nat \ {0}
                          /\ MaxSend \in [Clients -> Nat]
                          /\ Cardinality(Keys) >= Cardinality(Ids)
                          /\ IsFiniteSet(Clients)

NoKey == "no file"
BadKey == "no inode"          \* what ftok returns for a missing file
NoQueue == 0                  \* EMPTY_CLIENT_SLOT, and an unused key

MaxQueues == 2 * Cardinality(Clients)   \* each client brings about two at most
Queues == 1 .. MaxQueues
Slots == 1 .. MaxClients

VARIABLES files,       \* the lock files: the key of each, or NoKey
          queueOf,     \* the live queue under each key
          msgs,        \* the content of each queue
          created,     \* number of queues created so far
          mainQueue,   \* ids of the clients that announced themselves
          slots,       \* clients_queue_ids
          numClients,  \* num_clients
          acceptor,    \* client_accepting_function: pc and locals
          com,         \* enter_communicator_loop: pc and locals
          command,     \* enter_command_loop and cleanup: pc and local
          cpc,         \* where each client stands
          cq,          \* its client_queue_id
          sent,        \* history: texts it has sent
          seen         \* history: texts its receiver took, in order

kernel == <<files, queueOf, msgs, created, mainQueue>>
server == <<slots, numClients, acceptor, com, command>>
clients == <<cpc, cq, sent, seen>>
vars == <<kernel, server, clients>>

Text(c, n) == [to |-> "server", body |-> "text", from |-> c, n |-> n]
ExitTyped(c) == [to |-> "server", body |-> "exit", from |-> c, n |-> 0]
Forwarded(m) == [m EXCEPT !.to = "client"]
ServerExit == [to |-> "client", body |-> "exit", from |-> "server", n |-> 0]

Init ==
  /\ files = [i \in Ids |-> NoKey]
  /\ queueOf = [k \in Keys \cup {BadKey} |-> NoQueue]
  /\ msgs = [q \in Queues |-> <<>>]
  /\ created = 0
  /\ mainQueue = <<>>
  /\ slots = [s \in Slots |-> NoQueue]
  /\ numClients = 0
  /\ acceptor = [pc |-> "receive", id |-> NoKey, q |-> NoQueue]
  /\ com = [pc |-> "poll", i |-> 1, j |-> 1, msg |-> <<>>]
  /\ command = [pc |-> "read", k |-> 1, removed |-> FALSE]
  /\ cpc = [c \in Clients |-> "start"]
  /\ cq = [c \in Clients |-> NoQueue]
  /\ sent = [c \in Clients |-> 0]
  /\ seen = [c \in Clients |-> <<>>]

-----------------------------------------------------------------------------
(* The kernel's side of msgget, msgsnd, msgrcv and msgctl(IPC_RMID).       *)
Alive(q) == \E k \in DOMAIN queueOf : q # NoQueue /\ queueOf[k] = q

CreateQueue(k) ==
  /\ created < MaxQueues
  /\ created' = created + 1
  /\ queueOf' = [queueOf EXCEPT ![k] = created + 1]

(* msgsnd: waits while the queue is full, fails (ignored) once it is gone. *)
Send(q, m) ==
  IF Alive(q)
  THEN Len(msgs[q]) < QueueCap /\ msgs' = [msgs EXCEPT ![q] = Append(@, m)]
  ELSE UNCHANGED msgs

(* msgrcv takes the first message of the given type.                       *)
Mail(q, to) == {n \in DOMAIN msgs[q] : msgs[q][n].to = to}
FirstMail(q, to) == CHOOSE n \in Mail(q, to) : \A l \in Mail(q, to) : n <= l

RemoveQueue(q) == queueOf' = [k \in DOMAIN queueOf |->
                           IF queueOf[k] = q THEN NoQueue ELSE queueOf[k]]

KeyOf(i) == IF files[i] = NoKey THEN BadKey ELSE files[i]

-----------------------------------------------------------------------------
(* The server process is there; its loops have not been told to stop.      *)
Up == command.pc # "gone"
Run == command.pc = "read"

AcceptorTo(l) == acceptor' = [acceptor EXCEPT !.pc = l]
NextAnnouncement == AcceptorTo(IF Run THEN "receive" ELSE "stopped")

FullOneLater == numClients > MaxClients  \* planted defect: off by one
Full == numClients = MaxClients

(* client_accepting_function: receive the id of a client...                *)
AcceptReceive ==
  /\ Up /\ acceptor.pc = "receive"
  /\ mainQueue # <<>>
  /\ mainQueue' = Tail(mainQueue)
  /\ IF Full
     THEN NextAnnouncement
     ELSE acceptor' = [pc |-> "file", id |-> Head(mainQueue), q |-> NoQueue]
  /\ UNCHANGED <<files, queueOf, msgs, created, slots, numClients, com, command, clients>>

(* ... create its lock file, unless there is one...                        *)
AcceptFile ==
  /\ Up /\ acceptor.pc = "file"
  /\ IF files[acceptor.id] # NoKey
     THEN NextAnnouncement /\ UNCHANGED files
     ELSE /\ \E k \in Keys \ {files[i] : i \in Ids} :
               files' = [files EXCEPT ![acceptor.id] = k]
          /\ AcceptorTo("queue")
  /\ UNCHANGED <<queueOf, msgs, created, mainQueue, slots, numClients, com, command, clients>>

(* ... create its queue, unless somebody has created it...                 *)
AcceptQueue ==
  /\ Up /\ acceptor.pc = "queue"
  /\ LET k == KeyOf(acceptor.id) IN
       IF queueOf[k] # NoQueue
       THEN NextAnnouncement /\ UNCHANGED <<queueOf, created>>
       ELSE /\ CreateQueue(k)
            /\ acceptor' = [acceptor EXCEPT !.pc = "slot", !.q = created + 1]
  /\ UNCHANGED <<files, msgs, mainQueue, slots, numClients, com, command, clients>>

FreeSlots == {s \in Slots : slots[s] = NoQueue}
FirstFree(s) == s \in FreeSlots /\ \A t \in FreeSlots : s <= t

(* ... and put it into the first free slot.  (SlotIsFound says that there  *)
(* is one: the search has no bound of its own.)                            *)
AcceptSlot ==
  /\ Up /\ acceptor.pc = "slot"
  /\ slots' = [s \in Slots |-> IF FirstFree(s) THEN acceptor.q ELSE slots[s]]
  /\ numClients' = numClients + 1
  /\ NextAnnouncement
  /\ UNCHANGED <<kernel, com, command, clients>>

-----------------------------------------------------------------------------
(* enter_communicator_loop: one message from a slot.  The loop goes round  *)
(* the slots; mail may arrive anywhere while it does, so any slot with     *)
(* mail can be the next one it finds.                                      *)
ComReceive(s) ==
  /\ Up /\ com.pc = "poll"
  /\ Alive(slots[s])
  /\ Mail(slots[s], "server") # {}
  /\ LET q == slots[s]
         n == FirstMail(q, "server")
         m == msgs[q][n]
     IN  /\ msgs' = [msgs EXCEPT ![q] = RemoveAt(@, n)]
         /\ com' = IF m.body = "exit"
                   THEN [com EXCEPT !.pc = "remove", !.i = s]
                   ELSE [pc |-> "forward", i |-> s, j |-> 1, msg |-> m]
  /\ UNCHANGED <<files, queueOf, created, mainQueue, slots, numClients,
                 acceptor, command, clients>>

(* A client's "exit": remove its queue, then free its slot.                *)
ComRemove ==
  /\ Up /\ com.pc = "remove"
  /\ RemoveQueue(slots[com.i])
  /\ com' = [com EXCEPT !.pc = "free"]
  /\ UNCHANGED <<files, msgs, created, mainQueue, slots, numClients,
                 acceptor, command, clients>>

ForwardSlot == com.j                     \* planted defect: the other index
LeavingSlot == com.i

ComFree ==
  /\ Up /\ com.pc = "free"
  /\ slots' = [slots EXCEPT ![LeavingSlot] = NoQueue]
  /\ com' = [com EXCEPT !.pc = "poll"]
  /\ UNCHANGED <<kernel, numClients, acceptor, command, clients>>

(* A text goes to every other slot in turn; a full queue holds it up.      *)
ToEveryone(i, j) == TRUE               \* planted defect: the sender as well
ToOthers(i, j) == i # j

ComForward ==
  /\ Up /\ com.pc = "forward"
  /\ IF ToOthers(com.i, com.j) /\ slots[com.j] # NoQueue
     THEN Send(slots[com.j], Forwarded(com.msg))
     ELSE UNCHANGED msgs
  /\ com' = IF com.j = MaxClients
            THEN [com EXCEPT !.pc = "poll"] ELSE [com EXCEPT !.j = @ + 1]
  /\ UNCHANGED <<files, queueOf, created, mainQueue, slots, numClients,
                 acceptor, command, clients>>

-----------------------------------------------------------------------------
(* "exit" at the server: exit(0) runs cleanup, which clears the run flag,  *)
(* tells every slot, sleeps a second and removes the main lock file and    *)
(* the queues.                                                             *)
TypeShutDown ==
  /\ MayShutDown /\ Run
  /\ command' = [command EXCEPT !.pc = "tell"]
  /\ UNCHANGED <<kernel, slots, numClients, acceptor, com, clients>>

TellClients ==
  /\ command.pc = "tell"
  /\ LET q == slots[command.k] IN
       IF q = NoQueue THEN UNCHANGED msgs ELSE Send(q, ServerExit)
  /\ command' = IF command.k = MaxClients
                THEN [command EXCEPT !.pc = "sleep"] ELSE [command EXCEPT !.k = @ + 1]
  /\ UNCHANGED <<files, queueOf, created, mainQueue, slots, numClients,
                 acceptor, com, clients>>

RemoveAll ==
  /\ command.pc = "sleep"
  /\ queueOf' = [k \in DOMAIN queueOf |->
                   IF \E s \in Slots : queueOf[k] = slots[s] THEN NoQueue ELSE queueOf[k]]
  /\ command' = [command EXCEPT !.pc = "gone", !.removed = TRUE]
  /\ UNCHANGED <<files, msgs, created, mainQueue, slots, numClients,
                 acceptor, com, clients>>

(* The communicator leaves its loop when it sees the flag, and the main    *)
(* thread calls exit(0) a second time.  C leaves the outcome open: either  *)
(* the call waits (no step), or it ends the process at once.               *)
ExitAgain ==
  /\ Up /\ ~Run /\ com.pc = "poll"
  /\ command' = [command EXCEPT !.pc = "gone"]
  /\ UNCHANGED <<kernel, slots, numClients, acceptor, com, clients>>

ServerStep == \/ AcceptReceive \/ AcceptFile \/ AcceptQueue \/ AcceptSlot
              \/ \E s \in Slots : ComReceive(s)
              \/ ComRemove \/ ComFree \/ ComForward
              \/ TypeShutDown \/ TellClients \/ RemoveAll \/ ExitAgain

-----------------------------------------------------------------------------
ClientTo(c, l) == cpc' = [cpc EXCEPT ![c] = l]

(* A client refuses an id whose lock file exists.  (The exit handler is    *)
(* installed but its line buffer is not allocated yet: the process dies in *)
(* the handler and removes nothing.)                                       *)
Start(c) ==
  /\ cpc[c] = "start"
  /\ ClientTo(c, IF files[IdOf[c]] = NoKey THEN "announce" ELSE "gone")
  /\ UNCHANGED <<kernel, server, cq, sent, seen>>

(* send_init_msg, or an error exit if the server's lock file is gone.      *)
Announce(c) ==
  /\ cpc[c] = "announce"
  /\ IF command.removed
     THEN ClientTo(c, "cleanup") /\ UNCHANGED mainQueue
     ELSE ClientTo(c, "poll") /\ mainQueue' = Append(mainQueue, IdOf[c])
  /\ UNCHANGED <<files, queueOf, msgs, created, server, cq, sent, seen>>

FindFile(c) ==
  /\ cpc[c] = "poll"
  /\ files[IdOf[c]] # NoKey
  /\ ClientTo(c, "open")
  /\ UNCHANGED <<kernel, server, cq, sent, seen>>

(* The fifth round gives up before it looks again: the file may be there   *)
(* by now.                                                                 *)
TimeOut(c) ==
  /\ cpc[c] = "poll"
  /\ ClientTo(c, "cleanup")
  /\ UNCHANGED <<kernel, server, cq, sent, seen>>

(* open_queue opens the queue under the key of the file, or creates it.    *)
Open(c) ==
  /\ cpc[c] = "open"
  /\ LET k == KeyOf(IdOf[c]) IN
       IF queueOf[k] = NoQueue
       THEN CreateQueue(k) /\ cq' = [cq EXCEPT ![c] = created + 1]
       ELSE cq' = [cq EXCEPT ![c] = queueOf[k]] /\ UNCHANGED <<queueOf, created>>
  /\ ClientTo(c, "talk")
  /\ UNCHANGED <<files, msgs, mainQueue, server, sent, seen>>

(* sender_loop: a line of text, or "exit", which also ends the client.     *)
SendText(c) ==
  /\ cpc[c] = "talk"
  /\ sent[c] < MaxSend[c]
  /\ Send(cq[c], Text(c, sent[c] + 1))
  /\ sent' = [sent EXCEPT ![c] = @ + 1]
  /\ UNCHANGED <<files, queueOf, created, mainQueue, server, cpc, cq, seen>>

TypeExit(c) ==
  /\ cpc[c] = "talk"
  /\ Send(cq[c], ExitTyped(c))
  /\ ClientTo(c, "cleanup")
  /\ UNCHANGED <<files, queueOf, created, mainQueue, server, cq, sent, seen>>

(* receiver_loop: take a text and print it; leave on the server's "exit".  *)
(* The thread goes on while another one is in the exit handler.  (Once the *)
(* queue is gone msgrcv fails, unnoticed, and the last text is printed     *)
(* again: nothing is taken and no variable here changes.)                  *)
Show(c) ==
  /\ cpc[c] \in {"talk", "cleanup"}
  /\ Alive(cq[c])
  /\ Mail(cq[c], "client") # {}
  /\ LET n == FirstMail(cq[c], "client")
         m == msgs[cq[c]][n]
     IN  /\ msgs' = [msgs EXCEPT ![cq[c]] = RemoveAt(@, n)]
         /\ IF m.body = "exit"
            THEN ClientTo(c, "cleanup") /\ UNCHANGED seen
            ELSE seen' = [seen EXCEPT ![c] = Append(@, m)] /\ UNCHANGED cpc
  /\ UNCHANGED <<files, queueOf, created, mainQueue, server, cq, sent>>

(* cleanup_fn removes the lock file.                                       *)
Cleanup(c) ==
  /\ cpc[c] = "cleanup"
  /\ files' = [files EXCEPT ![IdOf[c]] = NoKey]
  /\ ClientTo(c, "gone")
  /\ UNCHANGED <<queueOf, msgs, created, mainQueue, server, cq, sent, seen>>

(* A client killed by a signal leaves its lock file and its queue.         *)
Kill(c) ==
  /\ c \in Mortal
  /\ cpc[c] \notin {"start", "gone"}
  /\ ClientTo(c, "gone")
  /\ UNCHANGED <<kernel, server, cq, sent, seen>>

ClientStep(c) == \/ Start(c) \/ Announce(c) \/ FindFile(c) \/ TimeOut(c) \/ Open(c)
                 \/ SendText(c) \/ TypeExit(c) \/ Show(c) \/ Cleanup(c)

Next == ServerStep \/ \E c \in Clients : ClientStep(c) \/ Kill(c)

Spec == Init /\ [][Next]_vars

(* The server's threads run; the communicator's rounds come to every slot; *)
(* the receiver thread of a client prints what is there.                   *)
FairSpec ==
  /\ Spec
  /\ WF_vars(AcceptReceive \/ AcceptFile \/ AcceptQueue \/ AcceptSlot)
  /\ WF_vars(ComRemove \/ ComFree \/ ComForward)
  /\ \A s \in Slots : SF_vars(ComReceive(s))
  /\ \A c \in Clients : WF_vars(Show(c)) /\ WF_vars(Cleanup(c))

-----------------------------------------------------------------------------
TypeOK ==
  /\ \A i \in Ids : files[i] \in Keys \cup {NoKey}
  /\ \A k \in DOMAIN queueOf : queueOf[k] \in 0 .. created
  /\ created \in 0 .. MaxQueues
  /\ \A q \in Queues : Len(msgs[q]) <= QueueCap
  /\ slots \in [Slots -> 0 .. created]
  /\ numClients \in 0 .. MaxClients
  /\ cq \in [Clients -> 0 .. created]
  /\ \A c \in Clients : sent[c] \in 0 .. MaxSend[c]

Taken == {s \in Slots : slots[s] # NoQueue}

(* The accepting thread always finds a free slot, so its search does not   *)
(* run off clients_queue_ids: num_clients never drops below the number of  *)
(* slots in use, though one thread counts and another one frees.           *)
SlotIsFound == /\ TypeOK
               /\ Cardinality(Taken) <= numClients
               /\ acceptor.pc = "slot" => FreeSlots # {}

(* No queue is in two slots, and a queue in a slot exists, except while    *)
(* the communicator is removing it or the server is going down.            *)
SlotsHoldLiveQueues ==
  Run => /\ \A s, t \in Taken : slots[s] = slots[t] => s = t
         /\ \A s \in Taken : Alive(slots[s]) \/ (com.pc = "free" /\ com.i = s)

(* A client receives the texts of each other client in the order in which  *)
(* they were typed, none of them twice, and none of its own, whatever keys *)
(* the lock files share over time.                                         *)
TextsInOrder ==
  \A c \in Clients : \A a, b \in DOMAIN seen[c] :
    /\ seen[c][a].from # c
    /\ a < b /\ seen[c][a].from = seen[c][b].from => seen[c][a].n < seen[c][b].n

(* The communicator waits in msgsnd for room in the queue of a slot.       *)
HeldUp == com.pc = "forward" /\ ~ENABLED ComForward

(* An "exit" in the queue of a slot is read in the end, and the queue is   *)
(* removed: a server that runs on forgets a client that says goodbye.  The *)
(* one thing that may prevent it is a full queue nobody empties any more,  *)
(* on which the communicator waits for good.                               *)
ExitIsHonoured ==
  \A q \in Queues :
    (/\ \E s \in Slots : slots[s] = q
     /\ \E n \in DOMAIN msgs[q] : msgs[q][n].to = "server" /\ msgs[q][n].body = "exit")
    ~> (~Alive(q) \/ ~Run \/ []HeldUp)

(* "wait until server creates a queue for this client (will signal by      *)
(* creating file)": the queue is there when the client opens it.           *)
QueueIsThereWhenOpened ==
  [][\A c \in Clients : Open(c) => queueOf[KeyOf(IdOf[c])] # NoQueue]_vars
=============================================================================
