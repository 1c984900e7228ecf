----------------------------- MODULE TaskBuffer -----------------------------
(***************************************************************************)
(* The bounded task buffer of lab7 (zad1: System V, zad2: POSIX).          *)
(*                                                                         *)
(* Producers and consumers are processes that share a memory segment -     *)
(* Cap slots, a task counter and a start index - guarded by a binary       *)
(* semaphore "mutex" and two counting semaphores, "put" (free places) and  *)
(* "get" (waiting tasks).  put_task and get_task are the same walk with    *)
(* the two counting semaphores exchanged:                                  *)
(*                                                                         *)
(*   loop -> first -> lock -> read -> write -> unlock -> last -> loop      *)
(*                                                                         *)
(* A task number is abstracted to the ordinal of the put that wrote it; 0  *)
(* is the content of a slot nobody has written (fresh shared memory).      *)
(* This module starts after init_ipc has set the segment up; the start-up  *)
(* and the removal of the IPC objects are the subject of TaskBufferBoot.   *)
(***************************************************************************)
EXTENDS Integers, Sequences, FiniteSets, FiniteSetsExt

CONSTANTS Producers,      \* the producer processes
          Consumers,      \* the consumer processes
          Cap,            \* MAX_TASK_CAPACITY
          MaxPuts,        \* bound: no put begins once this many were stored
          Interruptible   \* the processes a user sends SIGINT to

Procs == Producers \cup Consumers

ASSUME CapAssumption == Cap \in Nat \ {0}
ASSUME BoundAssumption == MaxPuts \in Nat
ASSUME ProcsAssumption == /\ IsFiniteSet(Producers)
                          /\ IsFiniteSet(Consumers)
                          /\ Producers \cap Consumers = {}
                          /\ Interruptible \subseteq Procs

MaxOfOrZero(S) == IF S = {} THEN 0 ELSE Max(S)

VARIABLES sem,          \* the three semaphores: "mutex", "put", "get"
          counter,      \* the int at TASK_COUNTER_OFFSET
          start,        \* the int at START_INDEX_OFFSET
          slots,        \* the Cap ints at the head of the segment
          pc,           \* where each process stands
          num,          \* its local num_tasks_in_buffer
          interrupted,  \* its was_interrupted flag
          lost,         \* history: tokens a killed process took with it
          puts,         \* history: number of tasks stored so far
          got           \* history: the numbers taken, in order

shm == <<counter, start, slots>>
history == <<puts, got>>
vars == <<sem, shm, pc, num, interrupted, lost, history>>

SemNames == {"mutex", "put", "get"}
Labels == {"loop", "first", "lock", "read", "write", "unlock", "last", "exited"}

(* The counting semaphore a process takes first and the one it raises last. *)
First(p) == IF p \in Producers THEN "put" ELSE "get"
Last(p)  == IF p \in Producers THEN "get" ELSE "put"

At(p, l) == pc[p] = l
Goto(p, l) == pc' = [pc EXCEPT ![p] = l]

(* The values init_ipc gives to the semaphores...                          *)
InitialValue(s) == CASE s = "mutex" -> 1 [] s = "put" -> Cap [] s = "get" -> 0

SemaphoresSet == sem = [s \in SemNames |-> InitialValue(s)]

(* ... the zeroed shared memory, and the processes about to enter the loop.*)
BufferEmpty ==
  /\ counter = 0
  /\ start = 0
  /\ slots = [i \in 0 .. Cap - 1 |-> 0]
  /\ puts = 0
  /\ got = <<>>

NobodyInside ==
  /\ pc = [p \in Procs |-> "loop"]
  /\ num = [p \in Procs |-> 0]
  /\ interrupted = [p \in Procs |-> FALSE]
  /\ lost = [s \in {"put", "get"} |-> 0]

Init == SemaphoresSet /\ BufferEmpty /\ NobodyInside

-----------------------------------------------------------------------------
(* down(): wait until the semaphore is positive, then take one.            *)
DownWithoutWaiting(s) ==                \* planted defect: IPC_NOWAIT, error ignored
  sem' = [sem EXCEPT ![s] = IF @ > 0 THEN @ - 1 ELSE 0]
Down(s) == sem[s] > 0 /\ sem' = [sem EXCEPT ![s] = @ - 1]

(* up(): never waits.                                                      *)
Up(s) == sem' = [sem EXCEPT ![s] = @ + 1]

(* The test of the while loop in main: one more task, or exit(0).          *)
Continue(p) ==
  /\ At(p, "loop")
  /\ Goto(p, IF interrupted[p] THEN "exited" ELSE "first")
  /\ UNCHANGED <<sem, shm, num, interrupted, lost, history>>

(* down(put) of a producer, down(get) of a consumer.                       *)
TakeFirst(p) ==
  /\ At(p, "first")
  /\ p \in Producers => puts < MaxPuts
  /\ Down(First(p))
  /\ Goto(p, "lock")
  /\ UNCHANGED <<shm, num, interrupted, lost, history>>

Lock(p) ==
  /\ At(p, "lock")
  /\ Down("mutex")
  /\ Goto(p, "read")
  /\ UNCHANGED <<shm, num, interrupted, lost, history>>

(* The critical section, first half: read the counter.                     *)
ReadCounter(p) ==
  /\ At(p, "read")
  /\ num' = [num EXCEPT ![p] = counter]
  /\ Goto(p, "write")
  /\ UNCHANGED <<sem, shm, interrupted, lost, history>>

(* put_task, second half: the counter goes up, and the slot is found with  *)
(* the counter that already includes the new task.                         *)
PutIndexFromZero(n) == n % Cap          \* planted defect: start index ignored
PutIndex(n) == (start + n) % Cap

StoreTask(p) ==
  /\ p \in Producers
  /\ At(p, "write")
  /\ counter' = num[p] + 1
  /\ slots' = [slots EXCEPT ![PutIndex(num[p] + 1)] = puts + 1]
  /\ puts' = puts + 1
  /\ Goto(p, "unlock")
  /\ UNCHANGED <<sem, start, num, interrupted, lost, got>>

(* get_task, second half: the counter goes down, the slot at the start     *)
(* index is read, the start index moves on.                                *)
NextStartUnwrapped == start + 1         \* planted defect: no wrap-around
NextStart == (start + 1) % Cap

FetchTask(p) ==
  /\ p \in Consumers
  /\ At(p, "write")
  /\ counter' = num[p] - 1
  /\ start' = NextStart
  /\ got' = Append(got, slots[start])
  /\ Goto(p, "unlock")
  /\ UNCHANGED <<sem, slots, num, interrupted, lost, puts>>

Unlock(p) ==
  /\ At(p, "unlock")
  /\ Up("mutex")
  /\ Goto(p, "last")
  /\ UNCHANGED <<shm, num, interrupted, lost, history>>

(* up(get) of a producer, up(put) of a consumer; then print and usleep.    *)
RaiseLast(p) ==
  /\ At(p, "last")
  /\ Up(Last(p))
  /\ Goto(p, "loop")
  /\ UNCHANGED <<shm, num, interrupted, lost, history>>

-----------------------------------------------------------------------------
(* SIGINT outside a sleeping down(): the handler only sets the flag, which *)
(* the loop reads.                                                         *)
Interrupt(p) ==
  /\ p \in Interruptible
  /\ ~At(p, "exited")
  /\ ~interrupted[p]
  /\ interrupted' = [interrupted EXCEPT ![p] = TRUE]
  /\ UNCHANGED <<sem, shm, pc, num, lost, history>>

(* SIGINT while down() sleeps: semop returns EINTR and down() calls        *)
(* exit(-1).  A process that sleeps on the mutex has already taken its     *)
(* counting token, and nobody gives it back.                               *)
Asleep(p) == \/ At(p, "first") /\ sem[First(p)] = 0
             \/ At(p, "lock") /\ sem["mutex"] = 0

InterruptAsleep(p) ==
  /\ p \in Interruptible
  /\ Asleep(p)
  /\ interrupted' = [interrupted EXCEPT ![p] = TRUE]
  /\ lost' = IF At(p, "lock") THEN [lost EXCEPT ![First(p)] = @ + 1] ELSE lost
  /\ Goto(p, "exited")
  /\ UNCHANGED <<sem, shm, num, history>>

(* The user starts the program again: init_ipc finds every object and      *)
(* changes none of them.                                                   *)
Restart(p) ==
  /\ At(p, "exited")
  /\ interrupted' = [interrupted EXCEPT ![p] = FALSE]
  /\ num' = [num EXCEPT ![p] = 0]
  /\ Goto(p, "loop")
  /\ UNCHANGED <<sem, shm, lost, history>>

Step(p) == \/ Continue(p)
           \/ TakeFirst(p)
           \/ Lock(p)
           \/ ReadCounter(p)
           \/ StoreTask(p)
           \/ FetchTask(p)
           \/ Unlock(p)
           \/ RaiseLast(p)

Environment(p) == Interrupt(p) \/ InterruptAsleep(p) \/ Restart(p)

Next == \E p \in Procs : Step(p) \/ Environment(p)

Spec == Init /\ [][Next]_vars

(* Linux keeps the sleepers of a System V semaphore in a FIFO queue and    *)
(* serves the head when the value rises, so a process that keeps finding   *)
(* its semaphore positive is served: strong fairness of each process.      *)
FairSpec == Spec /\ \A p \in Procs : SF_vars(Step(p))

-----------------------------------------------------------------------------
TypeOK ==
  /\ sem \in [SemNames -> Nat]
  /\ counter \in Int
  /\ start \in 0 .. Cap - 1
  /\ slots \in [0 .. Cap - 1 -> Nat]
  /\ pc \in [Procs -> Labels]
  /\ num \in [Procs -> Int]
  /\ interrupted \in [Procs -> BOOLEAN]
  /\ lost \in [{"put", "get"} -> Nat]
  /\ puts \in Nat
  /\ got \in Seq(Nat)

InSection(p) == pc[p] \in {"read", "write", "unlock"}

(* At most one process is between down(mutex) and up(mutex), whatever      *)
(* signals arrive: put_task and get_task never run their critical section  *)
(* together.                                                               *)
MutualExclusion == \A p, q \in Procs : InSection(p) /\ InSection(q) => p = q

(* The processes that hold a place taken from "put" and not yet stored.    *)
Storing   == {p \in Producers : pc[p] \in {"lock", "read", "write"}}
(* The producers that stored a task whose "get" token is still to come.    *)
Stored    == {p \in Producers : pc[p] \in {"unlock", "last"}}
Fetching  == {p \in Consumers : pc[p] \in {"lock", "read", "write"}}
Fetched   == {p \in Consumers : pc[p] \in {"unlock", "last"}}

(* Every waiting task counted in shared memory has exactly one owner: a    *)
(* "get" token, a producer about to raise it, a consumer that took it, or  *)
(* a consumer that SIGINT killed while it slept on the mutex.              *)
TasksAccounted ==
  counter = sem["get"] + Cardinality(Stored) + Cardinality(Fetching) + lost["get"]

(* Likewise for the free places: so the buffer never holds more than Cap   *)
(* tasks, and a kill in down(mutex) shrinks it for good.                   *)
PlacesAccounted ==
  Cap - counter =
    sem["put"] + Cardinality(Storing) + Cardinality(Fetched) + lost["put"]

(* No kill, restart or order of the two semaphores lets a token appear or  *)
(* vanish unseen: tasks and places are accounted for together.             *)
TokensAccounted == TasksAccounted /\ PlacesAccounted

(* The counter in shared memory is the number of puts minus the number of  *)
(* gets, and the start index is the number of gets modulo the capacity:    *)
(* no update of the read-modify-write pairs is ever overwritten.           *)
CountersAgree == /\ counter = puts - Len(got)
                 /\ start = Len(got) % Cap

(* Slot i holds the latest put whose ordinal is congruent to i: put_task   *)
(* writes one slot past the place get_task will read.                      *)
LatestPutInto(i) == MaxOfOrZero({j \in 1 .. puts : j % Cap = i})

SlotsHoldLatestPuts == \A i \in 0 .. Cap - 1 : slots[i] = LatestPutInto(i)

(* The shared memory is what the puts and gets so far, each as one step,   *)
(* would have made of it: both counters, and each slot.                    *)
BufferAsCounted == CountersAgree /\ SlotsHoldLatestPuts

(* What the semaphores, the ring and the off-by-one amount to: one atomic  *)
(* bounded buffer that lags by one task.                                   *)
Lag == INSTANCE LagBuffer WITH added <- puts, taken <- got
ImplementsLagBuffer == Lag!Spec

(* Every task that was stored is matched by a get in the end, unless a     *)
(* consumer is interrupted or has been killed with a token in its hand: no *)
(* wake-up is lost between up(get) and down(get), and the mutex is always  *)
(* handed on, whatever happens to the producers.                           *)
ConsumerLost == lost["get"] > 0 \/ \E c \in Consumers : interrupted[c]

EveryPutIsFollowedByItsGet ==
  \A n \in 1 .. MaxPuts : (puts >= n) ~> (Len(got) >= n \/ ConsumerLost)

(* "Sprawdzilem liczbe" (I checked the number): every number a consumer    *)
(* reports is one that a producer reported with "Dodalem liczbe" (I added  *)
(* the number).                                                            *)
CheckedNumbersWereAdded == \A k \in 1 .. Len(got) : got[k] \in 1 .. puts

=============================================================================
