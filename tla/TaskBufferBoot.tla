--------------------------- MODULE TaskBufferBoot ---------------------------
(***************************************************************************)
(* The task buffer of lab7 from the first init_ipc on: every process opens *)
(* or creates the shared memory and the three semaphores before it runs    *)
(* the loop of TaskBuffer, and nothing keeps one process from working      *)
(* while another is still setting up.                                      *)
(*                                                                         *)
(* zad1 (System V) creates a semaphore with value 0 and sets its value in  *)
(* a second call; zad2 (POSIX) creates it with its value, but gives the    *)
(* shared memory its size in a second call.                                *)
(***************************************************************************)
EXTENDS TaskBuffer

VARIABLES posix,      \* which program: FALSE is zad1, TRUE is zad2
          overlap,    \* FALSE: the creator finishes before the others start
          boot,       \* where each process stands in init_ipc
          exists,     \* the IPC objects that have been created
          sized       \* the shared memory has got its size

choice == <<posix, overlap>>
bootVars == <<choice, boot, exists, sized>>
allVars == <<vars, bootVars>>

Objects == {"shm", "mutex", "put", "get"}
BootLabels == Objects \cup {"size", "zero", "set mutex", "set put", "set get", "up"}

(* The order in which init_ipc goes through the objects.                   *)
Following(o) == CASE o = "shm" -> "mutex" [] o = "mutex" -> "put"
                  [] o = "put" -> "get" [] o = "get" -> "up"

(* What the creator of an object still has to do to it.                    *)
Setup(o) == CASE o = "shm" -> (IF posix THEN "size" ELSE "zero")
              [] o = "mutex" -> "set mutex"
              [] o = "put" -> "set put"
              [] o = "get" -> "set get"

BootTo(p, l) == boot' = [boot EXCEPT ![p] = l]

BootInit ==
  /\ sem = [s \in SemNames |-> 0]
  /\ BufferEmpty
  /\ NobodyInside
  /\ posix \in BOOLEAN
  /\ overlap \in BOOLEAN
  /\ boot = [p \in Procs |-> "shm"]
  /\ exists = {}
  /\ sized = FALSE

-----------------------------------------------------------------------------
(* The value a new semaphore has before SETVAL (zad1), or at once (zad2).  *)
FinalValue(o) == InitialValue(o)         \* planted defect: set, then set again
ValueAtCreation(o) == IF posix THEN InitialValue(o) ELSE 0

Unchecked(o) == TRUE                     \* planted defect: no exclusive flag
Missing(o) == o \notin exists

SkipSetup(o) == Following(o)             \* planted defect: nothing set up
AfterCreation(o) == IF posix /\ o # "shm" THEN Following(o) ELSE Setup(o)

(* Try to create with the exclusive flag: the winner goes on to set the    *)
(* object up, everybody else opens it and goes on to the next one.         *)
CreateObject(p, o) ==
  /\ boot[p] = o
  /\ Missing(o)
  /\ exists' = exists \cup {o}
  /\ sem' = IF o = "shm" THEN sem ELSE [sem EXCEPT ![o] = ValueAtCreation(o)]
  /\ BootTo(p, AfterCreation(o))
  /\ UNCHANGED <<shm, pc, num, interrupted, lost, history, choice, sized>>

OpenObject(p, o) ==
  /\ boot[p] = o
  /\ o \in exists
  /\ BootTo(p, Following(o))
  /\ UNCHANGED <<vars, choice, exists, sized>>

(* ftruncate of zad2.                                                      *)
SizeMemory(p) ==
  /\ boot[p] = "size"
  /\ sized' = TRUE
  /\ BootTo(p, "zero")
  /\ UNCHANGED <<vars, choice, exists>>

(* The creator zeroes the counter and the start index.                     *)
ZeroMemory(p) ==
  /\ boot[p] = "zero"
  /\ counter' = 0
  /\ start' = 0
  /\ BootTo(p, Following("shm"))
  /\ UNCHANGED <<sem, slots, pc, num, interrupted, lost, history, choice, exists, sized>>

(* semctl(SETVAL) of zad1.                                                 *)
SetSemaphore(p, s) ==
  /\ boot[p] = Setup(s)
  /\ sem' = [sem EXCEPT ![s] = InitialValue(s)]
  /\ BootTo(p, Following(s))
  /\ UNCHANGED <<shm, pc, num, interrupted, lost, history, choice, exists, sized>>

BootStep(p) == \/ \E o \in Objects : CreateObject(p, o) \/ OpenObject(p, o)
               \/ SizeMemory(p)
               \/ ZeroMemory(p)
               \/ \E s \in SemNames : SetSemaphore(p, s)

Ready == exists = Objects /\ \A p \in Procs : boot[p] \in Objects \cup {"up"}

(* A process in the middle of its setup, seen by the others.               *)
MayBoot(p) == overlap \/ Ready \/ boot[p] # "shm" \/ exists = {}

(* The memory of zad2 can be attached before it has a size; touching it    *)
(* then is a bus error, and the mutex stays taken.                         *)
Backed == sized \/ ~posix

BusError(p) ==
  /\ boot[p] = "up"
  /\ At(p, "read")
  /\ ~Backed
  /\ Goto(p, "exited")
  /\ UNCHANGED <<sem, shm, num, interrupted, lost, history, bootVars>>

Work(p) ==
  /\ boot[p] = "up"
  /\ At(p, "read") => Backed
  /\ Step(p) \/ Interrupt(p) \/ InterruptAsleep(p)
  /\ UNCHANGED bootVars

(* A process that is started again goes through init_ipc again.            *)
BootAgain(p) ==
  /\ boot[p] = "up"
  /\ Restart(p)
  /\ BootTo(p, "shm")
  /\ UNCHANGED <<choice, exists, sized>>

BootNext ==
  \E p \in Procs : \/ MayBoot(p) /\ BootStep(p)
                   \/ BusError(p)
                   \/ Work(p)
                   \/ BootAgain(p)

BootSpec == BootInit /\ [][BootNext]_allVars

-----------------------------------------------------------------------------
BootTypeOK ==
  /\ TypeOK
  /\ posix \in BOOLEAN /\ overlap \in BOOLEAN
  /\ boot \in [Procs -> BootLabels]
  /\ exists \subseteq Objects
  /\ sized \in BOOLEAN

(* Every object is set up by one process at most: the exclusive flag       *)
(* leaves one winner, also when all processes start together.              *)
OneCreator ==
  \A p, q \in Procs :
    boot[p] \notin Objects \cup {"up"} /\ boot[p] = boot[q] => p = q

(* Whoever starts together with whom, each object has one creator at most  *)
(* and what init_ipc reads and writes stays in its type.                   *)
StartSound == BootTypeOK /\ OneCreator

(* When the creator of the objects finishes init_ipc before anybody else   *)
(* starts, what follows is the task buffer as TaskBuffer describes it, in  *)
(* both programs: the start-up itself is invisible.                        *)
SemOnceReady == IF Ready THEN sem ELSE [s \in SemNames |-> InitialValue(s)]
Running == INSTANCE TaskBuffer WITH sem <- SemOnceReady
BootsIntoTaskBuffer == /\ overlap \/ Running!Init
                       /\ [][overlap \/ Running!Next]_Running!vars
=============================================================================
