----------------------------- MODULE IpcCleanup -----------------------------
(***************************************************************************)
(* The cleanup program of lab7 beside producers and consumers that start,  *)
(* work and end as they like.  Everybody, cleanup included, goes through   *)
(* init_ipc: an object is created exclusively or else opened, in two calls. *)
(* A removed System V semaphore fails everyone who uses it or sleeps on    *)
(* it; removed memory stays with those who have it attached, while the     *)
(* next shmget makes a new one.  Objects are told apart by numbers.        *)
(*                                                                         *)
(* What the processes do with the objects is TaskBuffer's matter, and the  *)
(* values of new semaphores TaskBufferBoot's.                              *)
(***************************************************************************)
EXTENDS Integers

CONSTANT Users

VARIABLES zad2,     \* which program: FALSE is zad1, TRUE is zad2
          named,    \* the object that can be found, 0 for none
          made,     \* how many there have been of each
          removed,  \* those removed
          denied,   \* semaphores made without permissions
          id,       \* what each process has got from init_ipc
          at,       \* where it is: <<what, object>>
          late      \* history: users in init_ipc while cleanup was removing

objects == <<named, made, removed, denied>>
cleanVars == <<zad2, objects, id, at, late>>

Sems == {"mutex", "put", "get"}
IpcObjects == Sems \cup {"shm"}
Cleaner == "cleaner"

(* cleanup is a program of its own, no producer or consumer.               *)
ASSUME CleanerAssumption == Cleaner \notin Users

Parties == Users \cup {Cleaner}
Off == <<"off", "shm">>
Ended == <<"ended", "shm">>

CleanInit ==
  /\ zad2 = FALSE
  /\ named = [o \in IpcObjects |-> 0] /\ made = [o \in IpcObjects |-> 0]
  /\ removed = [o \in IpcObjects |-> {}] /\ denied = [o \in IpcObjects |-> {}]
  /\ id = [p \in Parties |-> [o \in IpcObjects |-> 0]]
  /\ at = [p \in Parties |-> Off]
  /\ late = {}

-----------------------------------------------------------------------------
Removing == at[Cleaner][1] = "remove"
Starting(p) == at[p][1] \in {"create", "open"}

(* A step of p to l; it is late if that is in init_ipc during the removal. *)
MoveTo(p, l) ==
  /\ at' = [at EXCEPT ![p] = l]
  /\ late' = late \cup {q \in Users : Removing' /\ Starting(q)'}

AfterInit(p, o) ==
  CASE o = "shm" -> <<"create", "mutex">>
    [] o = "mutex" -> <<"create", "put">>
    [] o = "put" -> <<"create", "get">>
    [] o = "get" -> IF p = Cleaner THEN <<"remove", "mutex">> ELSE <<"use", "mutex">>

(* The first to start decides which of the two programs runs.              *)
Start(p) ==
  /\ at[p] = Off
  /\ MoveTo(p, <<"create", "shm">>)
  /\ zad2' \in IF \A q \in Parties : at[q] = Off THEN BOOLEAN ELSE {zad2}
  /\ UNCHANGED <<objects, id>>

Make(p, o) ==
  /\ made' = [made EXCEPT ![o] = @ + 1]
  /\ named' = [named EXCEPT ![o] = made'[o]]
  /\ id' = [id EXCEPT ![p][o] = made'[o]]
  /\ MoveTo(p, AfterInit(p, o))

NewMemory(o) == o # "shm" /\ named[o] # 0   \* planted defect: IPC_PRIVATE
Found(o) == named[o] # 0

Create(p, o) ==
  /\ at[p] = <<"create", o>>
  /\ \/ ~Found(o) /\ Make(p, o)
     \/ /\ Found(o)
        /\ MoveTo(p, <<"open", o>>)
        /\ UNCHANGED <<named, made, id>>
  /\ UNCHANGED <<zad2, removed, denied>>

(* The second call for the put and get semaphores of zad1 has IPC_CREAT    *)
(* again, without a mode; the others fail if the object has gone.          *)
CreatesAgain(o) == ~zad2 /\ o \in {"put", "get"}

Open(p, o) ==
  /\ at[p] = <<"open", o>>
  /\ \/ /\ named[o] # 0
        /\ id' = [id EXCEPT ![p][o] = named[o]]
        /\ MoveTo(p, AfterInit(p, o))
        /\ UNCHANGED <<named, made, denied>>
     \/ /\ named[o] = 0 /\ CreatesAgain(o)
        /\ Make(p, o)
        /\ denied' = [denied EXCEPT ![o] = @ \cup {made'[o]}]
     \/ /\ named[o] = 0 /\ ~CreatesAgain(o)
        /\ MoveTo(p, Ended)
        /\ UNCHANGED <<named, made, id, denied>>
  /\ UNCHANGED <<zad2, removed>>

(* put_task and get_task go from one semaphore to another, and may sleep.  *)
ResultUnused(p, o) == TRUE               \* planted defect: semop's result unused
Usable(p, o) == id[p][o] \notin removed[o] \cup denied[o]

WorkOn(p) ==
  /\ \E o \in Sems, next \in Sems :
       /\ at[p] = <<"use", o>> /\ Usable(p, o)
       /\ MoveTo(p, <<"use", next>>)
  /\ UNCHANGED <<zad2, objects, id>>

SemopFails(p) ==
  /\ \E o \in Sems : at[p] = <<"use", o>> /\ ~Usable(p, o)
  /\ MoveTo(p, Ended)
  /\ UNCHANGED <<zad2, objects, id>>

-----------------------------------------------------------------------------
(* cleanup: zad2 only closes what it has opened.                           *)
PutForgotten(o) ==                    \* planted defect
  CASE o = "mutex" -> <<"remove", "get">> [] o = "get" -> <<"remove", "shm">>
    [] OTHER -> Ended
AfterRemoval(o) ==
  CASE o = "mutex" -> <<"remove", "get">> [] o = "get" -> <<"remove", "put">>
    [] o = "put" -> <<"remove", "shm">> [] o = "shm" -> Ended

StillNamed(o) == named[o]             \* planted defect
NameAfter(o) == IF named[o] = id[Cleaner][o] THEN 0 ELSE named[o]

Remove(o) ==
  /\ at[Cleaner] = <<"remove", o>>
  /\ IF zad2
     THEN UNCHANGED objects
     ELSE /\ removed' = [removed EXCEPT ![o] = @ \cup {id[Cleaner][o]}]
          /\ named' = [named EXCEPT ![o] = NameAfter(o)]
          /\ UNCHANGED <<made, denied>>
  /\ MoveTo(Cleaner, AfterRemoval(o))
  /\ UNCHANGED <<zad2, id>>

PartyStep(p) == \/ Start(p)
                \/ \E o \in IpcObjects : Create(p, o) \/ Open(p, o)
                \/ WorkOn(p) \/ SemopFails(p)
CleanNext == (\E p \in Parties : PartyStep(p)) \/ \E o \in IpcObjects : Remove(o)

CleanSpec == /\ CleanInit /\ [][CleanNext]_cleanVars
             /\ \A p \in Users : WF_cleanVars(SemopFails(p))

-----------------------------------------------------------------------------
(* Types of the objects and processes.                                     *)
CleanTypeOK ==
  /\ zad2 \in BOOLEAN /\ late \subseteq Users
  /\ named \in [IpcObjects -> Nat] /\ made \in [IpcObjects -> Nat]
  /\ \A o \in IpcObjects : /\ named[o] \in {0} \cup ((1 .. made[o]) \ removed[o])
                           /\ removed[o] \cup denied[o] \subseteq 1 .. made[o]
  /\ id \in [Parties -> [IpcObjects -> Nat]]
  /\ at \in [Parties -> {"off", "create", "open", "use", "remove", "ended"} \X IpcObjects]

(* Two users that exclude each other by the same mutex share the memory    *)
(* it protects and the other semaphores, unless one of them was in         *)
(* init_ipc during the removal and got old objects and new.                *)
Using(p) == at[p][1] = "use" /\ Usable(p, "mutex")
SameMutexSameBuffer ==
  /\ CleanTypeOK
  /\ \A p, q \in Users \ late :
       (Using(p) /\ Using(q) /\ id[p]["mutex"] = id[q]["mutex"]) => id[p] = id[q]

(* What is there after the cleanup of zad1 was made later; that of zad2,   *)
(* which announces the same, leaves everything in place.                   *)
Cleaned == at[Cleaner] = Ended /\ id[Cleaner]["get"] # 0
LeavesOnlyNewer ==
  Cleaned => \A o \in IpcObjects :
    IF zad2 THEN named[o] = id[Cleaner][o]
    ELSE named[o] = 0 \/ named[o] > id[Cleaner][o]

(* A user that has the objects that were removed comes to its end.         *)
HasRemoved(p) == \A o \in Sems : id[p][o] \in removed[o]
UsersEnd ==
  \A p \in Users : (at[p][1] = "use" /\ HasRemoved(p)) ~> at[p] = Ended
=============================================================================
