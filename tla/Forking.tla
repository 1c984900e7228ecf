------------------------------ MODULE Forking ------------------------------
(***************************************************************************)
(* The measurement of lab3/zad1: N processes are made, one after another,  *)
(* by fork, vfork or clone.  global_variable and the total time lie in     *)
(* memory mapped by all, counter in the parent's own memory, which only    *)
(* vfork and clone with CLONE_VM lend to the child.  Everybody adds in two *)
(* steps, reading and writing.                                             *)
(***************************************************************************)
EXTENDS Integers, FiniteSets

CONSTANT MaxN         \* bound: the argument of the program

Children == 1 .. MaxN
Types == {"fork", "vfork", "clone", "clone vfork"}

VARIABLES type, N,    \* f_type and the argument
          main,       \* "start", "create", "suspended", "wait", "report", "failed"
          made,       \* children made
          pc,         \* each child: "none", "read", "write", "exit", "gone"
          read,       \* what it has read of global_variable
          own,        \* its copy of counter
          global_variable, counter

vars == <<type, N, main, made, pc, read, own, global_variable, counter>>

Init ==
  /\ type = "fork" /\ N = 0 /\ main = "start" /\ made = 0
  /\ pc = [c \in Children |-> "none"] /\ read = [c \in Children |-> 0]
  /\ own = [c \in Children |-> 0]
  /\ global_variable = 0 /\ counter = 0

SharesMemory == type \in {"vfork", "clone vfork"}

Start ==
  /\ main = "start"
  /\ type' \in Types /\ N' \in 0 .. MaxN
  /\ main' = "create"
  /\ UNCHANGED <<made, pc, read, own, global_variable, counter>>

NextOne == "create"                   \* planted defect: wait left out
AfterCreation == IF SharesMemory THEN "suspended" ELSE "wait"

Create ==
  /\ main = "create" /\ made < N
  /\ made' = made + 1
  /\ pc' = [pc EXCEPT ![made'] = "read"]
  /\ own' = IF SharesMemory THEN own ELSE [own EXCEPT ![made'] = counter]
  /\ main' = AfterCreation
  /\ UNCHANGED <<type, N, read, global_variable, counter>>

CreateFails ==
  /\ main = "create" /\ made < N
  /\ main' = "failed"
  /\ UNCHANGED <<type, N, made, pc, read, own, global_variable, counter>>

(* The parent of a vfork runs on when the child has gone.                  *)
Resume ==
  /\ main = "suspended" /\ pc[made] \in {"exit", "gone"}
  /\ main' = "wait"
  /\ UNCHANGED <<type, N, made, pc, read, own, global_variable, counter>>

Wait ==
  /\ main = "wait"
  /\ pc[made] = "exit"
  /\ pc' = [pc EXCEPT ![made] = "gone"]
  /\ main' = "create"
  /\ UNCHANGED <<type, N, made, read, own, global_variable, counter>>

Report ==
  /\ main = "create" /\ made = N
  /\ main' = "report"
  /\ UNCHANGED <<type, N, made, pc, read, own, global_variable, counter>>

-----------------------------------------------------------------------------
(* The child: *global_variable + 1, and ++counter in whatever memory it has *)
Read(c) ==
  /\ pc[c] = "read"
  /\ read' = [read EXCEPT ![c] = global_variable]
  /\ pc' = [pc EXCEPT ![c] = "write"]
  /\ UNCHANGED <<type, N, main, made, own, global_variable, counter>>

EveryChild == TRUE                    \* planted defect: as if all memory were shared
InParent == SharesMemory

Write(c) ==
  /\ pc[c] = "write"
  /\ global_variable' = read[c] + 1
  /\ counter' = IF InParent THEN counter + 1 ELSE counter
  /\ own' = IF InParent THEN own ELSE [own EXCEPT ![c] = @ + 1]
  /\ pc' = [pc EXCEPT ![c] = "exit"]
  /\ UNCHANGED <<type, N, main, made, read>>

Step == \/ Start \/ Create \/ Resume \/ Wait \/ Report
        \/ \E c \in Children : Read(c) \/ Write(c)
Next == Step \/ CreateFails
Spec == Init /\ [][Next]_vars /\ WF_vars(Step)

-----------------------------------------------------------------------------
(* Types of parent and children.                                           *)
TypeOK ==
  /\ type \in Types /\ N \in 0 .. MaxN
  /\ main \in {"start", "create", "suspended", "wait", "report", "failed"}
  /\ made \in 0 .. N
  /\ pc \in [Children -> {"none", "read", "write", "exit", "gone"}]
  /\ read \in [Children -> 0 .. MaxN] /\ own \in [Children -> 0 .. 1]
  /\ global_variable \in 0 .. MaxN /\ counter \in 0 .. MaxN

(* No addition to the shared memory is lost, because there is one child at *)
(* a time; counter counts the children that work in the parent's memory.   *)
Added == {c \in Children : pc[c] \in {"exit", "gone"}}
NothingLost ==
  /\ global_variable = Cardinality(Added)
  /\ counter = IF SharesMemory THEN Cardinality(Added) ELSE 0
=============================================================================
