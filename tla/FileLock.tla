------------------------------ MODULE FileLock ------------------------------
(***************************************************************************)
(* The record lock shell of lab2/zad3, run by several users on one file.   *)
(* Every command asks with F_GETLK whether somebody else's lock is in its  *)
(* way, and only then does its work: F_SETLK, read, or write, the last     *)
(* after the user has typed the character.  print_locks asks for one byte  *)
(* after the other, in a forked process, to which its parent's locks are   *)
(* somebody else's.                                                        *)
(*                                                                         *)
(* Commands that change nothing are left out: unknown ones, negative       *)
(* positions, and those that find a lock in their way.                     *)
(***************************************************************************)
EXTENDS Integers, FiniteSets

CONSTANTS Shells,   \* processes, each with one user
          LastByte  \* bound: the largest position a user enters

Bytes == 0 .. LastByte
LockOps == {"set_read_lock", "set_write_lock", "free_lock"}
DataOps == {"read_character", "write_character"}
Command == [op : LockOps \cup DataOps, num : Bytes]

VARIABLES lock,     \* external, the kernel's: each shell's lock on each byte
          size,     \* the length of the file
          pc,       \* "prompt", "act", "print" or "dead"
          cmd,      \* the command that has passed its check
          counter,  \* print_locks: the byte to ask for
          fileSize, \* print_locks: file_size
          printed,  \* print_locks: bytes found locked
          later,    \* history: who has locked a byte since the shell's check
          steady    \* history: bytes locked ever since print_locks began

vars == <<lock, size, pc, cmd, counter, fileSize, printed, later, steady>>

NoCommand == [op |-> "print_locks"]

Init ==
  /\ lock = [p \in Shells |-> [b \in Bytes |-> "none"]]
  /\ size = 1
  /\ pc = [p \in Shells |-> "prompt"]
  /\ cmd = [p \in Shells |-> NoCommand]
  /\ counter = [p \in Shells |-> 0] /\ fileSize = [p \in Shells |-> 0]
  /\ printed = [p \in Shells |-> {}]
  /\ later = [p \in Shells |-> {}] /\ steady = [p \in Shells |-> {}]

-----------------------------------------------------------------------------
(* The lock a command asks for: free_lock too asks for a write lock, so a  *)
(* read lock that is shared cannot be freed.                               *)
WriteAsRead(op) ==                    \* planted defect: write_character asks as a reader
  IF op \in {"set_write_lock", "free_lock"} THEN "write" ELSE "read"
AskedType(op) ==
  IF op \in {"set_write_lock", "free_lock", "write_character"} THEN "write" ELSE "read"

Excludes(mine, other) == other = "write" \/ (mine = "write" /\ other = "read")
InTheWay(p, op, b) == {q \in Shells \ {p} : Excludes(AskedType(op), lock[q][b])}
(* What the command should mind, whatever it asks for.                     *)
Opposed(p, op, b) ==
  {q \in Shells \ {p} : Excludes(IF op \in {"set_read_lock", "read_character"}
                                 THEN "read" ELSE "write", lock[q][b])}

Check(p) ==
  /\ pc[p] = "prompt"
  /\ \E m \in Command :
       /\ InTheWay(p, m.op, m.num) = {}
       /\ cmd' = [cmd EXCEPT ![p] = m]
  /\ pc' = [pc EXCEPT ![p] = "act"]
  /\ later' = [later EXCEPT ![p] = {}]
  /\ UNCHANGED <<lock, size, counter, fileSize, printed, steady>>

Locked(l) == {b \in Bytes : \E q \in Shells : l[q][b] # "none"}

(* p's lock on byte b becomes type.                                        *)
SetLock(p, b, type) ==
  /\ lock' = [lock EXCEPT ![p][b] = type]
  /\ later' = [q \in Shells |->
                 IF q # p /\ pc[q] = "act" /\ cmd[q].num = b THEN later[q] \cup {p} ELSE later[q]]
  /\ steady' = [q \in Shells |-> steady[q] \cap Locked(lock')]

(* F_SETLK fails if a lock has got in the way since.                       *)
Acquire(p) ==
  /\ pc[p] = "act" /\ cmd[p].op \in LockOps \ {"free_lock"}
  /\ IF InTheWay(p, cmd[p].op, cmd[p].num) = {}
     THEN SetLock(p, cmd[p].num, AskedType(cmd[p].op))
     ELSE UNCHANGED <<lock, later, steady>>
  /\ pc' = [pc EXCEPT ![p] = "prompt"] /\ cmd' = [cmd EXCEPT ![p] = NoCommand]
  /\ UNCHANGED <<size, counter, fileSize, printed>>

Free(p) ==
  /\ pc[p] = "act" /\ cmd[p].op = "free_lock"
  /\ lock' = [lock EXCEPT ![p][cmd[p].num] = "none"]
  /\ steady' = [q \in Shells |-> steady[q] \cap Locked(lock')]
  /\ pc' = [pc EXCEPT ![p] = "prompt"] /\ cmd' = [cmd EXCEPT ![p] = NoCommand]
  /\ UNCHANGED <<size, counter, fileSize, printed, later>>

OneTooFar(b) == b + 2                 \* planted defect
EndOf(b) == b + 1

(* Reading and writing heed no lock any more; a write may extend the file. *)
Transfer(p) ==
  /\ pc[p] = "act" /\ cmd[p].op \in DataOps
  /\ size' = IF cmd[p].op = "write_character" /\ EndOf(cmd[p].num) > size
             THEN EndOf(cmd[p].num) ELSE size
  /\ pc' = [pc EXCEPT ![p] = "prompt"] /\ cmd' = [cmd EXCEPT ![p] = NoCommand]
  /\ UNCHANGED <<lock, counter, fileSize, printed, later, steady>>

-----------------------------------------------------------------------------
(* print_locks takes the size of the file when it begins.                  *)
StartPrint(p) ==
  /\ pc[p] = "prompt"
  /\ pc' = [pc EXCEPT ![p] = "print"]
  /\ counter' = [counter EXCEPT ![p] = 0]
  /\ fileSize' = [fileSize EXCEPT ![p] = size]
  /\ printed' = [printed EXCEPT ![p] = {}]
  /\ steady' = [steady EXCEPT ![p] = Locked(lock)]
  /\ UNCHANGED <<lock, size, cmd, later>>

ToShell(p) == Shells \ {p}            \* planted defect: asked without fork
ToChild(p) == Shells

PrintByte(p) ==
  /\ pc[p] = "print" /\ counter[p] < fileSize[p]
  /\ printed' = IF \E q \in ToChild(p) : lock[q][counter[p]] # "none"
                THEN [printed EXCEPT ![p] = @ \cup {counter[p]}] ELSE printed
  /\ counter' = [counter EXCEPT ![p] = @ + 1]
  /\ UNCHANGED <<lock, size, pc, cmd, fileSize, later, steady>>

EndPrint(p) ==
  /\ pc[p] = "print" /\ counter[p] = fileSize[p]
  /\ pc' = [pc EXCEPT ![p] = "prompt"]
  /\ counter' = [counter EXCEPT ![p] = 0] /\ fileSize' = [fileSize EXCEPT ![p] = 0]
  /\ printed' = [printed EXCEPT ![p] = {}] /\ steady' = [steady EXCEPT ![p] = {}]
  /\ UNCHANGED <<lock, size, cmd, later>>

(* External: a shell is killed, and the kernel drops its locks.  "exit"    *)
(* never ends one, as it is compared with a line that has a newline.       *)
Die(p) ==
  /\ pc[p] \in {"prompt", "act"}
  /\ pc' = [pc EXCEPT ![p] = "dead"] /\ cmd' = [cmd EXCEPT ![p] = NoCommand]
  /\ lock' = [lock EXCEPT ![p] = [b \in Bytes |-> "none"]]
  /\ steady' = [q \in Shells |-> steady[q] \cap Locked(lock')]
  /\ UNCHANGED <<size, counter, fileSize, printed, later>>

Next == \E p \in Shells : \/ Check(p) \/ Acquire(p) \/ Free(p) \/ Transfer(p)
                          \/ StartPrint(p) \/ PrintByte(p) \/ EndPrint(p) \/ Die(p)
Spec == Init /\ [][Next]_vars

-----------------------------------------------------------------------------
(* Types of the locks, the file and the shells.                            *)
TypeOK ==
  /\ lock \in [Shells -> [Bytes -> {"none", "read", "write"}]]
  /\ size \in 1 .. LastByte + 1
  /\ pc \in [Shells -> {"prompt", "act", "print", "dead"}]
  /\ cmd \in [Shells -> Command \cup {NoCommand}]
  /\ counter \in [Shells -> 0 .. LastByte + 1] /\ fileSize \in [Shells -> 0 .. LastByte + 1]
  /\ printed \in [Shells -> SUBSET Bytes] /\ steady \in [Shells -> SUBSET Bytes]
  /\ later \in [Shells -> SUBSET Shells]

(* Who reads, writes or frees a byte against somebody's lock does so only  *)
(* because that lock was taken between his check and his act: a window as  *)
(* long as the user takes to type.                                         *)
OnlyLateLocksIgnored == \A p \in Shells :
  pc[p] = "act" => Opposed(p, cmd[p].op, cmd[p].num) \subseteq later[p]

(* print_locks misses no byte of the file that was locked all the time it  *)
(* ran, be it by the shell itself; bytes past the end it never asks for.   *)
SteadyLocksPrinted == \A p \in Shells :
  pc[p] = "print" /\ counter[p] = fileSize[p] =>
    {b \in steady[p] : b < fileSize[p]} \subseteq printed[p]
=============================================================================
