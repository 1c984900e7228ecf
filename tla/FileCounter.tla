---------------------------- MODULE FileCounter ----------------------------
(***************************************************************************)
(* The file counter of lab3/zad2: a process per directory, which forks one *)
(* for every directory in its own, waits for them and adds up their exit   *)
(* statuses.  An exit status is one byte, and so is exit(-1), which the    *)
(* parent takes for a count.  Other programs may remove entries meanwhile. *)
(*                                                                         *)
(* A process is named after its directory.  A failing execl, after which   *)
(* the child runs on as a copy of its parent, is left out.                 *)
(***************************************************************************)
EXTENDS Integers, FiniteSets, FiniteSetsExt

CONSTANTS Tree,       \* each entry: the directory it is in and its kind
          Root,       \* the argument of the first process, in Tree as well
          Byte,       \* the number of exit statuses, 256
          MaxGone     \* bound: entries removed meanwhile

Entries == DOMAIN Tree
Dirs == {e \in Entries : Tree[e].kind = "dir"}
In(dir) == {e \in Entries \ {Root} : Tree[e].in = dir}

VARIABLES options,    \* what the first process is given of "-v" and "-w"
          gone,       \* entries that were removed
          pc,         \* each process: "none", "main", "read", "wait", "exited"
          left,       \* entries it has still to read
          num_processes, num_files, child_files, status,
          unreaped,   \* children that were not waited for
          failed      \* history: processes that ended by exit(-1) or usage()

vars == <<options, gone, pc, left, num_processes, num_files, child_files, status, unreaped,
          failed>>

Init ==
  /\ options = {} /\ gone = {}
  /\ pc = [d \in Dirs |-> IF d = Root THEN "main" ELSE "none"]
  /\ left = [d \in Dirs |-> {}]
  /\ num_processes = [d \in Dirs |-> 0] /\ num_files = [d \in Dirs |-> 0]
  /\ child_files = [d \in Dirs |-> 0] /\ status = [d \in Dirs |-> 0]
  /\ unreaped = [d \in Dirs |-> {}]
  /\ failed = {}

-----------------------------------------------------------------------------
Untruncated(n) == n                   \* planted defect
ExitStatus(n) == n % Byte

Exit(d, n) ==
  /\ pc' = [pc EXCEPT ![d] = "exited"]
  /\ status' = [status EXCEPT ![d] = ExitStatus(n)]

Fail(d, n) ==
  /\ Exit(d, n)
  /\ failed' = failed \cup {d}

IsThere(e) == e \notin gone

(* The arguments and opendir.  With both options a child is given three    *)
(* characters without an end, so it may not recognise them.                *)
Open(d) ==
  /\ pc[d] = "main"
  /\ options' \in IF d = Root THEN SUBSET {"-v", "-w"} ELSE {options}
  /\ \/ /\ d # Root /\ options' = {"-v", "-w"}
        /\ Fail(d, 1) /\ UNCHANGED left
     \/ /\ ~IsThere(d)
        /\ Fail(d, -1) /\ UNCHANGED left
     \/ /\ IsThere(d)
        /\ pc' = [pc EXCEPT ![d] = "read"]
        /\ left' = [left EXCEPT ![d] = In(d) \ gone]
        /\ UNCHANGED <<status, failed>>
  /\ UNCHANGED <<gone, num_processes, num_files, child_files, unreaped>>

OneForgotten(d) == num_processes[d]   \* planted defect
OneMoreProcess(d) == num_processes[d] + 1

(* readdir, lstat and what is to be done with the entry.                   *)
ReadEntry(d) ==
  /\ pc[d] = "read"
  /\ \E e \in left[d] :
       /\ left' = [left EXCEPT ![d] = @ \ {e}]
       /\ \/ /\ ~IsThere(e)
             /\ Fail(d, -1)
             /\ UNCHANGED <<num_processes, num_files, unreaped>>
          \/ /\ IsThere(e) /\ Tree[e].kind = "dir"
             /\ num_processes' = [num_processes EXCEPT ![d] = OneMoreProcess(d)]
             /\ unreaped' = [unreaped EXCEPT ![d] = @ \cup {e}]
             /\ pc' = [pc EXCEPT ![e] = "main"]
             /\ UNCHANGED <<num_files, status, failed>>
          \/ /\ IsThere(e) /\ Tree[e].kind # "dir"
             /\ num_files' = [num_files EXCEPT
                  ![d] = IF Tree[e].kind = "file" THEN @ + 1 ELSE @]
             /\ UNCHANGED <<num_processes, unreaped, pc, status, failed>>
  /\ UNCHANGED <<options, gone, child_files>>

(* fork fails.                                                             *)
ForkFails(d) ==
  /\ pc[d] = "read" /\ \E e \in left[d] : Tree[e].kind = "dir" /\ IsThere(e)
  /\ failed = {}
  /\ Fail(d, -1)
  /\ UNCHANGED <<options, gone, left, num_processes, num_files, child_files, unreaped>>

CloseDir(d) ==
  /\ pc[d] = "read" /\ left[d] = {}
  /\ pc' = [pc EXCEPT ![d] = "wait"]
  /\ UNCHANGED <<options, gone, left, num_processes, num_files, child_files, status,
                 unreaped, failed>>

(* wait: the status is compared with -1, which no byte is.                 *)
Wait(d) ==
  /\ pc[d] = "wait" /\ num_processes[d] > 0
  /\ num_processes' = [num_processes EXCEPT ![d] = @ - 1]
  /\ \E c \in unreaped[d] :
       /\ pc[c] = "exited"
       /\ unreaped' = [unreaped EXCEPT ![d] = @ \ {c}]
       /\ child_files' = [child_files EXCEPT ![d] = @ + status[c]]
  /\ UNCHANGED <<options, gone, pc, left, num_files, status, failed>>

OneLeft(d) == num_processes[d] = 1    \* planted defect
NoneLeft(d) == num_processes[d] = 0
Result(d) == num_files[d] + child_files[d]

Finish(d) ==
  /\ pc[d] = "wait" /\ NoneLeft(d)
  /\ Exit(d, Result(d))
  /\ UNCHANGED <<options, gone, left, num_processes, num_files, child_files,
                 unreaped, failed>>

Vanish(e) ==
  /\ pc[Root] \notin {"main", "exited"}
  /\ e # Root /\ IsThere(e) /\ Cardinality(gone) < MaxGone
  /\ gone' = gone \cup {e}
  /\ UNCHANGED <<options, pc, left, num_processes, num_files, child_files, status,
                 unreaped, failed>>

Step(d) == Open(d) \/ ReadEntry(d) \/ CloseDir(d) \/ Wait(d) \/ Finish(d)
Next == \/ \E d \in Dirs : Step(d) \/ ForkFails(d)
        \/ \E e \in Entries : Vanish(e)
Spec == Init /\ [][Next]_vars /\ WF_vars(\E d \in Dirs : Step(d))

-----------------------------------------------------------------------------
(* Types of the processes' variables; a status is a byte.                  *)
TypeOK ==
  /\ options \subseteq {"-v", "-w"} /\ gone \subseteq Entries
  /\ pc \in [Dirs -> {"none", "main", "read", "wait", "exited"}]
  /\ left \in [Dirs -> SUBSET Entries] /\ unreaped \in [Dirs -> SUBSET Dirs]
  /\ num_processes \in [Dirs -> Nat] /\ num_files \in [Dirs -> Nat]
  /\ child_files \in [Dirs -> Nat] /\ status \in [Dirs -> 0 .. Byte - 1]
  /\ failed \subseteq Dirs

(* The regular files in a directory and below it.                          *)
RECURSIVE Total(_)
Total(d) == LET dirs == In(d) \cap Dirs IN
  Cardinality({e \in In(d) : Tree[e].kind = "file"})
    + MapThenSumSet(LAMBDA c : Total(c), dirs)

RECURSIVE Below(_)
Below(d) == {d} \cup UNION {Below(c) : c \in In(d) \cap Dirs}

(* Where nothing fails a process exits with its number of files in one     *)
(* byte, and prints the full number if each directory in it has less than  *)
(* a byte can hold; a failure is counted as 255 files.                     *)
Unhurt(d) == gone = {} /\ failed \cap Below(d) = {}
CountsModuloByte ==
  \A d \in Dirs : (pc[d] = "exited" /\ Unhurt(d)) =>
    /\ status[d] = Total(d) % Byte
    /\ (\A c \in In(d) \cap Dirs : Total(c) < Byte) => Result(d) = Total(d)

(* A process leaves children behind only when it fails.                    *)
NoOrphans ==
  \A d \in Dirs : (pc[d] = "exited" /\ d \notin failed) => unreaped[d] = {}

(* The first process ends.                                                 *)
RootEnds == <>(pc[Root] = "exited")
=============================================================================
