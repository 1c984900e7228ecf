------------------------------ MODULE Pipeline ------------------------------
(***************************************************************************)
(* ls -l | grep ^d | wc -l, as lab5/zad1 builds it from pipe and fork: the *)
(* first process lists the directory, its child passes the directories on, *)
(* and the child's child counts them.  lab5/zad3 has the same shape with   *)
(* popen: the program copies every line from ls, which is external, to an  *)
(* external grep whose output goes to a file.                              *)
(*                                                                         *)
(* A line is "d" for a directory or "-".  The end of a pipe is seen when   *)
(* no process has its write end open, so every copy that fork made counts. *)
(***************************************************************************)
EXTENDS Integers, Sequences, FiniteSets

CONSTANTS MaxEntries, \* bound: entries of the directory
          PipeLen     \* lines a pipe holds

Procs == {"ls", "grep", "wc"}
Line == {"d", "-"}

VARIABLES popen,      \* whether it is zad3's program
          entries,    \* what readdir has still to return
          pipe1, pipe2,      \* fd, sub_fd: the lines in them
          writers1, writers2,\* who has their write ends open
          pc,         \* "none", "start", "loop", "wait", "end"
          count,      \* num_lines, or the lines in folders.txt
          dirs,       \* history: directories in the listing
          gaveUp      \* history: an entry was gone when lstat came to it

vars == <<popen, entries, pipe1, pipe2, writers1, writers2, pc, count, dirs, gaveUp>>

DirsIn(s) == Cardinality({k \in 1 .. Len(s) : s[k] = "d"})

Init ==
  /\ popen = FALSE
  /\ entries = <<>> /\ dirs = 0 /\ gaveUp = FALSE
  /\ pipe1 = <<>> /\ pipe2 = <<>>
  /\ writers1 = {} /\ writers2 = {}
  /\ pc = [p \in Procs |-> IF p = "ls" THEN "start" ELSE "none"]
  /\ count = 0

-----------------------------------------------------------------------------
(* pipe and fork of zad1, the child with both ends; popen leaves each      *)
(* process with the end it needs.                                          *)
Fork1 ==
  /\ pc["ls"] = "start"
  /\ \E s \in UNION {[1 .. n -> Line] : n \in 0 .. MaxEntries} :
       entries' = s /\ dirs' = DirsIn(s)
  /\ \/ /\ popen' = FALSE
        /\ writers1' = {"ls", "grep"} /\ writers2' = {}
        /\ pc' = [pc EXCEPT !["ls"] = "loop", !["grep"] = "start"]
     \/ /\ popen' = TRUE
        /\ writers1' = {"ls"} /\ writers2' = {"grep"}
        /\ pc' = [p \in Procs |-> "loop"]
  /\ UNCHANGED <<pipe1, pipe2, count, gaveUp>>

GrepKeepsBoth == writers1             \* planted defect: close(fd[1]) left out
GrepCloses == writers1 \ {"grep"}
WcCloses == writers2 \ {"wc"}

(* The child closes what it does not write to and forks in turn.           *)
Fork2 ==
  /\ pc["grep"] = "start"
  /\ writers1' = IF "grep" \in GrepCloses THEN writers1 \cup {"wc"} ELSE GrepCloses
  /\ writers2' = {"grep", "wc"}
  /\ pc' = [pc EXCEPT !["grep"] = "loop", !["wc"] = "start"]
  /\ UNCHANGED <<popen, entries, pipe1, pipe2, count, dirs, gaveUp>>

StartWc ==
  /\ pc["wc"] = "start"
  /\ writers2' = WcCloses
  /\ pc' = [pc EXCEPT !["wc"] = "loop"]
  /\ UNCHANGED <<popen, entries, pipe1, pipe2, writers1, count, dirs, gaveUp>>

AlwaysRoom(pipe) == TRUE              \* planted defect
HasRoom(pipe) == Len(pipe) < PipeLen

(* An entry is listed, or is gone by now, upon which zad1 gives up without *)
(* waiting for anybody.                                                    *)
List ==
  /\ pc["ls"] = "loop" /\ entries # <<>>
  /\ entries' = Tail(entries)
  /\ \/ /\ HasRoom(pipe1)
        /\ pipe1' = Append(pipe1, Head(entries))
        /\ UNCHANGED <<writers1, pc, gaveUp>>
     \/ /\ ~popen
        /\ gaveUp' = TRUE /\ writers1' = writers1 \ {"ls"}
        /\ pc' = [pc EXCEPT !["ls"] = "end"]
        /\ UNCHANGED pipe1
  /\ UNCHANGED <<popen, pipe2, writers2, count, dirs>>

EndList ==
  /\ pc["ls"] = "loop" /\ entries = <<>>
  /\ writers1' = writers1 \ {"ls"}
  /\ pc' = [pc EXCEPT !["ls"] = IF popen THEN "end" ELSE "wait"]
  /\ UNCHANGED <<popen, entries, pipe1, pipe2, writers2, count, dirs, gaveUp>>

Everything(line) == TRUE              \* planted defect: line[0] not looked at
Passed(line) == popen \/ line = "d"

Filter ==
  /\ pc["grep"] = "loop" /\ pipe1 # <<>>
  /\ pipe1' = Tail(pipe1)
  /\ IF Passed(Head(pipe1))
     THEN HasRoom(pipe2) /\ pipe2' = Append(pipe2, Head(pipe1))
     ELSE UNCHANGED pipe2
  /\ UNCHANGED <<popen, entries, writers1, writers2, pc, count, dirs, gaveUp>>

EndFilter ==
  /\ pc["grep"] = "loop" /\ pipe1 = <<>> /\ writers1 = {}
  /\ writers2' = writers2 \ {"grep"}
  /\ pc' = [pc EXCEPT !["grep"] = "wait"]
  /\ UNCHANGED <<popen, entries, pipe1, pipe2, writers1, count, dirs, gaveUp>>

Count ==
  /\ pc["wc"] = "loop" /\ pipe2 # <<>>
  /\ pipe2' = Tail(pipe2)
  /\ count' = IF popen /\ Head(pipe2) # "d" THEN count ELSE count + 1
  /\ UNCHANGED <<popen, entries, pipe1, writers1, writers2, pc, dirs, gaveUp>>

EndCount ==
  /\ pc["wc"] = "loop" /\ pipe2 = <<>> /\ writers2 = {}
  /\ pc' = [pc EXCEPT !["wc"] = "end"]
  /\ UNCHANGED <<popen, entries, pipe1, pipe2, writers1, writers2, count, dirs, gaveUp>>

ForChild(p) == IF p = "ls" THEN pc["grep"] = "end" ELSE pc["wc"] = "end"

(* wait() or pclose().                                                     *)
Wait(p) ==
  /\ pc[p] = "wait" /\ ForChild(p)
  /\ pc' = [pc EXCEPT ![p] = "end"]
  /\ UNCHANGED <<popen, entries, pipe1, pipe2, writers1, writers2, count, dirs, gaveUp>>

Next == \/ Fork1 \/ Fork2 \/ StartWc \/ List \/ EndList \/ Filter \/ EndFilter
        \/ Count \/ EndCount \/ Wait("ls") \/ Wait("grep")
(* Every process runs; no behaviour is endless.                            *)
Spec == Init /\ [][Next]_vars /\ WF_vars(Next)

-----------------------------------------------------------------------------
(* Types of the pipes and the processes.                                   *)
TypeOK ==
  /\ popen \in BOOLEAN /\ gaveUp \in BOOLEAN
  /\ entries \in Seq(Line) /\ Len(entries) <= MaxEntries
  /\ pipe1 \in Seq(Line) /\ pipe2 \in Seq(Line)
  /\ Len(pipe1) <= PipeLen /\ Len(pipe2) <= PipeLen
  /\ writers1 \subseteq Procs /\ writers2 \subseteq Procs
  /\ pc \in [Procs -> {"none", "start", "loop", "wait", "end"}]
  /\ count \in 0 .. MaxEntries /\ dirs \in 0 .. MaxEntries

(* When the program that was started ends, the count is finished, and it   *)
(* is the number of directories, unless an entry vanished on the way.      *)
CountIsComplete ==
  LET first == IF popen THEN "grep" ELSE "ls" IN
  pc[first] = "end" /\ ~gaveUp => pc["wc"] = "end" /\ count = dirs

(* Every process ends, for none keeps a write end that another waits for.  *)
EveryoneEnds == <>(\A p \in Procs : pc[p] = "end")
=============================================================================
