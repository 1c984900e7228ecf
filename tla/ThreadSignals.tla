--------------------------- MODULE ThreadSignals ----------------------------
(***************************************************************************)
(* The two programs of lab8 about signals in a threaded process.  In zad2a *)
(* main starts N threads that read a file for ever, and then sends a       *)
(* signal in one of five ways; in zad2b the first thread divides by zero.  *)
(*                                                                         *)
(* What is done with a signal is decided by the process, not the thread:   *)
(* signal() in any thread changes it for all.  The handler calls printf,   *)
(* whose first call allocates, so it waits for ever if it interrupted the  *)
(* allocation of its own thread.                                           *)
(***************************************************************************)
EXTENDS Integers, FiniteSets

CONSTANTS N,        \* num_threads
          M,        \* num_records_to_read
          Records   \* how many records the file has

Threads == 1 .. N
Main == 0
Nobody == -1
Tests == 1 .. 5
Division == 6                       \* stands for zad2b
Signals == {"SIGUSR1", "SIGTERM", "SIGKILL", "SIGSTOP"}
Catchable == {"SIGUSR1", "SIGTERM"}

VARIABLES test, sig,  \* testcase_num and sig_num
          main,       \* "arguments", "create", "open", "dispose", "send", "join"
          created,    \* threads created
          running,    \* ALL_THREADS_RUNNING
          process,    \* "alive", "killed", "stopped" or "exited"
          action,     \* what is done with sig: "default", "ignore", "handler"
          pc,         \* where each thread is
          mutex,      \* read_protect_mutex
          offset,     \* the file position the threads share
          handling,   \* who runs sig_handler
          outcome,    \* history: "" before kill(), then "sent", then "printed"
          empty       \* history: empty reads in a row

mainVars == <<test, sig, main, created, running>>
fileVars == <<mutex, offset, empty>>
signalVars == <<action, handling, outcome>>
vars == <<mainVars, process, pc, fileVars, signalVars>>

Init ==
  /\ test = 0 /\ sig = "SIGUSR1" /\ main = "arguments"
  /\ created = 0 /\ running = FALSE
  /\ process = "alive" /\ action = "default"
  /\ pc = [t \in Threads |-> "start"]
  /\ mutex = Nobody /\ offset = 0 /\ empty = 0
  /\ handling = Nobody /\ outcome = ""

-----------------------------------------------------------------------------
(* main.  zad2b takes neither test nor signal.                             *)
Arguments ==
  /\ main = "arguments"
  /\ test' \in Tests \cup {Division}
  /\ sig' \in Signals
  /\ test' = Division => sig' = sig
  /\ main' = "create"
  /\ UNCHANGED <<created, running, process, pc, fileVars, signalVars>>

Create ==
  /\ main = "create"
  /\ created' = created + 1
  /\ main' = IF created' = N THEN "open" ELSE "create"
  /\ UNCHANGED <<test, sig, running, process, pc, fileVars, signalVars>>

AtOnce == "send"                      \* planted defect: kill() before signal()
AfterOpening == CASE test \in {2, 3} -> "dispose"
                  [] test = Division -> "join"
                  [] OTHER -> "send"

OpenBarrier ==
  /\ main = "open"
  /\ running' = TRUE
  /\ main' = AfterOpening
  /\ UNCHANGED <<test, sig, created, process, pc, fileVars, signalVars>>

(* signal() for the whole process; error() ends it if the signal cannot be *)
(* caught or ignored.                                                      *)
Dispose ==
  /\ main = "dispose"
  /\ IF sig \in Catchable
     THEN /\ action' = IF test = 2 THEN "ignore" ELSE "handler"
          /\ main' = "send" /\ UNCHANGED process
     ELSE process' = "exited" /\ UNCHANGED <<action, main>>
  /\ UNCHANGED <<test, sig, created, running, pc, fileVars, handling, outcome>>

(* kill(getpid()) lets any thread take the signal, pthread_kill one of the *)
(* workers.                                                                *)
Candidates == IF test \in {4, 5} THEN Threads ELSE Threads \cup {Main}

Send ==
  /\ main = "send"
  /\ main' = "join" /\ outcome' = "sent"
  /\ process' = CASE sig = "SIGSTOP" -> "stopped"
                  [] sig # "SIGSTOP" /\ action = "default" -> "killed"
                  [] OTHER -> "alive"
  /\ IF action = "handler"
     THEN \E t \in Candidates : handling' = t
     ELSE UNCHANGED handling
  /\ UNCHANGED <<test, sig, created, running, action, pc, fileVars>>

(* sig_handler prints, which needs the allocator.                          *)
NeverPrints == FALSE                  \* planted defect: the handler returns at once
CanPrint == handling \in Threads => pc[handling] # "malloc"

Handle ==
  /\ handling # Nobody
  /\ CanPrint
  /\ handling' = Nobody /\ outcome' = "printed"
  /\ UNCHANGED <<mainVars, process, action, pc, fileVars>>

-----------------------------------------------------------------------------
(* The threads.                                                            *)
Moves(t, from, to) ==
  /\ t <= created /\ handling # t
  /\ pc[t] = from
  /\ pc' = [pc EXCEPT ![t] = to]

(* The handler is set for SIGUSR1 and SIGTERM, in test 4 sig is ignored;   *)
(* in zad2b the first thread divides by zero.                              *)
SetUp(t) ==
  /\ Moves(t, "start", "wait")
  /\ process' = IF test = Division /\ t = 1 THEN "killed" ELSE process
  /\ action' = CASE sig \in Catchable /\ test \in {3, 5} -> "handler"
                 [] sig \in Catchable /\ test = 4 -> "ignore"
                 [] OTHER -> action
  /\ UNCHANGED <<mainVars, fileVars, handling, outcome>>

PassBarrier(t) ==
  /\ running
  /\ Moves(t, "wait", "malloc")
  /\ UNCHANGED <<mainVars, process, fileVars, signalVars>>

Allocated(t) ==
  /\ Moves(t, "malloc", "lock")
  /\ UNCHANGED <<mainVars, process, fileVars, signalVars>>

NoLock == TRUE                        \* planted defect: read without the mutex
Unlocked == mutex = Nobody

Lock(t) ==
  /\ Unlocked
  /\ Moves(t, "lock", "read")
  /\ mutex' = t
  /\ UNCHANGED <<mainVars, process, offset, empty, signalVars>>

AllAskedFor(a, b) == a                \* planted defect: the size, not read_bytes
Least(a, b) == IF a < b THEN a ELSE b

(* A short read is followed by lseek to the start, in the same critical    *)
(* section.                                                                *)
Read(t) ==
  LET n == Least(M, Records - offset) IN
  /\ Moves(t, "read", IF n < M THEN "rewind" ELSE "unlock")
  /\ offset' = offset + n
  /\ empty' = IF n = 0 THEN empty + 1 ELSE 0
  /\ UNCHANGED <<mainVars, process, mutex, signalVars>>

Rewind(t) ==
  /\ Moves(t, "rewind", "unlock")
  /\ offset' = 0
  /\ UNCHANGED <<mainVars, process, mutex, empty, signalVars>>

(* Unlock, and look through the records, which has no effect.              *)
Unlock(t) ==
  /\ Moves(t, "unlock", "lock")
  /\ mutex' = Nobody
  /\ UNCHANGED <<mainVars, process, offset, empty, signalVars>>

MainStep == Arguments \/ Create \/ OpenBarrier \/ Dispose \/ Send
ThreadStep(t) == \/ SetUp(t) \/ PassBarrier(t) \/ Allocated(t)
                 \/ Lock(t) \/ Read(t) \/ Rewind(t) \/ Unlock(t)

Next == process = "alive" /\ (MainStep \/ Handle \/ \E t \in Threads : ThreadStep(t))

(* The main thread runs on, and so does a handler that can.                *)
Progress == process = "alive" /\ (MainStep \/ Handle)
Spec == Init /\ [][Next]_vars /\ WF_vars(Progress)

-----------------------------------------------------------------------------
(* Types of the state of process, main thread and workers.                 *)
TypeOK ==
  /\ test \in 0 .. Division /\ sig \in Signals
  /\ main \in {"arguments", "create", "open", "dispose", "send", "join"}
  /\ created \in 0 .. N /\ running \in BOOLEAN
  /\ process \in {"alive", "killed", "stopped", "exited"}
  /\ action \in {"default", "ignore", "handler"}
  /\ pc \in [Threads -> {"start", "wait", "malloc", "lock", "read", "rewind", "unlock"}]
  /\ mutex \in Threads \cup {Nobody}
  /\ offset \in 0 .. Records /\ empty \in Nat
  /\ handling \in Threads \cup {Main, Nobody}
  /\ outcome \in {"", "sent", "printed"}

(* SIGUSR1 and SIGTERM kill the process only in test 1, where nothing is   *)
(* set, or in tests 4 and 5 before the first thread has got to signal():   *)
(* nothing makes main wait for it.                                         *)
KilledUnpreparedOnly ==
  (process = "killed" /\ sig \in Catchable /\ test # Division) =>
    \/ test = 1
    \/ test \in {4, 5} /\ \A t \in Threads : pc[t] = "start"

(* The file position goes back to the start before anybody else reads, so  *)
(* no two reads in a row find the end of the file, unless the file is      *)
(* empty or nothing is to be read.                                         *)
NoTwoEmptyReads == M > 0 /\ Records > 0 => empty <= 1

(* A signal for which the handler is set is reported in the end, unless    *)
(* the thread that took it was allocating its buffers.                     *)
InAllocation == handling \in Threads /\ pc[handling] = "malloc"
SignalIsReported ==
  (outcome = "sent" /\ handling # Nobody) ~> (outcome = "printed" \/ InAllocation)
=============================================================================
