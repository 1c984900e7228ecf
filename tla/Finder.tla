------------------------------- MODULE Finder -------------------------------
(***************************************************************************)
(* The threaded finder of lab8 (zad1a, zad1b, zad1c): N threads read M     *)
(* records at a time from one file and look for a word; the one that finds *)
(* it cancels all the others.  The three variants differ in how a thread   *)
(* takes a cancellation:                                                   *)
(*                                                                         *)
(*   zad1a "asynchronous"   at any point                                   *)
(*   zad1b "deferred"       at a cancellation point only                   *)
(*   zad1c "disabled"       never                                          *)
(*                                                                         *)
(* A turn of a thread:                                                     *)
(*   lock -> read -> unlock -> check -> scan (-> report -> cancel -> scan) *)
(*                                                                         *)
(* A record is its number.  Number 0 stands for what a part of a buffer    *)
(* holds that no read has filled.                                          *)
(***************************************************************************)
EXTENDS Integers, FiniteSets

CONSTANTS N,          \* num_threads
          M,          \* num_records_to_read
          Records,    \* how many records the file has
          Variants    \* the programs considered

ASSUME NumbersAssumption == /\ N \in Nat \ {0}
                            /\ M \in Nat \ {0}
                            /\ Records \in Nat
ASSUME VariantsAssumption == Variants \subseteq {"asynchronous", "deferred", "disabled"}

Threads == 1 .. N

VARIABLES variant,    \* the program: how it takes cancellations
          matching,   \* the records that contain the word
          created,    \* main: threads created
          running,    \* ALL_THREADS_RUNNING
          joined,     \* main: threads joined
          mutex,      \* read_protect_mutex: who holds it, or Nobody
          offset,     \* the file position the threads share
          pc,         \* where each thread stands
          buf,        \* its rec_buff
          nread,      \* its read_bytes, in records
          loop,       \* its should_loop
          i,          \* the record it scans
          j,          \* the thread it cancels next
          pending,    \* the threads pthread_cancel was called for
          reported    \* history: the records printed

main == <<created, running, joined>>
turn == <<buf, nread, loop, i, j>>
file == <<variant, matching>>
vars == <<file, main, mutex, offset, pc, turn, pending, reported>>

Nobody == 0
Goto(t, l) == pc' = [pc EXCEPT ![t] = l]

Init ==
  /\ variant \in Variants
  /\ matching \in SUBSET (0 .. Records)
  /\ created = 0
  /\ running = FALSE
  /\ joined = 0
  /\ mutex = Nobody
  /\ offset = 0
  /\ pc = [t \in Threads |-> "start"]
  /\ buf = [t \in Threads |-> [n \in 1 .. M |-> 0]]
  /\ nread = [t \in Threads |-> 0]
  /\ loop = [t \in Threads |-> TRUE]
  /\ i = [t \in Threads |-> 1]
  /\ j = [t \in Threads |-> 1]
  /\ pending = {}
  /\ reported = {}

-----------------------------------------------------------------------------
(* main: create the threads, open the barrier, join them in order.         *)
Create ==
  /\ created < N
  /\ created' = created + 1
  /\ UNCHANGED <<file, running, joined, mutex, offset, pc, turn, pending, reported>>

OpenBarrier ==
  /\ created = N /\ ~running
  /\ running' = TRUE
  /\ UNCHANGED <<file, created, joined, mutex, offset, pc, turn, pending, reported>>

Join ==
  /\ running /\ joined < N
  /\ pc[joined + 1] \in {"ended", "cancelled"}
  /\ joined' = joined + 1
  /\ UNCHANGED <<file, created, running, mutex, offset, pc, turn, pending, reported>>

-----------------------------------------------------------------------------
(* A cancellation point a thread cannot pass once it is cancelled.         *)
Stopped(t) == variant # "disabled" /\ t \in pending

NoBarrier == TRUE                        \* planted defect: the wait left out
Passed == running

PassBarrier(t) ==
  /\ t <= created
  /\ pc[t] = "start"
  /\ Passed
  /\ Goto(t, "lock")
  /\ UNCHANGED <<file, main, mutex, offset, turn, pending, reported>>

Lock(t) ==
  /\ pc[t] = "lock"
  /\ mutex = Nobody
  /\ mutex' = t
  /\ Goto(t, "read")
  /\ UNCHANGED <<file, main, offset, turn, pending, reported>>

Least(m, n) == IF m < n THEN m ELSE n

(* read() fills the head of the buffer and leaves the rest as it was.  It  *)
(* is a cancellation point, inside the critical section.                   *)
Read(t) ==
  /\ pc[t] = "read"
  /\ ~Stopped(t)
  /\ nread' = [nread EXCEPT ![t] = Least(M, Records - offset)]
  /\ buf' = [buf EXCEPT ![t] = [n \in 1 .. M |->
                                  IF n <= nread'[t] THEN offset + n ELSE @[n]]]
  /\ offset' = offset + nread'[t]
  /\ Goto(t, "unlock")
  /\ UNCHANGED <<file, main, mutex, loop, i, j, pending, reported>>

Unlock(t) ==
  /\ pc[t] = "unlock"
  /\ mutex' = Nobody
  /\ Goto(t, "check")
  /\ UNCHANGED <<file, main, offset, turn, pending, reported>>

NeverShort(n) == n < 0                   \* planted defect: only an error ends the loop
Short(n) == n < M

(* pthread_testcancel, and the test for the end of the file.               *)
Check(t) ==
  /\ pc[t] = "check"
  /\ ~Stopped(t)
  /\ loop' = [loop EXCEPT ![t] = @ /\ ~Short(nread[t])]
  /\ i' = [i EXCEPT ![t] = 1]
  /\ Goto(t, "scan")
  /\ UNCHANGED <<file, main, mutex, offset, buf, nread, j, pending, reported>>

OneTooFew(n) == n >= M                   \* planted defect: the last record left out
AllScanned(n) == n > M

(* One record of the buffer: all M are looked at, however many were read.  *)
Miss(t) ==
  /\ pc[t] = "scan"
  /\ ~AllScanned(i[t])
  /\ buf[t][i[t]] \notin matching
  /\ i' = [i EXCEPT ![t] = @ + 1]
  /\ UNCHANGED <<file, main, mutex, offset, pc, buf, nread, loop, j, pending, reported>>

Find(t) ==
  /\ pc[t] = "scan"
  /\ ~AllScanned(i[t])
  /\ buf[t][i[t]] \in matching
  /\ Goto(t, "report")
  /\ UNCHANGED <<file, main, mutex, offset, turn, pending, reported>>

Report(t) ==
  /\ pc[t] = "report"
  /\ reported' = reported \cup {buf[t][i[t]]}
  /\ loop' = [loop EXCEPT ![t] = FALSE]
  /\ j' = [j EXCEPT ![t] = 1]
  /\ Goto(t, "cancel")
  /\ UNCHANGED <<file, main, mutex, offset, buf, nread, i, pending>>

OneTooMany(n) == n > N + 1               \* planted defect: j <= num_threads
AllCancelled(n) == n > N

(* One turn of the loop that cancels every thread but the caller.          *)
CancelOne(t) ==
  /\ pc[t] = "cancel"
  /\ ~AllCancelled(j[t])
  /\ pending' = IF j[t] = t THEN pending ELSE pending \cup {j[t]}
  /\ j' = [j EXCEPT ![t] = @ + 1]
  /\ UNCHANGED <<file, main, mutex, offset, pc, buf, nread, loop, i, reported>>

NextRecord(t) ==
  /\ pc[t] = "cancel"
  /\ AllCancelled(j[t])
  /\ i' = [i EXCEPT ![t] = @ + 1]
  /\ Goto(t, "scan")
  /\ UNCHANGED <<file, main, mutex, offset, buf, nread, loop, j, pending, reported>>

NextTurn(t) ==
  /\ pc[t] = "scan"
  /\ AllScanned(i[t])
  /\ Goto(t, IF loop[t] THEN "lock" ELSE "ended")
  /\ UNCHANGED <<file, main, mutex, offset, turn, pending, reported>>

(* A thread dies of a cancellation.  Nothing unlocks the mutex for it: no  *)
(* cleanup handler is pushed.  usleep at the barrier is a cancellation     *)
(* point, printf may be one.                                               *)
Points == {"start", "read", "check", "report"}

Die(t) ==
  /\ t \in pending
  /\ pc[t] \notin {"ended", "cancelled"}
  /\ \/ variant = "asynchronous"
     \/ variant = "deferred" /\ pc[t] \in Points
  /\ Goto(t, "cancelled")
  /\ UNCHANGED <<file, main, mutex, offset, turn, pending, reported>>

Step(t) == \/ PassBarrier(t) \/ Lock(t) \/ Read(t) \/ Unlock(t) \/ Check(t)
           \/ Miss(t) \/ Find(t) \/ Report(t)
           \/ CancelOne(t) \/ NextRecord(t) \/ NextTurn(t)

Returned == joined = N
Idle == Returned /\ UNCHANGED vars        \* the process is over

Next == Create \/ OpenBarrier \/ Join \/ Idle \/ \E t \in Threads : Step(t) \/ Die(t)

Spec == Init /\ [][Next]_vars

(* Every runnable thread is scheduled, and a signal arrives in the end.    *)
FairSpec == /\ Spec
            /\ WF_vars(Create \/ OpenBarrier \/ Join)
            /\ \A t \in Threads : WF_vars(Step(t)) /\ WF_vars(Die(t))

-----------------------------------------------------------------------------
Labels == {"start", "lock", "read", "unlock", "check", "scan", "report", "cancel",
           "ended", "cancelled"}

TypeOK ==
  /\ created \in 0 .. N /\ joined \in 0 .. N /\ running \in BOOLEAN
  /\ mutex \in 0 .. N
  /\ offset \in 0 .. Records
  /\ pc \in [Threads -> Labels]
  /\ buf \in [Threads -> [1 .. M -> 0 .. Records]]
  /\ nread \in [Threads -> 0 .. M]
  /\ loop \in [Threads -> BOOLEAN]
  /\ i \in [Threads -> 1 .. M + 1]
  /\ j \in [Threads -> 1 .. N + 1]

(* "this is to avoid cancelling not yet started threads in case of early   *)
(* success": pthread_cancel is called for threads that exist, only.        *)
CancelsCreatedThreads == TypeOK /\ \A t \in pending : t <= created

(* If a record contains the word, some thread has printed a finding by the *)
(* time main returns: a thread that is cancelled on its way to the record, *)
(* or that stops at the end of the file, never takes the answer with it.   *)
AnswerIsFound == Returned /\ matching \ {0} # {} => reported # {}

(* main returns from the last join, in zad1c always.  In zad1a and zad1b   *)
(* the one thing that keeps it from returning is a thread that was         *)
(* cancelled between lock and unlock and took the mutex with it.           *)
Orphaned == mutex # Nobody /\ pc[mutex] = "cancelled"
MainReturnsOrOrphans == <>(Returned \/ (variant # "disabled" /\ Orphaned))
=============================================================================
