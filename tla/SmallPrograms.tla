---------------------------- MODULE SmallPrograms ---------------------------
(* The programs of lab2 to lab5 and zad2 of lab8 whose properties are      *)
(* proved: the sort on a file, the record lock shell, the measurement of   *)
(* process creation, the signal programs, the FIFO, the pipes and the      *)
(* threads that get signals.  Each has its variables; those that have the  *)
(* name of another program's are renamed.                                  *)
EXTENDS Integers, FiniteSets

CONSTANTS Keys, MaxRecords,              \* the sort
          Shells, LastByte,              \* record locks
          MaxN,                          \* process creation
          Variants, MaxSignals, RtLimit, \* signals between two processes
          Writers, PipeBuf, Capacity, MaxLines,  \* the FIFO
          MaxEntries, PipeLen,           \* pipes
          NumThreads, NumRecords, Records        \* signals and threads

ASSUME SortAssumption == Keys \subseteq Int /\ MaxRecords \in Nat
ASSUME LockAssumption == LastByte \in Nat
ASSUME ForkAssumption == MaxN \in Nat
ASSUME PingAssumption == /\ Variants \subseteq {"plain", "confirmed", "realtime"}
                         /\ MaxSignals \in Nat /\ RtLimit \in Nat
ASSUME FifoAssumption == /\ PipeBuf \in Nat /\ Capacity \in Nat /\ MaxLines \in Nat
ASSUME PipeAssumption == MaxEntries \in Nat /\ PipeLen \in Nat
ASSUME ThreadAssumption == /\ NumThreads \in Nat \ {0}
                           /\ NumRecords \in Nat /\ Records \in Nat

VARIABLES io, sortKey, file, pos, sortPc, sortLast, sortCounter, held,
          current, sortA, sortB, saved, broken,
          lock, size, lockPc, cmd, lockCounter, fileSize, lockPrinted, later,
          steady,
          type, forkN, forkMain, made, forkPc, read, own, global_variable,
          forkCounter,
          variant, pingN, pingPc, stage, pending1, pending2, pingCounter,
          flag, confirmation, pingI, once, unset,
          exists, fifo, reader, writer, lines, fifoLast, late,
          popen, entries, pipe1, pipe2, writers1, writers2, pipePc, count,
          dirs, gaveUp,
          test, sig, signalMain, created, running, process, action, signalPc,
          mutex, offset, handling, outcome, empty

Sort == INSTANCE BubbleSort WITH
  key <- sortKey, pc <- sortPc, last <- sortLast, counter <- sortCounter,
  a <- sortA, b <- sortB
Locks == INSTANCE FileLock WITH
  pc <- lockPc, counter <- lockCounter, printed <- lockPrinted
Forks == INSTANCE Forking WITH
  N <- forkN, main <- forkMain, pc <- forkPc, counter <- forkCounter
Ping == INSTANCE PingPong WITH
  N <- pingN, pc <- pingPc, counter <- pingCounter, i <- pingI
Fifos == INSTANCE Fifo WITH last <- fifoLast
Pipe == INSTANCE Pipeline WITH pc <- pipePc
Signals == INSTANCE ThreadSignals WITH
  N <- NumThreads, M <- NumRecords, main <- signalMain, pc <- signalPc

-----------------------------------------------------------------------------
(* Sort in a file: no record is lost but by a write that failed, the tail  *)
(* that was passed is sorted, and no read is outside of the file.          *)
SortSound == Sort!TypeOK /\ Sort!RecordsKept /\ Sort!TailSorted /\ Sort!ReadsInside

(* Record locks: only a lock taken after the question is overlooked, and   *)
(* one that was there all the time is printed.                             *)
LocksSound == Locks!TypeOK /\ Locks!OnlyLateLocksIgnored /\ Locks!SteadyLocksPrinted

(* Parent and children: those that share memory or not count what they     *)
(* should, and signals are counted as the kernel merges or queues them.    *)
ProcessesSound == /\ Forks!TypeOK /\ Forks!NothingLost
                  /\ Ping!TypeOK /\ Ping!CountedRight

(* Signals and threads: only a thread that has not prepared is killed by   *)
(* surprise, and no two reads come back empty.                             *)
SignalsSound == /\ Signals!TypeOK /\ Signals!KilledUnpreparedOnly
                /\ Signals!NoTwoEmptyReads

(* Pipes: lines are split only when the pipe is full, lost only by writers *)
(* that came late, and wc counts what ls wrote.                            *)
PipesSound == /\ Fifos!TypeOK /\ Fifos!SplitOnlyWhenFull /\ Fifos!OnlyLateLinesLost
              /\ Pipe!TypeOK /\ Pipe!CountIsComplete
=============================================================================
