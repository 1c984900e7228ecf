--------------------------- MODULE ReadersWriters ---------------------------
(***************************************************************************)
(* The readers and writers of lab9/zad2.  sem_writer (1) lets one writer   *)
(* at a time past its door; sem_library_empty holds one permit per reader. *)
(* A reader reads with one permit; a writer takes all of them, one         *)
(* sem_wait at a time, before it writes, and posts them back one by one.   *)
(*                                                                         *)
(* The library is a small array.  A reader scans it cell by cell, a writer *)
(* changes up to MaxModify random cells one by one, so that a write in the *)
(* middle of a scan would show in the number the reader reports.           *)
(***************************************************************************)
EXTENDS Integers, FiniteSets

CONSTANTS Readers, Writers,  \* the threads
          LibrarySize,       \* LIBRARY_SIZE
          MaxNum,            \* MAX_NUM
          MaxModify          \* the 100 of writer_write

NumReaders == Cardinality(Readers)

ASSUME ThreadsAssumption == /\ IsFiniteSet(Readers)
                            /\ Readers \cap Writers = {}
                            /\ Readers # {}
ASSUME LibraryAssumption == /\ LibrarySize \in Nat \ {0}
                            /\ MaxNum \in Nat \ {0}
                            /\ MaxModify \in Nat \ {0}

Threads == Readers \cup Writers
Cells == 0 .. LibrarySize - 1

VARIABLES library,        \* the shared array
          semWriter,      \* sem_writer
          permits,        \* sem_library_empty
          pc,             \* where each thread stands
          num,            \* the number a reader looks for
          pos,            \* the cell a reader looks at next
          found,          \* its num_found
          taken,          \* how many permits a writer holds
          left            \* how many cells it still has to modify

scan == <<pos, found>>
vars == <<library, semWriter, permits, pc, num, scan, taken, left>>

Goto(t, l) == pc' = [pc EXCEPT ![t] = l]

Init ==
  /\ library = [c \in Cells |-> 0]
  /\ semWriter = 1
  /\ permits = NumReaders
  /\ pc = [t \in Threads |-> "outside"]
  /\ num \in [Readers -> 1 .. MaxNum]
  /\ pos = [r \in Readers |-> 0]
  /\ found = [r \in Readers |-> 0]
  /\ taken = [w \in Writers |-> 0]
  /\ left = [w \in Writers |-> 0]

-----------------------------------------------------------------------------
(* wait(&sem_library_empty), then reader_read begins.                      *)
Enter(r) ==
  /\ pc[r] = "outside"
  /\ permits > 0
  /\ permits' = permits - 1
  /\ pos' = [pos EXCEPT ![r] = 0]
  /\ found' = [found EXCEPT ![r] = 0]
  /\ Goto(r, "reading")
  /\ UNCHANGED <<library, semWriter, num, taken, left>>

(* One turn of the loop of reader_read.                                    *)
LookAtCell(r) ==
  /\ pc[r] = "reading"
  /\ pos[r] < LibrarySize
  /\ found' = [found EXCEPT ![r] = IF library[pos[r]] = num[r] THEN @ + 1 ELSE @]
  /\ pos' = [pos EXCEPT ![r] = @ + 1]
  /\ UNCHANGED <<library, semWriter, permits, pc, num, taken, left>>

(* The number is printed and the permit posted.                            *)
Leave(r) ==
  /\ pc[r] = "reading"
  /\ pos[r] = LibrarySize
  /\ permits' = permits + 1
  /\ Goto(r, "outside")
  /\ UNCHANGED <<library, semWriter, num, scan, taken, left>>

-----------------------------------------------------------------------------
(* wait(&sem_writer).                                                      *)
DoorAlwaysOpen == TRUE                   \* planted defect: no wait at the door
DoorOpen == semWriter > 0

PassDoor(w) ==
  /\ pc[w] = "outside"
  /\ DoorOpen
  /\ semWriter' = IF semWriter > 0 THEN semWriter - 1 ELSE 0
  /\ Goto(w, "collecting")
  /\ UNCHANGED <<library, permits, num, scan, taken, left>>

AllButOne(n) == n >= NumReaders - 1      \* planted defect: i < NUM_READERS - 1
AllTaken(n) == n = NumReaders

(* One turn of the loop that takes a permit per reader.                    *)
Collect(w) ==
  /\ pc[w] = "collecting"
  /\ ~AllTaken(taken[w])
  /\ permits > 0
  /\ permits' = permits - 1
  /\ taken' = [taken EXCEPT ![w] = @ + 1]
  /\ UNCHANGED <<library, semWriter, pc, num, scan, left>>

(* writer_write draws how many cells it will modify...                     *)
StartWriting(w) ==
  /\ pc[w] = "collecting"
  /\ AllTaken(taken[w])
  /\ \E n \in 1 .. MaxModify : left' = [left EXCEPT ![w] = n]
  /\ Goto(w, "writing")
  /\ UNCHANGED <<library, semWriter, permits, num, scan, taken>>

(* ... and modifies one random cell at a time.                             *)
ModifyCell(w) ==
  /\ pc[w] = "writing"
  /\ left[w] > 0
  /\ \E c \in Cells, v \in 0 .. MaxNum : library' = [library EXCEPT ![c] = v]
  /\ left' = [left EXCEPT ![w] = @ - 1]
  /\ UNCHANGED <<semWriter, permits, pc, num, scan, taken>>

StopWriting(w) ==
  /\ pc[w] = "writing"
  /\ left[w] = 0
  /\ Goto(w, "returning")
  /\ UNCHANGED <<library, semWriter, permits, num, scan, taken, left>>

NoneTaken(n) == n = 0

(* One turn of the loop that posts the permits back.                       *)
Return(w) ==
  /\ pc[w] = "returning"
  /\ ~NoneTaken(taken[w])
  /\ permits' = permits + 1
  /\ taken' = [taken EXCEPT ![w] = @ - 1]
  /\ UNCHANGED <<library, semWriter, pc, num, scan, left>>

(* post(&sem_writer).                                                      *)
LeaveDoor(w) ==
  /\ pc[w] = "returning"
  /\ NoneTaken(taken[w])
  /\ semWriter' = semWriter + 1
  /\ Goto(w, "outside")
  /\ UNCHANGED <<library, permits, num, scan, taken, left>>

ReaderStep(r) == Enter(r) \/ LookAtCell(r) \/ Leave(r)

WriterStep(w) == \/ PassDoor(w) \/ Collect(w)
                 \/ StartWriting(w) \/ ModifyCell(w) \/ StopWriting(w)
                 \/ Return(w) \/ LeaveDoor(w)

Next == (\E r \in Readers : ReaderStep(r)) \/ (\E w \in Writers : WriterStep(w))

Spec == Init /\ [][Next]_vars

(* Every thread that can move is scheduled in the end.  sem_wait promises  *)
(* no order among the threads that compete for a permit.                   *)
FairSpec == /\ Spec
            /\ \A r \in Readers : WF_vars(ReaderStep(r))
            /\ \A w \in Writers : WF_vars(WriterStep(w))

-----------------------------------------------------------------------------
Labels == {"outside", "reading", "collecting", "writing", "returning"}

TypeOK ==
  /\ library \in [Cells -> 0 .. MaxNum]
  /\ semWriter \in {0, 1}
  /\ permits \in 0 .. NumReaders
  /\ pc \in [Threads -> Labels]
  /\ num \in [Readers -> 1 .. MaxNum]
  /\ pos \in [Readers -> 0 .. LibrarySize]
  /\ found \in [Readers -> 0 .. LibrarySize]
  /\ taken \in [Writers -> 0 .. NumReaders]
  /\ left \in [Writers -> 0 .. MaxModify]

Inside == {r \in Readers : pc[r] = "reading"}
Active(w) == pc[w] # "outside"

(* A writer writes alone: no reader is in the library and no other writer  *)
(* is past the door, although the permits are taken and posted one by one. *)
WritesAlone ==
  \A w \in Writers : pc[w] = "writing" =>
    Inside = {} /\ \A v \in Writers : Active(v) => v = w

(* Every permit is in the semaphore, with a reader inside, or with the one *)
(* writer past the door: two writers never share the collected permits,    *)
(* which would leave both waiting for the rest.                            *)
PermitsAccounted ==
  /\ \A w \in Writers : Active(w) =>
       permits + Cardinality(Inside) + taken[w] = NumReaders
  /\ (\A w \in Writers : ~Active(w)) => permits + Cardinality(Inside) = NumReaders

(* The count a reader prints is the number of occurrences in the library   *)
(* as it is when it prints: no cell it has scanned was changed meanwhile.  *)
ReportIsCurrent ==
  \A r \in Readers : pc[r] = "reading" =>
    found[r] = Cardinality({c \in Cells : c < pos[r] /\ library[c] = num[r]})

(* The library is never abandoned: again and again some thread reads or    *)
(* writes.  A writer that has collected part of the permits cannot block   *)
(* everyone, because the readers inside always come out.                   *)
SomeoneAlwaysWorks ==
  []<>(Inside # {} \/ \E w \in Writers : pc[w] = "writing")
=============================================================================
