----------------------------- MODULE BubbleSort -----------------------------
(***************************************************************************)
(* The bubble sort of lab2/zad1 on the records of a file, with one file    *)
(* position that reading and swapping share: swap_records saves it, seeks  *)
(* to both records and restores it.  The first byte of a record is its     *)
(* key.  "SYS" uses read and write, "LIB" the C library, which checks      *)
(* fwrite for a result it never gives.  Positions count records.           *)
(***************************************************************************)
EXTENDS Integers, Sequences

CONSTANTS MaxRecords, \* bound: records in the file
          Keys

VARIABLES io,      \* io_type, "" before the arguments are read
          key,     \* the key of each record the generator made
          file,    \* the records in the file
          pos,     \* the file position
          pc,      \* "open", "rewind", "first", "next", "compare", "done", "exited"
                   \* or where swap_records is
          last,    \* last_unsorted_element_index
          counter,
          held,    \* previous_record
          current, \* current_record
          a, b,    \* a_buffer, tmp_buffer
          saved,   \* current_file_position
          broken   \* history: a write has failed

vars == <<io, key, file, pos, pc, last, counter, held, current, a, b, saved, broken>>
buffers == <<a, b, saved>>
sortVars == <<last, counter, held, current>>

Swapping == {"save", "readA", "readB", "writeA", "writeB", "restore"}
None == 0

Init ==
  /\ io = "" /\ key = <<>> /\ file = <<>> /\ pos = 0 /\ pc = "open"
  /\ last = -1 /\ counter = 0 /\ held = None /\ current = None
  /\ a = None /\ b = None /\ saved = 0 /\ broken = FALSE

N == Len(key)                         \* number_of_records
OneMore == N                          \* planted defect
LastIndex == N - 1

(* The file as records_generator leaves it; with one record or none there  *)
(* is nothing to do.                                                       *)
Open ==
  /\ pc = "open"
  /\ io' \in {"SYS", "LIB"}
  /\ \E n \in 0 .. MaxRecords : key' \in [1 .. n -> Keys]
  /\ file' = [i \in DOMAIN key' |-> i]
  /\ pc' = IF Len(key') <= 1 THEN "done" ELSE "rewind"
  /\ last' = LastIndex'
  /\ UNCHANGED <<pos, counter, held, current, buffers, broken>>

-----------------------------------------------------------------------------
(* perform_bubble_sort: set_file_start and get_next_record.                *)
SetFileStart ==
  /\ pc = "rewind"
  /\ pos' = 0 /\ pc' = "first"
  /\ UNCHANGED <<io, key, file, sortVars, buffers, broken>>

(* At the end of the file "SYS" goes back to the start, "LIB" exits.       *)
AtEnd == pos = N
Place == IF AtEnd THEN 1 ELSE pos + 1
FirstRecord ==
  /\ pc = "first"
  /\ held' = file[Place] /\ pos' = Place
  /\ counter' = 1 /\ pc' = "next"
  /\ UNCHANGED <<io, key, file, last, current, buffers, broken>>

NextRecord ==
  /\ pc = "next" /\ counter <= last
  /\ IF AtEnd /\ io = "LIB"
     THEN pc' = "exited" /\ UNCHANGED <<current, pos>>
     ELSE current' = file[Place] /\ pos' = Place /\ pc' = "compare"
  /\ UNCHANGED <<io, key, file, last, counter, held, buffers, broken>>

NotGreater(x, y) == key[x] <= key[y]  \* planted defect
Smaller(x, y) == key[x] < key[y]

Compare ==
  /\ pc = "compare"
  /\ IF Smaller(current, held)
     THEN pc' = "save" /\ UNCHANGED <<counter, held>>
     ELSE pc' = "next" /\ held' = current /\ counter' = counter + 1
  /\ UNCHANGED <<io, key, file, pos, last, current, buffers, broken>>

NotCounted == last                    \* planted defect
OneSorted == last - 1

EndPass ==
  /\ pc = "next" /\ counter > last
  /\ last' = OneSorted
  /\ pc' = IF last' >= 1 THEN "rewind" ELSE "done"
  /\ UNCHANGED <<io, key, file, pos, counter, held, current, buffers, broken>>

-----------------------------------------------------------------------------
(* swap_records(counter - 1, counter): a seek before each read and write.  *)
Call(from, to) == pc = from /\ pc' = to

Save ==
  /\ Call("save", "readA")
  /\ saved' = pos
  /\ UNCHANGED <<io, key, file, pos, sortVars, a, b, broken>>

ReadA ==
  /\ Call("readA", "readB")
  /\ a' = file[counter] /\ pos' = counter
  /\ UNCHANGED <<io, key, file, sortVars, b, saved, broken>>

ReadB ==
  /\ Call("readB", "writeA")
  /\ b' = file[counter + 1] /\ pos' = counter + 1
  /\ UNCHANGED <<io, key, file, sortVars, a, saved, broken>>

WriteA ==
  /\ Call("writeA", "writeB")
  /\ file' = [file EXCEPT ![counter] = b] /\ pos' = counter
  /\ UNCHANGED <<io, key, sortVars, buffers, broken>>

SameAgain == b                        \* planted defect: one buffer for both
Exchanged == a

WriteB ==
  /\ Call("writeB", "restore")
  /\ file' = [file EXCEPT ![counter + 1] = Exchanged] /\ pos' = counter + 1
  /\ UNCHANGED <<io, key, sortVars, buffers, broken>>

BeforeA == counter - 1                \* planted defect: left at the first record
Earlier == saved

Restore ==
  /\ Call("restore", "next")
  /\ pos' = Earlier
  /\ counter' = counter + 1
  /\ UNCHANGED <<io, key, file, last, held, current, buffers, broken>>

(* A call that fails ends the program, but for a library write: it returns  *)
(* 0, and the program compares it with -1.                                 *)
FailUnseen ==
  /\ io = "LIB" /\ pc \in {"writeA", "writeB"}
  /\ pc' = IF pc = "writeA" THEN "writeB" ELSE "restore"
  /\ broken' = TRUE

Fail ==
  /\ pc \in {"rewind", "first", "next"} \cup Swapping
  /\ ~broken
  /\ \/ FailUnseen
     \/ pc' = "exited" /\ UNCHANGED broken
  /\ UNCHANGED <<io, key, file, pos, sortVars, buffers>>

Step == \/ Open \/ SetFileStart \/ FirstRecord \/ NextRecord \/ Compare \/ EndPass
        \/ Save \/ ReadA \/ ReadB \/ WriteA \/ WriteB \/ Restore
Next == Step \/ Fail
Spec == Init /\ [][Next]_vars /\ WF_vars(Step)

-----------------------------------------------------------------------------
(* Types of the file and the variables of the sort.                        *)
TypeOK ==
  /\ io \in {"", "SYS", "LIB"} /\ key \in [1 .. N -> Keys]
  /\ file \in [1 .. N -> 1 .. N]
  /\ pos \in 0 .. N /\ saved \in 0 .. N
  /\ pc \in {"open", "rewind", "first", "next", "compare", "done", "exited"} \cup Swapping
  /\ last \in -1 .. N - 1 /\ counter \in 0 .. N
  /\ held \in 0 .. N /\ current \in 0 .. N /\ a \in 0 .. N /\ b \in 0 .. N
  /\ broken \in BOOLEAN

(* The records in the file are those it had, but between the two writes of *)
(* a swap, where an exit loses one, and after a write whose failure the    *)
(* library version does not see.                                           *)
BetweenWrites == b # None /\ counter + 1 <= N /\ file[counter] = b
                 /\ file[counter + 1] = b
RecordsKept ==
  \/ {file[i] : i \in DOMAIN file} = 1 .. N
  \/ pc \in {"writeB", "exited"} /\ BetweenWrites
  \/ broken

(* What lies behind the unsorted part is in its final place, records of    *)
(* one key in the order they had.                                          *)
After(x, y) == key[x] > key[y] \/ (key[x] = key[y] /\ x > y)
TailSorted ==
  (pc \in {"rewind", "done"} /\ N > 1 /\ ~broken) =>
    \A j \in last + 2 .. N : \A i \in 1 .. j - 1 : After(file[j], file[i])

(* The position is where the sort takes it to be whenever it reads on: it  *)
(* never comes to the end of the file, where the two versions differ.      *)
ReadsInside == (pc = "next" /\ counter <= last) => pos = counter

(* The sort ends, or the program has exited.                               *)
SortEnds == <>(pc \in {"done", "exited"})
=============================================================================
