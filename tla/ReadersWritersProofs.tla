------------------------ MODULE ReadersWritersProofs ------------------------
(***************************************************************************)
(* What holds of the readers and writers for every number of either and    *)
(* every size of the library.                                              *)
(***************************************************************************)
EXTENDS ReadersWriters, FiniteSetTheorems, TLAPS

(* sem_writer is 0 or 1, and 0 as long as a writer is past the door, of    *)
(* whom there is at most one.                                              *)
DoorInv == /\ semWriter \in {0, 1}
           /\ \A w \in Writers : Active(w) => semWriter = 0
           /\ \A v, w \in Writers : Active(v) /\ Active(w) => v = w

(* The local variables match the labels: a writer outside holds no permit, *)
(* one that writes holds them all.                                         *)
LabelInv == \A w \in Writers : /\ pc[w] # "reading"
                               /\ pc[w] = "outside" => taken[w] = 0
                               /\ pc[w] = "writing" => taken[w] = NumReaders

(* The types without the bounds on the semaphores.                         *)
Types ==
  /\ library \in [Cells -> 0 .. MaxNum]
  /\ permits \in Nat
  /\ pc \in [Threads -> Labels]
  /\ num \in [Readers -> 1 .. MaxNum]
  /\ pos \in [Readers -> 0 .. LibrarySize]
  /\ found \in [Readers -> Nat]
  /\ taken \in [Writers -> 0 .. NumReaders]
  /\ left \in [Writers -> 0 .. MaxModify]

Inv == Types /\ DoorInv /\ LabelInv /\ PermitsAccounted

(* The readers inside the library can be counted: each of them holds one   *)
(* permit of sem_library_empty.                                            *)
LEMMA InsideFinite ==
  /\ IsFiniteSet(Inside) /\ Cardinality(Inside) \in Nat
  /\ NumReaders \in Nat \ {0}
<1>1. Inside \subseteq Readers
  BY DEF Inside
<1>2. IsFiniteSet(Readers) /\ Readers # {}
  BY ThreadsAssumption
<1>3. NumReaders \in Nat /\ NumReaders # 0
  BY <1>2, FS_CardinalityType, FS_EmptySet DEF NumReaders
<1>4. QED
  BY <1>1, <1>2, <1>3, FS_Subset, FS_CardinalityType

(* A reader takes or posts one permit while it joins or leaves the set of  *)
(* those inside; the writer's loops move one permit at a time.             *)
LEMMA InvStep ==
  ASSUME Inv, [Next]_vars
  PROVE  Inv'
<1> USE ThreadsAssumption, LibraryAssumption DEF Inv, Types, Threads, Labels, scan, Goto, Active
<1>1. ASSUME NEW r \in Readers, Enter(r) PROVE Inv'
  <2>1. Inside' = Inside \cup {r} /\ r \notin Inside
    BY <1>1 DEF Enter, Inside
  <2>2. Cardinality(Inside') = Cardinality(Inside) + 1
    BY <2>1, InsideFinite, FS_AddElement
  <2>3. \A w \in Writers : w # r /\ pc'[w] = pc[w]
    BY <1>1 DEF Enter
  <2>4. Types' /\ DoorInv' /\ LabelInv'
    BY <1>1, <2>3 DEF Enter, DoorInv, LabelInv
  <2>5. PermitsAccounted'
    BY <1>1, <2>2, <2>3, InsideFinite DEF Enter, PermitsAccounted
  <2>6. QED
    BY <2>4, <2>5
<1>2. ASSUME NEW r \in Readers, LookAtCell(r) PROVE Inv'
  <2>1. Inside' = Inside /\ permits' = permits /\ taken' = taken /\ pc' = pc
    BY <1>2 DEF LookAtCell, Inside
  <2>2. Types' /\ DoorInv' /\ LabelInv'
    BY <1>2 DEF LookAtCell, DoorInv, LabelInv
  <2>3. QED
    BY <2>1, <2>2 DEF PermitsAccounted
<1>3. ASSUME NEW r \in Readers, Leave(r) PROVE Inv'
  <2>1. Inside' = Inside \ {r} /\ r \in Inside
    BY <1>3 DEF Leave, Inside
  <2>2. Cardinality(Inside') = Cardinality(Inside) - 1
    BY <2>1, InsideFinite, FS_RemoveElement
  <2>3. \A w \in Writers : w # r /\ pc'[w] = pc[w]
    BY <1>3 DEF Leave
  <2>4. Types' /\ DoorInv' /\ LabelInv'
    BY <1>3, <2>3 DEF Leave, DoorInv, LabelInv
  <2>5. PermitsAccounted'
    BY <1>3, <2>2, <2>3, InsideFinite DEF Leave, PermitsAccounted
  <2>6. QED
    BY <2>4, <2>5
<1>4. ASSUME NEW w \in Writers, PassDoor(w) PROVE Inv'
  <2>1. Inside' = Inside /\ permits' = permits /\ taken' = taken
    BY <1>4 DEF PassDoor, Inside
  <2>2. semWriter = 1 /\ semWriter' = 0 /\ \A v \in Writers : ~Active(v)
    BY <1>4 DEF PassDoor, DoorOpen, DoorInv
  <2>3. Types' /\ DoorInv' /\ LabelInv'
    BY <1>4, <2>2 DEF PassDoor, DoorInv, LabelInv
  <2>4. PermitsAccounted'
    BY <1>4, <2>1, <2>2, InsideFinite DEF PassDoor, LabelInv, PermitsAccounted
  <2>5. QED
    BY <2>3, <2>4
<1>5. ASSUME NEW w \in Writers, Collect(w) PROVE Inv'
  <2>1. Inside' = Inside /\ pc' = pc
    BY <1>5 DEF Collect, Inside
  <2>2. taken[w] < NumReaders
    BY <1>5, InsideFinite DEF Collect, AllTaken
  <2>3. Types' /\ DoorInv' /\ LabelInv'
    BY <1>5, <2>2, InsideFinite DEF Collect, DoorInv, LabelInv
  <2>4. PermitsAccounted'
    BY <1>5, <2>1, InsideFinite DEF Collect, DoorInv, PermitsAccounted
  <2>5. QED
    BY <2>3, <2>4
<1>6. ASSUME NEW w \in Writers, StartWriting(w) PROVE Inv'
  <2>1. Inside' = Inside /\ permits' = permits /\ taken' = taken
    BY <1>6 DEF StartWriting, Inside
  <2>2. Types' /\ DoorInv' /\ LabelInv'
    BY <1>6 DEF StartWriting, AllTaken, DoorInv, LabelInv
  <2>3. \A v \in Writers : Active(v)' <=> Active(v)
    BY <1>6 DEF StartWriting
  <2>4. QED
    BY <2>1, <2>2, <2>3 DEF PermitsAccounted
<1>7. ASSUME NEW w \in Writers, ModifyCell(w) PROVE Inv'
  <2>1. Inside' = Inside /\ permits' = permits /\ taken' = taken /\ pc' = pc
    BY <1>7 DEF ModifyCell, Inside
  <2>2. Types' /\ DoorInv' /\ LabelInv'
    BY <1>7 DEF ModifyCell, DoorInv, LabelInv
  <2>3. QED
    BY <2>1, <2>2 DEF PermitsAccounted
<1>8. ASSUME NEW w \in Writers, StopWriting(w) PROVE Inv'
  <2>1. Inside' = Inside /\ permits' = permits /\ taken' = taken
    BY <1>8 DEF StopWriting, Inside
  <2>2. Types' /\ DoorInv' /\ LabelInv'
    BY <1>8 DEF StopWriting, DoorInv, LabelInv
  <2>3. \A v \in Writers : Active(v)' <=> Active(v)
    BY <1>8 DEF StopWriting
  <2>4. QED
    BY <2>1, <2>2, <2>3 DEF PermitsAccounted
<1>9. ASSUME NEW w \in Writers, Return(w) PROVE Inv'
  <2>1. Inside' = Inside /\ pc' = pc
    BY <1>9 DEF Return, Inside
  <2>2. taken[w] > 0
    BY <1>9, InsideFinite DEF Return, NoneTaken
  <2>3. Types' /\ DoorInv' /\ LabelInv'
    BY <1>9, <2>2, InsideFinite DEF Return, DoorInv, LabelInv
  <2>4. PermitsAccounted'
    BY <1>9, <2>1, InsideFinite DEF Return, DoorInv, PermitsAccounted
  <2>5. QED
    BY <2>3, <2>4
<1>10. ASSUME NEW w \in Writers, LeaveDoor(w) PROVE Inv'
  <2>1. Inside' = Inside /\ permits' = permits /\ taken' = taken /\ taken[w] = 0
    BY <1>10 DEF LeaveDoor, Inside, NoneTaken
  <2>2. semWriter = 0 /\ semWriter' = 1 /\ \A v \in Writers : ~Active(v)'
    BY <1>10 DEF LeaveDoor, DoorInv
  <2>3. Types' /\ DoorInv' /\ LabelInv'
    BY <1>10, <2>1, <2>2 DEF LeaveDoor, DoorInv, LabelInv
  <2>4. permits + Cardinality(Inside) = NumReaders
    BY <1>10, <2>1, InsideFinite DEF LeaveDoor, PermitsAccounted
  <2>5. PermitsAccounted'
    BY <2>1, <2>2, <2>4 DEF PermitsAccounted
  <2>6. QED
    BY <2>3, <2>5
<1>11. CASE UNCHANGED vars
  BY <1>11 DEF vars, DoorInv, LabelInv, PermitsAccounted, Inside
<1>12. QED
  BY <1>1, <1>2, <1>3, <1>4, <1>5, <1>6, <1>7, <1>8, <1>9, <1>10, <1>11
  DEF Next, ReaderStep, WriterStep

(* The accounts of both semaphores of lab9/zad2 hold in every state.       *)
LEMMA InvHolds == Spec => []Inv
<1>1. Init => Inv
  <2> SUFFICES ASSUME Init PROVE Inv
    OBVIOUS
  <2>1. Inside = {} /\ Cardinality({}) = 0
    BY FS_EmptySet DEF Init, Inside, Threads
  <2>2. Types
    BY InsideFinite, LibraryAssumption DEF Init, Types, Threads, Labels
  <2>3. QED
    BY <2>1, <2>2, InsideFinite, ThreadsAssumption
    DEF Init, Inv, DoorInv, LabelInv, PermitsAccounted, Active, Threads
<1>2. QED
  BY <1>1, InvStep, PTL DEF Spec

(* Every permit of sem_library_empty is accounted for, for any number of   *)
(* readers and writers.                                                    *)
THEOREM PermitsAccountedFor == Spec => []PermitsAccounted
<1>1. Inv => PermitsAccounted
  BY DEF Inv
<1>2. QED
  BY <1>1, InvHolds, PTL

(* writer_write runs with no reader inside and no second writer past the   *)
(* door: all the permits are with the writer, so none is with a reader.    *)
LEMMA WriterIsAlone == Inv => WritesAlone
<1> SUFFICES ASSUME Inv, NEW w \in Writers, pc[w] = "writing"
             PROVE  Inside = {} /\ \A v \in Writers : Active(v) => v = w
  BY DEF WritesAlone
<1>1. permits + Cardinality(Inside) + NumReaders = NumReaders
  BY DEF Inv, LabelInv, PermitsAccounted, Active
<1>2. Cardinality(Inside) = 0
  BY <1>1, InsideFinite DEF Inv, Types
<1>3. Inside = {}
  BY <1>2, InsideFinite, FS_EmptySet
<1>4. QED
  BY <1>3 DEF Inv, DoorInv, Active

(* The exclusion the two semaphores of lab9/zad2 are there for, for every  *)
(* number of readers and writers.                                          *)
THEOREM WritersWriteAlone == Spec => []WritesAlone
BY InvHolds, WriterIsAlone, PTL

-----------------------------------------------------------------------------
(* The cells a reader has scanned and found to hold its number.            *)
Seen(r) == {c \in Cells : c < pos[r] /\ library[c] = num[r]}

(* The cells reader_read has counted so far can be counted.                *)
LEMMA SeenFinite ==
  ASSUME NEW r
  PROVE  IsFiniteSet(Seen(r)) /\ Cardinality(Seen(r)) \in Nat
<1>1. Seen(r) \subseteq Cells /\ IsFiniteSet(Cells)
  BY LibraryAssumption, FS_Interval DEF Seen, Cells
<1>2. QED
  BY <1>1, FS_Subset, FS_CardinalityType

(* The scan of reader_read agrees with the library after every step: only  *)
(* ModifyCell could upset it, and then nobody is inside.                   *)
LEMMA ReportStep ==
  ASSUME Inv, ReportIsCurrent, [Next]_vars
  PROVE  ReportIsCurrent'
<1> SUFFICES ASSUME NEW q \in Readers, pc'[q] = "reading"
             PROVE  found'[q] = Cardinality(Seen(q)')
  BY DEF ReportIsCurrent, Seen
<1> USE ThreadsAssumption, LibraryAssumption DEF Inv, Types, Threads, Labels, scan, Goto
<1>1. pc[q] = "reading" => found[q] = Cardinality(Seen(q))
  BY DEF ReportIsCurrent, Seen
<1>2. ASSUME NEW r \in Readers, Enter(r) PROVE found'[q] = Cardinality(Seen(q)')
  <2>1. CASE q = r
    <3>1. Seen(q)' = {}
      BY <1>2, <2>1 DEF Enter, Seen, Cells
    <3>2. QED
      BY <1>2, <2>1, <3>1, FS_EmptySet DEF Enter
  <2>2. CASE q # r
    BY <1>1, <1>2, <2>2 DEF Enter, Seen
  <2>3. QED
    BY <2>1, <2>2
<1>3. ASSUME NEW r \in Readers, LookAtCell(r) PROVE found'[q] = Cardinality(Seen(q)')
  <2>1. CASE q # r
    BY <1>1, <1>3, <2>1 DEF LookAtCell, Seen
  <2>2. CASE q = r /\ library[pos[r]] = num[r]
    <3>1. Seen(q)' = Seen(q) \cup {pos[r]} /\ pos[r] \notin Seen(q)
      BY <1>3, <2>2 DEF LookAtCell, Seen, Cells
    <3>2. Cardinality(Seen(q)') = Cardinality(Seen(q)) + 1
      BY <3>1, SeenFinite, FS_AddElement
    <3>3. QED
      BY <1>1, <1>3, <2>2, <3>2 DEF LookAtCell
  <2>3. CASE q = r /\ library[pos[r]] # num[r]
    <3>1. Seen(q)' = Seen(q)
      BY <1>3, <2>3 DEF LookAtCell, Seen, Cells
    <3>2. QED
      BY <1>1, <1>3, <2>3, <3>1 DEF LookAtCell
  <2>4. QED
    BY <2>1, <2>2, <2>3
<1>4. ASSUME NEW r \in Readers, Leave(r) PROVE found'[q] = Cardinality(Seen(q)')
  BY <1>1, <1>4 DEF Leave, Seen
<1>5. ASSUME NEW w \in Writers, ModifyCell(w) PROVE found'[q] = Cardinality(Seen(q)')
  <2>1. Inside = {}
    BY <1>5, WriterIsAlone DEF ModifyCell, WritesAlone
  <2>2. pc[q] = "reading"
    BY <1>5 DEF ModifyCell
  <2>3. QED
    BY <2>1, <2>2 DEF Inside
<1>6. ASSUME NEW w \in Writers, WriterStep(w), ~ModifyCell(w)
      PROVE  found'[q] = Cardinality(Seen(q)')
  <2>1. library' = library /\ pos' = pos /\ found' = found /\ num' = num /\ pc'[q] = pc[q]
    BY <1>6 DEF WriterStep, PassDoor, Collect, StartWriting, StopWriting, Return, LeaveDoor
  <2>2. QED
    BY <1>1, <2>1 DEF Seen
<1>7. CASE UNCHANGED vars
  BY <1>1, <1>7 DEF vars, Seen
<1>8. QED
  BY <1>2, <1>3, <1>4, <1>5, <1>6, <1>7 DEF Next, ReaderStep

(* Whatever the writers do, the number a reader prints is the number of    *)
(* occurrences in the library at that moment.                              *)
THEOREM ReportsAreCurrent == Spec => []ReportIsCurrent
<1>1. Init => ReportIsCurrent
  BY DEF Init, ReportIsCurrent, Threads
<1>2. QED
  BY <1>1, ReportStep, InvHolds, PTL DEF Spec
=============================================================================
