-------------------------- MODULE TaskBufferProofs --------------------------
(***************************************************************************)
(* What holds of the task buffer for every set of producers and consumers, *)
(* every capacity and every pattern of SIGINTs: of the buffer at work, of  *)
(* its start-up by init_ipc, and of its removal by cleanup.                *)
(***************************************************************************)
EXTENDS TaskBufferBoot, IpcCleanup, FiniteSetTheorems, TLAPS

-----------------------------------------------------------------------------
(* One step of a process, or one signal, keeps every value in its type.    *)
LEMMA TypeStep ==
  ASSUME TypeOK, [Next]_vars
  PROVE  TypeOK'
<1> USE CapAssumption DEF TypeOK, SemNames, Labels, shm, history, Goto, At
<1>1. ASSUME NEW p \in Procs, Continue(p) PROVE TypeOK'
  BY <1>1 DEF Continue
<1>2. ASSUME NEW p \in Procs, TakeFirst(p) PROVE TypeOK'
  <2>1. First(p) \in SemNames /\ sem[First(p)] - 1 \in Nat
    BY <1>2 DEF TakeFirst, Down, First
  <2>2. sem' \in [SemNames -> Nat]
    BY <1>2, <2>1 DEF TakeFirst, Down
  <2>3. QED
    BY <1>2, <2>2 DEF TakeFirst
<1>3. ASSUME NEW p \in Procs, Lock(p) PROVE TypeOK'
  BY <1>3 DEF Lock, Down
<1>4. ASSUME NEW p \in Procs, ReadCounter(p) PROVE TypeOK'
  BY <1>4 DEF ReadCounter
<1>5. ASSUME NEW p \in Procs, StoreTask(p) PROVE TypeOK'
  <2>1. puts' \in Nat /\ counter' \in Int
    BY <1>5 DEF StoreTask
  <2>2. slots' \in [0 .. Cap - 1 -> Nat]
    BY <1>5, <2>1 DEF StoreTask
  <2>3. pc' \in [Procs -> Labels]
    BY <1>5 DEF StoreTask
  <2>4. QED
    BY <1>5, <2>1, <2>2, <2>3 DEF StoreTask
<1>6. ASSUME NEW p \in Procs, FetchTask(p) PROVE TypeOK'
  <2>1. start' \in 0 .. Cap - 1
    BY <1>6 DEF FetchTask, NextStart
  <2>2. got' \in Seq(Nat)
    BY <1>6 DEF FetchTask
  <2>3. QED
    BY <1>6, <2>1, <2>2 DEF FetchTask
<1>7. ASSUME NEW p \in Procs, Unlock(p) PROVE TypeOK'
  BY <1>7 DEF Unlock, Up
<1>8. ASSUME NEW p \in Procs, RaiseLast(p) PROVE TypeOK'
  BY <1>8 DEF RaiseLast, Up, Last
<1>9. ASSUME NEW p \in Procs, Interrupt(p) PROVE TypeOK'
  BY <1>9 DEF Interrupt
<1>10. ASSUME NEW p \in Procs, InterruptAsleep(p) PROVE TypeOK'
  BY <1>10 DEF InterruptAsleep, First
<1>11. ASSUME NEW p \in Procs, Restart(p) PROVE TypeOK'
  BY <1>11 DEF Restart
<1>12. CASE UNCHANGED vars
  BY <1>12 DEF vars
<1>13. QED
  BY <1>1, <1>2, <1>3, <1>4, <1>5, <1>6, <1>7, <1>8, <1>9, <1>10, <1>11, <1>12
  DEF Next, Step, Environment

(* Type correctness: the start index stays inside the ring and every slot, *)
(* local and history variable keeps its type through put_task, get_task    *)
(* and the signal handling of lab7ipc.c.                                   *)
THEOREM TypeCorrect == Spec => []TypeOK
<1>1. Init => TypeOK
  BY CapAssumption DEF Init, SemaphoresSet, InitialValue, BufferEmpty, NobodyInside,
      TypeOK, SemNames, Labels
<1>2. QED
  BY <1>1, TypeStep, PTL DEF Spec

-----------------------------------------------------------------------------
(* Why the section is exclusive: the mutex is 0 or 1, and it is 0 as long  *)
(* as somebody is inside.                                                  *)
MutexInv == /\ sem["mutex"] \in {0, 1}
            /\ \A p \in Procs : InSection(p) => sem["mutex"] = 0
            /\ MutualExclusion

(* No step puts a second process inside.                                   *)
LEMMA MutexInvStep ==
  ASSUME TypeOK, MutexInv, [Next]_vars
  PROVE  MutexInv'
<1> USE DEF TypeOK, MutexInv, MutualExclusion, InSection, SemNames, Labels,
            shm, history, Goto, At
<1>1. ASSUME NEW p \in Procs, Continue(p) PROVE MutexInv'
  BY <1>1 DEF Continue
<1>2. ASSUME NEW p \in Procs, TakeFirst(p) PROVE MutexInv'
  BY <1>2 DEF TakeFirst, Down, First
<1>3. ASSUME NEW p \in Procs, Lock(p) PROVE MutexInv'
  BY <1>3 DEF Lock, Down
<1>4. ASSUME NEW p \in Procs, ReadCounter(p) PROVE MutexInv'
  BY <1>4 DEF ReadCounter
<1>5. ASSUME NEW p \in Procs, StoreTask(p) PROVE MutexInv'
  BY <1>5 DEF StoreTask
<1>6. ASSUME NEW p \in Procs, FetchTask(p) PROVE MutexInv'
  BY <1>6 DEF FetchTask
<1>7. ASSUME NEW p \in Procs, Unlock(p) PROVE MutexInv'
  BY <1>7 DEF Unlock, Up
<1>8. ASSUME NEW p \in Procs, RaiseLast(p) PROVE MutexInv'
  BY <1>8 DEF RaiseLast, Up, Last
<1>9. ASSUME NEW p \in Procs, Interrupt(p) PROVE MutexInv'
  BY <1>9 DEF Interrupt
<1>10. ASSUME NEW p \in Procs, InterruptAsleep(p) PROVE MutexInv'
  BY <1>10 DEF InterruptAsleep
<1>11. ASSUME NEW p \in Procs, Restart(p) PROVE MutexInv'
  BY <1>11 DEF Restart
<1>12. CASE UNCHANGED vars
  BY <1>12 DEF vars
<1>13. QED
  BY <1>1, <1>2, <1>3, <1>4, <1>5, <1>6, <1>7, <1>8, <1>9, <1>10, <1>11, <1>12
  DEF Next, Step, Environment

(* down() and up() of lab7ipc.c keep it: the mutex rises only when the     *)
(* process inside leaves.                                                  *)
LEMMA MutexInvHolds == Spec => []MutexInv
<1>1. Init => MutexInv
  BY DEF Init, SemaphoresSet, InitialValue, BufferEmpty, NobodyInside,
      MutexInv, SemNames, InSection, MutualExclusion
<1>2. QED
  BY <1>1, MutexInvStep, TypeCorrect, PTL DEF Spec

(* For every number of processes and every pattern of signals, put_task    *)
(* and get_task run their critical sections one at a time: down() is the   *)
(* only way in, and a process that SIGINT kills is never inside.           *)
THEOREM MutualExclusionHolds == Spec => []MutualExclusion
<1>1. MutexInv => MutualExclusion
  BY DEF MutexInv
<1>2. QED
  BY <1>1, MutexInvHolds, PTL

-----------------------------------------------------------------------------
(* A process that has read the counter inside the critical section still   *)
(* has its current value when it writes it back.                           *)
LocalCopyFresh == \A p \in Procs : pc[p] = "write" => num[p] = counter

TokenInv == LocalCopyFresh /\ TasksAccounted /\ PlacesAccounted

(* The sets whose sizes the token equations add up are finite.             *)
LEMMA HoldersFinite ==
  /\ IsFiniteSet(Storing) /\ Cardinality(Storing) \in Nat
  /\ IsFiniteSet(Stored) /\ Cardinality(Stored) \in Nat
  /\ IsFiniteSet(Fetching) /\ Cardinality(Fetching) \in Nat
  /\ IsFiniteSet(Fetched) /\ Cardinality(Fetched) \in Nat
<1>1. /\ Storing \subseteq Producers /\ Stored \subseteq Producers
      /\ Fetching \subseteq Consumers /\ Fetched \subseteq Consumers
  BY DEF Storing, Stored, Fetching, Fetched
<1>2. QED
  BY <1>1, ProcsAssumption, FS_Subset, FS_CardinalityType

(* A step that moves no process into or out of these sets and leaves the   *)
(* counter, the counting semaphores and the losses alone keeps both token  *)
(* equations: the mutex steps and the signal handler of lab7ipc.c.         *)
LEMMA TokensUntouched ==
  ASSUME TasksAccounted, PlacesAccounted,
         counter' = counter, lost' = lost,
         sem'["put"] = sem["put"], sem'["get"] = sem["get"],
         Storing' = Storing, Stored' = Stored,
         Fetching' = Fetching, Fetched' = Fetched
  PROVE  TasksAccounted' /\ PlacesAccounted'
  BY DEF TasksAccounted, PlacesAccounted

(* The token equations of put_task and get_task survive every step: each   *)
(* token is passed from semaphore to process to shared counter and back,   *)
(* and the only way out is the exit(-1) of an interrupted down(mutex).     *)
LEMMA TokenInvStep ==
  ASSUME TypeOK, MutexInv, TokenInv, [Next]_vars
  PROVE  TokenInv'
<1> USE DEF TypeOK, SemNames, Labels, Goto, At
<1>0. /\ sem["get"] \in Nat /\ lost["get"] \in Nat /\ sem["put"] \in Nat
      /\ lost["put"] \in Nat /\ counter \in Int /\ Cap \in Nat
  BY CapAssumption
<1>1. ASSUME NEW p \in Procs, Continue(p) PROVE TokenInv'
  <2>1. Storing' = Storing /\ Stored' = Stored /\ Fetching' = Fetching /\ Fetched' = Fetched
    BY <1>1 DEF Continue, Storing, Stored, Fetching, Fetched, Procs
  <2>2. counter' = counter /\ lost' = lost /\ sem' = sem
    BY <1>1 DEF Continue, shm
  <2>3. LocalCopyFresh'
    BY <1>1 DEF Continue, TokenInv, LocalCopyFresh, shm
  <2>4. QED
    BY <2>1, <2>2, <2>3, TokensUntouched DEF TokenInv
<1>2. ASSUME NEW p \in Procs, TakeFirst(p) PROVE TokenInv'
  <2>1. LocalCopyFresh'
    BY <1>2 DEF TakeFirst, TokenInv, LocalCopyFresh, shm
  <2>2. CASE p \in Producers
    <3>1. /\ Storing' = Storing \cup {p} /\ p \notin Storing
          /\ Stored' = Stored /\ Fetching' = Fetching /\ Fetched' = Fetched
      BY <1>2, <2>2, ProcsAssumption DEF TakeFirst, Storing, Stored, Fetching, Fetched, Procs
    <3>2. Cardinality(Storing') = Cardinality(Storing) + 1
      BY <3>1, HoldersFinite, FS_AddElement
    <3>3. /\ counter' = counter /\ lost' = lost /\ sem'["get"] = sem["get"]
          /\ sem'["put"] = sem["put"] - 1
      BY <1>2, <2>2 DEF TakeFirst, Down, First, shm
    <3> HIDE DEF TypeOK, SemNames, Labels, Goto, At
    <3>4. TasksAccounted'
      BY <1>0, <2>1, <3>1, <3>2, <3>3, HoldersFinite DEF TokenInv, TasksAccounted
    <3>5. PlacesAccounted'
      BY <1>0, <2>1, <3>1, <3>2, <3>3, HoldersFinite DEF TokenInv, PlacesAccounted
    <3>6. QED
      BY <2>1, <3>4, <3>5 DEF TokenInv
  <2>3. CASE p \notin Producers
    <3>1. /\ Fetching' = Fetching \cup {p} /\ p \notin Fetching
          /\ Stored' = Stored /\ Storing' = Storing /\ Fetched' = Fetched
      BY <1>2, <2>3 DEF TakeFirst, Storing, Stored, Fetching, Fetched, Procs
    <3>2. Cardinality(Fetching') = Cardinality(Fetching) + 1
      BY <3>1, HoldersFinite, FS_AddElement
    <3>3. /\ counter' = counter /\ lost' = lost /\ sem'["put"] = sem["put"]
          /\ sem'["get"] = sem["get"] - 1
      BY <1>2, <2>3 DEF TakeFirst, Down, First, shm
    <3> HIDE DEF TypeOK, SemNames, Labels, Goto, At
    <3>4. TasksAccounted'
      BY <1>0, <2>1, <3>1, <3>2, <3>3, HoldersFinite DEF TokenInv, TasksAccounted
    <3>5. PlacesAccounted'
      BY <1>0, <2>1, <3>1, <3>2, <3>3, HoldersFinite DEF TokenInv, PlacesAccounted
    <3>6. QED
      BY <2>1, <3>4, <3>5 DEF TokenInv
  <2>4. QED
    BY <2>2, <2>3
<1>3. ASSUME NEW p \in Procs, Lock(p) PROVE TokenInv'
  <2>1. Storing' = Storing /\ Stored' = Stored /\ Fetching' = Fetching /\ Fetched' = Fetched
    BY <1>3 DEF Lock, Storing, Stored, Fetching, Fetched, Procs
  <2>2. counter' = counter /\ lost' = lost
        /\ sem'["put"] = sem["put"] /\ sem'["get"] = sem["get"]
    BY <1>3 DEF Lock, Down, shm
  <2>3. LocalCopyFresh'
    BY <1>3 DEF Lock, TokenInv, LocalCopyFresh, shm
  <2>4. QED
    BY <2>1, <2>2, <2>3, TokensUntouched DEF TokenInv
<1>4. ASSUME NEW p \in Procs, ReadCounter(p) PROVE TokenInv'
  <2>1. Storing' = Storing /\ Stored' = Stored /\ Fetching' = Fetching /\ Fetched' = Fetched
    BY <1>4 DEF ReadCounter, Storing, Stored, Fetching, Fetched, Procs
  <2>2. counter' = counter /\ lost' = lost /\ sem' = sem
    BY <1>4 DEF ReadCounter, shm
  <2>3. LocalCopyFresh'
    BY <1>4 DEF ReadCounter, TokenInv, LocalCopyFresh, shm
  <2>4. QED
    BY <2>1, <2>2, <2>3, TokensUntouched DEF TokenInv
<1>5. ASSUME NEW p \in Procs, StoreTask(p) PROVE TokenInv'
  <2>1. /\ counter' = counter + 1
        /\ lost'["put"] = lost["put"] /\ lost'["get"] = lost["get"]
        /\ sem'["put"] = sem["put"] /\ sem'["get"] = sem["get"]
    BY <1>5 DEF StoreTask, TokenInv, LocalCopyFresh
  <2>2. /\ Storing' = Storing \ {p} /\ p \in Storing
        /\ Stored' = Stored \cup {p} /\ p \notin Stored
        /\ Fetching' = Fetching /\ Fetched' = Fetched
    BY <1>5, ProcsAssumption DEF StoreTask, Storing, Stored, Fetching, Fetched, Procs
  <2>3. /\ Cardinality(Storing') = Cardinality(Storing) - 1
        /\ Cardinality(Stored') = Cardinality(Stored) + 1
        /\ Cardinality(Fetching') = Cardinality(Fetching)
        /\ Cardinality(Fetched') = Cardinality(Fetched)
    BY <2>2, HoldersFinite, FS_AddElement, FS_RemoveElement
  <2>4. LocalCopyFresh'
    BY <1>5 DEF StoreTask, MutexInv, MutualExclusion, InSection, LocalCopyFresh, TokenInv
  <2> HIDE DEF TypeOK, SemNames, Labels, Goto, At
  <2>5. TasksAccounted'
    BY <1>0, <2>1, <2>3, HoldersFinite DEF TokenInv, TasksAccounted
  <2>6. PlacesAccounted'
    BY <1>0, <2>1, <2>3, HoldersFinite DEF TokenInv, PlacesAccounted
  <2>7. QED
    BY <2>4, <2>5, <2>6 DEF TokenInv
<1>6. ASSUME NEW p \in Procs, FetchTask(p) PROVE TokenInv'
  <2>1. /\ counter' = counter - 1
        /\ lost'["put"] = lost["put"] /\ lost'["get"] = lost["get"]
        /\ sem'["put"] = sem["put"] /\ sem'["get"] = sem["get"]
    BY <1>6 DEF FetchTask, TokenInv, LocalCopyFresh
  <2>2. /\ Fetching' = Fetching \ {p} /\ p \in Fetching
        /\ Fetched' = Fetched \cup {p} /\ p \notin Fetched
        /\ Storing' = Storing /\ Stored' = Stored
    BY <1>6, ProcsAssumption DEF FetchTask, Storing, Stored, Fetching, Fetched, Procs
  <2>3. /\ Cardinality(Fetching') = Cardinality(Fetching) - 1
        /\ Cardinality(Fetched') = Cardinality(Fetched) + 1
        /\ Cardinality(Storing') = Cardinality(Storing)
        /\ Cardinality(Stored') = Cardinality(Stored)
    BY <2>2, HoldersFinite, FS_AddElement, FS_RemoveElement
  <2>4. LocalCopyFresh'
    BY <1>6 DEF FetchTask, MutexInv, MutualExclusion, InSection, LocalCopyFresh, TokenInv
  <2> HIDE DEF TypeOK, SemNames, Labels, Goto, At
  <2>5. TasksAccounted'
    BY <1>0, <2>1, <2>3, HoldersFinite DEF TokenInv, TasksAccounted
  <2>6. PlacesAccounted'
    BY <1>0, <2>1, <2>3, HoldersFinite DEF TokenInv, PlacesAccounted
  <2>7. QED
    BY <2>4, <2>5, <2>6 DEF TokenInv
<1>7. ASSUME NEW p \in Procs, Unlock(p) PROVE TokenInv'
  <2>1. Storing' = Storing /\ Stored' = Stored /\ Fetching' = Fetching /\ Fetched' = Fetched
    BY <1>7 DEF Unlock, Storing, Stored, Fetching, Fetched, Procs
  <2>2. counter' = counter /\ lost' = lost
        /\ sem'["put"] = sem["put"] /\ sem'["get"] = sem["get"]
    BY <1>7 DEF Unlock, Up, shm
  <2>3. LocalCopyFresh'
    BY <1>7 DEF Unlock, TokenInv, LocalCopyFresh, shm
  <2>4. QED
    BY <2>1, <2>2, <2>3, TokensUntouched DEF TokenInv
<1>8. ASSUME NEW p \in Procs, RaiseLast(p) PROVE TokenInv'
  <2>1. counter' = counter /\ lost' = lost
    BY <1>8 DEF RaiseLast, shm
  <2>2. LocalCopyFresh'
    BY <1>8 DEF RaiseLast, TokenInv, LocalCopyFresh, shm
  <2>3. CASE p \in Producers
    <3>1. /\ Stored' = Stored \ {p} /\ p \in Stored
          /\ Storing' = Storing /\ Fetching' = Fetching /\ Fetched' = Fetched
      BY <1>8, <2>3, ProcsAssumption DEF RaiseLast, Storing, Stored, Fetching, Fetched, Procs
    <3>2. Cardinality(Stored') = Cardinality(Stored) - 1
      BY <3>1, HoldersFinite, FS_RemoveElement
    <3>3. sem'["get"] = sem["get"] + 1 /\ sem'["put"] = sem["put"]
      BY <1>8, <2>3 DEF RaiseLast, Up, Last
    <3> HIDE DEF TypeOK, SemNames, Labels, Goto, At
    <3>4. TasksAccounted'
      BY <1>0, <2>1, <2>2, <3>1, <3>2, <3>3, HoldersFinite DEF TokenInv, TasksAccounted
    <3>5. PlacesAccounted'
      BY <1>0, <2>1, <2>2, <3>1, <3>2, <3>3, HoldersFinite DEF TokenInv, PlacesAccounted
    <3>6. QED
      BY <2>2, <3>4, <3>5 DEF TokenInv
  <2>4. CASE p \notin Producers
    <3>1. /\ Fetched' = Fetched \ {p} /\ p \in Fetched
          /\ Storing' = Storing /\ Fetching' = Fetching /\ Stored' = Stored
      BY <1>8, <2>4 DEF RaiseLast, Storing, Stored, Fetching, Fetched, Procs
    <3>2. Cardinality(Fetched') = Cardinality(Fetched) - 1
      BY <3>1, HoldersFinite, FS_RemoveElement
    <3>3. sem'["put"] = sem["put"] + 1 /\ sem'["get"] = sem["get"]
      BY <1>8, <2>4 DEF RaiseLast, Up, Last
    <3> HIDE DEF TypeOK, SemNames, Labels, Goto, At
    <3>4. TasksAccounted'
      BY <1>0, <2>1, <2>2, <3>1, <3>2, <3>3, HoldersFinite DEF TokenInv, TasksAccounted
    <3>5. PlacesAccounted'
      BY <1>0, <2>1, <2>2, <3>1, <3>2, <3>3, HoldersFinite DEF TokenInv, PlacesAccounted
    <3>6. QED
      BY <2>2, <3>4, <3>5 DEF TokenInv
  <2>5. QED
    BY <2>3, <2>4
<1>9. ASSUME NEW p \in Procs, Interrupt(p) PROVE TokenInv'
  <2>1. Storing' = Storing /\ Stored' = Stored /\ Fetching' = Fetching /\ Fetched' = Fetched
    BY <1>9 DEF Interrupt, Storing, Stored, Fetching, Fetched
  <2>2. counter' = counter /\ lost' = lost /\ sem' = sem /\ LocalCopyFresh'
    BY <1>9 DEF Interrupt, TokenInv, LocalCopyFresh, shm
  <2>3. QED
    BY <2>1, <2>2, TokensUntouched DEF TokenInv
<1>10. ASSUME NEW p \in Procs, InterruptAsleep(p) PROVE TokenInv'
  <2>1. counter' = counter /\ sem' = sem /\ LocalCopyFresh'
    BY <1>10 DEF InterruptAsleep, TokenInv, LocalCopyFresh, shm
  <2>2. CASE At(p, "first")
    <3>1. Storing' = Storing /\ Stored' = Stored /\ Fetching' = Fetching /\ Fetched' = Fetched
      BY <1>10, <2>2 DEF InterruptAsleep, Storing, Stored, Fetching, Fetched, Procs
    <3>2. lost' = lost
      BY <1>10, <2>2 DEF InterruptAsleep
    <3>3. QED
      BY <2>1, <3>1, <3>2, TokensUntouched DEF TokenInv
  <2>3. CASE At(p, "lock") /\ p \in Producers
    <3>1. /\ Storing' = Storing \ {p} /\ p \in Storing
          /\ Stored' = Stored /\ Fetching' = Fetching /\ Fetched' = Fetched
      BY <1>10, <2>3, ProcsAssumption
      DEF InterruptAsleep, Storing, Stored, Fetching, Fetched, Procs
    <3>2. Cardinality(Storing') = Cardinality(Storing) - 1
      BY <3>1, HoldersFinite, FS_RemoveElement
    <3>3. lost'["put"] = lost["put"] + 1 /\ lost'["get"] = lost["get"]
      BY <1>10, <2>3 DEF InterruptAsleep, First
    <3> HIDE DEF TypeOK, SemNames, Labels, Goto, At
    <3>4. TasksAccounted'
      BY <1>0, <2>1, <3>1, <3>2, <3>3, HoldersFinite DEF TokenInv, TasksAccounted
    <3>5. PlacesAccounted'
      BY <1>0, <2>1, <3>1, <3>2, <3>3, HoldersFinite DEF TokenInv, PlacesAccounted
    <3>6. QED
      BY <2>1, <3>4, <3>5 DEF TokenInv
  <2>4. CASE At(p, "lock") /\ p \notin Producers
    <3>1. /\ Fetching' = Fetching \ {p} /\ p \in Fetching
          /\ Stored' = Stored /\ Storing' = Storing /\ Fetched' = Fetched
      BY <1>10, <2>4 DEF InterruptAsleep, Storing, Stored, Fetching, Fetched, Procs
    <3>2. Cardinality(Fetching') = Cardinality(Fetching) - 1
      BY <3>1, HoldersFinite, FS_RemoveElement
    <3>3. lost'["get"] = lost["get"] + 1 /\ lost'["put"] = lost["put"]
      BY <1>10, <2>4 DEF InterruptAsleep, First
    <3> HIDE DEF TypeOK, SemNames, Labels, Goto, At
    <3>4. TasksAccounted'
      BY <1>0, <2>1, <3>1, <3>2, <3>3, HoldersFinite DEF TokenInv, TasksAccounted
    <3>5. PlacesAccounted'
      BY <1>0, <2>1, <3>1, <3>2, <3>3, HoldersFinite DEF TokenInv, PlacesAccounted
    <3>6. QED
      BY <2>1, <3>4, <3>5 DEF TokenInv
  <2>5. QED
    BY <1>10, <2>2, <2>3, <2>4 DEF InterruptAsleep, Asleep
<1>11. ASSUME NEW p \in Procs, Restart(p) PROVE TokenInv'
  <2>1. Storing' = Storing /\ Stored' = Stored /\ Fetching' = Fetching /\ Fetched' = Fetched
    BY <1>11 DEF Restart, Storing, Stored, Fetching, Fetched, Procs
  <2>2. counter' = counter /\ lost' = lost /\ sem' = sem
    BY <1>11 DEF Restart, shm
  <2>3. LocalCopyFresh'
    BY <1>11 DEF Restart, TokenInv, LocalCopyFresh, shm
  <2>4. QED
    BY <2>1, <2>2, <2>3, TokensUntouched DEF TokenInv
<1>12. CASE UNCHANGED vars
  <2>1. Storing' = Storing /\ Stored' = Stored /\ Fetching' = Fetching /\ Fetched' = Fetched
    BY <1>12 DEF vars, Storing, Stored, Fetching, Fetched
  <2>2. counter' = counter /\ lost' = lost /\ sem' = sem /\ LocalCopyFresh'
    BY <1>12 DEF vars, shm, TokenInv, LocalCopyFresh
  <2>3. QED
    BY <2>1, <2>2, TokensUntouched DEF TokenInv
<1>13. QED
  BY <1>1, <1>2, <1>3, <1>4, <1>5, <1>6, <1>7, <1>8, <1>9, <1>10, <1>11, <1>12
  DEF Next, Step, Environment

(* The token equations of lab7ipc.c hold in every state.                   *)
LEMMA TokenInvHolds == Spec => []TokenInv
<1>1. Init => TokenInv
  <2> SUFFICES ASSUME Init PROVE TokenInv
    OBVIOUS
  <2>1. Storing = {} /\ Stored = {} /\ Fetching = {} /\ Fetched = {}
    BY DEF Init, SemaphoresSet, InitialValue, BufferEmpty, NobodyInside,
      Storing, Stored, Fetching, Fetched, Procs
  <2>2. Cardinality({}) = 0
    BY FS_EmptySet
  <2>3. QED
    BY <2>1, <2>2, CapAssumption
    DEF Init, SemaphoresSet, InitialValue, BufferEmpty, NobodyInside,
      TokenInv, LocalCopyFresh, TasksAccounted, PlacesAccounted, SemNames
<1>2. QED
  BY <1>1, TokenInvStep, TypeCorrect, MutexInvHolds, PTL DEF Spec

(* Every waiting task and every free place of lab7ipc.c has exactly one    *)
(* owner, for every number of processes and every pattern of signals.      *)
THEOREM TokensAccountedFor == Spec => []TokensAccounted
<1>1. TokenInv => TokensAccounted
  BY DEF TokenInv, TokensAccounted
<1>2. QED
  BY <1>1, TokenInvHolds, PTL

(* The task counter never goes below zero nor above the capacity, so       *)
(* put_task never overwrites a place that is not free by count and         *)
(* get_task never reports a negative number of waiting tasks.              *)
CounterInRange == counter \in 0 .. Cap

(* task_counter of the shared memory stays between 0 and the capacity, so  *)
(* put_task never counts more tasks than the ring has places.              *)
THEOREM CounterStaysInRange == Spec => []CounterInRange
<1>1. TypeOK /\ TokenInv => CounterInRange
  <2> SUFFICES ASSUME TypeOK, TokenInv PROVE CounterInRange
    OBVIOUS
  <2>1. /\ sem["get"] \in Nat /\ lost["get"] \in Nat /\ sem["put"] \in Nat
        /\ lost["put"] \in Nat /\ counter \in Int /\ Cap \in Nat
    BY CapAssumption DEF TypeOK, SemNames
  <2>2. counter >= 0
    BY <2>1, HoldersFinite DEF TokenInv, TasksAccounted
  <2>3. Cap - counter >= 0
    BY <2>1, HoldersFinite DEF TokenInv, PlacesAccounted
  <2>4. QED
    BY <2>1, <2>2, <2>3 DEF CounterInRange
<1>2. QED
  BY <1>1, TypeCorrect, TokenInvHolds, PTL
-----------------------------------------------------------------------------
(* Arithmetic of the ring: "% Cap" in put_task and get_task.               *)
LEMMA DivMod ==
  ASSUME NEW C \in Nat \ {0}, NEW n \in Nat
  PROVE  /\ n \div C \in Nat
         /\ n % C \in 0 .. C - 1
         /\ n = C * (n \div C) + (n % C)
OBVIOUS

(* A remainder below the capacity is the remainder.                        *)
LEMMA ModUnique ==
  ASSUME NEW C \in Nat \ {0}, NEW q \in Int, NEW r \in 0 .. C - 1
  PROVE  (C * q + r) % C = r
OBVIOUS

(* Advancing an index that was already reduced, or one that was not, leads *)
(* to the same slot.                                                       *)
LEMMA ModAdd ==
  ASSUME NEW C \in Nat \ {0}, NEW a \in Nat, NEW n \in Nat
  PROVE  ((a % C) + n) % C = (a + n) % C
<1> DEFINE q == a \div C
           r == a % C
           t == (r + n) \div C
           s == (r + n) % C
<1>1. q \in Nat /\ r \in 0 .. C - 1 /\ a = C * q + r
  BY DivMod
<1>2. r + n \in Nat
  BY <1>1
<1>3. t \in Nat /\ s \in 0 .. C - 1 /\ r + n = C * t + s
  BY <1>2, DivMod
<1> HIDE DEF q, r, s, t
<1>4. a + n = C * (q + t) + s
  BY <1>1, <1>3
<1>5. q + t \in Int
  BY <1>1, <1>3
<1>6. (C * (q + t) + s) % C = s
  BY <1>3, <1>5, ModUnique
<1>7. (a + n) % C = s
  BY <1>4, <1>6
<1>8. QED
  BY <1>7 DEF s, r

(* A full turn of the ring leads back to the same slot.                    *)
LEMMA ModTurn ==
  ASSUME NEW C \in Nat \ {0}, NEW n \in Nat
  PROVE  (n + C) % C = n % C
<1> DEFINE q == n \div C
           r == n % C
<1>1. q \in Nat /\ r \in 0 .. C - 1 /\ n = C * q + r
  BY DivMod
<1> HIDE DEF q, r
<1>2. n + C = C * (q + 1) + r
  BY <1>1
<1>3. q + 1 \in Int
  BY <1>1
<1>4. (C * (q + 1) + r) % C = r
  BY <1>1, <1>3, ModUnique
<1>5. QED
  BY <1>2, <1>4 DEF r

(* Two puts less than a whole ring apart go into different slots.          *)
LEMMA ModInjective ==
  ASSUME NEW C \in Nat \ {0}, NEW a \in Nat, NEW b \in Nat, a < b, b < a + C
  PROVE  a % C # b % C
<1> SUFFICES ASSUME a % C = b % C PROVE FALSE
  OBVIOUS
<1> DEFINE k == (b \div C) - (a \div C)
<1>1. a \div C \in Nat /\ a % C \in 0 .. C - 1 /\ a = C * (a \div C) + (a % C)
  BY DivMod
<1>2. b \div C \in Nat /\ b % C \in 0 .. C - 1 /\ b = C * (b \div C) + (b % C)
  BY DivMod
<1>3. k \in Int /\ b - a = C * k
  BY <1>1, <1>2
<1> HIDE DEF k
<1>4. CASE k <= 0
  <2>1. C * k <= 0
    BY <1>3, <1>4
  <2>2. QED
    BY <1>3, <2>1
<1>5. CASE k >= 1
  <2>1. C * k >= C
    BY <1>3, <1>5
  <2>2. QED
    BY <1>3, <2>1
<1>6. QED
  BY <1>3, <1>4, <1>5

(* The latest of a set of puts, when one is known to be it.                *)
LEMMA LatestIs ==
  ASSUME NEW S \in SUBSET Int, NEW m \in S, \A x \in S : m >= x
  PROVE  MaxOfOrZero(S) = m
<1>1. S # {}
  OBVIOUS
<1>2. \A x \in S : (\A y \in S : x >= y) => x = m
  OBVIOUS
<1>3. Max(S) = m
  BY <1>2 DEF Max
<1>4. QED
  BY <1>1, <1>3 DEF MaxOfOrZero

(* One more put changes the latest put of its own slot and of no other.    *)
LEMMA OnePutOneSlot ==
  ASSUME puts \in Nat, puts' = puts + 1, NEW i \in 0 .. Cap - 1
  PROVE  LatestPutInto(i)' = IF i = (puts + 1) % Cap THEN puts + 1
                                                     ELSE LatestPutInto(i)
<1> DEFINE Before == {j \in 1 .. puts : j % Cap = i}
           After  == {j \in 1 .. puts + 1 : j % Cap = i}
<1>1. LatestPutInto(i) = MaxOfOrZero(Before) /\ LatestPutInto(i)' = MaxOfOrZero(After)
  BY DEF LatestPutInto
<1>2. CASE i = (puts + 1) % Cap
  <2>1. puts + 1 \in After /\ After \in SUBSET Int /\ \A x \in After : puts + 1 >= x
    BY <1>2
  <2>2. MaxOfOrZero(After) = puts + 1
    BY <2>1, LatestIs
  <2>3. QED
    BY <1>1, <1>2, <2>2
<1>3. CASE i # (puts + 1) % Cap
  <2>1. After = Before
    BY <1>3
  <2>2. QED
    BY <1>1, <1>3, <2>1
<1>4. QED
  BY <1>2, <1>3

-----------------------------------------------------------------------------
(* Only the second halves of put_task and get_task touch the segment.      *)
LEMMA WhoTouchesTheRing ==
  ASSUME [Next]_vars
  PROVE  \/ \E p \in Procs : StoreTask(p) \/ FetchTask(p)
         \/ UNCHANGED <<shm, history>>
<1>1. ASSUME NEW p \in Procs, Step(p)
      PROVE  StoreTask(p) \/ FetchTask(p) \/ UNCHANGED <<shm, history>>
  BY <1>1 DEF Step, Continue, TakeFirst, Lock, ReadCounter, Unlock, RaiseLast
<1>2. ASSUME NEW p \in Procs, Environment(p)
      PROVE  UNCHANGED <<shm, history>>
  BY <1>2 DEF Environment, Interrupt, InterruptAsleep, Restart
<1>3. ASSUME UNCHANGED vars
      PROVE  UNCHANGED <<shm, history>>
  BY <1>3 DEF vars
<1>4. QED
  BY <1>1, <1>2, <1>3 DEF Next

(* What put_task does to the ring: with the fresh local copy the new task  *)
(* goes into the slot of its own ordinal.                                  *)
LEMMA StoreKeepsRing ==
  ASSUME TypeOK, LocalCopyFresh, CounterInRange, BufferAsCounted,
         NEW p \in Procs, StoreTask(p)
  PROVE  BufferAsCounted'
<1> DEFINE L == Len(got)
<1>1. /\ L \in Nat /\ puts \in Nat /\ Cap \in Nat \ {0} /\ start \in 0 .. Cap - 1
      /\ counter \in Nat /\ slots \in [0 .. Cap - 1 -> Nat]
  BY CapAssumption DEF TypeOK, CounterInRange
<1>2. num[p] = counter
  BY DEF StoreTask, LocalCopyFresh, At
<1>3. /\ counter' = counter + 1 /\ start' = start /\ got' = got /\ puts' = puts + 1
      /\ slots' = [slots EXCEPT ![PutIndex(counter + 1)] = puts + 1]
  BY <1>2 DEF StoreTask
<1>4. counter = puts - L /\ start = L % Cap
  BY DEF BufferAsCounted, CountersAgree
<1> HIDE DEF L
<1>5. PutIndex(counter + 1) = (puts + 1) % Cap
  <2>1. counter + 1 \in Nat /\ L + (counter + 1) = puts + 1
    BY <1>1, <1>4
  <2>2. ((L % Cap) + (counter + 1)) % Cap = (L + (counter + 1)) % Cap
    BY <1>1, <2>1, ModAdd
  <2>3. QED
    BY <1>4, <2>1, <2>2 DEF PutIndex
<1>6. CountersAgree'
  BY <1>1, <1>3, <1>4 DEF CountersAgree, L
<1>7. ASSUME NEW i \in 0 .. Cap - 1 PROVE slots'[i] = LatestPutInto(i)'
  <2>1. LatestPutInto(i)' = IF i = (puts + 1) % Cap THEN puts + 1 ELSE LatestPutInto(i)
    BY <1>1, <1>3, OnePutOneSlot
  <2>2. slots[i] = LatestPutInto(i)
    BY DEF BufferAsCounted, SlotsHoldLatestPuts
  <2>3. slots'[i] = IF i = (puts + 1) % Cap THEN puts + 1 ELSE slots[i]
    BY <1>1, <1>3, <1>5
  <2>4. QED
    BY <2>1, <2>2, <2>3
<1>8. QED
  BY <1>6, <1>7 DEF BufferAsCounted, SlotsHoldLatestPuts

(* What get_task does to the ring: the start index moves on by one, the    *)
(* slots stay.                                                             *)
LEMMA FetchKeepsRing ==
  ASSUME TypeOK, LocalCopyFresh, CounterInRange, BufferAsCounted,
         NEW p \in Procs, FetchTask(p)
  PROVE  BufferAsCounted'
<1> DEFINE L == Len(got)
<1>1. /\ L \in Nat /\ puts \in Nat /\ Cap \in Nat \ {0} /\ start \in 0 .. Cap - 1
      /\ counter \in Nat /\ slots \in [0 .. Cap - 1 -> Nat] /\ got \in Seq(Nat)
  BY CapAssumption DEF TypeOK, CounterInRange
<1>2. num[p] = counter
  BY DEF FetchTask, LocalCopyFresh, At
<1>3. /\ counter' = counter - 1 /\ start' = (start + 1) % Cap /\ puts' = puts
      /\ got' = Append(got, slots[start]) /\ slots' = slots
  BY <1>2 DEF FetchTask, NextStart
<1>4. Len(got') = L + 1
  BY <1>1, <1>3
<1>5. counter = puts - L /\ start = L % Cap
  BY DEF BufferAsCounted, CountersAgree
<1> HIDE DEF L
<1>6. start' = (L + 1) % Cap
  <2>1. ((L % Cap) + 1) % Cap = (L + 1) % Cap
    BY <1>1, ModAdd
  <2>2. QED
    BY <1>3, <1>5, <2>1
<1>7. counter' = puts' - Len(got')
  BY <1>1, <1>3, <1>4, <1>5
<1>8. \A i \in 0 .. Cap - 1 : LatestPutInto(i)' = LatestPutInto(i)
  BY <1>3 DEF LatestPutInto
<1>9. QED
  BY <1>3, <1>4, <1>6, <1>7, <1>8 DEF BufferAsCounted, CountersAgree, SlotsHoldLatestPuts

(* The shared memory of lab7ipc.c is at every moment what its puts and     *)
(* gets, each taken as one step, would have made of it: no update of the   *)
(* counter, the start index or a slot is lost or overwritten early, for    *)
(* every number of processes, every capacity and every pattern of signals. *)
THEOREM BufferAsCountedAlways == Spec => []BufferAsCounted
<1>1. Init => BufferAsCounted
  <2> SUFFICES ASSUME Init PROVE BufferAsCounted
    OBVIOUS
  <2>1. /\ counter = 0 /\ start = 0 /\ puts = 0 /\ got = <<>>
        /\ slots = [i \in 0 .. Cap - 1 |-> 0]
    BY DEF Init, BufferEmpty
  <2>2. 0 % Cap = 0
    <3>1. (Cap * 0 + 0) % Cap = 0
      BY CapAssumption, ModUnique
    <3>2. QED
      BY CapAssumption, <3>1
  <2>3. Len(got) = 0
    BY <2>1
  <2>4. CountersAgree
    <3>1. counter = puts - Len(got)
      <4>1. counter = 0 /\ puts = 0
        BY <2>1
      <4>2. QED
        BY <2>3, <4>1
    <3>2. start = Len(got) % Cap
      BY <2>1, <2>2, <2>3, CapAssumption
    <3>3. QED
      BY <3>1, <3>2 DEF CountersAgree
  <2>5. \A i \in 0 .. Cap - 1 : LatestPutInto(i) = 0
    BY <2>1 DEF LatestPutInto, MaxOfOrZero
  <2>6. QED
    BY <2>1, <2>4, <2>5 DEF BufferAsCounted, SlotsHoldLatestPuts
<1>2. TypeOK /\ TokenInv /\ CounterInRange /\ BufferAsCounted /\ [Next]_vars
        => BufferAsCounted'
  <2> SUFFICES ASSUME TypeOK, TokenInv, CounterInRange, BufferAsCounted, [Next]_vars
               PROVE  BufferAsCounted'
    OBVIOUS
  <2>1. LocalCopyFresh
    BY DEF TokenInv
  <2>2. CASE UNCHANGED <<shm, history>>
    BY <2>2 DEF shm, history, BufferAsCounted, CountersAgree,
        SlotsHoldLatestPuts, LatestPutInto
  <2>3. QED
    BY <2>1, <2>2, WhoTouchesTheRing, StoreKeepsRing, FetchKeepsRing
<1>3. QED
  BY <1>1, <1>2, TypeCorrect, TokenInvHolds, CounterStaysInRange, PTL DEF Spec

-----------------------------------------------------------------------------
(* A producer in the middle of put_task holds a free place.                *)
LEMMA StoringFindsAPlace ==
  ASSUME TypeOK, PlacesAccounted, NEW p \in Procs, StoreTask(p)
  PROVE  counter < Cap
<1>1. p \in Storing
  BY DEF StoreTask, Storing, At
<1>2. Cardinality(Storing) >= 1
  BY <1>1, HoldersFinite, FS_EmptySet
<1>3. /\ sem["put"] \in Nat /\ lost["put"] \in Nat /\ counter \in Int /\ Cap \in Nat
  BY CapAssumption DEF TypeOK, SemNames
<1>4. Cap - counter >= 1
  BY <1>2, <1>3, HoldersFinite DEF PlacesAccounted
<1>5. QED
  BY <1>3, <1>4

(* A consumer in the middle of get_task holds a waiting task.              *)
LEMMA FetchingFindsATask ==
  ASSUME TypeOK, TasksAccounted, NEW p \in Procs, FetchTask(p)
  PROVE  counter > 0
<1>1. p \in Fetching
  BY DEF FetchTask, Fetching, At
<1>2. Cardinality(Fetching) # 0
  BY <1>1, HoldersFinite, FS_EmptySet
<1>3. /\ sem["get"] \in Nat /\ lost["get"] \in Nat /\ counter \in Int
  BY DEF TypeOK, SemNames
<1>4. QED
  BY <1>2, <1>3, HoldersFinite DEF TasksAccounted

(* What the slot at the start index holds when a task waits: the task      *)
(* taken last time round (nothing, the first time), or, with a full ring,  *)
(* the task added last.  This is the lag of one of put_task.               *)
LEMMA SlotAtStart ==
  ASSUME TypeOK, BufferAsCounted, counter > 0, counter <= Cap
  PROVE  slots[start] = IF counter = Cap THEN puts ELSE Len(got)
<1> DEFINE L == Len(got)
           Here == {j \in 1 .. puts : j % Cap = L % Cap}
<1>1. L \in Nat /\ puts \in Nat /\ Cap \in Nat \ {0}
  BY CapAssumption DEF TypeOK
<1>2. counter = puts - L /\ start = L % Cap
  BY DEF BufferAsCounted, CountersAgree
<1>3. slots[start] = MaxOfOrZero(Here)
  <2>1. L % Cap \in 0 .. Cap - 1
    BY <1>1, DivMod
  <2>2. QED
    BY <1>2, <2>1 DEF BufferAsCounted, SlotsHoldLatestPuts, LatestPutInto
<1> HIDE DEF L
<1>4. CASE counter = Cap
  <2>1. puts = L + Cap /\ puts \in 1 .. puts
    BY <1>1, <1>2, <1>4
  <2>2. puts % Cap = L % Cap
    BY <1>1, <2>1, ModTurn
  <2>3. puts \in Here /\ Here \in SUBSET Int /\ \A x \in Here : puts >= x
    BY <1>1, <2>1, <2>2
  <2>4. QED
    BY <1>3, <1>4, <2>3, LatestIs
<1>5. CASE counter # Cap
  <2>1. L < puts /\ puts < L + Cap
    BY <1>1, <1>2, <1>5
  <2>2. ASSUME NEW j \in Here PROVE j <= L
    <3>1. j \in Nat /\ j < L + Cap /\ j % Cap = L % Cap
      BY <1>1, <2>1
    <3>2. ASSUME L < j PROVE FALSE
      <4>1. L % Cap # j % Cap
        BY <1>1, <3>1, <3>2, ModInjective
      <4>2. QED
        BY <3>1, <4>1
    <3>3. QED
      BY <1>1, <3>1, <3>2
  <2>3. CASE L = 0
    <3>1. Here = {}
      BY <2>2, <2>3
    <3>2. QED
      BY <1>3, <1>5, <2>3, <3>1 DEF MaxOfOrZero, L
  <2>4. CASE L # 0
    <3>1. L \in Here
      BY <1>1, <2>1, <2>4
    <3>2. Here \in SUBSET Int
      OBVIOUS
    <3>3. \A x \in Here : L >= x
      <4>1. TAKE x \in Here
      <4>2. x <= L /\ x \in Int
        BY <2>2
      <4>3. QED
        BY <1>1, <4>2
    <3>4. MaxOfOrZero(Here) = L
      BY <3>1, <3>2, <3>3, LatestIs
    <3>5. QED
      BY <1>3, <1>5, <3>4 DEF L
  <2>5. QED
    BY <2>3, <2>4
<1>6. QED
  BY <1>4, <1>5

(* The semaphores, the critical section and the off-by-one ring of lab7,   *)
(* seen from outside, are the atomic buffer that lags by one task: every   *)
(* write of put_task is one Add, every write of get_task is one Take, and  *)
(* every other step, signals and restarts included, changes nothing.       *)
THEOREM RefinesLagBuffer == Spec => ImplementsLagBuffer
<1> USE DEF Lag!vars, Lag!Waiting
<1>1. Init => Lag!Init
  BY DEF Init, BufferEmpty, Lag!Init
<1>2. TypeOK /\ TokenInv /\ CounterInRange /\ BufferAsCounted /\ [Next]_vars
        => [Lag!Next]_(Lag!vars)
  <2> SUFFICES ASSUME TypeOK, TokenInv, CounterInRange, BufferAsCounted, [Next]_vars
               PROVE  [Lag!Next]_(Lag!vars)
    OBVIOUS
  <2>1. counter = puts - Len(got)
    BY DEF BufferAsCounted, CountersAgree
  <2>2. ASSUME NEW p \in Procs, StoreTask(p) PROVE Lag!Add
    <3>1. counter < Cap
      BY <2>2, StoringFindsAPlace DEF TokenInv
    <3>2. puts' = puts + 1 /\ got' = got
      BY <2>2 DEF StoreTask
    <3>3. QED
      BY <2>1, <3>1, <3>2 DEF Lag!Add
  <2>3. ASSUME NEW p \in Procs, FetchTask(p) PROVE Lag!Take
    <3>1. counter > 0 /\ counter <= Cap /\ Cap \in Nat
      BY <2>3, CapAssumption, FetchingFindsATask DEF TokenInv, CounterInRange
    <3>2. got' = Append(got, slots[start]) /\ puts' = puts
      BY <2>3 DEF FetchTask
    <3>3. slots[start] = IF counter = Cap THEN puts ELSE Len(got)
      BY <3>1, SlotAtStart
    <3>4. QED
      BY <2>1, <3>1, <3>2, <3>3 DEF Lag!Take
  <2>4. CASE UNCHANGED <<shm, history>>
    BY <2>4 DEF history
  <2>5. QED
    BY <2>2, <2>3, <2>4, WhoTouchesTheRing DEF Lag!Next
<1>3. QED
  BY <1>1, <1>2, TypeCorrect, TokenInvHolds, CounterStaysInRange,
     BufferAsCountedAlways, PTL DEF Spec, ImplementsLagBuffer, Lag!Spec

-----------------------------------------------------------------------------
(* The start-up.  Whoever creates an object is alone in setting it up: the *)
(* exclusive flag of semget and shmget leaves one winner.                  *)
SetupOf(o) == IF o = "shm" THEN {"size", "zero"} ELSE {Setup(o)}

CreatorInv ==
  \A o \in Objects, p \in Procs : boot[p] \in SetupOf(o) =>
    /\ o \in exists
    /\ \A q \in Procs : boot[q] \in SetupOf(o) => p = q

(* Nobody gets past the mutex before it has its value.                     *)
MutexUnset == "mutex" \notin exists \/ \E p \in Procs : boot[p] = "set mutex"
Shut == sem["mutex"] = 0 /\ \A p \in Procs : ~InSection(p)
ShutInv == MutexUnset => Shut

BootInv == BootTypeOK /\ CreatorInv /\ MutexInv /\ ShutInv

(* What one process does to the buffer, and what it may do to itself on    *)
(* the way, are steps of the task buffer.                                  *)
LEMMA WorkIsNext ==
  ASSUME NEW p \in Procs, Work(p) \/ BootAgain(p)
  PROVE  /\ Next /\ UNCHANGED <<choice, exists, sized>>
         /\ boot' = boot \/ boot' = [boot EXCEPT ![p] = "shm"]
BY DEF Work, BootAgain, Next, Environment, BootTo, bootVars, choice

(* No step of the buffer opens a mutex at which nobody is.                 *)
LEMMA ShutStaysShut ==
  ASSUME TypeOK, Shut, Next
  PROVE  Shut'
<1> USE DEF TypeOK, Shut, InSection, SemNames, Labels, Goto, At
<1>1. ASSUME NEW p \in Procs, Step(p) PROVE Shut'
  <2>1. CASE Continue(p)
    BY <2>1 DEF Continue
  <2>2. CASE TakeFirst(p)
    BY <2>2 DEF TakeFirst, Down, First
  <2>3. CASE Lock(p)
    BY <2>3 DEF Lock, Down
  <2>4. CASE ReadCounter(p) \/ StoreTask(p) \/ FetchTask(p) \/ Unlock(p)
    BY <2>4 DEF ReadCounter, StoreTask, FetchTask, Unlock
  <2>5. CASE RaiseLast(p)
    BY <2>5 DEF RaiseLast, Up, Last
  <2>6. QED
    BY <1>1, <2>1, <2>2, <2>3, <2>4, <2>5 DEF Step
<1>2. ASSUME NEW p \in Procs, Environment(p) PROVE Shut'
  BY <1>2 DEF Environment, Interrupt, InterruptAsleep, Restart
<1>3. QED
  BY <1>1, <1>2 DEF Next

(* The steps of init_ipc, one after another.                               *)
LEMMA SetupLabels ==
  /\ \A o \in Objects : Following(o) \in Objects \cup {"up"} /\ SetupOf(o) \subseteq BootLabels
  /\ \A o \in Objects : AfterCreation(o) \in SetupOf(o) \cup Objects \cup {"up"}
  /\ \A o, q \in Objects : o # q => SetupOf(o) \cap SetupOf(q) = {}
  /\ \A o \in Objects : SetupOf(o) \cap (Objects \cup {"up"}) = {}
<1>1. SetupOf("shm") = {"size", "zero"} /\ \A o \in SemNames : SetupOf(o) = {Setup(o)}
  BY DEF SetupOf, SemNames
<1>2. Setup("mutex") = "set mutex" /\ Setup("put") = "set put" /\ Setup("get") = "set get"
  BY DEF Setup
<1>3. Setup("shm") \in {"size", "zero"}
  BY DEF Setup
<1>4. /\ Following("shm") = "mutex" /\ Following("mutex") = "put"
      /\ Following("put") = "get" /\ Following("get") = "up"
  BY DEF Following
<1>5. Objects = {"shm"} \cup SemNames
  BY DEF Objects, SemNames
<1>6. \A o \in Objects : Following(o) \in Objects \cup {"up"} /\ SetupOf(o) \subseteq BootLabels
  BY <1>1, <1>2, <1>4, <1>5 DEF BootLabels, SemNames
<1>7. \A o \in Objects : AfterCreation(o) \in SetupOf(o) \cup Objects \cup {"up"}
  BY <1>1, <1>3, <1>5, <1>6 DEF AfterCreation
<1>8. \A o, q \in Objects : o # q => SetupOf(o) \cap SetupOf(q) = {}
  <2>1. /\ SetupOf("shm") = {"size", "zero"} /\ SetupOf("mutex") = {"set mutex"}
        /\ SetupOf("put") = {"set put"} /\ SetupOf("get") = {"set get"}
    BY <1>1, <1>2 DEF SemNames
  <2> SUFFICES ASSUME NEW o \in Objects, NEW q \in Objects, o # q
               PROVE  SetupOf(o) \cap SetupOf(q) = {}
    OBVIOUS
  <2>2. CASE o = "shm"
    BY <2>1, <2>2 DEF Objects
  <2>3. CASE o = "mutex"
    BY <2>1, <2>3 DEF Objects
  <2>4. CASE o = "put"
    BY <2>1, <2>4 DEF Objects
  <2>5. CASE o = "get"
    BY <2>1, <2>5 DEF Objects
  <2>6. QED
    BY <2>2, <2>3, <2>4, <2>5 DEF Objects
<1>9. \A o \in Objects : SetupOf(o) \cap (Objects \cup {"up"}) = {}
  BY <1>1, <1>2, <1>5 DEF SemNames
<1>10. QED
  BY <1>6, <1>7, <1>8, <1>9

LEMMA CreateKeeps ==
  ASSUME BootInv, NEW p \in Procs, NEW o \in Objects, CreateObject(p, o)
  PROVE  BootInv'
<1> USE DEF BootInv
<1>1. /\ boot[p] = o /\ o \notin exists /\ exists' = exists \cup {o}
      /\ boot' = [boot EXCEPT ![p] = AfterCreation(o)]
      /\ UNCHANGED <<shm, pc, num, interrupted, lost, history, choice, sized>>
  BY DEF CreateObject, Missing, BootTo
<1>2. ValueAtCreation(o) \in Nat \/ o = "shm"
  BY CapAssumption DEF ValueAtCreation, InitialValue, Objects
<1>3. sem' \in [SemNames -> Nat]
  BY <1>2 DEF CreateObject, BootTypeOK, TypeOK, SemNames, Objects
<1>4. BootTypeOK'
  <2>1. AfterCreation(o) \in BootLabels
    BY SetupLabels DEF BootLabels
  <2>2. QED
    BY <1>1, <1>3, <2>1 DEF BootTypeOK, TypeOK, shm, history, choice
<1>5. CreatorInv'
  <2>1. SUFFICES ASSUME NEW x \in Objects, NEW r \in Procs, boot'[r] \in SetupOf(x)'
                 PROVE  x \in exists' /\ \A q \in Procs : boot'[q] \in SetupOf(x)' => r = q
    BY DEF CreatorInv
  <2>2. SetupOf(x)' = SetupOf(x)
    BY <1>1 DEF SetupOf, Setup, choice
  <2>3. CASE x = o
    <3>1. \A q \in Procs : boot[q] \notin SetupOf(o)
      BY <1>1 DEF CreatorInv
    <3>2. QED
      BY <1>1, <2>1, <2>2, <2>3, <3>1 DEF BootTypeOK
  <2>4. CASE x # o
    <3>1. AfterCreation(o) \notin SetupOf(x)
      BY <2>4, SetupLabels
    <3>2. QED
      BY <1>1, <2>1, <2>2, <3>1 DEF BootTypeOK, CreatorInv
  <2>5. QED
    BY <2>3, <2>4
<1>6. (\A q \in Procs : InSection(q)' <=> InSection(q)) /\ (MutualExclusion' <=> MutualExclusion)
  BY <1>1 DEF InSection, MutualExclusion
<1>7. CASE o = "mutex"
  <2>1. Shut
    BY <1>1, <1>7 DEF ShutInv, MutexUnset
  <2>2. sem'["mutex"] = ValueAtCreation("mutex")
    BY <1>7 DEF CreateObject, BootTypeOK, TypeOK, SemNames
  <2>3. MutexInv'
    BY <1>6, <2>1, <2>2 DEF MutexInv, Shut, ValueAtCreation, InitialValue
  <2>4. ShutInv'
    <3>1. CASE posix
      <4>1. \A q \in Procs : boot[q] # "set mutex"
        BY <1>1, <1>7 DEF CreatorInv, SetupOf, Setup, Objects
      <4>2. ~MutexUnset'
        BY <1>1, <1>7, <3>1, <4>1 DEF MutexUnset, AfterCreation, Following, BootTypeOK
      <4>3. QED
        BY <4>2 DEF ShutInv
    <3>2. CASE ~posix
      BY <1>6, <2>1, <2>2, <3>2 DEF ShutInv, Shut, ValueAtCreation
    <3>3. QED
      BY <3>1, <3>2
  <2>5. QED
    BY <1>4, <1>5, <2>3, <2>4
<1>8. CASE o # "mutex"
  <2>1. sem'["mutex"] = sem["mutex"]
    BY <1>8 DEF CreateObject, BootTypeOK, TypeOK, SemNames
  <2>2. MutexInv'
    BY <1>6, <2>1 DEF MutexInv
  <2>3. AfterCreation(o) # "set mutex"
    BY <1>8 DEF AfterCreation, Following, Setup, Objects
  <2>4. MutexUnset' => MutexUnset
    BY <1>1, <1>8, <2>3 DEF MutexUnset, BootTypeOK
  <2>5. ShutInv'
    BY <1>6, <2>1, <2>4 DEF ShutInv, Shut
  <2>6. QED
    BY <1>4, <1>5, <2>2, <2>5
<1>9. QED
  BY <1>7, <1>8

(* A process that sets nothing up moves on.                                *)
LEMMA MoveOnKeeps ==
  ASSUME BootInv, NEW p \in Procs, NEW l \in Objects \cup {"up"},
         boot' = [boot EXCEPT ![p] = l], UNCHANGED <<vars, choice, exists>>,
         sized' \in BOOLEAN, boot[p] # "set mutex"
  PROVE  BootInv'
<1> USE DEF BootInv
<1>1. BootTypeOK'
  BY DEF BootTypeOK, TypeOK, vars, shm, history, choice, BootLabels
<1>2. \A o \in Objects : SetupOf(o)' = SetupOf(o) /\ l \notin SetupOf(o)
  <2>1. \A o \in Objects : SetupOf(o)' = SetupOf(o)
    BY DEF SetupOf, Setup, choice
  <2>2. QED
    BY <2>1, SetupLabels
<1>3. CreatorInv'
  <2>1. \A r \in Procs, o \in Objects : boot'[r] \in SetupOf(o) => boot[r] \in SetupOf(o)
    BY <1>2 DEF BootTypeOK
  <2>2. exists' = exists
    OBVIOUS
  <2>3. SUFFICES ASSUME NEW o \in Objects, NEW r \in Procs, boot'[r] \in SetupOf(o)
                 PROVE  o \in exists /\ \A q \in Procs : boot'[q] \in SetupOf(o) => r = q
    BY <1>2, <2>2 DEF CreatorInv
  <2>4. QED
    BY <2>1, <2>3 DEF CreatorInv
<1>4. MutexInv' /\ (Shut' <=> Shut)
  BY DEF MutexInv, MutualExclusion, InSection, Shut, vars
<1>5. MutexUnset' => MutexUnset
  BY DEF MutexUnset, BootTypeOK, Objects
<1>6. QED
  BY <1>1, <1>3, <1>4, <1>5 DEF ShutInv

LEMMA SetupKeeps ==
  ASSUME BootInv, NEW p \in Procs, SizeMemory(p) \/ ZeroMemory(p)
  PROVE  BootInv'
<1> USE DEF BootInv
<1>1. PICK l \in {"zero", "mutex"} : boot' = [boot EXCEPT ![p] = l]
  BY DEF SizeMemory, ZeroMemory, BootTo, Following
<1>2. /\ boot[p] \in SetupOf("shm") /\ l \in SetupOf("shm") \cup {"mutex"}
      /\ UNCHANGED <<sem, slots, pc, num, interrupted, lost, history, choice, exists>>
      /\ sized' \in BOOLEAN /\ counter' \in Int /\ start' \in 0 .. Cap - 1
  <2>1. 0 \in 0 .. Cap - 1
    BY CapAssumption
  <2>2. counter \in Int /\ start \in 0 .. Cap - 1 /\ sized \in BOOLEAN
    BY DEF BootTypeOK, TypeOK
  <2>3. CASE SizeMemory(p)
    BY <1>1, <2>2, <2>3 DEF SizeMemory, SetupOf, vars, shm
  <2>4. CASE ZeroMemory(p)
    BY <1>1, <2>1, <2>2, <2>4 DEF ZeroMemory, SetupOf
  <2>5. QED
    BY <2>3, <2>4
<1>3. BootTypeOK'
  BY <1>1, <1>2 DEF BootTypeOK, TypeOK, history, choice, BootLabels, Objects
<1>4. CreatorInv'
  <2>1. SUFFICES ASSUME NEW x \in Objects, NEW r \in Procs, boot'[r] \in SetupOf(x)'
                 PROVE  x \in exists' /\ \A q \in Procs : boot'[q] \in SetupOf(x)' => r = q
    BY DEF CreatorInv
  <2>2. SetupOf(x)' = SetupOf(x)
    BY <1>2 DEF SetupOf, Setup, choice
  <2>3. \A q \in Procs : boot'[q] \in SetupOf(x) => boot[q] \in SetupOf(x)
    <3>1. CASE x = "shm"
      BY <1>1, <1>2, <3>1 DEF BootTypeOK
    <3>2. CASE x # "shm"
      <4>1. l \notin SetupOf(x)
        BY <1>2, <3>2, SetupLabels DEF Objects
      <4>2. QED
        BY <1>1, <4>1 DEF BootTypeOK
    <3>3. QED
      BY <3>1, <3>2
  <2>4. QED
    BY <1>2, <2>1, <2>2, <2>3 DEF CreatorInv
<1>5. MutexInv' /\ (Shut' <=> Shut)
  BY <1>2 DEF MutexInv, MutualExclusion, InSection, Shut
<1>6. MutexUnset' => MutexUnset
  BY <1>1, <1>2 DEF MutexUnset, BootTypeOK
<1>7. QED
  BY <1>3, <1>4, <1>5, <1>6 DEF ShutInv

LEMMA SetSemaphoreKeeps ==
  ASSUME BootInv, NEW p \in Procs, NEW s \in SemNames, SetSemaphore(p, s)
  PROVE  BootInv'
<1> USE DEF BootInv
<1>1. /\ boot[p] = Setup(s) /\ sem' = [sem EXCEPT ![s] = InitialValue(s)]
      /\ boot' = [boot EXCEPT ![p] = Following(s)] /\ s \in Objects
      /\ UNCHANGED <<shm, pc, num, interrupted, lost, history, choice, exists, sized>>
  BY DEF SetSemaphore, BootTo, SemNames, Objects
<1>2. /\ SetupOf(s) = {Setup(s)} /\ Following(s) \in Objects \cup {"up"}
      /\ \A o \in Objects : Following(s) \notin SetupOf(o) /\ SetupOf(o)' = SetupOf(o)
  BY <1>1, SetupLabels DEF SetupOf, SemNames, Setup, choice
<1>3. BootTypeOK'
  <2>1. InitialValue(s) \in Nat
    BY CapAssumption DEF InitialValue, SemNames
  <2>2. QED
    BY <1>1, <1>2, <2>1 DEF BootTypeOK, TypeOK, shm, history, choice, BootLabels
<1>4. CreatorInv'
  BY <1>1, <1>2 DEF CreatorInv, BootTypeOK
<1>5. (\A q \in Procs : InSection(q)' <=> InSection(q)) /\ (MutualExclusion' <=> MutualExclusion)
  BY <1>1 DEF InSection, MutualExclusion
<1>6. CASE s = "mutex"
  <2>1. boot[p] = "set mutex"
    BY <1>1, <1>6 DEF Setup
  <2>2. Shut
    BY <2>1 DEF ShutInv, MutexUnset
  <2>3. MutexInv'
    BY <1>1, <1>5, <1>6, <2>2 DEF MutexInv, Shut, InitialValue, BootTypeOK, TypeOK, SemNames
  <2>4. "mutex" \in exists /\ \A q \in Procs : boot[q] = "set mutex" => q = p
    BY <1>1, <1>2, <1>6, <2>1 DEF CreatorInv
  <2>5. ~MutexUnset'
    BY <1>1, <1>6, <2>4 DEF MutexUnset, BootTypeOK, Following
  <2>6. QED
    BY <1>3, <1>4, <2>3, <2>5 DEF ShutInv
<1>7. CASE s # "mutex"
  <2>1. sem'["mutex"] = sem["mutex"]
    BY <1>1, <1>7 DEF BootTypeOK, TypeOK, SemNames
  <2>2. MutexInv'
    BY <1>5, <2>1 DEF MutexInv
  <2>3. MutexUnset' => MutexUnset
    BY <1>1, <1>2 DEF MutexUnset, BootTypeOK, Objects
  <2>4. QED
    BY <1>3, <1>4, <1>5, <2>1, <2>2, <2>3 DEF ShutInv, Shut
<1>8. QED
  BY <1>6, <1>7

(* A process that dies of the bus error leaves the mutex shut.             *)
LEMMA BusErrorKeeps ==
  ASSUME BootInv, NEW p \in Procs, BusError(p)
  PROVE  BootInv'
<1> USE DEF BootInv
<1>1. /\ pc' = [pc EXCEPT ![p] = "exited"]
      /\ UNCHANGED <<sem, shm, num, interrupted, lost, history, bootVars>>
  BY DEF BusError, Goto
<1>2. BootTypeOK' /\ \A q \in Procs : InSection(q)' => InSection(q)
  BY <1>1 DEF BootTypeOK, TypeOK, shm, history, bootVars, choice, Labels, InSection
<1>3. CreatorInv'
  BY <1>1 DEF CreatorInv, SetupOf, Setup, bootVars, choice
<1>4. MutexInv'
  BY <1>1, <1>2 DEF MutexInv, MutualExclusion
<1>5. ShutInv'
  BY <1>1, <1>2 DEF ShutInv, Shut, MutexUnset, bootVars
<1>6. QED
  BY <1>2, <1>3, <1>4, <1>5

LEMMA WorkKeeps ==
  ASSUME BootInv, NEW p \in Procs, Work(p) \/ BootAgain(p)
  PROVE  BootInv'
<1> USE DEF BootInv
<1>1. /\ Next /\ UNCHANGED <<choice, exists, sized>> /\ boot[p] = "up"
      /\ boot' = boot \/ boot' = [boot EXCEPT ![p] = "shm"]
  BY WorkIsNext DEF Work, BootAgain
<1>2. TypeOK' /\ MutexInv'
  BY <1>1, TypeStep, MutexInvStep DEF BootTypeOK
<1>3. BootTypeOK'
  BY <1>1, <1>2 DEF BootTypeOK, choice, BootLabels, Objects
<1>4. \A o \in Objects : SetupOf(o)' = SetupOf(o) /\ "shm" \notin SetupOf(o)
  BY <1>1, SetupLabels DEF SetupOf, Setup, choice, Objects
<1>5. CreatorInv'
  BY <1>1, <1>4 DEF CreatorInv, BootTypeOK
<1>6. MutexUnset' => MutexUnset
  BY <1>1 DEF MutexUnset, BootTypeOK
<1>7. ShutInv'
  BY <1>1, <1>6, ShutStaysShut DEF ShutInv, BootTypeOK
<1>8. QED
  BY <1>2, <1>3, <1>5, <1>7

(* Every step of the start-up, of the work and of a restart keeps it.      *)
LEMMA BootInvStep ==
  ASSUME BootInv, [BootNext]_allVars
  PROVE  BootInv'
<1>1. ASSUME NEW p \in Procs, BootStep(p) PROVE BootInv'
  <2>1. ASSUME NEW o \in Objects, OpenObject(p, o) PROVE BootInv'
    <3>1. boot' = [boot EXCEPT ![p] = Following(o)] /\ UNCHANGED <<vars, choice, exists, sized>>
      BY <2>1 DEF OpenObject, BootTo
    <3>2. boot[p] # "set mutex" /\ sized' \in BOOLEAN /\ Following(o) \in Objects \cup {"up"}
      BY <2>1, <3>1, SetupLabels DEF OpenObject, Objects, BootInv, BootTypeOK
    <3>3. QED
      BY <3>1, <3>2, MoveOnKeeps
  <2>2. QED
    BY <1>1, <2>1, CreateKeeps, SetupKeeps, SetSemaphoreKeeps DEF BootStep
<1>2. CASE UNCHANGED allVars
  <2>1. UNCHANGED <<vars, boot, posix, overlap, exists, sized>>
    BY <1>2 DEF allVars, bootVars, choice
  <2>2. BootTypeOK'
    BY <2>1 DEF BootInv, BootTypeOK, TypeOK, vars, shm, history
  <2>3. CreatorInv'
    BY <2>1 DEF BootInv, CreatorInv, SetupOf, Setup
  <2>4. MutexInv'
    BY <2>1 DEF BootInv, MutexInv, MutualExclusion, InSection, vars
  <2>5. ShutInv'
    BY <2>1 DEF BootInv, ShutInv, Shut, MutexUnset, InSection, vars
  <2>6. QED
    BY <2>2, <2>3, <2>4, <2>5 DEF BootInv
<1>3. QED
  BY <1>1, <1>2, BusErrorKeeps, WorkKeeps DEF BootNext

LEMMA BootInvHolds == BootSpec => []BootInv
<1>1. BootInit => BootInv
  <2> SUFFICES ASSUME BootInit PROVE BootInv
    OBVIOUS
  <2>1. BootTypeOK
    <3>1. TypeOK
      BY CapAssumption DEF BootInit, BufferEmpty, NobodyInside, TypeOK, Labels
    <3>2. QED
      BY <3>1 DEF BootInit, BootTypeOK, BootLabels, Objects
  <2>2. \A p \in Procs : boot[p] = "shm" /\ ~InSection(p)
    BY DEF BootInit, NobodyInside, InSection
  <2>3. CreatorInv
    BY <2>2, SetupLabels DEF CreatorInv, Objects
  <2>4. Shut /\ MutexInv
    BY <2>2 DEF BootInit, Shut, MutexInv, MutualExclusion, SemNames
  <2>5. QED
    BY <2>1, <2>3, <2>4 DEF BootInv, ShutInv
<1>2. QED
  BY <1>1, BootInvStep, PTL DEF BootSpec

(* The exclusive flag of semget, shmget, sem_open and shm_open leaves one  *)
(* process to set an object up, however many run init_ipc at once, and     *)
(* every value keeps its type.                                             *)
THEOREM StartIsSound == BootSpec => []StartSound
<1>1. BootInv => StartSound
  <2>1. SUFFICES ASSUME BootInv, NEW p \in Procs, NEW q \in Procs,
                        boot[p] \notin Objects \cup {"up"}, boot[p] = boot[q]
                 PROVE  p = q
    BY DEF BootInv, StartSound, OneCreator
  <2>2. boot[p] \in {"size", "zero", "set mutex", "set put", "set get"}
    BY <2>1 DEF BootInv, BootTypeOK, BootLabels
  <2>3. \E o \in Objects : boot[p] \in SetupOf(o)
    BY <2>2 DEF SetupOf, Setup, Objects
  <2>4. QED
    BY <2>1, <2>3 DEF BootInv, CreatorInv
<1>2. QED
  BY <1>1, BootInvHolds, PTL

(* Whether processes overlap or not, put_task and get_task exclude each    *)
(* other from the first instruction on ...                                 *)
THEOREM BootMutualExclusion == BootSpec => []MutualExclusion
<1>1. BootInv => MutualExclusion
  BY DEF BootInv, MutexInv
<1>2. QED
  BY <1>1, BootInvHolds, PTL

-----------------------------------------------------------------------------
(* When start-ups do not overlap, one process goes through the objects     *)
(* before anybody else begins.  What there is, is what it has made; what   *)
(* it has set up has the value Init gives it; nothing has been used.       *)
Made(l) == CASE l \in {"size", "zero", "mutex"} -> {"shm"}
             [] l \in {"set mutex", "put"} -> {"shm", "mutex"}
             [] l \in {"set put", "get"} -> {"shm", "mutex", "put"}
             [] l \in {"set get", "up"} -> Objects
SetTo(l) == CASE l \in {"size", "zero", "mutex", "set mutex"} -> {}
              [] l \in {"put", "set put"} -> {"mutex"}
              [] l \in {"get", "set get"} -> {"mutex", "put"}
              [] l = "up" -> SemNames

Untouched == BufferEmpty /\ NobodyInside
Others(p) == \A q \in Procs : q # p => boot[q] = "shm"
Progress(p) == /\ exists = Made(boot[p])
               /\ \A s \in SetTo(boot[p]) : sem[s] = InitialValue(s)
               /\ boot[p] # "size" => Backed

AloneInv ==
  ~overlap =>
    IF Ready THEN Backed
    ELSE /\ Untouched
         /\ exists = {} => \A p \in Procs : boot[p] = "shm"
         /\ \A p \in Procs : boot[p] # "shm" => Others(p) /\ Progress(p)

(* A process that has come through all objects leaves them ready.          *)
LEMMA UpIsReady ==
  ASSUME BootTypeOK, ~overlap, AloneInv, NEW p \in Procs, boot[p] = "up"
  PROVE  Ready
BY DEF AloneInv, Others, Progress, Made, Ready, Objects

(* Once ready, only the buffer moves.                                      *)
LEMMA ReadyStays ==
  ASSUME BootTypeOK, Ready, Backed, [BootNext]_allVars
  PROVE  Ready' /\ Backed' /\ [Next]_vars
<1>1. ASSUME NEW p \in Procs, BootStep(p)
      PROVE  Ready' /\ Backed' /\ UNCHANGED vars
  <2>1. \A o \in Objects : ~CreateObject(p, o)
    BY DEF CreateObject, Missing, Ready
  <2>2. boot[p] \notin {"size", "zero"} /\ \A s \in SemNames : boot[p] # Setup(s)
    BY DEF Ready, Objects, SemNames, Setup
  <2>3. PICK o \in Objects : OpenObject(p, o)
    BY <1>1, <2>1, <2>2 DEF BootStep, SizeMemory, ZeroMemory, SetSemaphore
  <2>4. QED
    BY <2>3, SetupLabels DEF OpenObject, BootTo, Ready, Backed, choice, BootTypeOK
<1>2. ASSUME NEW p \in Procs, Work(p) \/ BootAgain(p)
      PROVE  Ready' /\ Backed' /\ Next
  BY <1>2, WorkIsNext DEF Ready, Backed, choice, BootTypeOK, Objects
<1>3. \A p \in Procs : ~BusError(p)
  BY DEF BusError
<1>4. CASE UNCHANGED allVars
  BY <1>4 DEF allVars, bootVars, choice, Ready, Backed
<1>5. QED
  BY <1>1, <1>2, <1>3, <1>4 DEF BootNext

(* Until then, only the creator moves, and it sets up what Init describes. *)
LEMMA CreatorMoves ==
  ASSUME BootTypeOK, ~overlap, AloneInv, ~Ready, NEW p \in Procs, MayBoot(p), BootStep(p)
  PROVE  /\ UNCHANGED <<shm, pc, num, interrupted, lost, history, choice>>
         /\ Others(p)' /\ Progress(p)' /\ exists' # {} /\ boot'[p] # "shm"
<1>1. boot[p] \in BootLabels /\ BootLabels = Objects \cup {"size", "zero", "set mutex", "set put", "set get", "up"}
  BY DEF BootTypeOK, BootLabels
<1>2. Untouched /\ (boot[p] = "shm" => exists = {}) /\ Others(p)
  BY DEF AloneInv, MayBoot, Others
<1>3. boot[p] # "shm" => Progress(p)
  BY DEF AloneInv
<1>4. counter = 0 /\ start = 0
  BY <1>2 DEF Untouched, BufferEmpty
<1>5. ASSUME NEW o \in Objects PROVE ~OpenObject(p, o)
  BY <1>2, <1>3 DEF OpenObject, Progress, Made, Objects
<1>6. ASSUME NEW o \in Objects, CreateObject(p, o)
      PROVE  /\ UNCHANGED <<shm, pc, num, interrupted, lost, history, choice>>
             /\ Others(p)' /\ Progress(p)' /\ exists' # {} /\ boot'[p] # "shm"
  <2>1. /\ boot[p] = o /\ exists' = exists \cup {o} /\ boot'[p] = AfterCreation(o)
        /\ \A q \in Procs : q # p => boot'[q] = boot[q]
        /\ UNCHANGED <<shm, pc, num, interrupted, lost, history, choice, sized>>
    BY <1>6 DEF CreateObject, BootTo, BootTypeOK
  <2>2. Others(p)' /\ exists' # {}
    BY <1>2, <2>1 DEF Others
  <2>3. CASE o = "shm"
    <3>1. boot'[p] = (IF posix THEN "size" ELSE "zero") /\ exists' = {"shm"}
      BY <1>2, <2>1, <2>3 DEF AfterCreation, Setup
    <3>2. QED
      BY <2>1, <2>2, <3>1 DEF Progress, Made, SetTo, Backed, choice
  <2>4. CASE o # "shm"
    <3>1. exists = Made(o) /\ (\A s \in SetTo(o) : sem[s] = InitialValue(s)) /\ Backed /\ Backed'
      BY <1>3, <2>1, <2>4 DEF Progress, Objects, Backed, choice
    <3>2. o \in SemNames /\ sem' = [sem EXCEPT ![o] = ValueAtCreation(o)]
      BY <1>6, <2>4 DEF CreateObject, Objects, SemNames
    <3>3. CASE posix
      <4>1. boot'[p] = Following(o) /\ sem'[o] = InitialValue(o)
        BY <2>1, <2>4, <3>2, <3>3 DEF AfterCreation, ValueAtCreation, BootTypeOK, TypeOK
      <4>2. /\ Made(Following(o)) = Made(o) \cup {o} /\ SetTo(Following(o)) = SetTo(o) \cup {o}
            /\ Following(o) # "shm"
        BY <3>2 DEF Made, SetTo, Following, SemNames, Objects
      <4>3. \A s \in SetTo(o) : s \in SemNames /\ s # o
        BY <3>2 DEF SetTo, SemNames
      <4>4. \A s \in SetTo(Following(o)) : sem'[s] = InitialValue(s)
        BY <3>1, <3>2, <4>1, <4>2, <4>3 DEF BootTypeOK, TypeOK
      <4>5. QED
        BY <2>1, <2>2, <3>1, <4>1, <4>2, <4>4 DEF Progress
    <3>4. CASE ~posix
      <4>1. boot'[p] = Setup(o)
        BY <2>1, <3>4 DEF AfterCreation
      <4>2. /\ Made(Setup(o)) = Made(o) \cup {o} /\ SetTo(Setup(o)) = SetTo(o)
            /\ Setup(o) # "shm"
        BY <3>2 DEF Made, SetTo, Setup, SemNames, Objects
      <4>3. \A s \in SetTo(o) : s \in SemNames /\ s # o
        BY <3>2 DEF SetTo, SemNames
      <4>4. \A s \in SetTo(o) : sem'[s] = InitialValue(s)
        BY <3>1, <3>2, <4>3 DEF BootTypeOK, TypeOK
      <4>5. QED
        BY <2>1, <2>2, <3>1, <4>1, <4>2, <4>4 DEF Progress
    <3>5. QED
      BY <3>3, <3>4
  <2>5. QED
    BY <2>1, <2>2, <2>3, <2>4
<1>7. ASSUME SizeMemory(p)
      PROVE  /\ UNCHANGED <<shm, pc, num, interrupted, lost, history, choice>>
             /\ Others(p)' /\ Progress(p)' /\ exists' # {} /\ boot'[p] # "shm"
  <2>1. boot[p] = "size" /\ boot'[p] = "zero" /\ sized' /\ exists = {"shm"} /\ exists' = exists
    BY <1>3, <1>7 DEF SizeMemory, BootTo, BootTypeOK, Progress, Made
  <2>2. UNCHANGED <<shm, pc, num, interrupted, lost, history, choice>> /\ Others(p)'
    BY <1>2, <1>7 DEF SizeMemory, BootTo, BootTypeOK, Others, vars
  <2>3. QED
    BY <2>1, <2>2 DEF Progress, Made, SetTo, Backed
<1>8. ASSUME ZeroMemory(p)
      PROVE  /\ UNCHANGED <<shm, pc, num, interrupted, lost, history, choice>>
             /\ Others(p)' /\ Progress(p)' /\ exists' # {} /\ boot'[p] # "shm"
  <2>1. boot[p] = "zero" /\ boot'[p] = "mutex" /\ exists = {"shm"} /\ exists' = exists /\ Backed'
    BY <1>3, <1>8 DEF ZeroMemory, BootTo, BootTypeOK, Progress, Made, Following, Backed, choice
  <2>2. UNCHANGED <<shm, pc, num, interrupted, lost, history, choice>> /\ Others(p)'
    BY <1>2, <1>4, <1>8 DEF ZeroMemory, BootTo, BootTypeOK, Others, shm
  <2>3. QED
    BY <2>1, <2>2 DEF Progress, Made, SetTo
<1>9. ASSUME NEW s \in SemNames, SetSemaphore(p, s)
      PROVE  /\ UNCHANGED <<shm, pc, num, interrupted, lost, history, choice>>
             /\ Others(p)' /\ Progress(p)' /\ exists' # {} /\ boot'[p] # "shm"
  <2>1. /\ boot[p] = Setup(s) /\ boot'[p] = Following(s) /\ exists' = exists
        /\ sem' = [sem EXCEPT ![s] = InitialValue(s)]
        /\ UNCHANGED <<shm, pc, num, interrupted, lost, history, choice, sized>> /\ Others(p)'
    BY <1>2, <1>9 DEF SetSemaphore, BootTo, BootTypeOK, Others
  <2>2. /\ Made(Following(s)) = Made(Setup(s)) /\ SetTo(Following(s)) = SetTo(Setup(s)) \cup {s}
        /\ Following(s) # "shm" /\ Setup(s) \notin {"shm", "size"} /\ Made(Setup(s)) # {}
        /\ s \notin SetTo(Setup(s)) /\ SetTo(Setup(s)) \subseteq SemNames
    BY DEF Made, SetTo, Following, Setup, SemNames, Objects
  <2>3. Progress(p)
    BY <1>3, <2>1, <2>2
  <2>4. exists' = Made(boot'[p]) /\ Backed'
    BY <2>1, <2>2, <2>3 DEF Progress, Backed, choice
  <2>5. \A x \in SetTo(boot'[p]) : sem'[x] = InitialValue(x)
    BY <2>1, <2>2, <2>3 DEF Progress, BootTypeOK, TypeOK
  <2>6. QED
    BY <2>1, <2>2, <2>3, <2>4, <2>5 DEF Progress
<1>10. QED
  BY <1>5, <1>6, <1>7, <1>8, <1>9 DEF BootStep

(* The buffer of the start-up's users and the buffer alone take the same   *)
(* steps as long as they have the same semaphores.                         *)
LEMMA SameSteps ==
  ASSUME SemOnceReady = sem, SemOnceReady' = sem', [Next]_vars
  PROVE  [Running!Next]_(Running!vars)
<1> USE DEF Procs, At, Goto, First, Last, shm, history, SemNames, Down, Up,
            Running!Procs, Running!At, Running!Goto, Running!First, Running!Last,
            Running!shm, Running!history, Running!SemNames, Running!Down, Running!Up
<1>1. ASSUME NEW p \in Procs, Step(p) PROVE Running!Step(p)
  <2>1. Continue(p) => Running!Continue(p)
    BY DEF Continue, Running!Continue
  <2>2. TakeFirst(p) => Running!TakeFirst(p)
    BY DEF TakeFirst, Running!TakeFirst
  <2>3. Lock(p) => Running!Lock(p)
    BY DEF Lock, Running!Lock
  <2>4. ReadCounter(p) => Running!ReadCounter(p)
    BY DEF ReadCounter, Running!ReadCounter
  <2>5. StoreTask(p) => Running!StoreTask(p)
    BY DEF StoreTask, PutIndex, Running!StoreTask, Running!PutIndex
  <2>6. FetchTask(p) => Running!FetchTask(p)
    BY DEF FetchTask, NextStart, Running!FetchTask, Running!NextStart
  <2>7. Unlock(p) => Running!Unlock(p)
    BY DEF Unlock, Running!Unlock
  <2>8. RaiseLast(p) => Running!RaiseLast(p)
    BY DEF RaiseLast, Running!RaiseLast
  <2>9. QED
    BY <1>1, <2>1, <2>2, <2>3, <2>4, <2>5, <2>6, <2>7, <2>8 DEF Step, Running!Step
<1>2. ASSUME NEW p \in Procs, Environment(p) PROVE Running!Environment(p)
  <2>1. Interrupt(p) => Running!Interrupt(p)
    BY DEF Interrupt, Running!Interrupt
  <2>2. InterruptAsleep(p) => Running!InterruptAsleep(p)
    BY DEF InterruptAsleep, Asleep, Running!InterruptAsleep, Running!Asleep
  <2>3. Restart(p) => Running!Restart(p)
    BY DEF Restart, Running!Restart
  <2>4. QED
    BY <1>2, <2>1, <2>2, <2>3 DEF Environment, Running!Environment
<1>3. CASE UNCHANGED vars
  BY <1>3 DEF vars, Running!vars
<1>4. QED
  BY <1>1, <1>2, <1>3 DEF Next, Running!Next

(* Each step keeps that, and is a step of the buffer or none.              *)
LEMMA AloneStep ==
  ASSUME BootInv, AloneInv, [BootNext]_allVars, ~overlap
  PROVE  AloneInv' /\ [Running!Next]_(Running!vars)
<1>1. BootTypeOK
  BY DEF BootInv
<1>2. CASE Ready
  <2>1. Ready' /\ Backed' /\ [Next]_vars
    BY <1>1, <1>2, ReadyStays DEF AloneInv
  <2>2. SemOnceReady = sem /\ SemOnceReady' = sem'
    BY <1>2, <2>1 DEF SemOnceReady
  <2>3. QED
    BY <2>1, <2>2, SameSteps DEF AloneInv
<1>3. CASE ~Ready
  <2>1. \A p \in Procs : boot[p] # "up"
    BY <1>1, <1>3, UpIsReady
  <2>2. CASE UNCHANGED allVars
    <3>1. AloneInv' /\ Ready' = Ready
      BY <2>2 DEF allVars, vars, bootVars, choice, shm, history, AloneInv, Ready, Backed,
         Untouched, BufferEmpty, NobodyInside, Others, Progress
    <3>2. UNCHANGED Running!vars
      BY <2>2, <3>1 DEF allVars, vars, shm, history, SemOnceReady, Running!vars,
         Running!shm, Running!history
    <3>3. QED
      BY <3>1, <3>2
  <2>3. CASE ~UNCHANGED allVars
    <3>1. PICK p \in Procs : MayBoot(p) /\ BootStep(p)
      BY <2>1, <2>3 DEF BootNext, BusError, Work, BootAgain
    <3>2. /\ UNCHANGED <<shm, pc, num, interrupted, lost, history, choice>>
          /\ Others(p)' /\ Progress(p)' /\ exists' # {} /\ boot'[p] # "shm"
      BY <1>1, <1>3, <3>1, CreatorMoves
    <3>3. Untouched'
      BY <1>3, <3>2 DEF AloneInv, Untouched, BufferEmpty, NobodyInside, shm, history
    <3>4. /\ Ready' => Backed' /\ boot'[p] # "size"
          /\ Ready' => SemOnceReady' = [s \in SemNames |-> InitialValue(s)]
      <4>1. SUFFICES ASSUME Ready' PROVE /\ Backed' /\ boot'[p] # "size"
                                       /\ sem' = [s \in SemNames |-> InitialValue(s)]
        BY DEF SemOnceReady
      <4>2. exists' = Objects /\ boot'[p] \in {"mutex", "put", "get", "up"}
        BY <3>2, <4>1 DEF Ready, Objects
      <4>3. boot'[p] = "up"
        BY <3>2, <4>2 DEF Progress, Made, Objects
      <4>4. \A s \in SemNames : sem'[s] = InitialValue(s)
        BY <3>2, <4>3 DEF Progress, SetTo
      <4>5. sem' \in [SemNames -> Nat]
        BY <3>1, BootInvStep DEF BootInv, BootTypeOK, TypeOK, BootNext
      <4>6. QED
        BY <3>2, <4>3, <4>4, <4>5 DEF Progress
    <3>5. \A q \in Procs : boot'[q] # "shm" => q = p
      BY <3>2 DEF Others
    <3>6. AloneInv'
      BY <3>2, <3>3, <3>4, <3>5 DEF AloneInv
    <3>7. SemOnceReady' = SemOnceReady
      BY <1>3, <3>4 DEF SemOnceReady
    <3>8. UNCHANGED Running!vars
      BY <3>2, <3>7 DEF shm, history, Running!vars, Running!shm, Running!history
    <3>9. QED
      BY <3>6, <3>8
  <2>4. QED
    BY <2>2, <2>3
<1>4. QED
  BY <1>2, <1>3

(* ... and in both programs a start-up that does not overlap is invisible: *)
(* what follows is the task buffer of TaskBuffer, from its initial state.  *)
THEOREM StartUpIsInvisible == BootSpec => BootsIntoTaskBuffer
<1>1. BootInit => AloneInv /\ Running!Init
  <2> SUFFICES ASSUME BootInit PROVE AloneInv /\ Running!Init
    OBVIOUS
  <2>1. ~Ready /\ Untouched /\ \A p \in Procs : boot[p] = "shm"
    BY DEF BootInit, Ready, Untouched, Objects
  <2>2. SemOnceReady = [s \in SemNames |-> InitialValue(s)]
    BY <2>1 DEF SemOnceReady
  <2>3. QED
    BY <2>1, <2>2 DEF AloneInv, Untouched, BufferEmpty, NobodyInside, SemNames, InitialValue,
       Procs, Running!Init, Running!SemaphoresSet, Running!BufferEmpty, Running!NobodyInside,
       Running!SemNames, Running!InitialValue, Running!Procs
<1>2. BootInv /\ AloneInv /\ [BootNext]_allVars
        => AloneInv' /\ (overlap \/ [Running!Next]_(Running!vars))
  <2>1. CASE overlap
    <3>1. ASSUME [BootNext]_allVars PROVE overlap' = overlap
      BY <3>1, WorkIsNext DEF BootNext, BootStep, CreateObject, OpenObject, SizeMemory,
         ZeroMemory, SetSemaphore, BusError, bootVars, allVars, choice
    <3>2. QED
      BY <2>1, <3>1 DEF AloneInv
  <2>2. QED
    BY <2>1, AloneStep
<1>3. QED
  BY <1>1, <1>2, BootInvHolds, PTL DEF BootSpec, BootsIntoTaskBuffer

-----------------------------------------------------------------------------
(* The cleanup: where a process can stand, and what it has got from        *)
(* init_ipc by then.                                                       *)
Places == {Off, Ended} \cup ({"create", "open"} \X IpcObjects)
UserPlaces == Places \cup ({"use"} \X Sems)
CleanerPlaces == Places \cup ({"remove"} \X IpcObjects)

Ahead(o) == CASE o = "shm" -> {} [] o = "mutex" -> {"shm"}
              [] o = "put" -> {"shm", "mutex"} [] o = "get" -> {"shm", "mutex", "put"}

Standing ==
  /\ at \in [Parties -> UserPlaces \cup CleanerPlaces]
  /\ at[Cleaner] \in CleanerPlaces
  /\ \A p \in Users : at[p] \in UserPlaces

Got ==
  \A p \in Parties, o \in IpcObjects :
    /\ at[p] = Off => id[p][o] = 0
    /\ at[p] \in {<<"create", o>>, <<"open", o>>} => \A x \in Ahead(o) : id[p][x] # 0
    /\ at[p] = <<"open", o>> => made[o] > 0
    /\ at[p][1] \in {"use", "remove"} => id[p][o] # 0
    /\ id[p][o] # 0 => made[o] > 0
    /\ p = Cleaner /\ at[p] = Ended => id[p][o] # 0

(* Of each object there is the first one, until the cleaner has come to    *)
(* it, and then at most a second one.                                      *)
Gone(o) == removed[o] # {}
Numbers ==
  \A o \in IpcObjects :
    IF Gone(o)
    THEN /\ removed[o] = {1} /\ made[o] \in {1, 2}
         /\ denied[o] \subseteq {made[o]} \ {1}
         /\ named[o] = IF made[o] = 2 THEN 2 ELSE 0
    ELSE made[o] \in {0, 1} /\ named[o] = made[o] /\ denied[o] = {}

RemovedBefore(o) ==
  CASE o = "mutex" -> {} [] o = "get" -> {"mutex"}
    [] o = "put" -> {"mutex", "get"} [] o = "shm" -> Sems
Removals ==
  \A o \in IpcObjects : Gone(o) <=>
    /\ ~zad2
    /\ at[Cleaner] = Ended \/ \E x \in IpcObjects : at[Cleaner] = <<"remove", x>> /\ o \in RemovedBefore(x)

(* What a process has is the first one of each, or the second of each,     *)
(* unless it was in init_ipc during the removal.                           *)
HasOnly(p, n) == \A o \in IpcObjects : id[p][o] \in {0, n}
FirstOrSecond ==
  /\ HasOnly(Cleaner, 1)
  /\ Removing => \A p \in Users \ late : ~Starting(p)
  /\ \A p \in Users \ late :
       IF at[Cleaner] = Ended /\ ~zad2
       THEN HasOnly(p, 2) \/ (HasOnly(p, 1) /\ ~Starting(p))
       ELSE HasOnly(p, 1)

CleanTyped ==
  /\ zad2 \in BOOLEAN /\ late \subseteq Users
  /\ named \in [IpcObjects -> Nat] /\ made \in [IpcObjects -> Nat]
  /\ removed \in [IpcObjects -> SUBSET Nat] /\ denied \in [IpcObjects -> SUBSET Nat]
  /\ id \in [Parties -> [IpcObjects -> Nat]]

CleanInv == CleanTyped /\ Standing /\ Got /\ Numbers /\ Removals /\ FirstOrSecond

-----------------------------------------------------------------------------
(* After the call for an object comes the next one, or the work.           *)
LEMMA AfterInitIs ==
  ASSUME NEW p \in Parties, NEW o \in IpcObjects
  PROVE  \/ \E x \in IpcObjects : /\ AfterInit(p, o) = <<"create", x>>
                                  /\ Ahead(x) = Ahead(o) \cup {o}
         \/ /\ AfterInit(p, o) = IF p = Cleaner THEN <<"remove", "mutex">> ELSE <<"use", "mutex">>
            /\ IpcObjects = Ahead(o) \cup {o}
  BY DEF AfterInit, Ahead, IpcObjects, Sems

(* While the cleaner has not come to its removals all objects are first.   *)
LEMMA FirstUntilRemoved ==
  ASSUME CleanInv, at[Cleaner] # Ended, ~Removing, NEW o \in IpcObjects
  PROVE  ~Gone(o) /\ named[o] = made[o] /\ made[o] \in {0, 1}
  BY DEF CleanInv, Removals, Removing, Numbers

(* A call of init_ipc that gives object n: it has got what is there.       *)
LEMMA GetKeeps ==
  ASSUME CleanInv, NEW p \in Parties, NEW o \in IpcObjects, NEW n \in Nat \ {0},
         at[p] \in {<<"create", o>>, <<"open", o>>},
         id' = [id EXCEPT ![p][o] = n], MoveTo(p, AfterInit(p, o)),
         UNCHANGED <<zad2, removed>>, CleanTyped',
         \A x \in IpcObjects : made[x] > 0 => made'[x] > 0,
         made'[o] > 0, n = named'[o], Numbers'
  PROVE  Standing' /\ Got' /\ Removals' /\ FirstOrSecond'
<1> USE DEF CleanInv, Standing, CleanTyped
<1>1. at' = [at EXCEPT ![p] = AfterInit(p, o)]
  BY DEF MoveTo
<1>2. Standing'
  <2>1. AfterInit(p, o) \in IF p = Cleaner THEN CleanerPlaces ELSE UserPlaces
    <3> HIDE DEF CleanInv, Standing, CleanTyped
    <3> QED
      BY AfterInitIs DEF Places, UserPlaces, CleanerPlaces, IpcObjects, Sems
  <2>2. at' \in [Parties -> UserPlaces \cup CleanerPlaces]
    BY <1>1, <2>1
  <2>3. QED
    BY <1>1, <2>1, <2>2, CleanerAssumption DEF Parties
<1>3. \A x \in IpcObjects : id'[p][x] = IF x = o THEN n ELSE id[p][x]
  OBVIOUS
<1>4. \A q \in Parties \ {p} : id'[q] = id[q] /\ at'[q] = at[q]
  BY <1>1
<1>5. Got'
  <2> SUFFICES ASSUME NEW q \in Parties, NEW x \in IpcObjects
      PROVE  /\ at'[q] = Off => id'[q][x] = 0
             /\ at'[q] \in {<<"create", x>>, <<"open", x>>} => \A y \in Ahead(x) : id'[q][y] # 0
             /\ at'[q] = <<"open", x>> => made'[x] > 0
             /\ at'[q][1] \in {"use", "remove"} => id'[q][x] # 0
             /\ id'[q][x] # 0 => made'[x] > 0
             /\ q = Cleaner /\ at'[q] = Ended => id'[q][x] # 0
    BY DEF Got
  <2>1. CASE q # p
    BY <2>1, <1>4 DEF Got
  <2>2. CASE q = p
    <3>1. \A y \in Ahead(o) : y \in IpcObjects /\ id[p][y] # 0
      BY DEF Got, Ahead, IpcObjects, Sems
    <3>2. at'[p] = AfterInit(p, o)
      BY <1>1
    <3>3. \A y \in Ahead(o) \cup {o} : id'[p][y] # 0
      BY <3>1, <1>3
    <3>4. id'[p][x] # 0 => made'[x] > 0
      BY <1>3 DEF Got
    <3>5. QED
      BY <2>2, <3>2, <3>3, <3>4, AfterInitIs DEF Off, Ended
  <2>3. QED
    BY <2>1, <2>2
<1>6. Removals'
  <2>1. \A x \in IpcObjects : Gone(x)' = Gone(x)
    BY DEF Gone
  <2>2. CASE p # Cleaner
    BY <2>1, <2>2, <1>4 DEF Removals, Parties
  <2>3. CASE p = Cleaner
    <3>1. at'[p] # Ended /\ \A x, y \in IpcObjects : at'[p] = <<"remove", x>> => y \notin RemovedBefore(x)
      BY <1>1, <2>3, AfterInitIs DEF Ended, RemovedBefore, IpcObjects, Sems
    <3>2. \A x \in IpcObjects : ~Gone(x)
      BY <2>3 DEF Removals, Ended
    <3>3. QED
      BY <2>1, <2>3, <3>1, <3>2 DEF Removals
  <2>4. QED
    BY <2>2, <2>3
<1>7. FirstOrSecond'
  <2>1. late \subseteq late' /\ (Removing' => \A q \in Users \ late' : ~Starting(q)')
    BY DEF MoveTo
  <2>2. CASE p = Cleaner
    <3>1. ~Gone(o) /\ named'[o] = 1
      BY <2>2 DEF Removals, Numbers, Gone, Ended
    <3>2. HasOnly(Cleaner, 1)'
      BY <3>1, <2>2, <1>3 DEF FirstOrSecond, HasOnly
    <3>3. at[Cleaner] # Ended /\ at'[Cleaner] # Ended
      BY <2>2, <1>1, AfterInitIs DEF Ended
    <3>4. \A q \in Users \ late' : HasOnly(q, 1)'
      BY <3>3, <2>1, <2>2, <1>4, CleanerAssumption DEF FirstOrSecond, HasOnly, Parties
    <3>5. QED
      BY <2>1, <3>2, <3>3, <3>4 DEF FirstOrSecond
  <2>3. CASE p # Cleaner
    <3>1. at'[Cleaner] = at[Cleaner] /\ id'[Cleaner] = id[Cleaner] /\ zad2' = zad2
      BY <2>3, <1>4 DEF Parties
    <3>2. HasOnly(Cleaner, 1)'
      BY <3>1 DEF FirstOrSecond, HasOnly
    <3>3. ASSUME NEW q \in Users \ late'
          PROVE  IF at'[Cleaner] = Ended /\ ~zad2'
                 THEN HasOnly(q, 2)' \/ (HasOnly(q, 1)' /\ ~Starting(q)')
                 ELSE HasOnly(q, 1)'
      <4>1. CASE q # p
        BY <4>1, <3>1, <2>1, <1>4 DEF FirstOrSecond, HasOnly, Starting, Parties
      <4>2. CASE q = p
        <5>1. Starting(p) /\ p \in Users \ late
          BY <4>2, <2>1 DEF Starting
        <5>2. ~Removing
          BY <5>1 DEF FirstOrSecond
        <5>3. CASE at[Cleaner] = Ended /\ ~zad2
          <6>1. HasOnly(p, 2)
            BY <5>1, <5>3 DEF FirstOrSecond
          <6>2. Gone(o)'
            BY <5>3 DEF Removals, Gone
          <6>3. n = 2
            BY <6>2 DEF Numbers
          <6>4. QED
            BY <6>1, <6>3, <5>3, <4>2, <1>3, <3>1 DEF HasOnly
        <5>4. CASE ~(at[Cleaner] = Ended /\ ~zad2)
          <6>1. HasOnly(p, 1)
            BY <5>1, <5>4 DEF FirstOrSecond
          <6>2. ~Gone(o)'
            BY <5>2, <5>4 DEF Removals, Gone, Removing
          <6>3. n = 1
            BY <6>2 DEF Numbers
          <6>4. QED
            BY <6>1, <6>3, <5>4, <4>2, <1>3, <3>1 DEF HasOnly
        <5>5. QED
          BY <5>3, <5>4
      <4>3. QED
        BY <4>1, <4>2
    <3>4. QED
      BY <2>1, <3>1, <3>2, <3>3 DEF FirstOrSecond
  <2>4. QED
    BY <2>2, <2>3
<1>8. QED
  BY <1>2, <1>5, <1>6, <1>7

-----------------------------------------------------------------------------
(* Whoever makes an object makes the first or, when that has been removed, *)
(* the second.                                                             *)
LEMMA MakeKeeps ==
  ASSUME CleanInv, NEW p \in Parties, NEW o \in IpcObjects,
         at[p] \in {<<"create", o>>, <<"open", o>>}, named[o] = 0, Make(p, o),
         UNCHANGED <<zad2, removed>>,
         \/ denied' = denied
         \/ made[o] > 0 /\ denied' = [denied EXCEPT ![o] = @ \cup {made'[o]}]
  PROVE  CleanInv'
<1> USE DEF CleanInv, CleanTyped
<1>1. /\ made' = [made EXCEPT ![o] = made[o] + 1]
      /\ named' = [named EXCEPT ![o] = made[o] + 1]
      /\ made[o] + 1 \in Nat \ {0}
  BY DEF Make
<1>2. CleanTyped'
  <2>1. late' \subseteq Users
    BY DEF Make, MoveTo
  <2>2. denied' \in [IpcObjects -> SUBSET Nat]
    BY <1>1
  <2>3. id' \in [Parties -> [IpcObjects -> Nat]]
    BY <1>1 DEF Make
  <2>4. QED
    BY <1>1, <2>1, <2>2, <2>3
<1>3. Numbers'
  <2> SUFFICES ASSUME NEW x \in IpcObjects
      PROVE  IF Gone(x)'
             THEN /\ removed'[x] = {1} /\ made'[x] \in {1, 2}
                  /\ denied'[x] \subseteq {made'[x]} \ {1}
                  /\ named'[x] = IF made'[x] = 2 THEN 2 ELSE 0
             ELSE made'[x] \in {0, 1} /\ named'[x] = made'[x] /\ denied'[x] = {}
    BY DEF Numbers, Gone
  <2>1. CASE x # o
    BY <2>1, <1>1 DEF Numbers, Gone
  <2>2. CASE x = o /\ Gone(o)
    <3>1. made[o] = 1
      BY <2>2 DEF Numbers
    <3>2. denied[o] = {} /\ denied'[o] \subseteq {2}
      BY <3>1, <2>2, <1>1 DEF Numbers
    <3>3. QED
      BY <3>1, <3>2, <2>2, <1>1 DEF Numbers, Gone
  <2>3. CASE x = o /\ ~Gone(o)
    <3>1. made[o] = 0 /\ denied' = denied
      BY <2>3 DEF Numbers
    <3>2. QED
      BY <3>1, <2>3, <1>1 DEF Numbers, Gone
  <2>4. QED
    BY <2>1, <2>2, <2>3
<1>4. \A x \in IpcObjects : made[x] > 0 => made'[x] > 0
  BY <1>1
<1>5. made'[o] = made[o] + 1 /\ named'[o] = made[o] + 1
  BY <1>1
<1>6. Standing' /\ Got' /\ Removals' /\ FirstOrSecond'
  <2>1. id' = [id EXCEPT ![p][o] = named'[o]] /\ named'[o] \in Nat \ {0} /\ made'[o] > 0
    BY <1>1, <1>5 DEF Make
  <2>2. MoveTo(p, AfterInit(p, o))
    BY DEF Make
  <2> HIDE DEF CleanInv, CleanTyped
  <2>3. QED
    BY <1>2, <1>3, <1>4, <2>1, <2>2, GetKeeps
<1>7. QED
  BY <1>2, <1>3, <1>6

(* A step that leaves the objects and what everybody has as they were.     *)
LEMMA PlaceKeeps ==
  ASSUME CleanInv, NEW p \in Parties, NEW l \in UserPlaces \cup CleanerPlaces,
         MoveTo(p, l), UNCHANGED <<objects, id>>,
         zad2' \in BOOLEAN, zad2' # zad2 => \A q \in Parties : at[q] = Off,
         IF p = Cleaner THEN l \in CleanerPlaces ELSE l \in UserPlaces,
         l # Off, l[1] # "remove",
         \A x \in IpcObjects :
           /\ l \in {<<"create", x>>, <<"open", x>>} => \A y \in Ahead(x) : id[p][y] # 0
           /\ l = <<"open", x>> => made[x] > 0
           /\ l[1] = "use" => id[p][x] # 0,
         at[p][1] # "remove", p = Cleaner => at[p] # Ended /\ l # Ended,
         Starting(p) \/ at[p] = Off \/ l[1] \notin {"create", "open"}
  PROVE  CleanInv'
<1> USE DEF CleanInv, Standing, CleanTyped, objects
<1>1. at' = [at EXCEPT ![p] = l]
  BY DEF MoveTo
<1>2. \A q \in Parties \ {p} : at'[q] = at[q]
  BY <1>1
<1>3. at'[p] = l
  BY <1>1
<1>4. CleanTyped'
  BY DEF MoveTo
<1>5. Standing'
  <2>1. at' \in [Parties -> UserPlaces \cup CleanerPlaces]
    BY <1>1
  <2>2. QED
    BY <1>2, <1>3, <2>1, CleanerAssumption DEF Parties
<1>6. Got'
  <2> SUFFICES ASSUME NEW q \in Parties, NEW x \in IpcObjects
      PROVE  /\ at'[q] = Off => id'[q][x] = 0
             /\ at'[q] \in {<<"create", x>>, <<"open", x>>} => \A y \in Ahead(x) : id'[q][y] # 0
             /\ at'[q] = <<"open", x>> => made'[x] > 0
             /\ at'[q][1] \in {"use", "remove"} => id'[q][x] # 0
             /\ id'[q][x] # 0 => made'[x] > 0
             /\ q = Cleaner /\ at'[q] = Ended => id'[q][x] # 0
    BY DEF Got
  <2>1. CASE q # p
    BY <2>1, <1>2 DEF Got
  <2>2. CASE q = p
    BY <2>2, <1>3 DEF Got
  <2>3. QED
    BY <2>1, <2>2
<1>7. Numbers'
  BY DEF Numbers, Gone
<1>8. \A x \in IpcObjects : Gone(x)' = Gone(x)
  BY DEF Gone
<1>9. CASE p = Cleaner
  <2>1. at'[Cleaner] # Ended /\ at[Cleaner] # Ended /\ ~Removing /\ ~Removing'
    BY <1>3, <1>9 DEF Removing
  <2>2. Removals'
    BY <2>1, <1>8 DEF Removals, Removing
  <2>3. FirstOrSecond'
    BY <2>1 DEF FirstOrSecond, HasOnly, MoveTo
  <2>4. QED
    BY <2>2, <2>3, <1>4, <1>5, <1>6, <1>7
<1>10. CASE p # Cleaner
  <2>1. at'[Cleaner] = at[Cleaner] /\ (zad2' = zad2 \/ at[Cleaner] = Off)
    BY <1>2, <1>10 DEF Parties
  <2>2. Removals'
    BY <2>1, <1>8 DEF Removals, Off, Ended
  <2>3. Removing' => \A q \in Users \ late' : ~Starting(q)'
    BY DEF MoveTo
  <2>4. ASSUME NEW q \in Users \ late'
        PROVE  IF at'[Cleaner] = Ended /\ ~zad2'
               THEN HasOnly(q, 2)' \/ (HasOnly(q, 1)' /\ ~Starting(q)')
               ELSE HasOnly(q, 1)'
    <3>1. q \in Users \ late
      BY DEF MoveTo
    <3>2. CASE at[Cleaner] = Ended /\ ~zad2
      <4>1. zad2' = zad2
        BY <2>1, <3>2 DEF Off, Ended
      <4>2. CASE q # p
        <5>1. Starting(q)' = Starting(q)
          BY <4>2, <3>1, <1>2 DEF Starting, Parties
        <5>2. QED
          BY <5>1, <3>1, <3>2, <4>1, <2>1 DEF FirstOrSecond, HasOnly
      <4>3. CASE q = p /\ at[p] = Off
        <5>1. HasOnly(q, 2)'
          BY <4>3 DEF Got, HasOnly
        <5>2. QED
          BY <5>1, <4>1, <2>1, <3>2
      <4>4. CASE q = p /\ at[p] # Off
        <5>1. Starting(q)' => Starting(q)
          BY <4>4, <1>3 DEF Starting
        <5>2. QED
          BY <5>1, <3>1, <3>2, <4>1, <2>1 DEF FirstOrSecond, HasOnly
      <4>5. QED
        BY <4>2, <4>3, <4>4
    <3>3. CASE ~(at[Cleaner] = Ended /\ ~zad2)
      <4>1. HasOnly(q, 1)'
        BY <3>1, <3>3 DEF FirstOrSecond, HasOnly
      <4>2. QED
        BY <4>1, <3>3, <2>1 DEF Off, Ended
    <3>4. QED
      BY <3>2, <3>3
  <2>5. FirstOrSecond'
    BY <2>1, <2>3, <2>4 DEF FirstOrSecond, HasOnly
  <2>6. QED
    BY <2>2, <2>5, <1>4, <1>5, <1>6, <1>7
<1>11. QED
  BY <1>9, <1>10

-----------------------------------------------------------------------------
(* The cleaner removes the first of each, in its order.                    *)
LEMMA RemoveKeeps ==
  ASSUME CleanInv, NEW o \in IpcObjects, Remove(o)
  PROVE  CleanInv'
<1> USE DEF CleanInv, Standing, CleanTyped
<1> DEFINE next == AfterRemoval(o)
<1>1. at[Cleaner] = <<"remove", o>> /\ zad2' = zad2 /\ id' = id
  BY DEF Remove
<1>2. next \in {Ended} \cup ({"remove"} \X IpcObjects)
  BY DEF AfterRemoval, IpcObjects, Sems
<1>3. at' = [at EXCEPT ![Cleaner] = next]
  BY DEF Remove, MoveTo
<1>4. Cleaner \in Parties /\ at'[Cleaner] = next
  BY <1>3 DEF Parties
<1>5. \A q \in Users : at'[q] = at[q]
  BY <1>3, CleanerAssumption DEF Parties
<1>6. id[Cleaner][o] = 1 /\ made[o] > 0
  BY <1>1, <1>4 DEF Got, FirstOrSecond, HasOnly
<1>7. ~Gone(o)
  BY <1>1 DEF Removals, Ended, RemovedBefore, IpcObjects, Sems
<1>8. made[o] = 1 /\ named[o] = 1 /\ denied[o] = {}
  BY <1>6, <1>7 DEF Numbers
<1>9. IF zad2 THEN UNCHANGED objects
      ELSE /\ removed' = [removed EXCEPT ![o] = removed[o] \cup {1}]
           /\ named' = [named EXCEPT ![o] = 0]
           /\ UNCHANGED <<made, denied>>
  BY <1>6, <1>8 DEF Remove, NameAfter
<1>10. \A x \in IpcObjects : Gone(x)' = (Gone(x) \/ (~zad2 /\ x = o))
  BY <1>9 DEF Gone, objects
<1>11. CleanTyped'
  <2>1. late' \subseteq Users
    BY DEF Remove, MoveTo
  <2>2. named' \in [IpcObjects -> Nat] /\ removed' \in [IpcObjects -> SUBSET Nat]
    BY <1>9 DEF objects
  <2>3. made' = made /\ denied' = denied
    BY <1>9 DEF objects
  <2>4. QED
    BY <1>1, <2>1, <2>2, <2>3
<1>12. Standing'
  <2>1. next \in CleanerPlaces
    BY <1>2 DEF CleanerPlaces, Places
  <2>2. at' \in [Parties -> UserPlaces \cup CleanerPlaces]
    BY <1>3, <2>1
  <2>3. QED
    BY <1>4, <1>5, <2>1, <2>2
<1>13. Got'
  <2>0. made' = made
    BY <1>9 DEF objects
  <2> SUFFICES ASSUME NEW q \in Parties, NEW x \in IpcObjects
      PROVE  /\ at'[q] = Off => id'[q][x] = 0
             /\ at'[q] \in {<<"create", x>>, <<"open", x>>} => \A y \in Ahead(x) : id'[q][y] # 0
             /\ at'[q] = <<"open", x>> => made'[x] > 0
             /\ at'[q][1] \in {"use", "remove"} => id'[q][x] # 0
             /\ id'[q][x] # 0 => made'[x] > 0
             /\ q = Cleaner /\ at'[q] = Ended => id'[q][x] # 0
    BY DEF Got
  <2>1. CASE q \in Users
    BY <2>0, <2>1, <1>1, <1>5, CleanerAssumption DEF Got
  <2>2. CASE q = Cleaner
    <3>1. id[q][x] # 0
      BY <2>2, <1>1 DEF Got
    <3>2. next # Off /\ next # <<"open", x>> /\ next # <<"create", x>>
      BY <1>2 DEF Off, Ended
    <3>3. QED
      BY <2>0, <2>2, <3>1, <3>2, <1>1, <1>4 DEF Got
  <2>3. QED
    BY <2>1, <2>2 DEF Parties
<1>14. Numbers'
  <2> SUFFICES ASSUME NEW x \in IpcObjects
      PROVE  IF Gone(x)'
             THEN /\ removed'[x] = {1} /\ made'[x] \in {1, 2}
                  /\ denied'[x] \subseteq {made'[x]} \ {1}
                  /\ named'[x] = IF made'[x] = 2 THEN 2 ELSE 0
             ELSE made'[x] \in {0, 1} /\ named'[x] = made'[x] /\ denied'[x] = {}
    BY DEF Numbers, Gone
  <2>1. CASE zad2 \/ x # o
    BY <2>1, <1>9, <1>10 DEF Numbers, Gone, objects
  <2>2. CASE ~zad2 /\ x = o
    <3>1. removed[o] = {}
      BY <1>7 DEF Gone
    <3>2. removed'[o] = {1}
      BY <3>1, <2>2, <1>9
    <3>3. made'[o] = 1 /\ named'[o] = 0 /\ denied'[o] = {}
      BY <2>2, <1>8, <1>9
    <3>4. Gone(x)'
      BY <3>2, <2>2 DEF Gone
    <3>5. denied'[x] = {}
      BY <3>3, <2>2
    <3>6. QED
      BY <3>2, <3>3, <3>4, <3>5, <2>2
  <2>3. QED
    BY <2>1, <2>2
<1>15. Removals'
  <2>1. \A x \in IpcObjects : (next = Ended \/ \E y \in IpcObjects : next = <<"remove", y>> /\ x \in RemovedBefore(y))
                                <=> x \in RemovedBefore(o) \cup {o}
    BY DEF AfterRemoval, RemovedBefore, IpcObjects, Sems, Ended
  <2>2. \A x \in IpcObjects : Gone(x) <=> (~zad2 /\ x \in RemovedBefore(o))
    BY <1>1 DEF Removals, Ended
  <2>3. QED
    BY <2>1, <2>2, <1>1, <1>4, <1>10 DEF Removals
<1>16. FirstOrSecond'
  <2>1. Removing' => \A q \in Users \ late' : ~Starting(q)'
    BY DEF Remove, MoveTo
  <2>2. \A q \in Users \ late' : q \in Users \ late
    BY DEF Remove, MoveTo
  <2>3. \A q \in Users \ late : HasOnly(q, 1) /\ ~Starting(q)
    BY <1>1 DEF FirstOrSecond, Removing, Ended
  <2>4. \A q \in Users \ late : HasOnly(q, 1)' /\ ~Starting(q)'
    BY <2>3, <1>1, <1>5 DEF HasOnly, Starting
  <2>5. QED
    BY <2>1, <2>2, <2>4, <1>1 DEF FirstOrSecond, HasOnly
<1>17. QED
  BY <1>11, <1>12, <1>13, <1>14, <1>15, <1>16

LEMMA CleanInvStep ==
  ASSUME CleanInv, [CleanNext]_cleanVars
  PROVE  CleanInv'
<1>1. ASSUME NEW p \in Parties, Start(p) PROVE CleanInv'
  <2>1. MoveTo(p, <<"create", "shm">>) /\ UNCHANGED <<objects, id>>
    BY <1>1 DEF Start
  <2>2. <<"create", "shm">> \in Places /\ Ahead("shm") = {}
    BY DEF Places, Ahead, IpcObjects
  <2>3. zad2' \in BOOLEAN /\ (zad2' # zad2 => \A q \in Parties : at[q] = Off)
    BY <1>1 DEF Start, CleanInv, CleanTyped
  <2>4. at[p] = Off
    BY <1>1 DEF Start
  <2>5. QED
    BY <2>1, <2>2, <2>3, <2>4, PlaceKeeps DEF Off, Ended, UserPlaces, CleanerPlaces
<1>2. ASSUME NEW p \in Parties, NEW o \in IpcObjects, Create(p, o) PROVE CleanInv'
  <2>1. CASE Found(o) /\ MoveTo(p, <<"open", o>>) /\ UNCHANGED <<named, made, id>>
    <3>1. <<"open", o>> \in Places
      BY DEF Places
    <3>2. at[p] = <<"create", o>> /\ UNCHANGED <<objects, id, zad2>>
      BY <1>2, <2>1 DEF Create, objects
    <3>3. zad2' \in BOOLEAN /\ (\A y \in Ahead(o) : id[p][y] # 0) /\ made[o] > 0
      <4>1. zad2' \in BOOLEAN
        BY <3>2 DEF CleanInv, CleanTyped
      <4>2. \A y \in Ahead(o) : id[p][y] # 0
        BY <3>2 DEF CleanInv, Got
      <4>3. made[o] > 0
        BY <2>1 DEF CleanInv, Numbers, Found
      <4>4. QED
        BY <4>1, <4>2, <4>3
    <3>4. Starting(p)
      BY <3>2 DEF Starting
    <3>5. QED
      BY <2>1, <3>1, <3>2, <3>3, <3>4, PlaceKeeps DEF Off, Ended, UserPlaces, CleanerPlaces
  <2>2. CASE ~Found(o) /\ Make(p, o)
    BY <1>2, <2>2, MakeKeeps DEF Create, Found
  <2>3. QED
    BY <1>2, <2>1, <2>2 DEF Create
<1>3. ASSUME NEW p \in Parties, NEW o \in IpcObjects, Open(p, o) PROVE CleanInv'
  <2>0. at[p] = <<"open", o>> /\ UNCHANGED <<zad2, removed>> /\ made[o] > 0
    BY <1>3 DEF Open, CleanInv, Got
  <2>1. CASE /\ named[o] # 0 /\ id' = [id EXCEPT ![p][o] = named[o]]
             /\ MoveTo(p, AfterInit(p, o)) /\ UNCHANGED <<named, made, denied>>
    <3>1. CleanTyped'
      BY <2>0, <2>1 DEF CleanInv, CleanTyped, MoveTo
    <3>2. Numbers'
      BY <2>0, <2>1 DEF CleanInv, Numbers, Gone
    <3>3. named[o] \in Nat \ {0}
      BY <2>1 DEF CleanInv, CleanTyped
    <3>4. Standing' /\ Got' /\ Removals' /\ FirstOrSecond'
      BY <2>0, <2>1, <3>1, <3>2, <3>3, GetKeeps
    <3>5. QED
      BY <3>1, <3>2, <3>4 DEF CleanInv
  <2>2. CASE named[o] = 0 /\ Make(p, o) /\ denied' = [denied EXCEPT ![o] = @ \cup {made'[o]}]
    BY <2>0, <2>2, MakeKeeps
  <2>3. CASE named[o] = 0 /\ MoveTo(p, Ended) /\ UNCHANGED <<named, made, id, denied>>
    <3>1. p # Cleaner
      <4> SUFFICES ASSUME p = Cleaner PROVE FALSE
        OBVIOUS
      <4>1. at[Cleaner] # Ended /\ ~Removing
        BY <2>0 DEF Ended, Removing
      <4>2. named[o] = made[o]
        BY <4>1, FirstUntilRemoved
      <4>3. QED
        BY <2>0, <2>3, <4>2
    <3>2. UNCHANGED <<objects, id, zad2>> /\ zad2' \in BOOLEAN
      BY <2>0, <2>3 DEF objects, CleanInv, CleanTyped
    <3>3. Ended \in UserPlaces
      BY DEF UserPlaces, Places
    <3>4. QED
      BY <2>0, <2>3, <3>1, <3>2, <3>3, PlaceKeeps DEF Off, Ended
  <2>4. QED
    BY <1>3, <2>1, <2>2, <2>3 DEF Open
<1>4. ASSUME NEW p \in Parties, WorkOn(p) PROVE CleanInv'
  <2>1. PICK o \in Sems, next \in Sems : at[p] = <<"use", o>> /\ MoveTo(p, <<"use", next>>)
    BY <1>4 DEF WorkOn
  <2>2. p # Cleaner
    BY <2>1 DEF CleanInv, Standing, CleanerPlaces, Places, Off, Ended
  <2>3. <<"use", next>> \in UserPlaces
    BY DEF UserPlaces
  <2>4. UNCHANGED <<objects, id, zad2>> /\ zad2' \in BOOLEAN
    BY <1>4 DEF WorkOn, CleanInv, CleanTyped
  <2>5. \A x \in IpcObjects : id[p][x] # 0
    BY <2>1 DEF CleanInv, Got
  <2>6. QED
    BY <2>1, <2>2, <2>3, <2>4, <2>5, PlaceKeeps DEF Off, Ended
<1>5. ASSUME NEW p \in Parties, SemopFails(p) PROVE CleanInv'
  <2>1. PICK o \in Sems : at[p] = <<"use", o>>
    BY <1>5 DEF SemopFails
  <2>2. p # Cleaner
    BY <2>1 DEF CleanInv, Standing, CleanerPlaces, Places, Off, Ended
  <2>3. MoveTo(p, Ended) /\ UNCHANGED <<objects, id, zad2>> /\ zad2' \in BOOLEAN
    BY <1>5 DEF SemopFails, CleanInv, CleanTyped
  <2>4. Ended \in UserPlaces
    BY DEF UserPlaces, Places
  <2>5. QED
    BY <2>1, <2>2, <2>3, <2>4, PlaceKeeps DEF Off, Ended
<1>6. ASSUME UNCHANGED cleanVars PROVE CleanInv'
  BY <1>6 DEF cleanVars, objects, CleanInv, CleanTyped, Standing, Got, Numbers, Gone,
              Removals, FirstOrSecond, HasOnly, Removing, Starting
<1>7. QED
  BY <1>1, <1>2, <1>3, <1>4, <1>5, <1>6, RemoveKeeps DEF CleanNext, PartyStep

LEMMA CleanInvHolds == CleanSpec => []CleanInv
<1>1. CleanInit => CleanInv
  <2> SUFFICES ASSUME CleanInit PROVE CleanInv
    OBVIOUS
  <2> USE DEF CleanInit
  <2>1. CleanTyped
    BY DEF CleanTyped
  <2>2. Standing
    BY DEF Standing, UserPlaces, CleanerPlaces, Places, Parties
  <2>3. Got
    BY DEF Got, Off, Ended
  <2>4. Numbers
    BY DEF Numbers, Gone
  <2>5. Removals
    BY DEF Removals, Gone, Off, Ended, Parties
  <2>6. FirstOrSecond
    BY DEF FirstOrSecond, HasOnly, Removing, Off, Ended, Parties
  <2>7. QED
    BY <2>1, <2>2, <2>3, <2>4, <2>5, <2>6 DEF CleanInv
<1>2. QED
  BY <1>1, CleanInvStep, PTL DEF CleanSpec

(* IpcCleanup: users that exclude each other by one mutex protect one and  *)
(* the same buffer with it, unless they were in init_ipc of lab7/lab7.h    *)
(* while cleanup was removing.                                             *)
THEOREM OneMutexOneBuffer == CleanSpec => []SameMutexSameBuffer
<1>1. CleanInv => SameMutexSameBuffer
  <2> SUFFICES ASSUME CleanInv PROVE SameMutexSameBuffer
    OBVIOUS
  <2>1. CleanTypeOK
    <3>1. at \in [Parties -> {"off", "create", "open", "use", "remove", "ended"} \X IpcObjects]
      BY DEF CleanInv, Standing, UserPlaces, CleanerPlaces, Places, Off, Ended, IpcObjects
    <3>2. ASSUME NEW o \in IpcObjects
          PROVE  /\ named[o] \in {0} \cup ((1 .. made[o]) \ removed[o])
                 /\ removed[o] \cup denied[o] \subseteq 1 .. made[o]
      <4>1. CASE Gone(o)
        <5>1. /\ removed[o] = {1} /\ made[o] \in {1, 2}
              /\ denied[o] \subseteq {made[o]} \ {1}
              /\ named[o] = IF made[o] = 2 THEN 2 ELSE 0
          BY <4>1 DEF CleanInv, Numbers
        <5>2. QED
          BY <5>1
      <4>2. CASE ~Gone(o)
        BY <4>2 DEF CleanInv, Numbers, Gone
      <4>3. QED
        BY <4>1, <4>2
    <3>3. QED
      BY <3>1, <3>2 DEF CleanTypeOK, CleanInv, CleanTyped
  <2>2. ASSUME NEW p \in Users \ late, NEW q \in Users \ late,
               Using(p), Using(q), id[p]["mutex"] = id[q]["mutex"]
        PROVE  id[p] = id[q]
    <3>1. \A o \in IpcObjects : id[p][o] # 0 /\ id[q][o] # 0
      BY <2>2 DEF CleanInv, Got, Using, Parties
    <3>2. (HasOnly(p, 1) \/ HasOnly(p, 2)) /\ (HasOnly(q, 1) \/ HasOnly(q, 2))
      BY DEF CleanInv, FirstOrSecond
    <3>3. "mutex" \in IpcObjects
      BY DEF IpcObjects, Sems
    <3>4. \A o \in IpcObjects : id[p][o] = id[q][o]
      BY <2>2, <3>1, <3>2, <3>3 DEF HasOnly
    <3>5. QED
      BY <3>4 DEF CleanInv, CleanTyped, Parties
  <2>3. QED
    BY <2>1, <2>2 DEF SameMutexSameBuffer
<1>2. QED
  BY <1>1, CleanInvHolds, PTL

(* IpcCleanup: zad1/cleanup.c leaves nothing that it has found, and that   *)
(* of zad2 leaves everything in its place.                                 *)
THEOREM OnlyNewerIsLeft == CleanSpec => []LeavesOnlyNewer
<1>1. CleanInv => LeavesOnlyNewer
  <2> SUFFICES ASSUME CleanInv, Cleaned, NEW o \in IpcObjects
               PROVE  IF zad2 THEN named[o] = id[Cleaner][o]
                      ELSE named[o] = 0 \/ named[o] > id[Cleaner][o]
    BY DEF LeavesOnlyNewer
  <2>1. id[Cleaner][o] = 1 /\ made[o] > 0
    BY DEF Cleaned, CleanInv, Got, FirstOrSecond, HasOnly, Parties
  <2>2. Gone(o) <=> ~zad2
    BY DEF Cleaned, CleanInv, Removals
  <2>3. QED
    BY <2>1, <2>2 DEF CleanInv, Numbers
<1>2. QED
  BY <1>1, CleanInvHolds, PTL
=============================================================================
