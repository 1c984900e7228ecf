------------------------ MODULE SmallProgramsProofs -------------------------
(***************************************************************************)
(* What holds of the programs of lab2 to lab5 and of zad2 of lab8, for all *)
(* sizes of their inputs: any number of users, records, children, signals, *)
(* writers, lines, files and threads.  Each program has its inductive      *)
(* invariant: LockInv, SortInv, ForkInv, PingInv, FifoInv, PipeInv, SigInv.*)
(***************************************************************************)
EXTENDS SmallPrograms, SequenceTheorems, FiniteSetTheorems, TLAPS

-----------------------------------------------------------------------------
(* The record lock shell.  A byte that has been locked all the time is     *)
(* still locked, and print_locks has printed those that it has asked for,  *)
(* at most as many as the file had when it began.                          *)
PrintedSoFar == \A p \in Shells :
  /\ steady[p] \subseteq Locks!Locked(lock)
  /\ lockCounter[p] <= fileSize[p] /\ fileSize[p] <= size
  /\ \A b \in steady[p] : b < lockCounter[p] => b \in lockPrinted[p]

(* Who acts has a command, and whoever locks its byte against it does so   *)
(* after the check.                                                        *)
LateOnly == \A p \in Shells :
  lockPc[p] = "act" => /\ cmd[p] \in Locks!Command
                       /\ Locks!Opposed(p, cmd[p].op, cmd[p].num) \subseteq later[p]

(* The inductive invariant of the record lock shell.                       *)
LockInv == Locks!TypeOK /\ LateOnly /\ PrintedSoFar

(* At the start nothing is locked and nobody acts.                         *)
LEMMA LockInvInit == Locks!Init => LockInv
<1>1. 0 \in 0 .. LastByte + 1 /\ 1 \in 1 .. LastByte + 1
  BY LockAssumption
<1>2. ASSUME Locks!Init PROVE Locks!TypeOK
  BY <1>1, <1>2, LockAssumption DEF Locks!Init, Locks!TypeOK
<1>3. ASSUME Locks!Init PROVE LateOnly /\ PrintedSoFar
  BY <1>3 DEF Locks!Init, LateOnly, PrintedSoFar
<1> QED
  BY <1>2, <1>3 DEF LockInv

(* A step keeps the types.                                                 *)
LEMMA LockTypes == ASSUME LockInv, [Locks!Next]_Locks!vars PROVE Locks!TypeOK'
<1>0. Locks!TypeOK /\ PrintedSoFar /\ LateOnly
  BY DEF LockInv
<1>1. CASE UNCHANGED Locks!vars
  BY <1>0, <1>1 DEF Locks!TypeOK, Locks!vars
<1>2. ASSUME NEW p \in Shells, Locks!Check(p) PROVE Locks!TypeOK'
  BY <1>0, <1>2 DEF Locks!TypeOK, Locks!Check
<1>3. ASSUME NEW p \in Shells, Locks!Acquire(p) PROVE Locks!TypeOK'
  <2>0. cmd[p] \in Locks!Command /\ cmd[p].num \in Locks!Bytes
    BY <1>0, <1>3 DEF LateOnly, Locks!Acquire, Locks!Command
  <2>1. Locks!AskedType(cmd[p].op) \in {"none", "read", "write"}
    BY DEF Locks!AskedType
  <2>2. /\ lock' \in [Shells -> [Locks!Bytes -> {"none", "read", "write"}]]
        /\ steady' \in [Shells -> SUBSET Locks!Bytes]
        /\ later' \in [Shells -> SUBSET Shells]
    <3>1. CASE UNCHANGED <<lock, later, steady>>
      BY <3>1, <1>0 DEF Locks!TypeOK
    <3>2. CASE Locks!SetLock(p, cmd[p].num, Locks!AskedType(cmd[p].op))
      BY <3>2, <1>0, <2>0, <2>1 DEF Locks!TypeOK, Locks!SetLock
    <3> QED BY <3>1, <3>2, <1>3 DEF Locks!Acquire
  <2> QED BY <1>0, <1>3, <2>2 DEF Locks!TypeOK, Locks!Acquire
<1>4. ASSUME NEW p \in Shells, Locks!Free(p) PROVE Locks!TypeOK'
  <2>0. cmd[p].num \in Locks!Bytes
    BY <1>0, <1>4 DEF LateOnly, Locks!Free, Locks!Command
  <2> QED BY <1>0, <1>4, <2>0 DEF Locks!TypeOK, Locks!Free
<1>5. ASSUME NEW p \in Shells, Locks!Transfer(p) PROVE Locks!TypeOK'
  <2>0. cmd[p].num \in 0 .. LastByte
    BY <1>0, <1>5 DEF LateOnly, Locks!Transfer, Locks!Command, Locks!Bytes
  <2>1. size' \in 1 .. LastByte + 1
    BY <1>0, <1>5, <2>0, LockAssumption DEF Locks!TypeOK, Locks!Transfer, Locks!EndOf
  <2> QED BY <1>0, <1>5, <2>1 DEF Locks!TypeOK, Locks!Transfer
<1>6. ASSUME NEW p \in Shells, Locks!StartPrint(p) PROVE Locks!TypeOK'
  <2>1. 0 \in 0 .. LastByte + 1 /\ size \in 0 .. LastByte + 1
    BY <1>0, LockAssumption DEF Locks!TypeOK
  <2> QED BY <1>0, <1>6, <2>1 DEF Locks!TypeOK, Locks!StartPrint, Locks!Locked
<1>7. ASSUME NEW p \in Shells, Locks!PrintByte(p) PROVE Locks!TypeOK'
  <2>1. lockCounter[p] \in Locks!Bytes /\ lockCounter[p] + 1 \in 0 .. LastByte + 1
    BY <1>0, <1>7, LockAssumption DEF Locks!TypeOK, Locks!PrintByte, Locks!Bytes
  <2> QED BY <1>0, <1>7, <2>1 DEF Locks!TypeOK, Locks!PrintByte
<1>8. ASSUME NEW p \in Shells, Locks!EndPrint(p) PROVE Locks!TypeOK'
  <2>1. 0 \in 0 .. LastByte + 1
    BY LockAssumption
  <2> QED BY <1>0, <1>8, <2>1 DEF Locks!TypeOK, Locks!EndPrint
<1>9. ASSUME NEW p \in Shells, Locks!Die(p) PROVE Locks!TypeOK'
  BY <1>0, <1>9 DEF Locks!TypeOK, Locks!Die
<1> QED
  BY <1>1, <1>2, <1>3, <1>4, <1>5, <1>6, <1>7, <1>8, <1>9 DEF Locks!Next

(* A lock in the way of somebody's act is found by the check, or is taken  *)
(* by a SetLock that enters its owner in later.                            *)
LEMMA LateStep == ASSUME LockInv, [Locks!Next]_Locks!vars PROVE LateOnly'
<1>0. Locks!TypeOK /\ LateOnly
  BY DEF LockInv
<1>1. CASE UNCHANGED Locks!vars
  BY <1>0, <1>1 DEF LateOnly, Locks!vars, Locks!Opposed
<1>2. ASSUME NEW p \in Shells, Locks!Check(p) PROVE LateOnly'
  <2>1. PICK m \in Locks!Command : /\ Locks!InTheWay(p, m.op, m.num) = {}
                                   /\ cmd' = [cmd EXCEPT ![p] = m]
    BY <1>2 DEF Locks!Check
  <2>2. Locks!Opposed(p, m.op, m.num) = {}
    BY <2>1 DEF Locks!Opposed, Locks!InTheWay, Locks!AskedType, Locks!Command,
                Locks!LockOps, Locks!DataOps, Locks!Excludes
  <2>3. /\ cmd'[p] = m /\ later'[p] = {} /\ lock' = lock
        /\ \A q \in Shells \ {p} : cmd'[q] = cmd[q] /\ lockPc'[q] = lockPc[q]
                                   /\ later'[q] = later[q]
    BY <1>0, <1>2, <2>1 DEF Locks!Check, Locks!TypeOK
  <2> QED BY <1>0, <2>1, <2>2, <2>3 DEF LateOnly, Locks!Opposed
<1>3. ASSUME NEW p \in Shells, Locks!Acquire(p) PROVE LateOnly'
  <2>0. cmd[p] \in Locks!Command /\ cmd[p].num \in Locks!Bytes
    BY <1>0, <1>3 DEF LateOnly, Locks!Acquire, Locks!Command
  <2>1. lockPc'[p] = "prompt" /\ \A q \in Shells \ {p} : cmd'[q] = cmd[q]
                                                         /\ lockPc'[q] = lockPc[q]
    BY <1>0, <1>3 DEF Locks!Acquire, Locks!TypeOK
  <2>2. ASSUME NEW q \in Shells, q # p, lockPc[q] = "act"
        PROVE  Locks!Opposed(q, cmd[q].op, cmd[q].num)' \subseteq later'[q]
    <3>0. cmd[q] \in Locks!Command /\ cmd[q].num \in Locks!Bytes
          /\ Locks!Opposed(q, cmd[q].op, cmd[q].num) \subseteq later[q]
      BY <1>0, <2>2 DEF LateOnly, Locks!Command
    <3>1. CASE UNCHANGED <<lock, later, steady>>
      BY <3>0, <3>1, <2>1, <2>2 DEF Locks!Opposed
    <3>2. CASE Locks!SetLock(p, cmd[p].num, Locks!AskedType(cmd[p].op))
      <4>1. /\ \A o \in Shells, b \in Locks!Bytes :
                 o # p \/ b # cmd[p].num => lock'[o][b] = lock[o][b]
            /\ later'[q] = IF cmd[q].num = cmd[p].num THEN later[q] \cup {p} ELSE later[q]
        BY <1>0, <2>0, <2>2, <3>2 DEF Locks!SetLock, Locks!TypeOK
      <4> QED BY <4>1, <3>0, <2>1, <2>2 DEF Locks!Opposed
    <3> QED BY <3>1, <3>2, <1>3 DEF Locks!Acquire
  <2> QED BY <1>0, <2>1, <2>2 DEF LateOnly
<1>4. ASSUME NEW p \in Shells, Locks!Free(p) \/ Locks!Die(p) PROVE LateOnly'
  <2>1. /\ lockPc'[p] # "act" /\ later' = later
        /\ \A q \in Shells \ {p} : cmd'[q] = cmd[q] /\ lockPc'[q] = lockPc[q]
        /\ \A o \in Shells, b \in Locks!Bytes : lock'[o][b] \in {lock[o][b], "none"}
    <3>1. CASE Locks!Free(p)
      BY <1>0, <3>1 DEF Locks!Free, Locks!TypeOK
    <3>2. CASE Locks!Die(p)
      BY <1>0, <3>2 DEF Locks!Die, Locks!TypeOK
    <3> QED BY <3>1, <3>2, <1>4
  <2>2. ASSUME NEW q \in Shells, q # p, lockPc[q] = "act"
        PROVE  Locks!Opposed(q, cmd[q].op, cmd[q].num)'
                 \subseteq Locks!Opposed(q, cmd[q].op, cmd[q].num)
    <3>0. cmd[q].num \in Locks!Bytes
      BY <1>0, <2>2 DEF LateOnly, Locks!Command
    <3> QED BY <2>1, <2>2, <3>0 DEF Locks!Opposed, Locks!Excludes
  <2> QED BY <1>0, <2>1, <2>2 DEF LateOnly
<1>5. ASSUME NEW p \in Shells, Locks!Transfer(p) \/ Locks!StartPrint(p)
                               \/ Locks!PrintByte(p) \/ Locks!EndPrint(p)
      PROVE  LateOnly'
  <2>1. /\ lock' = lock /\ later' = later
        /\ \A q \in Shells : lockPc'[q] = "act" => lockPc[q] = "act" /\ cmd'[q] = cmd[q]
    BY <1>0, <1>5 DEF Locks!TypeOK, Locks!Transfer, Locks!StartPrint, Locks!PrintByte,
                      Locks!EndPrint
  <2> QED BY <1>0, <2>1 DEF LateOnly, Locks!Opposed
<1> QED
  BY <1>1, <1>2, <1>3, <1>4, <1>5 DEF Locks!Next

(* A lock that goes leaves steady, and a byte asked for is printed if it   *)
(* is locked by anyone.                                                    *)
LEMMA PrintedStep == ASSUME LockInv, [Locks!Next]_Locks!vars PROVE PrintedSoFar'
<1>0. Locks!TypeOK /\ PrintedSoFar
  BY DEF LockInv
<1>1. CASE UNCHANGED Locks!vars
  BY <1>0, <1>1 DEF PrintedSoFar, Locks!vars, Locks!Locked
<1>2. ASSUME UNCHANGED <<size, lockCounter, fileSize, lockPrinted>>,
             \A q \in Shells : steady'[q] = steady[q] \cap Locks!Locked(lock')
      PROVE  PrintedSoFar'
  BY <1>0, <1>2 DEF PrintedSoFar, Locks!Locked
<1>3. ASSUME NEW p \in Shells, Locks!Check(p) \/ Locks!Transfer(p) PROVE PrintedSoFar'
  <2>1. UNCHANGED <<lock, lockCounter, fileSize, lockPrinted, steady>> /\ size <= size'
        /\ size' \in Int
    BY <1>0, <1>3, LockTypes, LockAssumption
      DEF Locks!Check, Locks!Transfer, Locks!TypeOK, Locks!EndOf
  <2> QED BY <1>0, <2>1 DEF PrintedSoFar, Locks!TypeOK, Locks!Locked
<1>4. ASSUME NEW p \in Shells, Locks!Acquire(p) PROVE PrintedSoFar'
  <2>1. UNCHANGED <<size, lockCounter, fileSize, lockPrinted>>
    BY <1>4 DEF Locks!Acquire
  <2>2. CASE UNCHANGED <<lock, later, steady>>
    BY <1>0, <2>1, <2>2 DEF PrintedSoFar, Locks!Locked
  <2>3. CASE Locks!SetLock(p, cmd[p].num, Locks!AskedType(cmd[p].op))
    BY <1>2, <2>1, <2>3 DEF Locks!SetLock
  <2> QED BY <1>4, <2>2, <2>3 DEF Locks!Acquire
<1>5. ASSUME NEW p \in Shells, Locks!Free(p) \/ Locks!Die(p) PROVE PrintedSoFar'
  BY <1>2, <1>5 DEF Locks!Free, Locks!Die
<1>6. ASSUME NEW p \in Shells, Locks!StartPrint(p) PROVE PrintedSoFar'
  <2>1. /\ lock' = lock /\ size' = size
        /\ lockCounter'[p] = 0 /\ fileSize'[p] = size /\ steady'[p] = Locks!Locked(lock)
        /\ \A q \in Shells \ {p} : lockCounter'[q] = lockCounter[q]
             /\ fileSize'[q] = fileSize[q] /\ steady'[q] = steady[q]
             /\ lockPrinted'[q] = lockPrinted[q]
    BY <1>0, <1>6 DEF Locks!StartPrint, Locks!TypeOK
  <2>2. \A b \in Locks!Locked(lock) : ~(b < 0)
    BY DEF Locks!Locked, Locks!Bytes
  <2>3. 0 <= size /\ size <= size
    BY <1>0, LockAssumption DEF Locks!TypeOK
  <2>4. Locks!Locked(lock)' = Locks!Locked(lock)
    BY <2>1 DEF Locks!Locked
  <2> QED BY <1>0, <2>1, <2>2, <2>3, <2>4 DEF PrintedSoFar
<1>7. ASSUME NEW p \in Shells, Locks!PrintByte(p) PROVE PrintedSoFar'
  <2>1. /\ UNCHANGED <<lock, size, fileSize, steady>>
        /\ lockCounter[p] < fileSize[p] /\ lockCounter'[p] = lockCounter[p] + 1
        /\ lockPrinted[p] \subseteq lockPrinted'[p]
        /\ \A q \in Shells \ {p} : lockCounter'[q] = lockCounter[q]
                                   /\ lockPrinted'[q] = lockPrinted[q]
    BY <1>0, <1>7 DEF Locks!PrintByte, Locks!TypeOK
  <2>2. lockCounter[p] \in steady[p] => lockCounter[p] \in lockPrinted'[p]
    BY <1>0, <1>7
      DEF Locks!PrintByte, Locks!TypeOK, PrintedSoFar, Locks!Locked, Locks!ToChild
  <2>3. lockCounter[p] \in Int /\ fileSize[p] \in Int /\ \A b \in steady[p] : b \in Int
    BY <1>0 DEF Locks!TypeOK, Locks!Bytes
  <2>4. lockCounter'[p] <= fileSize[p]
        /\ \A b \in steady[p] : b < lockCounter'[p] => b < lockCounter[p] \/ b = lockCounter[p]
    BY <2>1, <2>3
  <2>5. Locks!Locked(lock)' = Locks!Locked(lock)
    BY <2>1 DEF Locks!Locked
  <2>6. ASSUME NEW b \in steady[p], b < lockCounter'[p] PROVE b \in lockPrinted'[p]
    BY <2>1, <2>2, <2>4, <2>6, <1>0 DEF PrintedSoFar
  <2> QED BY <1>0, <2>1, <2>4, <2>5, <2>6 DEF PrintedSoFar
<1>8. ASSUME NEW p \in Shells, Locks!EndPrint(p) PROVE PrintedSoFar'
  <2>1. /\ lock' = lock /\ size' = size
        /\ lockCounter'[p] = 0 /\ fileSize'[p] = 0 /\ steady'[p] = {}
        /\ \A q \in Shells \ {p} : lockCounter'[q] = lockCounter[q]
             /\ fileSize'[q] = fileSize[q] /\ steady'[q] = steady[q]
             /\ lockPrinted'[q] = lockPrinted[q]
    BY <1>0, <1>8 DEF Locks!EndPrint, Locks!TypeOK
  <2>2. 0 <= 0 /\ 0 <= size
    BY <1>0, LockAssumption DEF Locks!TypeOK
  <2>3. Locks!Locked(lock)' = Locks!Locked(lock)
    BY <2>1 DEF Locks!Locked
  <2> QED BY <1>0, <2>1, <2>2, <2>3 DEF PrintedSoFar
<1> QED
  BY <1>1, <1>3, <1>4, <1>5, <1>6, <1>7, <1>8 DEF Locks!Next

(* Whoever reads, writes or frees a byte in spite of a lock does so because*)
(* the lock was taken after the check, and print_locks prints every byte   *)
(* of the file that was locked all the while.                              *)
THEOREM LocksAreSound == Locks!Spec => []LocksSound
<1>1. LockInv /\ [Locks!Next]_Locks!vars => LockInv'
  BY LockTypes, LateStep, PrintedStep DEF LockInv
<1>2. LockInv => LocksSound
  BY DEF LockInv, LateOnly, PrintedSoFar, LocksSound, Locks!OnlyLateLocksIgnored,
         Locks!SteadyLocksPrinted
<1> QED
  BY LockInvInit, <1>1, <1>2, PTL DEF Locks!Spec

-----------------------------------------------------------------------------
(* The sort on a file.  Permuted, stable, with the tail behind last sorted,*)
(* and none of the records before top has a greater key than the one there:*)
(* what holds of the keys k of the n records in the places of f.           *)
Sorted(n, k, f, last, top) ==
  /\ {f[i] : i \in 1 .. n} = 1 .. n
  /\ \A i, j \in 1 .. n : i < j /\ k[f[i]] = k[f[j]] => f[i] < f[j]
  /\ \A i, j \in 1 .. n : i < j /\ last + 2 <= j => k[f[i]] <= k[f[j]]
  /\ \A i \in 1 .. n : i < top => k[f[i]] <= k[f[top]]

InPass == {"next", "compare"} \cup Sort!Swapping

(* The file as it is when the second write of a swap has been done, and    *)
(* the place of the record that the pass carries along.                    *)
SortWhole == IF sortPc = "writeB" THEN [file EXCEPT ![sortCounter + 1] = sortA] ELSE file
SortTop == IF sortPc \in {"writeB", "restore"} THEN sortCounter + 1
           ELSE IF sortPc \in InPass THEN sortCounter ELSE 0

(* Where the counter and the position are, and which buffers are filled.   *)
SortPlaces ==
  /\ Sort!N \in Nat /\ (sortPc = "open" => Sort!N = 0)
  /\ sortPc \notin {"open", "done", "exited"} => Sort!N >= 2 /\ sortLast >= 1
  /\ sortPc = "first" => pos = 0
  /\ sortPc = "next" => sortCounter >= 1 /\ sortCounter <= sortLast + 1 /\ pos = sortCounter
  /\ sortPc \in InPass \ {"next"} => sortCounter >= 1 /\ sortCounter <= sortLast
  /\ sortPc \in {"compare", "save"} => pos = sortCounter + 1
  /\ sortPc \in Sort!Swapping \ {"save"} => saved = sortCounter + 1
  /\ sortPc \in InPass => held # 0
  /\ sortPc = "compare" => current # 0
  /\ sortPc \in {"readB", "writeA", "writeB"} => sortA # 0
  /\ sortPc \in {"writeA", "writeB"} => sortB # 0

(* What the buffers hold, as long as every write has worked.               *)
SortData ==
  /\ sortPc \in InPass => held = SortWhole[SortTop]
  /\ sortPc = "compare" => current = file[sortCounter + 1]
  /\ sortPc \in {"save", "readA", "readB", "writeA"} =>
       sortKey[file[sortCounter + 1]] < sortKey[file[sortCounter]]
  /\ sortPc \in {"readB", "writeA"} => sortA = file[sortCounter]
  /\ sortPc = "writeA" => sortB = file[sortCounter + 1]
  /\ sortPc = "writeB" => file[sortCounter] = sortB /\ file[sortCounter + 1] = sortB

SortOrdered == Sorted(Sort!N, sortKey, SortWhole, sortLast, SortTop) /\ SortData

(* The inductive invariant of the sort.                                    *)
SortInv ==
  /\ Sort!TypeOK /\ SortPlaces
  /\ sortPc = "exited" => Sort!RecordsKept
  /\ sortPc # "exited" /\ ~broken => SortOrdered

(* Places that change with each other are the only ones whose order is     *)
(* another then; what is at most as great as what is not greater.          *)
LEMMA StillBefore ==
  ASSUME NEW n \in Nat, NEW c \in 1 .. n, NEW i \in 1 .. n, NEW j \in 1 .. n, i < j
  PROVE  \/ (IF i = c THEN c + 1 ELSE IF i = c + 1 THEN c ELSE i)
               < (IF j = c THEN c + 1 ELSE IF j = c + 1 THEN c ELSE j)
         \/ i = c /\ j = c + 1
<1>1. CASE i = c
  BY <1>1
<1>2. CASE i = c + 1
  BY <1>2
<1>3. CASE i # c /\ i # c + 1 /\ j = c
  BY <1>3
<1>4. CASE i # c /\ i # c + 1 /\ j # c
  BY <1>4
<1> QED
  BY <1>1, <1>2, <1>3, <1>4

LEMMA SortNumbers ==
  /\ \A x, y, z \in Int : (x <= y /\ ~(z < y)) => x <= z
  /\ \A x, z \in Int : ~(z < x) => x <= z
OBVIOUS

(* Records with different keys that are out of order and next to each      *)
(* other change places: everything that was in order still is.             *)
LEMMA SortExchanged ==
  ASSUME NEW n \in Nat, NEW k \in [1 .. n -> Int], NEW f \in [1 .. n -> 1 .. n],
         NEW last \in Int, NEW c \in 1 .. n, c + 1 \in 1 .. n, c <= last,
         k[f[c + 1]] < k[f[c]], Sorted(n, k, f, last, c), NEW g,
         g = [f EXCEPT ![c] = f[c + 1], ![c + 1] = f[c]]
  PROVE  Sorted(n, k, g, last, c + 1)
<1> DEFINE Back(i) == IF i = c THEN c + 1 ELSE IF i = c + 1 THEN c ELSE i
<1>1. \A i \in 1 .. n : Back(i) \in 1 .. n /\ g[i] = f[Back(i)] /\ Back(Back(i)) = i
  OBVIOUS
<1>2. ASSUME NEW i \in 1 .. n, NEW j \in 1 .. n, i < j
      PROVE  Back(i) < Back(j) \/ (i = c /\ j = c + 1)
  BY <1>2, StillBefore
<1>3. ASSUME NEW i \in 1 .. n, NEW j \in 1 .. n, i < j, last + 2 <= j
      PROVE  Back(j) = j /\ Back(i) < j
  BY <1>3
<1>4. Back(c) = c + 1 /\ Back(c + 1) = c
  OBVIOUS
<1>5. ASSUME NEW i \in 1 .. n, i < c + 1 PROVE i = c \/ (i < c /\ Back(i) = i)
  BY <1>5
<1>6. \A i \in 1 .. n : f[i] \in 1 .. n /\ k[f[i]] \in Int
  OBVIOUS
<1> HIDE DEF Back
<1>7. {g[i] : i \in 1 .. n} = 1 .. n
  <2>1. {f[i] : i \in 1 .. n} = 1 .. n
    BY DEF Sorted
  <2>2. ASSUME NEW x \in 1 .. n PROVE \E i \in 1 .. n : x = g[i]
    <3>1. PICK i \in 1 .. n : x = f[i]
      BY <2>1
    <3>2. x = g[Back(i)] /\ Back(i) \in 1 .. n
      BY <1>1, <3>1
    <3> QED BY <3>2
  <2>3. \A i \in 1 .. n : g[i] \in 1 .. n
    BY <1>1, <1>6
  <2> DEFINE Image == {g[i] : i \in 1 .. n}
  <2>4. \A x \in 1 .. n : x \in Image
    BY <2>2
  <2>5. ASSUME NEW x \in Image PROVE x \in 1 .. n
    <3>1. PICK i \in 1 .. n : x = g[i]
      OBVIOUS
    <3> QED BY <3>1, <2>3
  <2> HIDE DEF Image
  <2>6. Image = 1 .. n
    BY <2>4, <2>5
  <2> QED BY <2>6 DEF Image
<1>8. ASSUME NEW i \in 1 .. n, NEW j \in 1 .. n, i < j, k[g[i]] = k[g[j]]
      PROVE  g[i] < g[j]
  <2>1. ~(i = c /\ j = c + 1)
    BY <1>1, <1>4, <1>6, <1>8
  <2>2. Back(i) \in 1 .. n /\ Back(j) \in 1 .. n /\ Back(i) < Back(j)
    BY <2>1, <1>1, <1>2, <1>8
  <2>3. g[i] = f[Back(i)] /\ g[j] = f[Back(j)]
    BY <1>1
  <2>4. \A u, v \in 1 .. n : u < v /\ k[f[u]] = k[f[v]] => f[u] < f[v]
    BY DEF Sorted
  <2>5. k[f[Back(i)]] = k[f[Back(j)]]
    BY <2>3, <1>8
  <2>6. f[Back(i)] < f[Back(j)]
    BY <2>2, <2>4, <2>5
  <2> QED BY <2>3, <2>6
<1>9. ASSUME NEW i \in 1 .. n, NEW j \in 1 .. n, i < j, last + 2 <= j
      PROVE  k[g[i]] <= k[g[j]]
  <2>1. g[i] = f[Back(i)] /\ g[j] = f[j] /\ Back(i) \in 1 .. n /\ Back(i) < j
    BY <1>1, <1>3, <1>9
  <2> QED BY <2>1, <1>9 DEF Sorted
<1>10. ASSUME NEW i \in 1 .. n, i < c + 1 PROVE k[g[i]] <= k[g[c + 1]]
  <2>1. g[c + 1] = f[c] /\ g[c] = f[c + 1]
    BY <1>1, <1>4
  <2>2. CASE i = c
    BY <2>1, <2>2, <1>6
  <2>3. CASE i < c /\ g[i] = f[i]
    BY <2>1, <2>3 DEF Sorted
  <2> QED BY <1>1, <1>5, <1>10, <2>2, <2>3
<1> QED
  BY <1>7, <1>8, <1>9, <1>10 DEF Sorted

(* An end of the pass: what was carried along has come to its place.       *)
LEMMA SortPassed ==
  ASSUME NEW n \in Nat, NEW k, NEW f, NEW last \in Int, last + 1 \in 1 .. n,
         NEW top, top = last + 1, Sorted(n, k, f, last, top)
  PROVE  Sorted(n, k, f, last - 1, 0)
<1>1. \A i \in 1 .. n : ~(i < 0)
  OBVIOUS
<1>2. \A j \in 1 .. n : (last - 1) + 2 <= j => last + 2 <= j \/ j = last + 1
  OBVIOUS
<1> QED
  BY <1>1, <1>2 DEF Sorted

(* One more place, of a key not smaller.                                   *)
LEMMA SortFurther ==
  ASSUME NEW n \in Nat, NEW k \in [1 .. n -> Int], NEW f \in [1 .. n -> 1 .. n],
         NEW last, NEW c \in 1 .. n, c + 1 \in 1 .. n,
         ~(k[f[c + 1]] < k[f[c]]), Sorted(n, k, f, last, c)
  PROVE  Sorted(n, k, f, last, c + 1)
<1>1. \A i \in 1 .. n : k[f[i]] \in Int
  OBVIOUS
<1>2. \A i \in 1 .. n : i < c + 1 => i = c \/ i < c
  OBVIOUS
<1>3. \A i \in 1 .. n : i < c => k[f[i]] <= k[f[c]]
  BY DEF Sorted
<1>4. ASSUME NEW i \in 1 .. n, i < c + 1 PROVE k[f[i]] <= k[f[c + 1]]
  <2>1. k[f[i]] \in Int /\ k[f[c]] \in Int /\ k[f[c + 1]] \in Int
    BY <1>1
  <2>2. i = c \/ k[f[i]] <= k[f[c]]
    BY <1>2, <1>3, <1>4
  <2> QED BY <2>1, <2>2, SortNumbers
<1> QED
  BY <1>4 DEF Sorted

(* Nothing is before the first place.                                      *)
LEMMA SortRestarted ==
  ASSUME NEW n \in Nat, NEW k, NEW f, NEW last, NEW c, Sorted(n, k, f, last, c)
  PROVE  Sorted(n, k, f, last, 0) /\ Sorted(n, k, f, last, 1)
<1>1. \A i \in 1 .. n : ~(i < 0) /\ ~(i < 1)
  OBVIOUS
<1> QED
  BY <1>1 DEF Sorted

(* The file in the order of its numbers is sorted so far.                  *)
LEMMA SortBegins ==
  ASSUME NEW n \in Nat, NEW k, NEW f, f = [i \in 1 .. n |-> i], NEW last, last = n - 1
  PROVE  Sorted(n, k, f, last, 0)
<1>1. \A i \in 1 .. n : ~(i < 0) /\ ~(last + 2 <= i) /\ f[i] = i
  OBVIOUS
<1>2. {f[i] : i \in 1 .. n} = 1 .. n
  BY <1>1
<1> QED
  BY <1>1, <1>2 DEF Sorted

(* At the start the file is empty.                                         *)
LEMMA SortInvInit == Sort!Init => SortInv
<1> SUFFICES ASSUME Sort!Init PROVE SortInv
  OBVIOUS
<1>0. Sort!N = 0 /\ sortKey = <<>> /\ file = <<>> /\ sortPc = "open" /\ sortCounter = 0
      /\ sortLast = -1
  BY DEF Sort!Init, Sort!N
<1>1. /\ sortKey \in [1 .. 0 -> Keys] /\ file \in [1 .. 0 -> 1 .. 0]
      /\ 0 \in 0 .. 0 /\ -1 \in -1 .. 0 - 1
  BY <1>0
<1>2. Sort!TypeOK
  BY <1>0, <1>1 DEF Sort!Init, Sort!TypeOK, Sort!None
<1>3. SortPlaces
  BY <1>0 DEF SortPlaces, InPass, Sort!Swapping
<1>4. Sorted(0, sortKey, file, -1, 0)
  <2>1. file = [i \in 1 .. 0 |-> i]
    BY <1>0
  <2>2. -1 = 0 - 1 /\ 0 \in Nat
    OBVIOUS
  <2> QED BY <2>1, <2>2, SortBegins
<1>5. SortOrdered
  BY <1>0, <1>4 DEF SortOrdered, SortData, SortWhole, SortTop, InPass, Sort!Swapping
<1> QED
  BY <1>0, <1>2, <1>3, <1>5 DEF SortInv

(* What every step needs: numbers are numbers.                             *)
LEMMA SortPlain == ASSUME SortInv
  PROVE /\ Sort!N \in Nat /\ sortLast \in Int /\ sortCounter \in Int
        /\ sortPc \notin {"open", "done", "exited"} =>
             Sort!N >= 2 /\ 1 \in 1 .. Sort!N /\ 0 \in 0 .. Sort!N /\ 1 \in 0 .. Sort!N
        /\ sortPc \in InPass \ {"next"} \/ (sortPc = "next" /\ sortCounter <= sortLast) =>
             /\ sortCounter \in 1 .. Sort!N /\ sortCounter + 1 \in 1 .. Sort!N
             /\ sortCounter + 1 \in 0 .. Sort!N
        /\ \A x \in 1 .. Sort!N : x \in 0 .. Sort!N /\ x # 0
        /\ \A x \in 1 .. Sort!N : file[x] \in 1 .. Sort!N
<1>1. Sort!N \in Nat
  BY DEF SortInv, SortPlaces
<1>2. /\ sortCounter \in 0 .. Sort!N /\ sortLast \in -1 .. Sort!N - 1
      /\ file \in [1 .. Sort!N -> 1 .. Sort!N]
  BY DEF SortInv, Sort!TypeOK
<1> sortLast \in Int /\ sortCounter \in Int
  BY <1>2
<1>3. sortPc \in InPass \ {"next"} \/ (sortPc = "next" /\ sortCounter <= sortLast) =>
        sortCounter >= 1 /\ sortCounter <= sortLast
  BY DEF SortInv, SortPlaces
<1>4. sortPc \notin {"open", "done", "exited"} => Sort!N >= 2
  BY DEF SortInv, SortPlaces
<1>5. sortCounter >= 1 /\ sortCounter <= sortLast =>
        /\ sortCounter \in 1 .. Sort!N /\ sortCounter + 1 \in 1 .. Sort!N
        /\ sortCounter + 1 \in 0 .. Sort!N
  BY <1>1, <1>2
<1>6. Sort!N >= 2 => 1 \in 1 .. Sort!N /\ 0 \in 0 .. Sort!N /\ 1 \in 0 .. Sort!N
  BY <1>1
<1>7. \A x \in 1 .. Sort!N : x \in 0 .. Sort!N /\ x # 0
  BY <1>1
<1>8. \A x \in 1 .. Sort!N : file[x] \in 1 .. Sort!N
  BY <1>2
<1> QED
  BY <1>1, <1>3, <1>4, <1>5, <1>6, <1>7, <1>8


(* The generator has made the records, in their order.                     *)
LEMMA SortOpenStep == ASSUME SortInv, Sort!Open PROVE SortInv'
<1>1. PICK n \in 0 .. MaxRecords : sortKey' \in [1 .. n -> Keys]
  BY DEF Sort!Open
<1>2. n \in Nat
  BY SortAssumption
<1>3. sortKey' \in Seq(Keys) /\ Len(sortKey') = n /\ DOMAIN sortKey' = 1 .. n
  BY <1>1, <1>2
<1>4. Sort!N' = n
  BY <1>3 DEF Sort!N
<1>5. /\ io' \in {"SYS", "LIB"} /\ file' = [i \in 1 .. n |-> i]
      /\ sortPc' = IF n <= 1 THEN "done" ELSE "rewind"
      /\ sortLast' = n - 1
      /\ UNCHANGED <<pos, sortCounter, held, current, sortA, sortB, saved, broken>>
  BY <1>3, <1>4 DEF Sort!Open, Sort!LastIndex, Sort!buffers
<1>6. Sort!N = 0 /\ Sort!TypeOK
  BY DEF SortInv, SortPlaces, Sort!Open
<1>7. pos \in 0 .. n /\ saved \in 0 .. n /\ sortCounter \in 0 .. n /\ held \in 0 .. n
      /\ current \in 0 .. n /\ sortA \in 0 .. n /\ sortB \in 0 .. n
      /\ n - 1 \in -1 .. n - 1
  <2>1. /\ pos \in 0 .. 0 /\ saved \in 0 .. 0 /\ sortCounter \in 0 .. 0 /\ held \in 0 .. 0
        /\ current \in 0 .. 0 /\ sortA \in 0 .. 0 /\ sortB \in 0 .. 0
    BY <1>6 DEF Sort!TypeOK
  <2> QED BY <1>2, <2>1
<1>8. Sort!TypeOK'
  <2>1. file' \in [1 .. n -> 1 .. n]
    BY <1>5
  <2> QED BY <1>1, <1>4, <1>5, <1>6, <1>7, <2>1 DEF Sort!TypeOK
<1>9. SortPlaces'
  <2>1. ~(n <= 1) => n >= 2 /\ n - 1 >= 1
    BY <1>2
  <2> QED BY <1>2, <1>4, <1>5, <2>1 DEF SortPlaces, InPass, Sort!Swapping
<1>10. Sorted(n, sortKey', file', n - 1, 0)
  BY <1>2, <1>5, SortBegins
<1>11. SortOrdered'
  <2>1. SortWhole' = file' /\ SortTop' = 0
    BY <1>5 DEF SortWhole, SortTop, InPass, Sort!Swapping
  <2>2. SortData'
    BY <1>5 DEF SortData, InPass, Sort!Swapping
  <2> QED BY <1>4, <1>5, <1>10, <2>1, <2>2 DEF SortOrdered
<1> QED
  BY <1>5, <1>8, <1>9, <1>11 DEF SortInv

(* The steps that leave the file, its keys and last as they are keep the   *)
(* order if they keep the record that is carried along.                    *)
LEMMA SortSame ==
  ASSUME SortInv, sortPc # "exited", UNCHANGED <<io, sortKey, file, sortLast>>,
         ~broken' => ~broken,
         sortPc # "writeB" /\ sortPc' # "writeB",
         SortTop' \in {0, 1} \/ SortTop' = SortTop,
         Sort!TypeOK', SortPlaces', sortPc' # "exited",
         ~broken => SortData'
  PROVE  SortInv'
<1>1. Sort!N' = Sort!N /\ SortWhole' = SortWhole
  BY DEF Sort!N, SortWhole
<1>2. ASSUME ~broken' PROVE SortOrdered'
  <2>1. Sorted(Sort!N, sortKey, SortWhole, sortLast, SortTop)
    BY <1>2 DEF SortInv, SortOrdered
  <2>2. Sorted(Sort!N, sortKey, SortWhole, sortLast, SortTop')
    BY <2>1, SortPlain, SortRestarted
  <2> QED BY <1>1, <1>2, <2>2 DEF SortOrdered
<1> QED
  BY <1>2 DEF SortInv


(* What a step leaves as it is when the file, its keys and the last index  *)
(* do not change: the types of these, and the number of records.           *)
LEMMA SortTyped ==
  ASSUME SortInv, UNCHANGED <<io, sortKey, file, sortLast>>,
         pos' \in 0 .. Sort!N, saved' \in 0 .. Sort!N, sortCounter' \in 0 .. Sort!N,
         held' \in 0 .. Sort!N, current' \in 0 .. Sort!N, sortA' \in 0 .. Sort!N,
         sortB' \in 0 .. Sort!N, broken' \in BOOLEAN,
         sortPc' \in InPass \cup {"rewind", "first", "done", "exited"}
  PROVE  Sort!TypeOK'
<1>1. Sort!N' = Sort!N
  BY DEF Sort!N
<1>2. /\ io \in {"", "SYS", "LIB"} /\ sortKey \in [1 .. Sort!N -> Keys]
      /\ file \in [1 .. Sort!N -> 1 .. Sort!N] /\ sortLast \in -1 .. Sort!N - 1
  BY DEF SortInv, Sort!TypeOK
<1> QED
  BY <1>1, <1>2 DEF Sort!TypeOK, InPass

(* The ranges, for the variables a step leaves alone.                      *)
LEMMA SortRanges == ASSUME SortInv
  PROVE /\ pos \in 0 .. Sort!N /\ saved \in 0 .. Sort!N /\ sortCounter \in 0 .. Sort!N
        /\ held \in 0 .. Sort!N /\ current \in 0 .. Sort!N /\ sortA \in 0 .. Sort!N
        /\ sortB \in 0 .. Sort!N /\ broken \in BOOLEAN
BY DEF SortInv, Sort!TypeOK

(* The pass begins: its first record is carried along.                     *)
LEMMA SortBeginStep == ASSUME SortInv, Sort!SetFileStart \/ Sort!FirstRecord PROVE SortInv'
<1>0. SortPlaces /\ Sort!N' = Sort!N
  BY DEF SortInv, Sort!SetFileStart, Sort!FirstRecord, Sort!N
<1>1. CASE Sort!SetFileStart
  <2>1. /\ sortPc = "rewind" /\ sortPc' = "first" /\ pos' = 0
        /\ UNCHANGED <<io, sortKey, file, sortLast, sortCounter, held, current, sortA,
                       sortB, saved, broken>>
    BY <1>1 DEF Sort!SetFileStart, Sort!sortVars, Sort!buffers
  <2>2. Sort!TypeOK'
    BY <2>1, SortTyped, SortRanges, SortPlain
  <2>3. SortPlaces'
    BY <1>0, <2>1 DEF SortPlaces, InPass, Sort!Swapping
  <2>4. SortTop' \in {0, 1} /\ SortData'
    BY <2>1 DEF SortTop, SortData, InPass, Sort!Swapping
  <2> QED BY <2>1, <2>2, <2>3, <2>4, SortSame
<1>2. CASE Sort!FirstRecord
  <2>0. pos = 0 /\ Sort!N >= 2 /\ sortLast >= 1 /\ sortLast \in Int
    <3>1. sortPc = "first" /\ sortLast \in Int
      BY <1>2, SortPlain DEF Sort!FirstRecord
    <3> QED BY <1>0, <3>1 DEF SortPlaces
  <2>1. /\ sortPc = "first" /\ sortPc' = "next" /\ held' = file[1] /\ pos' = 1
        /\ sortCounter' = 1
        /\ UNCHANGED <<io, sortKey, file, sortLast, current, sortA, sortB, saved, broken>>
    BY <1>2, <2>0, SortPlain DEF Sort!FirstRecord, Sort!Place, Sort!AtEnd, Sort!buffers
  <2>2. held' \in 0 .. Sort!N /\ held' # 0 /\ 1 \in 0 .. Sort!N
    BY <2>1, SortPlain
  <2>3. Sort!TypeOK'
    BY <2>1, <2>2, SortTyped, SortRanges DEF InPass
  <2>4. SortPlaces'
    <3>1. 1 <= sortLast + 1 /\ 1 >= 1
      BY <2>0
    <3> QED BY <1>0, <2>1, <2>2, <3>1 DEF SortPlaces, InPass, Sort!Swapping
  <2>5. SortTop' = 1 /\ SortData'
    BY <2>1 DEF SortTop, SortData, SortWhole, InPass, Sort!Swapping
  <2> QED BY <2>1, <2>3, <2>4, <2>5, SortSame
<1> QED
  BY <1>1, <1>2

(* The next record is read, where the position is that of the counter.     *)
LEMMA SortReadStep == ASSUME SortInv, Sort!NextRecord PROVE SortInv'
<1>0. SortPlaces /\ Sort!N' = Sort!N /\ sortPc = "next" /\ sortCounter <= sortLast
  BY DEF SortInv, Sort!NextRecord, Sort!N
<1>1. /\ pos = sortCounter /\ sortCounter >= 1
      /\ sortCounter + 1 \in 1 .. Sort!N /\ sortCounter + 1 \in 0 .. Sort!N
      /\ sortCounter \in 1 .. Sort!N
  BY <1>0, SortPlain DEF SortPlaces
<1>2. ~Sort!AtEnd
  BY <1>1, SortPlain DEF Sort!AtEnd
<1>3. /\ sortPc' = "compare" /\ current' = file[sortCounter + 1] /\ pos' = sortCounter + 1
      /\ UNCHANGED <<io, sortKey, file, sortLast, sortCounter, held, sortA, sortB, saved,
                     broken>>
  BY <1>1, <1>2 DEF Sort!NextRecord, Sort!Place, Sort!buffers
<1>4. current' \in 0 .. Sort!N /\ current' # 0
  BY <1>1, <1>3, SortPlain
<1>5. Sort!TypeOK'
  BY <1>1, <1>3, <1>4, SortTyped, SortRanges DEF InPass
<1>6. SortPlaces'
  BY <1>0, <1>1, <1>3, <1>4 DEF SortPlaces, InPass, Sort!Swapping
<1>7. SortTop' = SortTop /\ SortWhole' = SortWhole
  BY <1>0, <1>3 DEF SortTop, SortWhole, InPass
<1>8. ~broken => SortData'
  BY <1>0, <1>3, <1>7 DEF SortInv, SortOrdered, SortData, InPass, Sort!Swapping
<1> QED
  BY <1>0, <1>3, <1>5, <1>6, <1>7, <1>8, SortSame


(* Two records are compared: the greater one is carried further.           *)
LEMMA SortCompareStep == ASSUME SortInv, Sort!Compare PROVE SortInv'
<1>0. SortPlaces /\ Sort!N' = Sort!N /\ sortPc = "compare"
  BY DEF SortInv, Sort!Compare, Sort!N
<1>1. /\ sortCounter \in 1 .. Sort!N /\ sortCounter + 1 \in 1 .. Sort!N
      /\ sortCounter + 1 \in 0 .. Sort!N /\ sortCounter \in 0 .. Sort!N
  BY <1>0, SortPlain DEF InPass, Sort!Swapping
<1>2. sortCounter >= 1 /\ sortCounter <= sortLast /\ pos = sortCounter + 1
      /\ held # 0 /\ current # 0
  BY <1>0 DEF SortPlaces, InPass, Sort!Swapping
<1>3. ~broken => held = file[sortCounter] /\ current = file[sortCounter + 1]
  BY <1>0 DEF SortInv, SortOrdered, SortData, SortWhole, SortTop, InPass
<1>4. UNCHANGED <<io, sortKey, file, pos, sortLast, current, sortA, sortB, saved, broken>>
  BY DEF Sort!Compare, Sort!buffers
<1>5. CASE Sort!Smaller(current, held)
  <2>1. sortPc' = "save" /\ UNCHANGED <<sortCounter, held>>
    BY <1>5 DEF Sort!Compare
  <2>2. Sort!TypeOK'
    BY <1>4, <2>1, SortTyped, SortRanges DEF InPass, Sort!Swapping
  <2>3. SortPlaces'
    BY <1>0, <1>2, <1>4, <2>1 DEF SortPlaces, InPass, Sort!Swapping
  <2>4. SortTop' = SortTop /\ SortWhole' = SortWhole
    BY <1>0, <1>4, <2>1 DEF SortTop, SortWhole, InPass, Sort!Swapping
  <2>5. ~broken => SortData'
    <3>1. ~broken => held = SortWhole[SortTop]
      BY <1>0 DEF SortInv, SortOrdered, SortData, InPass
    <3> QED BY <1>3, <1>4, <1>5, <2>1, <2>4, <3>1
              DEF SortData, InPass, Sort!Swapping, Sort!Smaller
  <2> QED BY <1>0, <1>4, <2>1, <2>2, <2>3, <2>4, <2>5, SortSame
<1>6. CASE ~Sort!Smaller(current, held)
  <2>1. sortPc' = "next" /\ held' = current /\ sortCounter' = sortCounter + 1
    BY <1>6 DEF Sort!Compare
  <2>2. Sort!TypeOK'
    BY <1>1, <1>4, <2>1, SortTyped, SortRanges DEF InPass
  <2>3. SortPlaces'
    <3>1. sortCounter + 1 >= 1 /\ sortCounter + 1 <= sortLast + 1
      BY <1>2, SortPlain
    <3> QED BY <1>0, <1>2, <1>4, <2>1, <3>1 DEF SortPlaces, InPass, Sort!Swapping
  <2>4. /\ SortTop = sortCounter /\ SortTop' = sortCounter + 1
        /\ SortWhole = file /\ SortWhole' = file
    BY <1>0, <1>4, <2>1 DEF SortTop, SortWhole, InPass, Sort!Swapping
  <2>5. ASSUME ~broken PROVE SortOrdered'
    <3>1. ~(sortKey[file[sortCounter + 1]] < sortKey[file[sortCounter]])
      BY <1>3, <1>6, <2>5 DEF Sort!Smaller
    <3>2. Sorted(Sort!N, sortKey, file, sortLast, sortCounter)
      BY <1>0, <2>4, <2>5 DEF SortInv, SortOrdered
    <3>3. sortKey \in [1 .. Sort!N -> Int] /\ file \in [1 .. Sort!N -> 1 .. Sort!N]
      BY SortAssumption DEF SortInv, Sort!TypeOK
    <3>4. Sorted(Sort!N, sortKey, file, sortLast, sortCounter + 1)
      BY <1>1, <3>1, <3>2, <3>3, SortPlain, SortFurther
    <3>5. SortData'
      BY <1>3, <1>4, <2>1, <2>4, <2>5 DEF SortData, InPass, Sort!Swapping
    <3> QED BY <1>0, <1>4, <2>4, <3>4, <3>5 DEF SortOrdered
  <2> QED BY <1>4, <2>1, <2>2, <2>3, <2>5 DEF SortInv
<1> QED
  BY <1>5, <1>6

(* The pass ends: one more record is in its final place.                   *)
LEMMA SortEndStep == ASSUME SortInv, Sort!EndPass PROVE SortInv'
<1>0. SortPlaces /\ Sort!TypeOK /\ Sort!N' = Sort!N /\ sortPc = "next"
      /\ sortCounter > sortLast
  BY DEF SortInv, Sort!EndPass, Sort!N
<1>1. /\ sortLast' = sortLast - 1 /\ sortPc' = IF sortLast' >= 1 THEN "rewind" ELSE "done"
      /\ UNCHANGED <<io, sortKey, file, pos, sortCounter, held, current, sortA, sortB,
                     saved, broken>>
  BY DEF Sort!EndPass, Sort!OneSorted, Sort!buffers
<1>2. sortCounter = sortLast + 1 /\ sortLast >= 1 /\ Sort!N >= 2
  BY <1>0, SortPlain DEF SortPlaces
<1>3. sortLast + 1 \in 1 .. Sort!N /\ sortLast - 1 \in -1 .. Sort!N - 1
  <2>1. sortLast \in -1 .. Sort!N - 1
    BY <1>0 DEF Sort!TypeOK
  <2> QED BY <2>1, <1>2, SortPlain
<1>4. Sort!TypeOK'
  BY <1>0, <1>1, <1>3 DEF Sort!TypeOK
<1>5. SortPlaces'
  BY <1>0, <1>1, <1>2 DEF SortPlaces, InPass, Sort!Swapping
<1>6. ASSUME ~broken PROVE SortOrdered'
  <2>1. SortTop = sortLast + 1 /\ SortWhole = file /\ SortTop' = 0 /\ SortWhole' = file
    BY <1>0, <1>1, <1>2 DEF SortTop, SortWhole, InPass, Sort!Swapping
  <2>2. Sorted(Sort!N, sortKey, file, sortLast, sortLast + 1)
    BY <1>0, <1>6, <2>1 DEF SortInv, SortOrdered
  <2>3. Sorted(Sort!N, sortKey, file, sortLast - 1, 0)
    BY <1>3, <2>2, SortPlain, SortPassed
  <2>4. SortData'
    BY <1>1 DEF SortData, InPass, Sort!Swapping
  <2> QED BY <1>0, <1>1, <2>1, <2>3, <2>4 DEF SortOrdered
<1> QED
  BY <1>1, <1>4, <1>5, <1>6 DEF SortInv

(* The steps of a swap before its first write, and the one after it.       *)
LEMMA SortReadSwapStep ==
  ASSUME SortInv, Sort!Save \/ Sort!ReadA \/ Sort!ReadB PROVE SortInv'
<1>0. SortPlaces /\ Sort!N' = Sort!N /\ sortPc \in {"save", "readA", "readB"}
      /\ sortPc' \in {"readA", "readB", "writeA"}
      /\ UNCHANGED <<io, sortKey, file, sortLast, sortCounter, held, current, broken>>
  BY DEF SortInv, Sort!Save, Sort!ReadA, Sort!ReadB, Sort!N, Sort!Call, Sort!sortVars
<1>1. /\ sortCounter \in 1 .. Sort!N /\ sortCounter + 1 \in 1 .. Sort!N
      /\ sortCounter + 1 \in 0 .. Sort!N
      /\ file[sortCounter] \in 1 .. Sort!N /\ file[sortCounter + 1] \in 1 .. Sort!N
  BY <1>0, SortPlain DEF InPass, Sort!Swapping
<1>2. sortCounter \in 0 .. Sort!N
      /\ file[sortCounter] \in 0 .. Sort!N /\ file[sortCounter + 1] \in 0 .. Sort!N
      /\ file[sortCounter] # 0 /\ file[sortCounter + 1] # 0
  BY <1>1, SortPlain
<1>3. SortTop' = SortTop /\ SortWhole' = SortWhole
  BY <1>0 DEF SortTop, SortWhole, InPass, Sort!Swapping
<1>4. ~broken => SortData
  BY <1>0 DEF SortInv, SortOrdered
<1>5. CASE Sort!Save
  <2>1. /\ sortPc = "save" /\ sortPc' = "readA" /\ saved' = pos
        /\ UNCHANGED <<pos, sortA, sortB>>
    BY <1>5 DEF Sort!Save, Sort!Call
  <2>2. Sort!TypeOK'
    BY <1>0, <2>1, SortTyped, SortRanges DEF InPass, Sort!Swapping
  <2>3. SortPlaces'
    BY <1>0, <2>1 DEF SortPlaces, InPass, Sort!Swapping
  <2>4. ~broken => SortData'
    BY <1>0, <1>3, <1>4, <2>1 DEF SortData, InPass, Sort!Swapping
  <2> QED BY <1>0, <1>3, <2>1, <2>2, <2>3, <2>4, SortSame
<1>6. CASE Sort!ReadA
  <2>1. /\ sortPc = "readA" /\ sortPc' = "readB" /\ sortA' = file[sortCounter]
        /\ pos' = sortCounter /\ UNCHANGED <<sortB, saved>>
    BY <1>6 DEF Sort!ReadA, Sort!Call
  <2>2. Sort!TypeOK'
    BY <1>0, <1>2, <2>1, SortTyped, SortRanges DEF InPass, Sort!Swapping
  <2>3. SortPlaces'
    BY <1>0, <1>2, <2>1 DEF SortPlaces, InPass, Sort!Swapping
  <2>4. ~broken => SortData'
    BY <1>0, <1>3, <1>4, <2>1 DEF SortData, InPass, Sort!Swapping
  <2> QED BY <1>0, <1>3, <2>1, <2>2, <2>3, <2>4, SortSame
<1>7. CASE Sort!ReadB
  <2>1. /\ sortPc = "readB" /\ sortPc' = "writeA" /\ sortB' = file[sortCounter + 1]
        /\ pos' = sortCounter + 1 /\ UNCHANGED <<sortA, saved>>
    BY <1>7 DEF Sort!ReadB, Sort!Call
  <2>2. Sort!TypeOK'
    BY <1>0, <1>1, <1>2, <2>1, SortTyped, SortRanges DEF InPass, Sort!Swapping
  <2>3. SortPlaces'
    BY <1>0, <1>2, <2>1 DEF SortPlaces, InPass, Sort!Swapping
  <2>4. ~broken => SortData'
    BY <1>0, <1>3, <1>4, <2>1 DEF SortData, InPass, Sort!Swapping
  <2> QED BY <1>0, <1>3, <2>1, <2>2, <2>3, <2>4, SortSame
<1> QED
  BY <1>5, <1>6, <1>7


(* The first write of a swap: what the file will be after the second one   *)
(* has the two records exchanged.                                          *)
LEMMA SortWriteAStep == ASSUME SortInv, Sort!WriteA PROVE SortInv'
<1>0. SortPlaces /\ Sort!TypeOK /\ Sort!N' = Sort!N /\ sortPc = "writeA" /\ sortPc' = "writeB"
      /\ file' = [file EXCEPT ![sortCounter] = sortB] /\ pos' = sortCounter
      /\ UNCHANGED <<io, sortKey, sortLast, sortCounter, held, current, sortA, sortB, saved,
                     broken>>
  BY DEF SortInv, Sort!WriteA, Sort!N, Sort!Call, Sort!sortVars, Sort!buffers
<1>1. /\ sortCounter \in 1 .. Sort!N /\ sortCounter + 1 \in 1 .. Sort!N
      /\ sortCounter \in 0 .. Sort!N /\ sortCounter <= sortLast
  BY <1>0, SortPlain DEF SortPlaces, InPass, Sort!Swapping
<1>2. Sort!TypeOK'
  <2>1. sortB \in 1 .. Sort!N
    <3>1. sortB # 0 /\ sortB \in 0 .. Sort!N
      BY <1>0 DEF SortPlaces, Sort!TypeOK
    <3> QED BY <3>1, SortPlain
  <2>2. file' \in [1 .. Sort!N -> 1 .. Sort!N]
    BY <1>0, <2>1 DEF Sort!TypeOK
  <2> QED BY <1>0, <1>1, <2>2 DEF Sort!TypeOK, Sort!Swapping
<1>3. SortPlaces'
  BY <1>0 DEF SortPlaces, InPass, Sort!Swapping
<1>4. ASSUME ~broken PROVE SortOrdered'
  <2>1. SortData /\ Sorted(Sort!N, sortKey, file, sortLast, sortCounter)
        /\ SortWhole = file /\ SortTop = sortCounter
    BY <1>0, <1>4 DEF SortInv, SortOrdered, SortWhole, SortTop, InPass, Sort!Swapping
  <2>2. /\ held = file[sortCounter] /\ sortA = file[sortCounter]
        /\ sortB = file[sortCounter + 1]
        /\ sortKey[file[sortCounter + 1]] < sortKey[file[sortCounter]]
    BY <1>0, <2>1 DEF SortData, InPass, Sort!Swapping
  <2>3. SortWhole' = [file EXCEPT ![sortCounter] = file[sortCounter + 1],
                                  ![sortCounter + 1] = file[sortCounter]]
        /\ SortTop' = sortCounter + 1
    BY <1>0, <2>2 DEF SortWhole, SortTop
  <2>4. sortKey \in [1 .. Sort!N -> Int] /\ file \in [1 .. Sort!N -> 1 .. Sort!N]
    BY <1>0, SortAssumption DEF Sort!TypeOK
  <2>5. PICK g : g = [file EXCEPT ![sortCounter] = file[sortCounter + 1],
                                  ![sortCounter + 1] = file[sortCounter]]
    OBVIOUS
  <2>6. Sorted(Sort!N, sortKey, g, sortLast, sortCounter + 1)
    BY <1>1, <2>1, <2>2, <2>4, <2>5, SortPlain, SortExchanged
  <2>7. SortData'
    <3>1. SortWhole'[sortCounter + 1] = file[sortCounter]
      BY <1>1, <2>3, <2>4
    <3>2. file'[sortCounter] = sortB /\ file'[sortCounter + 1] = sortB
      <4>1. sortCounter + 1 # sortCounter
        BY SortPlain
      <4> QED BY <1>0, <1>1, <2>2, <2>4, <4>1
    <3> QED BY <1>0, <2>2, <2>3, <3>1, <3>2 DEF SortData, InPass, Sort!Swapping
  <2> QED BY <1>0, <2>3, <2>5, <2>6, <2>7 DEF SortOrdered
<1> QED
  BY <1>0, <1>2, <1>3, <1>4 DEF SortInv

(* The second write of a swap, and the return of the position.             *)
LEMMA SortWriteBStep == ASSUME SortInv, Sort!WriteB PROVE SortInv'
<1>0. SortPlaces /\ Sort!TypeOK /\ Sort!N' = Sort!N /\ sortPc = "writeB"
      /\ sortPc' = "restore"
      /\ file' = [file EXCEPT ![sortCounter + 1] = sortA] /\ pos' = sortCounter + 1
      /\ UNCHANGED <<io, sortKey, sortLast, sortCounter, held, current, sortA, sortB, saved,
                     broken>>
  BY DEF SortInv, Sort!WriteB, Sort!N, Sort!Call, Sort!sortVars, Sort!buffers, Sort!Exchanged
<1>1. sortCounter + 1 \in 1 .. Sort!N /\ sortCounter + 1 \in 0 .. Sort!N
  BY <1>0, SortPlain DEF InPass, Sort!Swapping
<1>2. Sort!TypeOK'
  <2>1. sortA \in 1 .. Sort!N
    <3>1. sortA # 0 /\ sortA \in 0 .. Sort!N
      BY <1>0 DEF SortPlaces, Sort!TypeOK
    <3> QED BY <3>1, SortPlain
  <2>2. file' \in [1 .. Sort!N -> 1 .. Sort!N]
    BY <1>0, <2>1 DEF Sort!TypeOK
  <2> QED BY <1>0, <1>1, <2>2 DEF Sort!TypeOK, Sort!Swapping
<1>3. SortPlaces'
  BY <1>0 DEF SortPlaces, InPass, Sort!Swapping
<1>4. SortWhole' = SortWhole /\ SortTop' = SortTop
  BY <1>0 DEF SortWhole, SortTop
<1>5. ASSUME ~broken PROVE SortOrdered'
  <2>1. SortData /\ Sorted(Sort!N, sortKey, SortWhole, sortLast, SortTop)
    BY <1>0, <1>5 DEF SortInv, SortOrdered
  <2>2. SortData'
    BY <1>0, <1>4, <2>1 DEF SortData, InPass, Sort!Swapping
  <2> QED BY <1>0, <1>4, <2>1, <2>2 DEF SortOrdered
<1> QED
  BY <1>0, <1>2, <1>3, <1>5 DEF SortInv

LEMMA SortRestoreStep == ASSUME SortInv, Sort!Restore PROVE SortInv'
<1>0. SortPlaces /\ Sort!N' = Sort!N /\ sortPc = "restore" /\ sortPc' = "next"
      /\ pos' = saved /\ sortCounter' = sortCounter + 1
      /\ UNCHANGED <<io, sortKey, file, sortLast, held, current, sortA, sortB, saved, broken>>
  BY DEF SortInv, Sort!Restore, Sort!N, Sort!Call, Sort!buffers, Sort!Earlier
<1>1. sortCounter + 1 \in 0 .. Sort!N
  BY <1>0, SortPlain DEF InPass, Sort!Swapping
<1>2. Sort!TypeOK'
  BY <1>0, <1>1, SortTyped, SortRanges DEF InPass
<1>3. SortPlaces'
  <2>1. sortCounter >= 1 /\ sortCounter <= sortLast /\ saved = sortCounter + 1
    BY <1>0 DEF SortPlaces, InPass, Sort!Swapping
  <2>2. sortCounter + 1 >= 1 /\ sortCounter + 1 <= sortLast + 1
    BY <2>1, SortPlain
  <2> QED BY <1>0, <2>1, <2>2 DEF SortPlaces, InPass, Sort!Swapping
<1>4. SortTop' = SortTop /\ SortWhole' = SortWhole
  BY <1>0 DEF SortTop, SortWhole, InPass, Sort!Swapping
<1>5. ~broken => SortData'
  BY <1>0, <1>4 DEF SortInv, SortOrdered, SortData, InPass, Sort!Swapping
<1> QED
  BY <1>0, <1>2, <1>3, <1>4, <1>5, SortSame

(* The records are those of the file, but for the one a swap has in hand.  *)
LEMMA SortKept == ASSUME SortInv PROVE Sort!RecordsKept
<1>1. CASE sortPc = "exited" \/ broken
  BY <1>1 DEF SortInv, Sort!RecordsKept
<1>2. CASE sortPc \notin {"exited", "writeB"} /\ ~broken
  <2>1. {file[i] : i \in 1 .. Sort!N} = 1 .. Sort!N
    BY <1>2 DEF SortInv, SortOrdered, SortWhole, Sorted
  <2>2. DOMAIN file = 1 .. Sort!N
    BY DEF SortInv, Sort!TypeOK
  <2> QED BY <2>1, <2>2 DEF Sort!RecordsKept
<1>3. CASE sortPc = "writeB" /\ ~broken
  <2>1. sortB # 0 /\ file[sortCounter] = sortB /\ file[sortCounter + 1] = sortB
    BY <1>3 DEF SortInv, SortOrdered, SortData, SortPlaces
  <2>2. sortCounter + 1 <= Sort!N
    BY <1>3, SortPlain DEF InPass, Sort!Swapping
  <2> QED BY <1>3, <2>1, <2>2 DEF Sort!RecordsKept, Sort!BetweenWrites, Sort!None
<1> QED
  BY <1>1, <1>2, <1>3

(* A call fails: the program exits, or the library version does not see it *)
(* and goes on with a file that is broken.                                 *)
LEMMA SortFailStep == ASSUME SortInv, Sort!Fail PROVE SortInv'
<1>0. SortPlaces /\ Sort!TypeOK /\ Sort!N' = Sort!N
      /\ UNCHANGED <<io, sortKey, file, pos, sortLast, sortCounter, held, current, sortA,
                     sortB, saved>>
  BY DEF SortInv, Sort!Fail, Sort!N, Sort!sortVars, Sort!buffers
<1>1. CASE sortPc' = "exited" /\ UNCHANGED broken
  <2>1. Sort!TypeOK'
    BY <1>0, <1>1, SortTyped, SortRanges
  <2>2. SortPlaces'
    BY <1>0, <1>1 DEF SortPlaces, InPass, Sort!Swapping
  <2>3. Sort!RecordsKept'
    <3>1. Sort!BetweenWrites' = Sort!BetweenWrites
      BY <1>0 DEF Sort!BetweenWrites, Sort!None
    <3> QED BY <1>0, <1>1, <3>1, SortKept DEF Sort!RecordsKept
  <2> QED BY <1>1, <2>1, <2>2, <2>3 DEF SortInv
<1>2. CASE Sort!FailUnseen
  <2>1. /\ sortPc \in {"writeA", "writeB"} /\ broken' = TRUE
        /\ sortPc' = IF sortPc = "writeA" THEN "writeB" ELSE "restore"
    BY <1>2 DEF Sort!FailUnseen
  <2>2. Sort!TypeOK'
    BY <1>0, <2>1, SortTyped, SortRanges DEF InPass, Sort!Swapping
  <2>3. SortPlaces'
    BY <1>0, <2>1 DEF SortPlaces, InPass, Sort!Swapping
  <2> QED BY <2>1, <2>2, <2>3 DEF SortInv
<1> QED
  BY <1>1, <1>2 DEF Sort!Fail

(* No record is lost but by a write that failed, or between two writes of  *)
(* a swap; the tail behind the unsorted part is in its final order; and    *)
(* the program never reads past the end of the file.                       *)
THEOREM SortIsSound == Sort!Spec => []SortSound
<1>1. SortInv /\ [Sort!Next]_Sort!vars => SortInv'
  <2> SUFFICES ASSUME SortInv, [Sort!Next]_Sort!vars PROVE SortInv'
    OBVIOUS
  <2>1. CASE UNCHANGED Sort!vars
    <3>1. /\ Sort!N' = Sort!N /\ SortWhole' = SortWhole /\ SortTop' = SortTop
      BY <2>1 DEF Sort!N, SortWhole, SortTop, Sort!vars
    <3>2. Sort!TypeOK' = Sort!TypeOK
      BY <2>1, <3>1 DEF Sort!TypeOK, Sort!vars
    <3>4. SortPlaces' = SortPlaces
      BY <2>1, <3>1 DEF SortPlaces, Sort!vars
    <3>3. SortOrdered' = SortOrdered /\ Sort!RecordsKept' = Sort!RecordsKept
      BY <2>1, <3>1 DEF SortOrdered, SortData, Sort!RecordsKept, Sort!BetweenWrites, Sort!vars
    <3> QED BY <2>1, <3>2, <3>3, <3>4 DEF SortInv, Sort!vars
  <2> QED
    BY <2>1, SortOpenStep, SortBeginStep, SortReadStep, SortCompareStep, SortEndStep,
       SortReadSwapStep, SortWriteAStep, SortWriteBStep, SortRestoreStep, SortFailStep
       DEF Sort!Next, Sort!Step
<1>2. SortInv => SortSound
  <2> SUFFICES ASSUME SortInv PROVE SortSound
    OBVIOUS
  <2>1. Sort!TailSorted
    <3> SUFFICES ASSUME sortPc \in {"rewind", "done"}, ~broken,
                        NEW j \in sortLast + 2 .. Sort!N, NEW i \in 1 .. j - 1
                 PROVE  Sort!After(file[j], file[i])
      BY DEF Sort!TailSorted
    <3>1. Sorted(Sort!N, sortKey, file, sortLast, 0)
      BY DEF SortInv, SortOrdered, SortWhole, SortTop, InPass, Sort!Swapping
    <3>2. sortLast \in -1 .. Sort!N - 1 /\ Sort!N \in Nat
      BY SortPlain DEF SortInv, Sort!TypeOK
    <3>3. i \in 1 .. Sort!N /\ j \in 1 .. Sort!N /\ i < j /\ sortLast + 2 <= j
      BY <3>2
    <3>4. sortKey[file[i]] <= sortKey[file[j]]
          /\ (sortKey[file[i]] = sortKey[file[j]] => file[i] < file[j])
      BY <3>1, <3>3 DEF Sorted
    <3>5. file[i] \in 1 .. Sort!N /\ file[j] \in 1 .. Sort!N
          /\ sortKey[file[i]] \in Int /\ sortKey[file[j]] \in Int
      BY <3>3, SortPlain, SortAssumption DEF SortInv, Sort!TypeOK
    <3> QED BY <3>4, <3>5 DEF Sort!After
  <2>2. Sort!ReadsInside
    BY DEF SortInv, SortPlaces, Sort!ReadsInside
  <2> QED BY <2>1, <2>2, SortKept DEF SortSound, SortInv
<1> QED
  BY SortInvInit, <1>1, <1>2, PTL DEF Sort!Spec

-----------------------------------------------------------------------------
(* The measurement of process creation.  The children made before the last *)
(* one have gone, those after it have not begun, and the parent knows of   *)
(* the last one what its own place tells.                                  *)
Working(c) == forkPc[c] \in {"read", "write"}
OneAtATime ==
  /\ \A c \in Forks!Children : /\ c < made => forkPc[c] = "gone"
                               /\ c > made => forkPc[c] = "none"
  /\ forkMain = "start" => made = 0
  /\ forkMain \in {"create", "report", "failed"} =>
       \A c \in Forks!Children : c = made => forkPc[c] = "gone"
  /\ forkMain \in {"suspended", "wait"} =>
       made \in Forks!Children /\ forkPc[made] \in {"read", "write", "exit"}

(* How many children have added, each one exactly once.                    *)
Done == IF made \in Forks!Children /\ Working(made) THEN made - 1 ELSE made
AddedOnce ==
  /\ global_variable = Done
  /\ forkCounter = IF Forks!SharesMemory THEN Done ELSE 0
  /\ \A c \in Forks!Children : /\ forkPc[c] = "write" => read[c] = global_variable
                               /\ forkPc[c] \notin {"exit", "gone"} => own[c] = 0

(* The inductive invariant of the measurement.                             *)
ForkInv == Forks!TypeOK /\ OneAtATime /\ AddedOnce

(* The cardinality of the module Forking is that of all modules.           *)
LEMMA CardinalityOfForks == ASSUME NEW S PROVE Forks!Cardinality(S) = Cardinality(S)
BY DEF Forks!Cardinality, Cardinality

(* At the start no child is made.                                          *)
LEMMA ForkInvInit == Forks!Init => ForkInv
<1> SUFFICES ASSUME Forks!Init PROVE ForkInv
  OBVIOUS
<1>1. 0 \in 0 .. 0 /\ 0 \in 0 .. MaxN /\ 0 \in 0 .. 1
      /\ \A c \in Forks!Children : ~(c < 0) /\ c # 0
  BY ForkAssumption DEF Forks!Children
<1>2. Forks!TypeOK
  BY <1>1 DEF Forks!Init, Forks!TypeOK, Forks!Types
<1>3. OneAtATime
  BY <1>1 DEF Forks!Init, OneAtATime
<1>4. AddedOnce
  BY <1>1 DEF Forks!Init, AddedOnce, Done, Forks!SharesMemory
<1> QED
  BY <1>2, <1>3, <1>4 DEF ForkInv

(* Numbers of children.                                                    *)
LEMMA ForkPlain == ASSUME ForkInv
  PROVE /\ forkN \in Nat /\ made \in Nat /\ made <= forkN /\ forkN <= MaxN /\ MaxN \in Nat
        /\ Done \in 0 .. MaxN
        /\ \A c \in Forks!Children : c \in Nat /\ c > 0 /\ c <= MaxN
<1>1. forkN \in 0 .. MaxN /\ made \in 0 .. forkN /\ MaxN \in Nat
  BY ForkAssumption DEF ForkInv, Forks!TypeOK
<1>2. global_variable = Done /\ global_variable \in 0 .. MaxN
  BY DEF ForkInv, Forks!TypeOK, AddedOnce
<1> QED
  BY <1>1, <1>2 DEF Forks!Children

(* The parent's steps.                                                     *)
LEMMA ForkParentStep ==
  ASSUME ForkInv, Forks!Start \/ Forks!Create \/ Forks!CreateFails \/ Forks!Resume
                  \/ Forks!Wait \/ Forks!Report
  PROVE  ForkInv'
<1>0. Forks!TypeOK /\ OneAtATime /\ AddedOnce
  BY DEF ForkInv
<1>1. CASE Forks!Start
  <2>1. /\ forkMain = "start" /\ forkMain' = "create" /\ type' \in Forks!Types
        /\ forkN' \in 0 .. MaxN /\ made = 0
        /\ UNCHANGED <<made, forkPc, read, own, global_variable, forkCounter>>
    BY <1>0, <1>1 DEF Forks!Start, OneAtATime
  <2>2. made' \in 0 .. forkN' /\ \A c \in Forks!Children : c # 0
    BY <2>1, ForkAssumption DEF Forks!Children
  <2>3. Forks!TypeOK'
    BY <1>0, <2>1, <2>2 DEF Forks!TypeOK
  <2>4. OneAtATime'
    BY <1>0, <2>1, <2>2 DEF OneAtATime
  <2>5. AddedOnce'
    <3>1. Done = 0 /\ Done' = 0
      BY <2>1, <2>2 DEF Done
    <3> QED BY <1>0, <2>1, <3>1 DEF AddedOnce
  <2> QED BY <2>3, <2>4, <2>5 DEF ForkInv
<1>2. CASE Forks!Create
  <2>1. /\ forkMain = "create" /\ made < forkN /\ made' = made + 1
        /\ forkPc' = [forkPc EXCEPT ![made + 1] = "read"]
        /\ own' = IF Forks!SharesMemory THEN own ELSE [own EXCEPT ![made + 1] = forkCounter]
        /\ forkMain' = IF Forks!SharesMemory THEN "suspended" ELSE "wait"
        /\ UNCHANGED <<type, forkN, read, global_variable, forkCounter>>
    BY <1>2 DEF Forks!Create, Forks!AfterCreation
  <2>2. /\ made + 1 \in Forks!Children /\ made + 1 \in 0 .. forkN
        /\ \A c \in Forks!Children : /\ c < made + 1 => c < made \/ c = made
                                     /\ c > made + 1 => c > made /\ c # made + 1
                                     /\ (c = made + 1 => c > made) /\ (c = made => c # made + 1)
                                     /\ (c < made => c # made + 1)
    BY <2>1, ForkPlain DEF Forks!Children
  <2>3. /\ forkPc'[made + 1] = "read"
        /\ \A c \in Forks!Children : c # made + 1 => forkPc'[c] = forkPc[c]
        /\ forkPc' \in [Forks!Children -> {"none", "read", "write", "exit", "gone"}]
    BY <1>0, <2>1, <2>2 DEF Forks!TypeOK
  <2>4. own' = own \/ own' = [own EXCEPT ![made + 1] = 0]
    BY <1>0, <2>1 DEF AddedOnce
  <2>5. own' \in [Forks!Children -> 0 .. 1]
        /\ \A c \in Forks!Children : own'[c] = own[c] \/ own'[c] = 0
    <3>1. own \in [Forks!Children -> 0 .. 1] /\ 0 \in 0 .. 1
      BY <1>0 DEF Forks!TypeOK
    <3> QED BY <2>4, <3>1
  <2>6. Forks!TypeOK'
    BY <1>0, <2>1, <2>2, <2>3, <2>5 DEF Forks!TypeOK
  <2>7. OneAtATime'
    BY <1>0, <2>1, <2>2, <2>3 DEF OneAtATime
  <2>8. AddedOnce'
    <3>1. Done' = made
      BY <2>1, <2>2, <2>3, ForkPlain DEF Done, Working
    <3>2. Done = made
      BY <1>0, <2>1 DEF Done, Working, OneAtATime
    <3>3. Forks!SharesMemory' = Forks!SharesMemory
      BY <2>1 DEF Forks!SharesMemory
    <3>4. \A c \in Forks!Children : forkPc'[c] \notin {"exit", "gone"} => own'[c] = 0
      BY <1>0, <2>2, <2>3, <2>5 DEF AddedOnce, OneAtATime
    <3>5. \A c \in Forks!Children : forkPc'[c] = "write" => forkPc[c] = "write"
      BY <2>3
    <3> QED BY <1>0, <2>1, <3>1, <3>2, <3>3, <3>4, <3>5 DEF AddedOnce
  <2> QED BY <2>6, <2>7, <2>8 DEF ForkInv
<1>3. CASE Forks!CreateFails \/ Forks!Resume \/ Forks!Report
  <2>1. /\ UNCHANGED <<type, forkN, made, forkPc, read, own, global_variable, forkCounter>>
        /\ \/ forkMain = "create" /\ forkMain' \in {"report", "failed"}
           \/ forkMain = "suspended" /\ forkMain' = "wait"
    BY <1>3 DEF Forks!CreateFails, Forks!Resume, Forks!Report
  <2>2. Forks!TypeOK'
    BY <1>0, <2>1 DEF Forks!TypeOK
  <2>3. OneAtATime'
    BY <1>0, <2>1 DEF OneAtATime
  <2>4. AddedOnce'
    BY <1>0, <2>1 DEF AddedOnce, Done, Working, Forks!SharesMemory
  <2> QED BY <2>2, <2>3, <2>4 DEF ForkInv
<1>4. CASE Forks!Wait
  <2>1. /\ forkMain = "wait" /\ forkMain' = "create" /\ forkPc[made] = "exit"
        /\ forkPc' = [forkPc EXCEPT ![made] = "gone"] /\ made \in Forks!Children
        /\ UNCHANGED <<type, forkN, made, read, own, global_variable, forkCounter>>
    BY <1>0, <1>4 DEF Forks!Wait, OneAtATime
  <2>2. /\ forkPc' \in [Forks!Children -> {"none", "read", "write", "exit", "gone"}]
        /\ forkPc'[made] = "gone"
        /\ \A c \in Forks!Children : c # made => forkPc'[c] = forkPc[c]
    BY <1>0, <2>1 DEF Forks!TypeOK
  <2>3. Forks!TypeOK'
    BY <1>0, <2>1, <2>2 DEF Forks!TypeOK
  <2>4. OneAtATime'
    <3>1. \A c \in Forks!Children : (c < made \/ c > made) => c # made
      BY ForkPlain
    <3> QED BY <1>0, <2>1, <2>2, <3>1 DEF OneAtATime
  <2>5. AddedOnce'
    <3>1. Done' = made /\ Done = made
      BY <2>1, <2>2 DEF Done, Working
    <3>2. Forks!SharesMemory' = Forks!SharesMemory
      BY <2>1 DEF Forks!SharesMemory
    <3> QED BY <1>0, <2>1, <2>2, <3>1, <3>2 DEF AddedOnce
  <2> QED BY <2>3, <2>4, <2>5 DEF ForkInv
<1> QED
  BY <1>1, <1>2, <1>3, <1>4

(* The steps of a child, which is the last one made.                       *)
LEMMA ForkChildStep ==
  ASSUME ForkInv, NEW c \in Forks!Children, Forks!Read(c) \/ Forks!Write(c)
  PROVE  ForkInv'
<1>0. Forks!TypeOK /\ OneAtATime /\ AddedOnce
  BY DEF ForkInv
<1>1. forkPc[c] \in {"read", "write"}
  BY DEF Forks!Read, Forks!Write
<1>2. c = made /\ forkMain \in {"suspended", "wait"} /\ Done = made - 1
  <2>1. c < made \/ c > made \/ c = made
    BY ForkPlain
  <2>2. c = made
    BY <1>0, <1>1, <2>1 DEF OneAtATime
  <2>3. made # 0
    BY <2>2, ForkPlain
  <2> QED BY <1>0, <1>1, <2>2, <2>3 DEF OneAtATime, Forks!TypeOK, Done, Working
<1>3. CASE Forks!Read(c)
  <2>1. /\ forkPc[c] = "read" /\ forkPc' = [forkPc EXCEPT ![c] = "write"]
        /\ read' = [read EXCEPT ![c] = global_variable]
        /\ UNCHANGED <<type, forkN, forkMain, made, own, global_variable, forkCounter>>
    BY <1>3 DEF Forks!Read
  <2>2. /\ forkPc' \in [Forks!Children -> {"none", "read", "write", "exit", "gone"}]
        /\ read' \in [Forks!Children -> 0 .. MaxN] /\ read'[c] = global_variable
        /\ forkPc'[c] = "write"
        /\ \A d \in Forks!Children : d # c => forkPc'[d] = forkPc[d] /\ read'[d] = read[d]
    BY <1>0, <2>1 DEF Forks!TypeOK
  <2>3. Forks!TypeOK'
    BY <1>0, <2>1, <2>2 DEF Forks!TypeOK
  <2>4. OneAtATime'
    <3>1. \A d \in Forks!Children : (d < made \/ d > made) => d # c
      BY <1>2, ForkPlain
    <3> QED BY <1>0, <1>2, <2>1, <2>2, <3>1 DEF OneAtATime
  <2>5. AddedOnce'
    <3>1. Done' = Done
      BY <1>2, <2>1, <2>2 DEF Done, Working
    <3>2. Forks!SharesMemory' = Forks!SharesMemory
      BY <2>1 DEF Forks!SharesMemory
    <3> QED BY <1>0, <2>1, <2>2, <3>1, <3>2 DEF AddedOnce
  <2> QED BY <2>3, <2>4, <2>5 DEF ForkInv
<1>4. CASE Forks!Write(c)
  <2>1. /\ forkPc[c] = "write" /\ forkPc' = [forkPc EXCEPT ![c] = "exit"]
        /\ global_variable' = read[c] + 1
        /\ forkCounter' = IF Forks!SharesMemory THEN forkCounter + 1 ELSE forkCounter
        /\ own' = IF Forks!SharesMemory THEN own ELSE [own EXCEPT ![c] = @ + 1]
        /\ UNCHANGED <<type, forkN, forkMain, made, read>>
    BY <1>4 DEF Forks!Write, Forks!InParent
  <2>2. /\ forkPc' \in [Forks!Children -> {"none", "read", "write", "exit", "gone"}]
        /\ forkPc'[c] = "exit"
        /\ \A d \in Forks!Children : d # c => forkPc'[d] = forkPc[d]
    BY <1>0, <2>1 DEF Forks!TypeOK
  <2>3. /\ own' \in [Forks!Children -> 0 .. 1]
        /\ \A d \in Forks!Children : d # c => own'[d] = own[d]
    <3>1. own \in [Forks!Children -> 0 .. 1] /\ own[c] + 1 \in 0 .. 1
      BY <1>0, <2>1 DEF Forks!TypeOK, AddedOnce
    <3> QED BY <2>1, <3>1
  <2>4. /\ Done' = made /\ Done + 1 = made /\ made \in 0 .. MaxN /\ 0 \in 0 .. MaxN
        /\ Forks!SharesMemory' = Forks!SharesMemory
    <3>1. Done' = made
      BY <1>2, <2>1, <2>2 DEF Done, Working
    <3>2. Forks!SharesMemory' = Forks!SharesMemory
      BY <2>1 DEF Forks!SharesMemory
    <3> QED BY <1>2, <3>1, <3>2, ForkPlain
  <2>5. /\ global_variable' = made
        /\ forkCounter' = IF Forks!SharesMemory THEN made ELSE 0
    BY <1>0, <2>1, <2>4 DEF AddedOnce
  <2>6. Forks!TypeOK'
    BY <1>0, <2>1, <2>2, <2>3, <2>4, <2>5 DEF Forks!TypeOK
  <2>7. OneAtATime'
    <3>1. \A d \in Forks!Children : (d < made \/ d > made) => d # c
      BY <1>2, ForkPlain
    <3> QED BY <1>0, <1>2, <2>1, <2>2, <3>1 DEF OneAtATime
  <2>8. AddedOnce'
    <3>1. \A d \in Forks!Children : d # c => forkPc[d] \in {"gone", "none"}
      <4>1. \A d \in Forks!Children : d # c => d < made \/ d > made
        BY <1>2, ForkPlain
      <4> QED BY <1>0, <4>1 DEF OneAtATime
    <3> QED BY <1>0, <2>1, <2>2, <2>3, <2>4, <2>5, <3>1 DEF AddedOnce
  <2> QED BY <2>6, <2>7, <2>8 DEF ForkInv
<1> QED
  BY <1>3, <1>4

LEMMA ForkInvStep == ForkInv /\ [Forks!Next]_Forks!vars => ForkInv'
<1> SUFFICES ASSUME ForkInv, [Forks!Next]_Forks!vars PROVE ForkInv'
  OBVIOUS
<1>1. CASE UNCHANGED Forks!vars
  <2>1. Forks!TypeOK'
    BY <1>1 DEF ForkInv, Forks!TypeOK, Forks!vars
  <2>2. OneAtATime' /\ AddedOnce'
    BY <1>1 DEF ForkInv, OneAtATime, AddedOnce, Done, Working, Forks!SharesMemory, Forks!vars
  <2> QED BY <2>1, <2>2 DEF ForkInv
<1> QED
  BY <1>1, ForkParentStep, ForkChildStep DEF Forks!Next, Forks!Step

(* Those that have added are the first ones.                               *)
LEMMA ForkInvSound == ForkInv => Forks!TypeOK /\ Forks!NothingLost
<1> SUFFICES ASSUME ForkInv PROVE Forks!TypeOK /\ Forks!NothingLost
  OBVIOUS
<1>0. Forks!TypeOK /\ OneAtATime /\ AddedOnce
  BY DEF ForkInv
<1>1. \A c \in Forks!Children : forkPc[c] \in {"exit", "gone"} <=> c <= Done
  <2> SUFFICES ASSUME NEW c \in Forks!Children
               PROVE  forkPc[c] \in {"exit", "gone"} <=> c <= Done
    OBVIOUS
  <2>1. CASE c < made
    <3>1. c <= made - 1 /\ c <= made
      BY <2>1, ForkPlain
    <3> QED BY <1>0, <2>1, <3>1 DEF OneAtATime, Done
  <2>2. CASE c > made
    <3>1. ~(c <= made - 1) /\ ~(c <= made)
      BY <2>2, ForkPlain
    <3> QED BY <1>0, <2>2, <3>1 DEF OneAtATime, Done
  <2>3. CASE c = made
    <3>1. ~(made <= made - 1) /\ made <= made
      BY ForkPlain
    <3>2. forkPc[made] # "none"
      <4>1. made # 0
        BY <2>3, ForkPlain
      <4> QED BY <1>0, <2>3, <4>1 DEF OneAtATime, Forks!TypeOK
    <3>3. forkPc[made] \in {"read", "write", "exit", "gone"}
      BY <1>0, <2>3, <3>2 DEF Forks!TypeOK
    <3> QED BY <2>3, <3>1, <3>3 DEF Done, Working
  <2> QED BY <2>1, <2>2, <2>3, ForkPlain
<1>2. Forks!Added = 1 .. Done
  BY <1>1, ForkPlain DEF Forks!Added, Forks!Children
<1>3. Forks!Cardinality(Forks!Added) = Done
  <2>1. Cardinality(1 .. Done) = Done
    BY ForkPlain, FS_Interval
  <2> QED BY <1>2, <2>1, CardinalityOfForks
<1> QED
  BY <1>0, <1>3 DEF AddedOnce, Forks!NothingLost

-----------------------------------------------------------------------------
(* The signal programs.  Where a process is when it has not begun, and     *)
(* what it cannot have sent or got by then.                                *)
PingEarly ==
  /\ pingPc["parent"] = "off" =>
       /\ pingPc["child"] = "off" /\ pingN = 0
       /\ ~confirmation["parent"] /\ ~confirmation["child"]
  /\ pingPc["parent"] \in {"off", "reset"} => stage["parent"] = 1
  /\ pingPc["child"] # "reset" /\ pingPc["parent"] # "begin"
  /\ pingPc["child"] \in {"off", "begin"} =>
       /\ stage["parent"] = 1 /\ stage["child"] = 1
       /\ ~pending2["parent"] /\ ~flag["parent"]
  /\ stage["parent"] = 1 => pingI["parent"] = 0
  /\ stage["child"] = 1 => pingI["child"] = 0
  /\ stage["parent"] = 1 /\ flag["parent"] => ~pending2["parent"]

(* The order of the rounds: the child sends after the parent's SIGUSR2,    *)
(* which follows all of the parent's signals, and so back.                 *)
PingOrder ==
  /\ pingPc["child"] = "end" <=> stage["child"] = 3
  /\ pingPc["parent"] = "end" => stage["parent"] = 3 /\ flag["parent"]
  /\ pingPc["parent"] = "send" => stage["parent"] = 2
  /\ pingPc["child"] = "send" => stage["child"] = 2
  /\ flag["child"] \/ pending2["child"] => stage["parent"] = 3
  /\ stage["child"] # 1 => flag["child"]
  /\ stage["parent"] = 2 => ~flag["parent"] /\ ~pending2["parent"]
  /\ stage["parent"] = 3 /\ (flag["parent"] \/ pending2["parent"]) => stage["child"] = 3
  /\ stage["parent"] = 3 => pingI["parent"] = pingN
  /\ stage["child"] = 3 => pingI["child"] = pingCounter["child"]

(* Nobody counts more than the other has sent.                             *)
PingBounds ==
  /\ pingI["parent"] <= pingN /\ pingI["child"] <= pingCounter["child"]
  /\ pingCounter["child"] <= pingI["parent"]
  /\ pingCounter["parent"] + pending1["parent"] <= pingN
  /\ pending1["child"] <= pingN

(* Plain and real-time signals: of those sent, at least as many have been  *)
(* counted or are pending as the kernel keeps.                             *)
PingLimit == IF variant = "realtime" THEN RtLimit ELSE 1
PingArrives(p, sent) ==
  /\ Ping!Least(sent, PingLimit) <= pingCounter[p] + pending1[p]
  /\ pingCounter[p] + pending1[p] <= sent
PingQueued == variant # "confirmed" =>
  /\ PingArrives("child", pingI["parent"]) /\ PingArrives("parent", pingI["child"])
  /\ flag["child"] => pending1["child"] = 0
  /\ stage["parent"] = 3 /\ flag["parent"] => pending1["parent"] = 0

(* Confirmed signals: there is one token.  The side that sends waits for   *)
(* its confirmation exactly while one SIGUSR1 or the confirmation is on    *)
(* its way, or it has been killed.                                         *)
PingBit(b) == IF b THEN 1 ELSE 0
PingWaits(p) == PingBit(stage[p] = 2 /\ pingPc[p] \in {"test", "sleep"})
PingOnTheWay(p) == pending1["parent"] + pending1["child"] + PingBit(confirmation[p])
PingConfirmed == variant = "confirmed" =>
  /\ stage["parent"] # 3 =>
       /\ pingCounter["child"] + pending1["child"] = pingI["parent"]
       /\ pingCounter["parent"] = 0 /\ ~confirmation["child"]
       /\ pingPc["parent"] # "killed" => PingOnTheWay("parent") = PingWaits("parent")
  /\ stage["parent"] = 3 =>
       /\ pingCounter["child"] = pingN
       /\ pingCounter["parent"] + pending1["parent"] = pingI["child"]
       /\ stage["child"] = 1 => pending1["child"] = 0
       /\ pingPc["child"] # "killed" => PingOnTheWay("child") = PingWaits("child")

(* The inductive invariant of the signal programs.                         *)
PingInv == Ping!TypeOK /\ PingEarly /\ PingOrder /\ PingBounds /\ PingQueued /\ PingConfirmed

(* The two processes, and their numbers.                                   *)
LEMMA PingPlain == ASSUME PingInv
  PROVE /\ Ping!TypeOK /\ PingEarly /\ PingOrder /\ PingBounds /\ PingQueued /\ PingConfirmed
        /\ "parent" \in Ping!Procs /\ "child" \in Ping!Procs
        /\ Ping!Other("parent") = "child" /\ Ping!Other("child") = "parent"
        /\ pingN \in Nat /\ pingN <= MaxSignals /\ MaxSignals \in Nat
        /\ pingI["parent"] \in Nat /\ pingI["child"] \in Nat
        /\ pingCounter["parent"] \in Nat /\ pingCounter["child"] \in Nat
        /\ pending1["parent"] \in Nat /\ pending1["child"] \in Nat
        /\ stage["parent"] \in {1, 2, 3} /\ stage["child"] \in {1, 2, 3}
<1>1. Ping!TypeOK
  BY DEF PingInv
<1>2. "parent" \in Ping!Procs /\ "child" \in Ping!Procs
      /\ Ping!Other("parent") = "child" /\ Ping!Other("child") = "parent"
  BY DEF Ping!Procs, Ping!Other
<1>3. /\ pingN \in 0 .. MaxSignals /\ MaxSignals \in Nat
      /\ pingI["parent"] \in 0 .. MaxSignals /\ pingI["child"] \in 0 .. MaxSignals
      /\ pingCounter["parent"] \in 0 .. MaxSignals /\ pingCounter["child"] \in 0 .. MaxSignals
      /\ pending1["parent"] \in 0 .. MaxSignals /\ pending1["child"] \in 0 .. MaxSignals
      /\ stage["parent"] \in 1 .. 3 /\ stage["child"] \in 1 .. 3
  BY <1>1, <1>2, PingAssumption DEF Ping!TypeOK
<1> QED
  BY <1>1, <1>2, <1>3 DEF PingInv

(* No signal was sent at the start.                                        *)
LEMMA PingInvInit == Ping!Init => PingInv
<1> SUFFICES ASSUME Ping!Init PROVE PingInv
  OBVIOUS
<1>1. 0 \in 0 .. MaxSignals /\ 1 \in 1 .. 3
  BY PingAssumption
<1>2. Ping!TypeOK
  BY <1>1 DEF Ping!Init, Ping!TypeOK
<1>3. /\ "parent" \in Ping!Procs /\ "child" \in Ping!Procs
  BY DEF Ping!Procs
<1>4. /\ variant = "plain" /\ pingN = 0
      /\ pingPc["parent"] = "off" /\ stage["parent"] = 1 /\ pending1["parent"] = 0
      /\ pending2["parent"] = FALSE /\ pingCounter["parent"] = 0 /\ pingI["parent"] = 0
      /\ flag["parent"] = FALSE /\ confirmation["parent"] = FALSE
      /\ pingPc["child"] = "off" /\ stage["child"] = 1 /\ pending1["child"] = 0
      /\ pending2["child"] = FALSE /\ pingCounter["child"] = 0 /\ pingI["child"] = 0
      /\ flag["child"] = FALSE /\ confirmation["child"] = FALSE
  BY <1>3 DEF Ping!Init
<1>5. PingEarly
  BY <1>4 DEF PingEarly
<1>6. PingOrder
  BY <1>4 DEF PingOrder
<1>7. PingBounds
  BY <1>4 DEF PingBounds
<1>8. PingQueued
  BY <1>4 DEF PingQueued, PingArrives, PingLimit, Ping!Least
<1>9. PingConfirmed
  BY <1>4 DEF PingConfirmed
<1> QED
  BY <1>2, <1>5, <1>6, <1>7, <1>8, <1>9 DEF PingInv

(* The program is chosen while no signal has been sent.                    *)
LEMMA PingStartStep == ASSUME PingInv, Ping!Start PROVE PingInv'
<1>1. /\ pingPc["parent"] = "off" /\ variant' \in Variants /\ pingN' \in 0 .. MaxSignals
      /\ once' \in [Ping!Procs -> IF variant' = "confirmed" THEN BOOLEAN ELSE {FALSE}]
      /\ pingPc' = [parent |-> "reset", child |-> "begin"]
      /\ UNCHANGED <<stage, pending1, pending2, pingCounter, flag, confirmation, pingI, unset>>
  BY DEF Ping!Start
<1>2. /\ pingPc'["parent"] = "reset" /\ pingPc'["child"] = "begin"
      /\ pingPc' \in [Ping!Procs -> {"reset", "begin"}]
      /\ pingN' \in Nat
  BY <1>1, PingAssumption DEF Ping!Procs
<1>3. Ping!TypeOK'
  <2>1. Ping!TypeOK
    BY DEF PingInv
  <2>2. variant' \in {"plain", "confirmed", "realtime"}
    BY <1>1, PingAssumption
  <2>3. once' \in [Ping!Procs -> BOOLEAN]
    BY <1>1
  <2> QED BY <1>1, <1>2, <2>1, <2>2, <2>3 DEF Ping!TypeOK
<1>4. /\ stage["parent"] = 1 /\ stage["child"] = 1 /\ pingN = 0
      /\ ~pending2["parent"] /\ ~flag["parent"] /\ ~flag["child"] /\ ~pending2["child"]
      /\ ~confirmation["parent"] /\ ~confirmation["child"]
      /\ pingI["parent"] = 0 /\ pingI["child"] = 0
  BY <1>1, PingPlain DEF PingEarly, PingOrder
<1>5. /\ pingCounter["child"] = 0 /\ pending1["child"] = 0
      /\ pingCounter["parent"] = 0 /\ pending1["parent"] = 0
  BY <1>4, PingPlain DEF PingBounds
<1>6. PingEarly'
  BY <1>1, <1>2, <1>4 DEF PingEarly
<1>7. PingOrder'
  BY <1>1, <1>2, <1>4 DEF PingOrder
<1>8. PingBounds'
  BY <1>1, <1>2, <1>4, <1>5 DEF PingBounds
<1>9. PingQueued'
  <2>1. PingLimit' \in Nat
    BY PingAssumption DEF PingLimit
  <2>2. Ping!Least(0, PingLimit') = 0
    BY <2>1 DEF Ping!Least
  <2> QED BY <1>1, <1>4, <1>5, <2>2 DEF PingQueued, PingArrives
<1>10. PingConfirmed'
  BY <1>1, <1>2, <1>4, <1>5 DEF PingConfirmed, PingOnTheWay, PingWaits, PingBit
<1> QED
  BY <1>3, <1>6, <1>7, <1>8, <1>9, <1>10 DEF PingInv

(* A step that sends and handles nothing.                                  *)
LEMMA PingResetStep == ASSUME PingInv, Ping!Reset PROVE PingInv'
<1>1. /\ pingPc["parent"] = "reset" /\ flag' = [flag EXCEPT !["parent"] = FALSE]
      /\ pingPc' = [pingPc EXCEPT !["parent"] = "test"]
      /\ UNCHANGED <<variant, pingN, stage, pending1, pending2, pingCounter, confirmation,
                     pingI, once, unset>>
  BY DEF Ping!Reset
<1>2. Ping!TypeOK'
  BY <1>1, PingPlain DEF Ping!TypeOK
<1>3. /\ flag'["parent"] = FALSE /\ flag'["child"] = flag["child"]
      /\ pingPc'["parent"] = "test" /\ pingPc'["child"] = pingPc["child"]
      /\ stage["parent"] = 1
  <2>1. flag \in [Ping!Procs -> BOOLEAN] /\ DOMAIN pingPc = Ping!Procs
    BY PingPlain DEF Ping!TypeOK
  <2> QED BY <1>1, <2>1, PingPlain DEF PingEarly
<1>4. PingEarly'
  BY <1>1, <1>3, PingPlain DEF PingEarly
<1>5. PingOrder'
  BY <1>1, <1>3, PingPlain DEF PingOrder
<1>6. PingBounds'
  BY <1>1, PingPlain DEF PingBounds
<1>7. PingQueued'
  BY <1>1, <1>3, PingPlain DEF PingQueued, PingArrives, PingLimit
<1>8. PingConfirmed'
  BY <1>1, <1>3, PingPlain DEF PingConfirmed, PingOnTheWay, PingWaits, PingBit
<1> QED
  BY <1>2, <1>4, <1>5, <1>6, <1>7, <1>8 DEF PingInv

LEMMA PingReadyStep == ASSUME PingInv, Ping!Ready PROVE PingInv'
<1>1. /\ pingPc["child"] = "begin" /\ pending2' = [pending2 EXCEPT !["parent"] = TRUE]
      /\ pingPc' = [pingPc EXCEPT !["child"] = "test"]
      /\ UNCHANGED <<variant, pingN, stage, pending1, flag, pingCounter, confirmation,
                     pingI, once, unset>>
  BY DEF Ping!Ready, Ping!Signal2
<1>2. Ping!TypeOK'
  BY <1>1, PingPlain DEF Ping!TypeOK
<1>3. /\ pending2'["parent"] = TRUE /\ pending2'["child"] = pending2["child"]
      /\ pingPc'["child"] = "test" /\ pingPc'["parent"] = pingPc["parent"]
      /\ stage["parent"] = 1 /\ stage["child"] = 1 /\ ~flag["parent"]
  <2>1. pending2 \in [Ping!Procs -> BOOLEAN] /\ DOMAIN pingPc = Ping!Procs
    BY PingPlain DEF Ping!TypeOK
  <2> QED BY <1>1, <2>1, PingPlain DEF PingEarly
<1>4. PingEarly'
  BY <1>1, <1>3, PingPlain DEF PingEarly
<1>5. PingOrder'
  BY <1>1, <1>3, PingPlain DEF PingOrder
<1>6. PingBounds'
  BY <1>1, PingPlain DEF PingBounds
<1>7. PingQueued'
  BY <1>1, <1>3, PingPlain DEF PingQueued, PingArrives, PingLimit
<1>8. PingConfirmed'
  BY <1>1, <1>3, PingPlain DEF PingConfirmed, PingOnTheWay, PingWaits, PingBit
<1> QED
  BY <1>2, <1>4, <1>5, <1>6, <1>7, <1>8 DEF PingInv

LEMMA PingSleepStep == ASSUME PingInv, NEW p \in Ping!Procs, Ping!Sleep(p) PROVE PingInv'
<1>1. /\ pingPc[p] = "test" /\ pingPc' = [pingPc EXCEPT ![p] = "sleep"]
      /\ UNCHANGED <<variant, pingN, stage, pending1, pending2, flag, pingCounter,
                     confirmation, pingI, once, unset>>
  BY DEF Ping!Sleep
<1>2. Ping!TypeOK'
  BY <1>1, PingPlain DEF Ping!TypeOK
<1>3. \A q \in Ping!Procs : pingPc'[q] = pingPc[q]
                            \/ (pingPc[q] = "test" /\ pingPc'[q] = "sleep")
  BY <1>1, PingPlain DEF Ping!TypeOK
<1>4. /\ \/ pingPc'["parent"] = pingPc["parent"]
         \/ pingPc["parent"] = "test" /\ pingPc'["parent"] = "sleep"
      /\ \/ pingPc'["child"] = pingPc["child"]
         \/ pingPc["child"] = "test" /\ pingPc'["child"] = "sleep"
  BY <1>3 DEF Ping!Procs
<1>5. PingEarly'
  BY <1>1, <1>4, PingPlain DEF PingEarly
<1>6. PingOrder'
  BY <1>1, <1>4, PingPlain DEF PingOrder
<1>7. PingBounds'
  BY <1>1, PingPlain DEF PingBounds
<1>8. PingQueued'
  BY <1>1, PingPlain DEF PingQueued, PingArrives, PingLimit
<1>9. PingConfirmed'
  BY <1>1, <1>4, PingPlain DEF PingConfirmed, PingOnTheWay, PingWaits, PingBit
<1> QED
  BY <1>2, <1>5, <1>6, <1>7, <1>8, <1>9 DEF PingInv


(* A process leaves its loop.                                              *)
LEMMA PingParentProceeds == ASSUME PingInv, Ping!Proceed("parent") PROVE PingInv'
<1>0. PingInv /\ "parent" # "child"
  OBVIOUS
<1>1. /\ pingPc["parent"] = "test"
      /\ IF stage["parent"] = 2 THEN confirmation["parent"] ELSE flag["parent"]
      /\ confirmation' = [confirmation EXCEPT !["parent"] = FALSE]
      /\ flag' = IF stage["parent"] = 1 THEN [flag EXCEPT !["parent"] = FALSE] ELSE flag
      /\ \/ /\ stage["parent"] = 3 /\ pingPc' = [pingPc EXCEPT !["parent"] = "end"]
            /\ stage' = stage
         \/ /\ stage["parent"] # 3 /\ pingPc' = [pingPc EXCEPT !["parent"] = "send"]
            /\ stage' = [stage EXCEPT !["parent"] = 2]
      /\ UNCHANGED <<once, unset>>
      /\ UNCHANGED <<variant, pingN, pending1, pending2, pingCounter, pingI>>
  BY <1>0 DEF Ping!Proceed, Ping!Awaited, Ping!Cleared
<1>2. Ping!TypeOK'
  <2>1. stage' \in [Ping!Procs -> 1 .. 3]
    <3>1. stage \in [Ping!Procs -> 1 .. 3] /\ 2 \in 1 .. 3
      BY PingPlain DEF Ping!TypeOK
    <3> QED BY <1>1, <3>1
  <2> QED BY <1>1, <2>1, PingPlain DEF Ping!TypeOK
<1>3. /\ confirmation'["parent"] = FALSE /\ confirmation'["child"] = confirmation["child"]
      /\ flag'["child"] = flag["child"] /\ pingPc'["child"] = pingPc["child"]
      /\ stage'["child"] = stage["child"]
      /\ flag'["parent"] = IF stage["parent"] = 1 THEN FALSE ELSE flag["parent"]
      /\ \/ stage["parent"] = 3 /\ pingPc'["parent"] = "end" /\ stage'["parent"] = 3
         \/ stage["parent"] # 3 /\ pingPc'["parent"] = "send" /\ stage'["parent"] = 2
  <2>1. flag \in [Ping!Procs -> BOOLEAN] /\ confirmation \in [Ping!Procs -> BOOLEAN]
        /\ DOMAIN pingPc = Ping!Procs /\ DOMAIN stage = Ping!Procs
    BY PingPlain DEF Ping!TypeOK
  <2> QED BY <1>1, <2>1, PingPlain
<1>4. PingEarly'
  BY <1>1, <1>3, PingPlain DEF PingEarly
<1>5. PingOrder'
  <2>1. CASE stage["parent"] = 1
    <3>1. flag'["parent"] = FALSE /\ flag["parent"]
      <4>0. stage["parent"] # 2
        BY <2>1
      <4>1. flag["parent"]
        BY <4>0, Zenon DEF Ping!Proceed, Ping!Awaited
      <4> QED BY <1>3, <2>1, <4>1
    <3>2. ~flag["child"] /\ ~pending2["child"]
      BY <2>1, PingPlain DEF PingOrder
    <3>3. stage["child"] = 1
      BY <3>2, PingPlain DEF PingOrder
    <3>4. ~pending2["parent"]
      BY <2>1, <3>1, PingPlain DEF PingEarly
    <3> QED BY <1>1, <1>3, <2>1, <3>1, <3>2, <3>3, <3>4, PingPlain DEF PingOrder
  <2>2. CASE stage["parent"] = 2
    <3>1. flag'["parent"] = flag["parent"]
      BY <1>3, <2>2
    <3> QED BY <1>1, <1>3, <2>2, <3>1, PingPlain DEF PingOrder
  <2>3. CASE stage["parent"] = 3
    <3>1. flag'["parent"] = flag["parent"] /\ flag["parent"]
      BY <1>1, <1>3, <2>3
    <3> QED BY <1>1, <1>3, <2>3, <3>1, PingPlain DEF PingOrder
  <2> QED BY <2>1, <2>2, <2>3, PingPlain
<1>6. PingBounds'
  BY <1>1, PingPlain DEF PingBounds
<1>7. PingQueued'
  BY <1>1, <1>3, PingPlain DEF PingQueued, PingArrives, PingLimit
<1>8. PingConfirmed'
  <2>1. CASE stage["parent"] = 3
    <3>1. PingConfirmed /\ pingPc'["parent"] = "end" /\ stage'["parent"] = 3
      BY <1>3, <2>1, PingPlain
    <3> QED BY <1>1, <1>3, <2>1, <3>1
            DEF PingConfirmed, PingOnTheWay, PingWaits, PingBit
  <2>2. CASE stage["parent"] # 3
    <3> SUFFICES ASSUME variant = "confirmed" PROVE PingConfirmed'
      BY <1>1 DEF PingConfirmed
    <3>1. pingPc'["parent"] = "send" /\ stage'["parent"] = 2 /\ pingPc["parent"] = "test"
      BY <1>1, <1>3, <2>2
    <3>2. /\ pingCounter["child"] + pending1["child"] = pingI["parent"]
          /\ pingCounter["parent"] = 0 /\ ~confirmation["child"]
          /\ PingOnTheWay("parent") = PingWaits("parent")
      BY <2>2, <3>1, PingPlain DEF PingConfirmed
    <3>3. pending1["parent"] \in Nat /\ pending1["child"] \in Nat
      BY PingPlain
    <3>4. pending1["parent"] + pending1["child"] = 0
      <4>1. CASE stage["parent"] = 2
        <5>1. confirmation["parent"]
          BY <1>1, <4>1
        <5> QED BY <3>1, <3>2, <3>3, <4>1, <5>1 DEF PingOnTheWay, PingWaits, PingBit
      <4>2. CASE stage["parent"] # 2
        <5>1. PingWaits("parent") = 0
          BY <4>2 DEF PingWaits, PingBit
        <5>2. PingBit(confirmation["parent"]) \in {0, 1}
          BY DEF PingBit
        <5> QED BY <3>2, <3>3, <5>1, <5>2 DEF PingOnTheWay
      <4> QED BY <4>1, <4>2
    <3>5. PingOnTheWay("parent")' = 0 /\ PingWaits("parent")' = 0
      BY <1>1, <1>3, <3>1, <3>3, <3>4 DEF PingOnTheWay, PingWaits, PingBit
    <3> QED BY <1>1, <1>3, <3>1, <3>2, <3>5 DEF PingConfirmed
  <2> QED BY <2>1, <2>2
<1> QED
  BY <1>2, <1>4, <1>5, <1>6, <1>7, <1>8 DEF PingInv

LEMMA PingChildProceeds == ASSUME PingInv, Ping!Proceed("child") PROVE PingInv'
<1>0. PingInv /\ "parent" # "child"
  OBVIOUS
<1>1. /\ pingPc["child"] = "test" /\ stage["child"] # 3
      /\ IF stage["child"] = 2 THEN confirmation["child"] ELSE flag["child"]
      /\ confirmation' = [confirmation EXCEPT !["child"] = FALSE]
      /\ pingPc' = [pingPc EXCEPT !["child"] = "send"]
      /\ stage' = [stage EXCEPT !["child"] = 2]
      /\ once' = [once EXCEPT !["child"] = FALSE]
      /\ unset' = [unset EXCEPT !["child"] = {}]
      /\ UNCHANGED <<variant, pingN, pending1, pending2, pingCounter, pingI, flag>>
  <2>1. pingPc["child"] = "test" /\ stage["child"] # 3
    BY PingPlain DEF Ping!Proceed, PingOrder
  <2> QED BY <1>0, <2>1 DEF Ping!Proceed, Ping!Awaited, Ping!Cleared
<1>2. Ping!TypeOK'
  <2>1. stage' \in [Ping!Procs -> 1 .. 3]
    <3>1. stage \in [Ping!Procs -> 1 .. 3] /\ 2 \in 1 .. 3
      BY PingPlain DEF Ping!TypeOK
    <3> QED BY <1>1, <3>1
  <2> QED BY <1>1, <2>1, PingPlain DEF Ping!TypeOK
<1>3. /\ confirmation'["child"] = FALSE /\ confirmation'["parent"] = confirmation["parent"]
      /\ pingPc'["parent"] = pingPc["parent"] /\ pingPc'["child"] = "send"
      /\ stage'["parent"] = stage["parent"] /\ stage'["child"] = 2
  <2>1. confirmation \in [Ping!Procs -> BOOLEAN]
        /\ DOMAIN pingPc = Ping!Procs /\ DOMAIN stage = Ping!Procs
    BY PingPlain DEF Ping!TypeOK
  <2> QED BY <1>1, <2>1, PingPlain
<1>4. flag["child"] /\ stage["parent"] = 3
  BY <1>1, PingPlain DEF PingOrder
<1>5. PingEarly'
  BY <1>1, <1>3, <1>4, PingPlain DEF PingEarly
<1>6. PingOrder'
  BY <1>1, <1>3, <1>4, PingPlain DEF PingOrder
<1>7. PingBounds'
  BY <1>1, PingPlain DEF PingBounds
<1>8. PingQueued'
  BY <1>1, <1>3, PingPlain DEF PingQueued, PingArrives, PingLimit
<1>9. PingConfirmed'
  BY <1>1, <1>3, <1>4, PingPlain DEF PingConfirmed, PingOnTheWay, PingWaits, PingBit
<1> QED
  BY <1>2, <1>5, <1>6, <1>7, <1>8, <1>9 DEF PingInv

(* After the last SIGUSR1: SIGUSR2.                                        *)
LEMMA PingParentSendsLast == ASSUME PingInv, Ping!SendLast("parent") PROVE PingInv'
<1>0. PingInv /\ "parent" # "child"
  OBVIOUS
<1>1. /\ pingPc["parent"] = "send" /\ ~(pingI["parent"] < pingN)
      /\ pending2' = [pending2 EXCEPT !["child"] = TRUE]
      /\ pingPc' = [pingPc EXCEPT !["parent"] = "test"]
      /\ stage' = [stage EXCEPT !["parent"] = 3]
      /\ unset' = [unset EXCEPT !["parent"] = {}]
      /\ UNCHANGED <<variant, pingN, pending1, pingCounter, flag, confirmation, pingI, once>>
  BY <1>0, PingPlain DEF Ping!SendLast, Ping!MoreToSend, Ping!ToSend, Ping!Signal2
<1>2. Ping!TypeOK'
  <2>1. stage' \in [Ping!Procs -> 1 .. 3]
    <3>1. stage \in [Ping!Procs -> 1 .. 3] /\ 3 \in 1 .. 3
      BY PingPlain DEF Ping!TypeOK
    <3> QED BY <1>1, <3>1
  <2> QED BY <1>1, <2>1, PingPlain DEF Ping!TypeOK
<1>3. /\ pending2'["child"] = TRUE /\ pending2'["parent"] = pending2["parent"]
      /\ pingPc'["child"] = pingPc["child"] /\ pingPc'["parent"] = "test"
      /\ stage'["child"] = stage["child"] /\ stage'["parent"] = 3
  <2>1. pending2 \in [Ping!Procs -> BOOLEAN]
        /\ DOMAIN pingPc = Ping!Procs /\ DOMAIN stage = Ping!Procs
    BY PingPlain DEF Ping!TypeOK
  <2> QED BY <1>1, <2>1, PingPlain
<1>4. /\ stage["parent"] = 2 /\ ~flag["parent"] /\ ~pending2["parent"] /\ ~flag["child"]
      /\ stage["child"] = 1 /\ pingI["child"] = 0
      /\ pingPc["child"] \notin {"off", "begin"}
  BY <1>1, PingPlain DEF PingOrder, PingEarly
<1>5. pingI["parent"] = pingN
  BY <1>1, PingPlain DEF PingBounds
<1>6. PingEarly'
  BY <1>1, <1>3, <1>4, PingPlain DEF PingEarly
<1>7. PingOrder'
  BY <1>1, <1>3, <1>4, <1>5, PingPlain DEF PingOrder
<1>8. PingBounds'
  BY <1>1, PingPlain DEF PingBounds
<1>9. PingQueued'
  BY <1>1, <1>3, <1>4, PingPlain DEF PingQueued, PingArrives, PingLimit
<1>10. PingConfirmed'
  <2> SUFFICES ASSUME variant = "confirmed" PROVE PingConfirmed'
    BY <1>1 DEF PingConfirmed
  <2>1. /\ pingCounter["child"] + pending1["child"] = pingN
        /\ pingCounter["parent"] = 0 /\ ~confirmation["child"]
        /\ pending1["parent"] + pending1["child"] + PingBit(confirmation["parent"]) = 0
    BY <1>1, <1>4, <1>5, PingPlain
      DEF PingConfirmed, PingOnTheWay, PingWaits, PingBit
  <2>2. pending1["parent"] = 0 /\ pending1["child"] = 0
    BY <2>1, PingPlain DEF PingBit
  <2> QED BY <1>1, <1>3, <1>4, <2>1, <2>2, PingPlain
            DEF PingConfirmed, PingOnTheWay, PingWaits, PingBit
<1> QED
  BY <1>2, <1>6, <1>7, <1>8, <1>9, <1>10 DEF PingInv

LEMMA PingChildSendsLast == ASSUME PingInv, Ping!SendLast("child") PROVE PingInv'
<1>0. PingInv /\ "parent" # "child"
  OBVIOUS
<1>1. /\ pingPc["child"] = "send" /\ ~(pingI["child"] < pingCounter["child"])
      /\ pending2' = [pending2 EXCEPT !["parent"] = TRUE]
      /\ pingPc' = [pingPc EXCEPT !["child"] = "end"]
      /\ stage' = [stage EXCEPT !["child"] = 3]
      /\ UNCHANGED <<variant, pingN, pending1, pingCounter, flag, confirmation, pingI, once,
                     unset>>
  BY <1>0, PingPlain DEF Ping!SendLast, Ping!MoreToSend, Ping!ToSend, Ping!Signal2
<1>2. Ping!TypeOK'
  <2>1. stage' \in [Ping!Procs -> 1 .. 3]
    <3>1. stage \in [Ping!Procs -> 1 .. 3] /\ 3 \in 1 .. 3
      BY PingPlain DEF Ping!TypeOK
    <3> QED BY <1>1, <3>1
  <2> QED BY <1>1, <2>1, PingPlain DEF Ping!TypeOK
<1>3. /\ pending2'["parent"] = TRUE /\ pending2'["child"] = pending2["child"]
      /\ pingPc'["parent"] = pingPc["parent"] /\ pingPc'["child"] = "end"
      /\ stage'["parent"] = stage["parent"] /\ stage'["child"] = 3
  <2>1. pending2 \in [Ping!Procs -> BOOLEAN]
        /\ DOMAIN pingPc = Ping!Procs /\ DOMAIN stage = Ping!Procs
    BY PingPlain DEF Ping!TypeOK
  <2> QED BY <1>1, <2>1, PingPlain
<1>4. /\ stage["child"] = 2 /\ flag["child"] /\ stage["parent"] = 3
  BY <1>1, PingPlain DEF PingOrder
<1>5. pingI["child"] = pingCounter["child"]
  BY <1>1, PingPlain DEF PingBounds
<1>6. PingEarly'
  BY <1>1, <1>3, <1>4, PingPlain DEF PingEarly
<1>7. PingOrder'
  BY <1>1, <1>3, <1>4, <1>5, PingPlain DEF PingOrder
<1>8. PingBounds'
  BY <1>1, PingPlain DEF PingBounds
<1>9. PingQueued'
  BY <1>1, <1>3, <1>4, PingPlain DEF PingQueued, PingArrives, PingLimit
<1>10. PingConfirmed'
  BY <1>1, <1>3, <1>4, PingPlain DEF PingConfirmed, PingOnTheWay, PingWaits, PingBit
<1> QED
  BY <1>2, <1>6, <1>7, <1>8, <1>9, <1>10 DEF PingInv


(* One more signal arrives: the numbers of PingArrives.                    *)
LEMMA PingOneMore ==
  ASSUME NEW n \in Nat, NEW c \in Nat, NEW sent \in Nat, variant # "confirmed",
         Ping!Least(sent, PingLimit) <= c + n, c + n <= sent
  PROVE  /\ Ping!WithOneMore(n) \in Nat
         /\ Ping!Least(sent + 1, PingLimit) <= c + Ping!WithOneMore(n)
         /\ c + Ping!WithOneMore(n) <= sent + 1
         /\ n <= sent /\ Ping!WithOneMore(n) <= sent + 1
<1>1. CASE variant = "realtime"
  <2>1. RtLimit \in Nat
    BY PingAssumption
  <2>2. PingLimit = RtLimit /\ Ping!WithOneMore(n) = Ping!Least(n + 1, RtLimit)
    BY <1>1 DEF PingLimit, Ping!WithOneMore
  <2>3. CASE n + 1 < RtLimit
    BY <2>1, <2>2, <2>3 DEF Ping!Least
  <2>4. CASE ~(n + 1 < RtLimit)
    BY <2>1, <2>2, <2>4 DEF Ping!Least
  <2> QED BY <2>3, <2>4
<1>2. CASE variant # "realtime"
  <2>1. PingLimit = 1 /\ Ping!WithOneMore(n) = 1
    BY <1>2 DEF PingLimit, Ping!WithOneMore
  <2> QED BY <2>1 DEF Ping!Least
<1> QED
  BY <1>1, <1>2

(* A SIGUSR1 is sent.                                                      *)
LEMMA PingParentSends == ASSUME PingInv, Ping!SendOne("parent") PROVE PingInv'
<1>0. PingInv /\ "parent" # "child"
  OBVIOUS
<1>1. /\ pingPc["parent"] = "send" /\ pingI["parent"] < pingN
      /\ pending1' = [pending1 EXCEPT !["child"] = Ping!WithOneMore(pending1["child"])]
      /\ pingI' = [pingI EXCEPT !["parent"] = pingI["parent"] + 1]
      /\ pingPc' = [pingPc EXCEPT !["parent"] = IF variant = "confirmed" THEN "test"
                                                ELSE "send"]
      /\ UNCHANGED <<variant, pingN, stage, pending2, pingCounter, flag, confirmation, once,
                     unset>>
  BY <1>0, PingPlain DEF Ping!SendOne, Ping!MoreToSend, Ping!ToSend, Ping!Signal1
<1>2. /\ pending1'["child"] = Ping!WithOneMore(pending1["child"])
      /\ pending1'["parent"] = pending1["parent"]
      /\ pingI'["parent"] = pingI["parent"] + 1 /\ pingI'["child"] = pingI["child"]
      /\ pingPc'["parent"] = (IF variant = "confirmed" THEN "test" ELSE "send")
      /\ pingPc'["child"] = pingPc["child"]
  <2>1. DOMAIN pending1 = Ping!Procs /\ DOMAIN pingI = Ping!Procs
        /\ DOMAIN pingPc = Ping!Procs
    BY PingPlain DEF Ping!TypeOK
  <2> QED BY <1>1, <2>1, PingPlain
<1>3. stage["parent"] = 2 /\ ~flag["child"] /\ stage["child"] = 1
  BY <1>1, PingPlain DEF PingOrder
<1>4. /\ pingI["parent"] + 1 \in Nat /\ pingI["parent"] + 1 <= pingN /\ pingN >= 1
      /\ pingCounter["child"] <= pingI["parent"] + 1
  BY <1>1, PingPlain DEF PingBounds
<1>5. PingQueued' /\ (variant # "confirmed" =>
                        pending1'["child"] \in Nat /\ pending1'["child"] <= pingN)
  <2> SUFFICES ASSUME variant # "confirmed"
               PROVE  PingQueued' /\ pending1'["child"] \in Nat /\ pending1'["child"] <= pingN
    BY <1>1 DEF PingQueued
  <2>1. PingArrives("child", pingI["parent"]) /\ PingArrives("parent", pingI["child"])
        /\ stage["parent"] # 3
    BY <1>3, PingPlain DEF PingQueued
  <2> DEFINE q == Ping!WithOneMore(pending1["child"])
  <2>2. /\ q \in Nat /\ Ping!Least(pingI["parent"] + 1, PingLimit) <= pingCounter["child"] + q
        /\ pingCounter["child"] + q <= pingI["parent"] + 1 /\ q <= pingI["parent"] + 1
    BY <2>1, PingPlain, PingOneMore DEF PingArrives
  <2>3. q <= pingN
    BY <1>4, <2>2, PingPlain
  <2>4. PingLimit' = PingLimit
    BY <1>1 DEF PingLimit
  <2> HIDE DEF q
  <2>5. PingArrives("child", pingI["parent"])'
    BY <1>1, <1>2, <2>2, <2>4 DEF PingArrives, q
  <2>6. PingArrives("parent", pingI["child"])'
    BY <1>1, <1>2, <2>1, <2>4 DEF PingArrives
  <2> QED BY <1>1, <1>2, <1>3, <2>1, <2>2, <2>3, <2>5, <2>6 DEF PingQueued, q
<1>6. PingConfirmed' /\ (variant = "confirmed" => pending1'["child"] = 1)
  <2> SUFFICES ASSUME variant = "confirmed" PROVE PingConfirmed' /\ pending1'["child"] = 1
    BY <1>1 DEF PingConfirmed
  <2>1. /\ pingCounter["child"] + pending1["child"] = pingI["parent"]
        /\ pingCounter["parent"] = 0 /\ ~confirmation["child"]
        /\ pending1["parent"] + pending1["child"] + PingBit(confirmation["parent"]) = 0
    BY <1>1, <1>3, PingPlain DEF PingConfirmed, PingOnTheWay, PingWaits, PingBit
  <2>2. pending1["parent"] = 0 /\ pending1["child"] = 0 /\ ~confirmation["parent"]
    BY <2>1, PingPlain DEF PingBit
  <2>3. pending1'["child"] = 1 /\ pingPc'["parent"] = "test"
    BY <1>2 DEF Ping!WithOneMore
  <2> QED BY <1>1, <1>2, <1>3, <2>1, <2>2, <2>3, PingPlain
            DEF PingConfirmed, PingOnTheWay, PingWaits, PingBit
<1>7. PingBounds'
  BY <1>1, <1>2, <1>4, <1>5, <1>6, PingPlain DEF PingBounds
<1>8. Ping!TypeOK'
  <2>1. Ping!WithOneMore(pending1["child"]) \in 0 .. MaxSignals
    BY <1>2, <1>4, <1>5, <1>6, PingPlain
  <2>2. pingI["parent"] + 1 \in 0 .. MaxSignals
    BY <1>4, PingPlain
  <2> QED BY <1>1, <2>1, <2>2, PingPlain DEF Ping!TypeOK
<1>9. PingEarly'
  BY <1>1, <1>2, <1>3, PingPlain DEF PingEarly
<1>10. PingOrder'
  BY <1>1, <1>2, <1>3, PingPlain DEF PingOrder
<1> QED
  BY <1>5, <1>6, <1>7, <1>8, <1>9, <1>10 DEF PingInv

LEMMA PingChildSends == ASSUME PingInv, Ping!SendOne("child") PROVE PingInv'
<1>0. PingInv /\ "parent" # "child"
  OBVIOUS
<1>1. /\ pingPc["child"] = "send" /\ pingI["child"] < pingCounter["child"]
      /\ pending1' = [pending1 EXCEPT !["parent"] = Ping!WithOneMore(pending1["parent"])]
      /\ pingI' = [pingI EXCEPT !["child"] = pingI["child"] + 1]
      /\ pingPc' = [pingPc EXCEPT !["child"] = IF variant = "confirmed" THEN "test"
                                               ELSE "send"]
      /\ UNCHANGED <<variant, pingN, stage, pending2, pingCounter, flag, confirmation, once,
                     unset>>
  BY <1>0, PingPlain DEF Ping!SendOne, Ping!MoreToSend, Ping!ToSend, Ping!Signal1
<1>2. /\ pending1'["parent"] = Ping!WithOneMore(pending1["parent"])
      /\ pending1'["child"] = pending1["child"]
      /\ pingI'["child"] = pingI["child"] + 1 /\ pingI'["parent"] = pingI["parent"]
      /\ pingPc'["child"] = (IF variant = "confirmed" THEN "test" ELSE "send")
      /\ pingPc'["parent"] = pingPc["parent"]
  <2>1. DOMAIN pending1 = Ping!Procs /\ DOMAIN pingI = Ping!Procs
        /\ DOMAIN pingPc = Ping!Procs
    BY PingPlain DEF Ping!TypeOK
  <2> QED BY <1>1, <2>1, PingPlain
<1>3. /\ stage["child"] = 2 /\ stage["parent"] = 3 /\ ~flag["parent"] /\ flag["child"]
      /\ ~pending2["parent"]
  BY <1>1, PingPlain DEF PingOrder
<1>4. /\ pingI["child"] + 1 \in Nat /\ pingI["child"] + 1 <= pingCounter["child"]
      /\ pingI["child"] + 1 <= pingN
  BY <1>1, PingPlain DEF PingBounds
<1>5. PingQueued' /\ (variant # "confirmed" =>
           pending1'["parent"] \in Nat /\ pingCounter["parent"] + pending1'["parent"] <= pingN)
  <2> SUFFICES ASSUME variant # "confirmed"
               PROVE  /\ PingQueued' /\ pending1'["parent"] \in Nat
                      /\ pingCounter["parent"] + pending1'["parent"] <= pingN
    BY <1>1 DEF PingQueued
  <2>1. PingArrives("child", pingI["parent"]) /\ PingArrives("parent", pingI["child"])
        /\ pending1["child"] = 0
    BY <1>3, PingPlain DEF PingQueued
  <2> DEFINE q == Ping!WithOneMore(pending1["parent"])
  <2>2. /\ q \in Nat /\ Ping!Least(pingI["child"] + 1, PingLimit) <= pingCounter["parent"] + q
        /\ pingCounter["parent"] + q <= pingI["child"] + 1
    BY <2>1, PingPlain, PingOneMore DEF PingArrives
  <2>3. pingCounter["parent"] + q <= pingN
    BY <1>4, <2>2, PingPlain
  <2>4. PingLimit' = PingLimit
    BY <1>1 DEF PingLimit
  <2> HIDE DEF q
  <2>5. PingArrives("parent", pingI["child"])'
    BY <1>1, <1>2, <2>2, <2>4 DEF PingArrives, q
  <2>6. PingArrives("child", pingI["parent"])'
    BY <1>1, <1>2, <2>1, <2>4 DEF PingArrives
  <2> QED BY <1>1, <1>2, <1>3, <2>1, <2>2, <2>3, <2>5, <2>6 DEF PingQueued, q
<1>6. PingConfirmed' /\ (variant = "confirmed" =>
           pending1'["parent"] = 1 /\ pingCounter["parent"] + 1 = pingI["child"] + 1)
  <2> SUFFICES ASSUME variant = "confirmed"
               PROVE  /\ PingConfirmed' /\ pending1'["parent"] = 1
                      /\ pingCounter["parent"] + 1 = pingI["child"] + 1
    BY <1>1 DEF PingConfirmed
  <2>1. /\ pingCounter["child"] = pingN
        /\ pingCounter["parent"] + pending1["parent"] = pingI["child"]
        /\ pending1["parent"] + pending1["child"] + PingBit(confirmation["child"]) = 0
    BY <1>1, <1>3, PingPlain DEF PingConfirmed, PingOnTheWay, PingWaits, PingBit
  <2>2. pending1["parent"] = 0 /\ pending1["child"] = 0 /\ ~confirmation["child"]
    BY <2>1, PingPlain DEF PingBit
  <2>3. pending1'["parent"] = 1 /\ pingPc'["child"] = "test"
    BY <1>2 DEF Ping!WithOneMore
  <2>4. pingCounter["parent"] + 1 = pingI["child"] + 1
    BY <2>1, <2>2, PingPlain
  <2> QED BY <1>1, <1>2, <1>3, <2>1, <2>2, <2>3, <2>4, PingPlain
            DEF PingConfirmed, PingOnTheWay, PingWaits, PingBit
<1>7. PingBounds'
  BY <1>1, <1>2, <1>4, <1>5, <1>6, PingPlain DEF PingBounds
<1>8. Ping!TypeOK'
  <2>1. Ping!WithOneMore(pending1["parent"]) \in 0 .. MaxSignals
    BY <1>2, <1>4, <1>5, <1>6, PingPlain
  <2>2. pingI["child"] + 1 \in 0 .. MaxSignals
    BY <1>4, PingPlain
  <2> QED BY <1>1, <2>1, <2>2, PingPlain DEF Ping!TypeOK
<1>9. PingEarly'
  BY <1>1, <1>2, <1>3, PingPlain DEF PingEarly
<1>10. PingOrder'
  BY <1>1, <1>2, <1>3, PingPlain DEF PingOrder
<1> QED
  BY <1>5, <1>6, <1>7, <1>8, <1>9, <1>10 DEF PingInv


(* The handlers of one process: what they do to its variables, and to the  *)
(* pending signals of the other.                                           *)
LEMMA PingHandled ==
  ASSUME PingInv, NEW p \in Ping!Procs, Ping!Handle(p), NEW q \in Ping!Procs,
         q = Ping!Other(p)
  PROVE  /\ pingPc[p] \notin {"off", "begin", "end", "killed"}
         /\ UNCHANGED <<variant, pingN, stage, pingI, once>>
         /\ pending2'[p] = FALSE /\ pending2'[q] = pending2[q]
         /\ flag'[p] = (flag[p] \/ pending2[p]) /\ flag'[q] = flag[q]
         /\ pingPc'[q] = pingPc[q]
         /\ \/ pingPc'[p] = "killed" \/ pingPc'[p] = pingPc[p]
            \/ pingPc[p] = "sleep" /\ pingPc'[p] = "test"
         /\ pending1'[p] = 0
         /\ confirmation'[q] = confirmation[q] /\ pingCounter'[q] = pingCounter[q]
         /\ \/ /\ Ping!Confirms(p)
               /\ confirmation'[p] = (confirmation[p] \/ pending1[p] > 0)
               /\ pingCounter'[p] = pingCounter[p] /\ pending1'[q] = pending1[q]
            \/ /\ ~Ping!Confirms(p)
               /\ confirmation'[p] = confirmation[p]
               /\ pingCounter'[p] = pingCounter[p] + pending1[p]
               /\ pending1'[q] = IF variant = "confirmed" /\ pending1[p] > 0 THEN 1
                                 ELSE pending1[q]
<1>1. p # q /\ q = Ping!Other(p)
  BY DEF Ping!Other, Ping!Procs
<1>2. /\ pending1 \in [Ping!Procs -> Nat] /\ pending2 \in [Ping!Procs -> BOOLEAN]
      /\ pingCounter \in [Ping!Procs -> Nat] /\ flag \in [Ping!Procs -> BOOLEAN]
      /\ confirmation \in [Ping!Procs -> BOOLEAN]
      /\ DOMAIN pingPc = Ping!Procs
  BY PingPlain DEF Ping!TypeOK
<1>3. /\ pingPc[p] \notin {"off", "begin", "end", "killed"}
      /\ UNCHANGED <<variant, pingN, stage, pingI, once>>
      /\ pending2' = [pending2 EXCEPT ![p] = FALSE]
      /\ flag' = [flag EXCEPT ![p] = flag[p] \/ pending2[p]]
      /\ pingPc' = [pingPc EXCEPT ![p] = IF Ping!Raised(p) \cap unset[p] # {} THEN "killed"
                                         ELSE IF @ = "sleep" THEN "test" ELSE @]
  BY DEF Ping!Handle
<1>4. /\ pending2'[p] = FALSE /\ pending2'[q] = pending2[q]
      /\ flag'[p] = (flag[p] \/ pending2[p]) /\ flag'[q] = flag[q]
  BY <1>1, <1>2, <1>3
<1>5. /\ pingPc'[q] = pingPc[q]
      /\ \/ pingPc'[p] = "killed" \/ pingPc'[p] = pingPc[p]
         \/ pingPc[p] = "sleep" /\ pingPc'[p] = "test"
  BY <1>1, <1>2, <1>3
<1>6. CASE /\ Ping!Confirms(p)
           /\ confirmation' = [confirmation EXCEPT ![p] = @ \/ pending1[p] > 0]
           /\ pending1' = [pending1 EXCEPT ![p] = 0]
           /\ UNCHANGED pingCounter
  BY <1>1, <1>2, <1>3, <1>4, <1>5, <1>6
<1>7. CASE /\ ~Ping!Confirms(p)
           /\ pingCounter' = [pingCounter EXCEPT ![p] = @ + pending1[p]]
           /\ pending1' = [pending1 EXCEPT
                ![p] = 0, ![q] = IF variant = "confirmed" /\ pending1[p] > 0 THEN 1 ELSE @]
           /\ UNCHANGED confirmation
  <2>1. pingCounter'[p] = pingCounter[p] + pending1[p] /\ pingCounter'[q] = pingCounter[q]
    BY <1>1, <1>2, <1>7
  <2>2. pending1'[p] = 0
        /\ pending1'[q] = IF variant = "confirmed" /\ pending1[p] > 0 THEN 1 ELSE pending1[q]
    BY <1>1, <1>2, <1>7
  <2> QED BY <1>3, <1>4, <1>5, <1>7, <2>1, <2>2
<1> QED
  BY <1>1, <1>6, <1>7 DEF Ping!Handle

(* The types, as soon as the numbers are in their bounds.                  *)
LEMMA PingHandledTyped ==
  ASSUME PingInv, NEW p \in Ping!Procs, Ping!Handle(p), PingBounds',
         pingCounter'["parent"] \in Nat, pingCounter'["child"] \in Nat,
         pending1'["parent"] \in Nat, pending1'["child"] \in Nat
  PROVE  Ping!TypeOK'
<1>1. /\ pending1 \in [Ping!Procs -> 0 .. MaxSignals]
      /\ pingCounter \in [Ping!Procs -> 0 .. MaxSignals] /\ Ping!TypeOK
  BY PingPlain DEF Ping!TypeOK
<1>2. UNCHANGED <<variant, pingN, stage, pingI, once>>
  BY DEF Ping!Handle
<1>3. /\ pingCounter'["parent"] \in 0 .. MaxSignals /\ pingCounter'["child"] \in 0 .. MaxSignals
      /\ pending1'["parent"] \in 0 .. MaxSignals /\ pending1'["child"] \in 0 .. MaxSignals
  BY <1>2, PingPlain DEF PingBounds
<1>4. \A r \in Ping!Procs : /\ pingCounter'[r] \in 0 .. MaxSignals
                            /\ pending1'[r] \in 0 .. MaxSignals
  BY <1>3 DEF Ping!Procs
<1>5. /\ pending1' \in [Ping!Procs -> 0 .. MaxSignals]
      /\ pingCounter' \in [Ping!Procs -> 0 .. MaxSignals]
      /\ confirmation' \in [Ping!Procs -> BOOLEAN]
  <2>1. CASE Ping!Confirms(p)
    <3>1. /\ confirmation' = [confirmation EXCEPT ![p] = @ \/ pending1[p] > 0]
          /\ pending1' = [pending1 EXCEPT ![p] = 0] /\ pingCounter' = pingCounter
      BY <2>1 DEF Ping!Handle
    <3> QED BY <1>1, <1>4, <3>1 DEF Ping!TypeOK
  <2>2. CASE ~Ping!Confirms(p)
    <3>1. PICK x, y, z : /\ pingCounter' = [pingCounter EXCEPT ![p] = x]
                         /\ pending1' = [pending1 EXCEPT ![p] = y, ![Ping!Other(p)] = z]
                         /\ confirmation' = confirmation
      BY <2>2 DEF Ping!Handle
    <3> QED BY <1>1, <1>4, <3>1 DEF Ping!TypeOK
  <2> QED BY <2>1, <2>2
<1>6. /\ pending2' \in [Ping!Procs -> BOOLEAN] /\ flag' \in [Ping!Procs -> BOOLEAN]
      /\ unset' \in [Ping!Procs -> SUBSET {1, 2}]
  BY <1>1 DEF Ping!Handle, Ping!TypeOK, Ping!Raised
<1>7. pingPc' \in [Ping!Procs -> {"off", "begin", "reset", "test", "sleep", "send", "end",
                                  "killed"}]
  BY <1>1 DEF Ping!Handle, Ping!TypeOK
<1> QED
  BY <1>1, <1>2, <1>5, <1>6, <1>7 DEF Ping!TypeOK


(* The token is not lost when a process takes its confirmation.            *)
LEMMA PingToken ==
  ASSUME NEW x \in Nat, NEW y \in Nat, NEW b \in {0, 1}, NEW c \in {0, 1},
         NEW w \in {0, 1}, c = 1 <=> b = 1 \/ x > 0, x + y + b = w
  PROVE  0 + y + c = w /\ y + 0 + c = w
OBVIOUS

LEMMA PingParentHandles == ASSUME PingInv, Ping!Handle("parent") PROVE PingInv'
<1>1. /\ pingPc["parent"] \notin {"off", "begin", "end", "killed"}
      /\ UNCHANGED <<variant, pingN, stage, pingI>>
      /\ pending2'["parent"] = FALSE /\ pending2'["child"] = pending2["child"]
      /\ flag'["parent"] = (flag["parent"] \/ pending2["parent"])
      /\ flag'["child"] = flag["child"] /\ pingPc'["child"] = pingPc["child"]
      /\ \/ pingPc'["parent"] = "killed" \/ pingPc'["parent"] = pingPc["parent"]
         \/ pingPc["parent"] = "sleep" /\ pingPc'["parent"] = "test"
      /\ pending1'["parent"] = 0
      /\ confirmation'["child"] = confirmation["child"]
      /\ pingCounter'["child"] = pingCounter["child"]
  BY PingHandled, PingPlain
<1>2. \/ /\ variant = "confirmed" /\ stage["parent"] # 3
         /\ confirmation'["parent"] = (confirmation["parent"] \/ pending1["parent"] > 0)
         /\ pingCounter'["parent"] = pingCounter["parent"]
         /\ pending1'["child"] = pending1["child"]
      \/ /\ variant # "confirmed" \/ stage["parent"] = 3
         /\ confirmation'["parent"] = confirmation["parent"]
         /\ pingCounter'["parent"] = pingCounter["parent"] + pending1["parent"]
         /\ pending1'["child"] = IF variant = "confirmed" /\ pending1["parent"] > 0 THEN 1
                                 ELSE pending1["child"]
  <2>1. Ping!Confirms("parent") <=> variant = "confirmed" /\ stage["parent"] # 3
    BY PingPlain DEF Ping!Confirms
  <2> QED BY <2>1, PingHandled, PingPlain
<1>3. flag'["parent"] <=> flag["parent"] \/ pending2["parent"]
  BY <1>1
<1>4. PingEarly'
  <2>1. confirmation'["child"] = confirmation["child"] /\ pingPc'["parent"] # "off"
        /\ pingPc'["parent"] # "begin"
        /\ (pingPc'["parent"] = "reset" => pingPc["parent"] = "reset")
    BY <1>1, PingPlain DEF PingEarly
  <2> QED BY <1>1, <1>3, <2>1, PingPlain DEF PingEarly
<1>5. PingOrder'
  <2>1. pingPc'["parent"] # "end" /\ (pingPc'["parent"] = "send" => pingPc["parent"] = "send")
    BY <1>1
  <2> QED BY <1>1, <1>3, <2>1, PingPlain DEF PingOrder
<1>6. /\ pingCounter'["parent"] \in Nat /\ pending1'["child"] \in Nat
      /\ pending1'["parent"] \in Nat /\ pingCounter'["child"] \in Nat
  BY <1>1, <1>2, PingPlain
<1>7. PingBounds'
  <2>1. /\ pingCounter'["parent"] + pending1'["parent"] <= pingN
        /\ pending1'["child"] <= pingN
    BY <1>1, <1>2, PingPlain DEF PingBounds
  <2> QED BY <1>1, <2>1, PingPlain DEF PingBounds
<1>8. PingQueued'
  <2> SUFFICES ASSUME variant # "confirmed" PROVE PingQueued'
    BY <1>1 DEF PingQueued
  <2>1. /\ pingCounter'["parent"] + pending1'["parent"]
             = pingCounter["parent"] + pending1["parent"]
        /\ pending1'["child"] = pending1["child"]
    BY <1>1, <1>2, PingPlain
  <2>2. PingLimit' = PingLimit
    BY <1>1 DEF PingLimit
  <2>3. PingArrives("parent", pingI["child"])' /\ PingArrives("child", pingI["parent"])'
    BY <1>1, <2>1, <2>2, PingPlain DEF PingQueued, PingArrives
  <2> QED BY <1>1, <2>1, <2>3, PingPlain DEF PingQueued
<1>9. PingConfirmed'
  <2> SUFFICES ASSUME variant = "confirmed" PROVE PingConfirmed'
    BY <1>1 DEF PingConfirmed
  <2>1. CASE stage["parent"] # 3
    <3>1. /\ confirmation'["parent"] <=> confirmation["parent"] \/ pending1["parent"] > 0
          /\ pingCounter'["parent"] = pingCounter["parent"]
          /\ pending1'["child"] = pending1["child"]
      BY <1>2, <2>1
    <3>2. pingPc'["parent"] # "killed" =>
            /\ PingOnTheWay("parent") = PingWaits("parent")
            /\ PingWaits("parent")' = PingWaits("parent")
      BY <1>1, <2>1, PingPlain DEF PingConfirmed, PingWaits, PingBit
    <3>3. PingWaits("parent") \in {0, 1}
      BY DEF PingWaits, PingBit
    <3>4. ASSUME PingOnTheWay("parent") = PingWaits("parent")
          PROVE  PingOnTheWay("parent")' = PingWaits("parent")
      <4>1. pending1["parent"] + pending1["child"] + PingBit(confirmation["parent"])
              = PingWaits("parent")
        BY <3>4 DEF PingOnTheWay
      <4>2. confirmation'["parent"] <=> confirmation["parent"] \/ pending1["parent"] > 0
        BY <3>1
      <4>3. pending1["parent"] \in Nat /\ pending1["child"] \in Nat
        BY PingPlain
      <4>4. 0 + pending1["child"] + PingBit(confirmation'["parent"]) = PingWaits("parent")
        <5>1. /\ PingBit(confirmation["parent"]) \in {0, 1}
              /\ PingBit(confirmation'["parent"]) \in {0, 1}
              /\ PingBit(confirmation'["parent"]) = 1
                   <=> PingBit(confirmation["parent"]) = 1 \/ pending1["parent"] > 0
          BY <4>2 DEF PingBit
        <5> QED BY <3>3, <4>1, <4>3, <5>1, PingToken
      <4> QED BY <1>1, <3>1, <4>4 DEF PingOnTheWay, PingBit
    <3> QED BY <1>1, <2>1, <3>1, <3>2, <3>4, PingPlain DEF PingConfirmed
  <2>2. CASE stage["parent"] = 3
    <3>1. /\ pingCounter'["parent"] = pingCounter["parent"] + pending1["parent"]
          /\ pending1'["child"] = IF pending1["parent"] > 0 THEN 1 ELSE pending1["child"]
      BY <1>2, <2>2
    <3>2. stage["child"] = 1 => pending1["parent"] = 0
      BY <2>2, PingPlain DEF PingConfirmed, PingEarly
    <3>3. PingWaits("child") \in {0, 1} /\ PingWaits("child")' = PingWaits("child")
      BY <1>1 DEF PingWaits, PingBit
    <3>4. PingOnTheWay("child") = PingWaits("child") =>
            PingOnTheWay("child")' = PingOnTheWay("child")
      BY <1>1, <3>1, <3>3, PingPlain DEF PingOnTheWay, PingBit
    <3>5. pingPc["child"] # "killed" => PingOnTheWay("child") = PingWaits("child")
      BY <2>2, PingPlain DEF PingConfirmed
    <3>6. /\ pingCounter["child"] = pingN
          /\ pingCounter["parent"] + pending1["parent"] = pingI["child"]
          /\ stage["child"] = 1 => pending1["child"] = 0
      BY <2>2, PingPlain DEF PingConfirmed
    <3>7. /\ pingCounter'["parent"] + pending1'["parent"] = pingI["child"]
          /\ stage["child"] = 1 => pending1'["child"] = 0
      BY <1>1, <3>1, <3>2, <3>6, PingPlain
    <3> QED BY <1>1, <2>2, <3>3, <3>4, <3>5, <3>6, <3>7 DEF PingConfirmed
  <2> QED BY <2>1, <2>2
<1>10. Ping!TypeOK'
  BY <1>6, <1>7, PingHandledTyped, PingPlain
<1> QED
  BY <1>4, <1>5, <1>7, <1>8, <1>9, <1>10 DEF PingInv

LEMMA PingChildHandles == ASSUME PingInv, Ping!Handle("child") PROVE PingInv'
<1>1. /\ pingPc["child"] \notin {"off", "begin", "end", "killed"}
      /\ UNCHANGED <<variant, pingN, stage, pingI>>
      /\ pending2'["child"] = FALSE /\ pending2'["parent"] = pending2["parent"]
      /\ flag'["child"] = (flag["child"] \/ pending2["child"])
      /\ flag'["parent"] = flag["parent"] /\ pingPc'["parent"] = pingPc["parent"]
      /\ \/ pingPc'["child"] = "killed" \/ pingPc'["child"] = pingPc["child"]
         \/ pingPc["child"] = "sleep" /\ pingPc'["child"] = "test"
      /\ pending1'["child"] = 0
      /\ confirmation'["parent"] = confirmation["parent"]
      /\ pingCounter'["parent"] = pingCounter["parent"]
  BY PingHandled, PingPlain
<1>2. \/ /\ variant = "confirmed" /\ stage["child"] # 1
         /\ confirmation'["child"] = (confirmation["child"] \/ pending1["child"] > 0)
         /\ pingCounter'["child"] = pingCounter["child"]
         /\ pending1'["parent"] = pending1["parent"]
      \/ /\ variant # "confirmed" \/ stage["child"] = 1
         /\ confirmation'["child"] = confirmation["child"]
         /\ pingCounter'["child"] = pingCounter["child"] + pending1["child"]
         /\ pending1'["parent"] = IF variant = "confirmed" /\ pending1["child"] > 0 THEN 1
                                  ELSE pending1["parent"]
  <2>1. Ping!Confirms("child") <=> variant = "confirmed" /\ stage["child"] # 1
    BY PingPlain DEF Ping!Confirms
  <2> QED BY <2>1, PingHandled, PingPlain
<1>3. /\ flag'["child"] <=> flag["child"] \/ pending2["child"]
      /\ pingPc["parent"] # "off" /\ stage["child"] # 3
  BY <1>1, PingPlain DEF PingEarly, PingOrder
<1>4. PingEarly'
  <2>1. pingPc'["child"] \notin {"off", "begin", "reset"}
    BY <1>1, PingPlain DEF PingEarly
  <2> QED BY <1>1, <1>3, <2>1, PingPlain DEF PingEarly
<1>5. PingOrder'
  <2>1. pingPc'["child"] # "end" /\ (pingPc'["child"] = "send" => pingPc["child"] = "send")
    BY <1>1
  <2> QED BY <1>1, <1>3, <2>1, PingPlain DEF PingOrder
<1>6. /\ pingCounter'["child"] \in Nat /\ pending1'["parent"] \in Nat
      /\ pending1'["child"] \in Nat /\ pingCounter'["parent"] \in Nat
  BY <1>1, <1>2, PingPlain
<1>7. CASE variant # "confirmed"
  <2>1. /\ pingCounter'["child"] + pending1'["child"]
             = pingCounter["child"] + pending1["child"]
        /\ pending1'["parent"] = pending1["parent"]
        /\ pingCounter'["child"] = pingCounter["child"] + pending1["child"]
    BY <1>1, <1>2, <1>7, PingPlain
  <2>2. PingLimit' = PingLimit
    BY <1>1 DEF PingLimit
  <2>3. PingArrives("parent", pingI["child"]) /\ PingArrives("child", pingI["parent"])
    BY <1>7, PingPlain DEF PingQueued
  <2>4. PingArrives("parent", pingI["child"])' /\ PingArrives("child", pingI["parent"])'
    BY <1>1, <2>1, <2>2, <2>3 DEF PingArrives
  <2>5. PingQueued'
    BY <1>1, <1>7, <2>1, <2>4, PingPlain DEF PingQueued
  <2>6. PingConfirmed'
    BY <1>1, <1>7 DEF PingConfirmed
  <2>7. pingCounter'["child"] <= pingI["parent"]
    BY <2>1, <2>3, PingPlain DEF PingArrives
  <2>8. PingBounds'
    BY <1>1, <2>1, <2>7, PingPlain DEF PingBounds
  <2> QED BY <1>4, <1>5, <1>6, <2>5, <2>6, <2>8, PingHandledTyped, PingPlain DEF PingInv
<1>8. CASE variant = "confirmed" /\ stage["parent"] # 3
  <2>0. stage["child"] = 1
    BY <1>8, PingPlain DEF PingOrder
  <2>1. /\ confirmation'["child"] = confirmation["child"]
        /\ pingCounter'["child"] = pingCounter["child"] + pending1["child"]
        /\ pending1'["parent"] = IF pending1["child"] > 0 THEN 1 ELSE pending1["parent"]
    BY <1>2, <1>8, <2>0
  <2>2. /\ pingCounter["child"] + pending1["child"] = pingI["parent"]
        /\ pingCounter["parent"] = 0 /\ ~confirmation["child"]
        /\ pingPc["parent"] # "killed" => PingOnTheWay("parent") = PingWaits("parent")
    BY <1>8, PingPlain DEF PingConfirmed
  <2>3. PingWaits("parent") \in {0, 1} /\ PingWaits("parent")' = PingWaits("parent")
    BY <1>1 DEF PingWaits, PingBit
  <2>4. PingOnTheWay("parent") = PingWaits("parent") =>
          PingOnTheWay("parent")' = PingOnTheWay("parent")
    BY <1>1, <2>1, <2>3, PingPlain DEF PingOnTheWay, PingBit
  <2>5. pingCounter'["child"] + pending1'["child"] = pingI["parent"]
    BY <1>1, <2>1, <2>2, PingPlain
  <2>6. PingConfirmed'
    BY <1>1, <1>8, <2>1, <2>2, <2>3, <2>4, <2>5 DEF PingConfirmed
  <2>7. PingQueued'
    BY <1>1, <1>8 DEF PingQueued
  <2>8. PingBounds'
    <3>1. pingCounter'["child"] = pingI["parent"] /\ pingI["parent"] <= pingN
      BY <2>1, <2>2, PingPlain DEF PingBounds
    <3>2. pending1["child"] > 0 => 1 <= pingN
      BY <2>2, <3>1, PingPlain
    <3>3. pingCounter'["parent"] + pending1'["parent"] <= pingN
      BY <1>1, <2>1, <2>2, <3>2, PingPlain DEF PingBounds
    <3>4. pingI["child"] <= pingCounter'["child"]
      BY <2>1, PingPlain DEF PingBounds
    <3> QED BY <1>1, <3>1, <3>3, <3>4, PingPlain DEF PingBounds
  <2> QED BY <1>4, <1>5, <1>6, <2>6, <2>7, <2>8, PingHandledTyped, PingPlain DEF PingInv
<1>9. CASE variant = "confirmed" /\ stage["parent"] = 3
  <2>1. /\ pingCounter["child"] = pingN
        /\ pingCounter["parent"] + pending1["parent"] = pingI["child"]
        /\ stage["child"] = 1 => pending1["child"] = 0
        /\ pingPc["child"] # "killed" => PingOnTheWay("child") = PingWaits("child")
    BY <1>9, PingPlain DEF PingConfirmed
  <2>2. pingCounter'["child"] = pingCounter["child"] /\ pending1'["parent"] = pending1["parent"]
    BY <1>2, <1>9, <2>1, PingPlain
  <2>3. confirmation'["child"] <=> confirmation["child"] \/ pending1["child"] > 0
    <3>1. CASE stage["child"] = 1
      <4>1. confirmation'["child"] = confirmation["child"] /\ ~(pending1["child"] > 0)
        BY <1>2, <2>1, <3>1
      <4> QED BY <4>1
    <3>2. CASE stage["child"] # 1
      <4>1. confirmation'["child"] = (confirmation["child"] \/ pending1["child"] > 0)
        BY <1>2, <1>9, <3>2
      <4> QED BY <4>1
    <3> QED BY <3>1, <3>2
  <2>4. PingWaits("child") \in {0, 1}
        /\ (pingPc'["child"] # "killed" => PingWaits("child")' = PingWaits("child"))
    BY <1>1 DEF PingWaits, PingBit
  <2>5. ASSUME PingOnTheWay("child") = PingWaits("child")
        PROVE  PingOnTheWay("child")' = PingWaits("child")
    <3>1. pending1["child"] + pending1["parent"] + PingBit(confirmation["child"])
            = PingWaits("child")
      <4>1. PingBit(confirmation["child"]) \in Nat
        BY DEF PingBit
      <4>2. pending1["parent"] + pending1["child"] + PingBit(confirmation["child"])
              = PingWaits("child")
        BY <2>5 DEF PingOnTheWay
      <4> QED BY <4>1, <4>2, PingPlain
    <3>2. pending1["parent"] + 0 + PingBit(confirmation'["child"]) = PingWaits("child")
      <4>1. /\ PingBit(confirmation["child"]) \in {0, 1}
            /\ PingBit(confirmation'["child"]) \in {0, 1}
            /\ PingBit(confirmation'["child"]) = 1
                 <=> PingBit(confirmation["child"]) = 1 \/ pending1["child"] > 0
        BY <2>3 DEF PingBit
      <4> QED BY <2>4, <3>1, <4>1, PingPlain, PingToken
    <3> QED BY <1>1, <2>2, <3>2 DEF PingOnTheWay, PingBit
  <2>6. PingConfirmed'
    BY <1>1, <1>9, <2>1, <2>2, <2>4, <2>5 DEF PingConfirmed
  <2>7. PingQueued'
    BY <1>1, <1>9 DEF PingQueued
  <2>8. PingBounds'
    BY <1>1, <2>2, PingPlain DEF PingBounds
  <2> QED BY <1>4, <1>5, <1>6, <2>6, <2>7, <2>8, PingHandledTyped, PingPlain DEF PingInv
<1> QED
  BY <1>7, <1>8, <1>9

LEMMA PingInvStep == PingInv /\ [Ping!Next]_Ping!vars => PingInv'
<1> SUFFICES ASSUME PingInv, [Ping!Next]_Ping!vars PROVE PingInv'
  OBVIOUS
<1>1. CASE UNCHANGED Ping!vars
  <2>1. Ping!TypeOK'
    BY <1>1, PingPlain DEF Ping!TypeOK, Ping!vars
  <2>2. PingEarly' /\ PingOrder' /\ PingBounds'
    BY <1>1, PingPlain DEF PingEarly, PingOrder, PingBounds, Ping!vars
  <2>3. PingQueued' /\ PingConfirmed'
    BY <1>1, PingPlain DEF PingQueued, PingArrives, PingLimit, PingConfirmed, PingWaits,
                           PingOnTheWay, PingBit, Ping!vars
  <2> QED BY <2>1, <2>2, <2>3 DEF PingInv
<1>2. ASSUME NEW p \in Ping!Procs,
             Ping!Proceed(p) \/ Ping!SendOne(p) \/ Ping!SendLast(p) \/ Ping!Handle(p)
      PROVE  PingInv'
  <2>1. p = "parent" \/ p = "child"
    BY DEF Ping!Procs
  <2> QED
    BY <1>2, <2>1, PingParentProceeds, PingChildProceeds, PingParentSends, PingChildSends,
       PingParentSendsLast, PingChildSendsLast, PingParentHandles, PingChildHandles
<1> QED
  BY <1>1, <1>2, PingStartStep, PingResetStep, PingReadyStep, PingSleepStep
    DEF Ping!Next, Ping!Step

(* When the parent ends, all that it will count has come.                  *)
LEMMA PingInvSound == PingInv => Ping!TypeOK /\ Ping!CountedRight
<1> SUFFICES ASSUME PingInv PROVE Ping!CountedRight
  BY PingPlain
<1> SUFFICES ASSUME pingPc["parent"] = "end" PROVE Ping!CountedRight
  BY DEF Ping!CountedRight
<1>1. /\ stage["parent"] = 3 /\ flag["parent"] /\ stage["child"] = 3
      /\ pingI["parent"] = pingN /\ pingI["child"] = pingCounter["child"]
  BY PingPlain DEF PingOrder
<1>2. CASE variant = "confirmed"
  <2>1. /\ pingCounter["child"] = pingN
        /\ pingCounter["parent"] + pending1["parent"] = pingI["child"]
        /\ pingPc["child"] # "killed" => PingOnTheWay("child") = PingWaits("child")
    BY <1>1, <1>2, PingPlain DEF PingConfirmed
  <2>2. PingOnTheWay("child") = 0
    BY <1>1, <2>1, PingPlain DEF PingOrder, PingWaits, PingBit
  <2>3. pending1["parent"] = 0
    BY <2>2, PingPlain DEF PingOnTheWay, PingBit
  <2>4. pingCounter["parent"] = pingN
    BY <1>1, <2>1, <2>3, PingPlain
  <2> QED BY <1>2, <2>4 DEF Ping!CountedRight
<1>3. CASE variant # "confirmed"
  <2>1. /\ pending1["parent"] = 0 /\ pending1["child"] = 0
        /\ PingArrives("child", pingN) /\ PingArrives("parent", pingCounter["child"])
    BY <1>1, <1>3, PingPlain DEF PingQueued, PingOrder
  <2>2. PingLimit \in Nat
    BY PingAssumption DEF PingLimit
  <2>3. /\ Ping!Least(pingN, PingLimit) <= pingCounter["child"]
        /\ pingCounter["child"] <= pingN
        /\ Ping!Least(pingCounter["child"], PingLimit) <= pingCounter["parent"]
        /\ pingCounter["parent"] <= pingCounter["child"]
    BY <2>1, PingPlain DEF PingArrives
  <2>4. Ping!Least(pingN, PingLimit) <= pingCounter["parent"]
        /\ pingCounter["parent"] <= pingN
    BY <2>2, <2>3, PingPlain DEF Ping!Least
  <2> QED BY <1>3, <2>4 DEF Ping!CountedRight, PingLimit
<1> QED
  BY <1>2, <1>3

(* Neither the children's additions nor the signals are lost: the measure- *)
(* ment counts every child that has added, and the parent of the signal    *)
(* programs prints as many as the kernel can have delivered.               *)
THEOREM ProcessesAreSound == Forks!Spec /\ Ping!Spec => []ProcessesSound
<1>1. ForkInv /\ PingInv => ProcessesSound
  BY ForkInvSound, PingInvSound DEF ProcessesSound
<1> QED
  BY <1>1, ForkInvInit, ForkInvStep, PingInvInit, PingInvStep, PTL
    DEF Forks!Spec, Forks!vars, Ping!Spec, Ping!vars

-----------------------------------------------------------------------------
(* The FIFO.  What is read next begins a line, unless the read before took *)
(* a full buffer.                                                          *)
Cell == [from : Writers, first : BOOLEAN]
HeadIsFirst == fifo # <<>> => fifo[1].first \/ fifoLast.full

(* Once the reader has seen the end, who has the FIFO open came late; when *)
(* the reader has gone, so has the name.                                   *)
OpenAreLate ==
  /\ reader \in {"remove", "gone"} =>
       \A w \in Writers : writer[w] \in {"open", "on"} => w \in late
  /\ reader = "gone" => ~exists

(* The inductive invariant of the FIFO.                                    *)
FifoInv == /\ Fifos!TypeOK /\ Fifos!SplitOnlyWhenFull /\ Fifos!OnlyLateLinesLost
           /\ HeadIsFirst /\ OpenAreLate

(* At the start nobody has opened the FIFO.                                *)
LEMMA FifoInvInit == Fifos!Init => FifoInv
<1> SUFFICES ASSUME Fifos!Init PROVE FifoInv
  OBVIOUS
<1>1. 0 \in 0 .. MaxLines /\ 0 <= Capacity
  BY FifoAssumption
<1>2. Fifos!TypeOK
  <2>1. fifo = <<>> /\ fifo \in Seq([from : Writers, first : BOOLEAN]) /\ Len(fifo) = 0
    BY DEF Fifos!Init
  <2> QED BY <1>1, <2>1 DEF Fifos!Init, Fifos!TypeOK
<1> QED
  BY <1>2 DEF Fifos!Init, FifoInv, Fifos!SplitOnlyWhenFull, Fifos!OnlyLateLinesLost,
              HeadIsFirst, OpenAreLate

(* What t is when a line of n cells of w follows s.                        *)
LineBehind(s, w, n, t) ==
  /\ t \in Seq(Cell) /\ Len(t) = Len(s) + n
  /\ s # <<>> => t[1] = s[1]
  /\ s = <<>> => t[1].first
  /\ \A k \in 1 .. Len(t) :
       (k \in 1 .. Len(s) /\ t[k] = s[k]) \/ t[k].from = w

(* A line is added behind the others.                                      *)
LEMMA LineAdded ==
  ASSUME NEW s \in Seq(Cell), NEW w \in Writers, NEW n \in 1 .. PipeBuf, NEW t,
         t = s \o Fifos!Line(w, n)
  PROVE  LineBehind(s, w, n, t)
<1> DEFINE l == Fifos!Line(w, n)
<1>1. n \in Nat /\ n >= 1
  BY FifoAssumption
<1>2. l = [k \in 1 .. n |-> [from |-> w, first |-> k = 1]]
  BY DEF Fifos!Line
<1>3. l \in Seq(Cell) /\ Len(l) = n /\ DOMAIN l = 1 .. n
  BY <1>1, <1>2 DEF Cell
<1>4. \A k \in 1 .. n : l[k].from = w /\ l[k].first = (k = 1)
  BY <1>2
<1> HIDE DEF l
<1>5. t = s \o l
  BY DEF l
<1>6. t \in Seq(Cell) /\ Len(t) = Len(s) + n
  BY <1>3, <1>5
<1>7. \A k \in 1 .. Len(t) : t[k] = IF k <= Len(s) THEN s[k] ELSE l[k - Len(s)]
  BY <1>3, <1>5, <1>6
<1>8. Len(s) \in Nat /\ (s # <<>> => Len(s) >= 1) /\ (s = <<>> => Len(s) = 0)
  BY EmptySeq, LenProperties
<1>9. s # <<>> => t[1] = s[1]
  BY <1>1, <1>6, <1>7, <1>8
<1>10. s = <<>> => t[1].first
  <2> SUFFICES ASSUME s = <<>> PROVE t[1].first
    OBVIOUS
  <2>1. Len(s) = 0 /\ 1 \in 1 .. Len(t) /\ 1 \in 1 .. n
    BY <1>1, <1>6, <1>8
  <2>2. t[1] = l[1]
    <3>1. t[1] = l[1 - Len(s)]
      BY <1>7, <2>1
    <3>2. 1 - Len(s) = 1
      BY <2>1
    <3> QED BY <3>1, <3>2
  <2>3. l[1].first = (1 = 1)
    BY <1>4, <2>1
  <2> QED BY <2>2, <2>3
<1>11. ASSUME NEW k \in 1 .. Len(t)
       PROVE  (k \in 1 .. Len(s) /\ t[k] = s[k]) \/ t[k].from = w
  <2>1. CASE k <= Len(s)
    BY <1>7, <1>8, <2>1
  <2>2. CASE ~(k <= Len(s))
    <3>1. k - Len(s) \in 1 .. n /\ t[k] = l[k - Len(s)]
      BY <1>1, <1>6, <1>7, <1>8, <2>2
    <3> QED BY <1>4, <3>1
  <2> QED BY <2>1, <2>2
<1> QED
  BY <1>6, <1>9, <1>10, <1>11 DEF LineBehind

(* The reader takes what is there, or a full buffer of it.                 *)
LEMMA FifoReadStep == ASSUME FifoInv, Fifos!Read PROVE FifoInv'
<1>1. /\ reader = "loop" /\ fifo # <<>> /\ fifo \in Seq(Cell) /\ Len(fifo) <= Capacity
      /\ UNCHANGED <<exists, reader, writer, lines, late>>
      /\ fifoLast \in [header : BOOLEAN, afterFull : BOOLEAN, full : BOOLEAN]
  BY DEF FifoInv, Fifos!TypeOK, Fifos!Read, Cell
<1> DEFINE n == Fifos!Least(PipeBuf, Len(fifo))
<1>2. n \in 0 .. Len(fifo) /\ (n = PipeBuf \/ n = Len(fifo)) /\ Len(fifo) \in Nat
      /\ Len(fifo) # 0
  <2>1. Len(fifo) \in Nat /\ Len(fifo) # 0
    BY <1>1, EmptySeq
  <2> QED BY <2>1, FifoAssumption DEF Fifos!Least
<1>3. /\ fifoLast' = [header |-> Head(fifo).first, afterFull |-> fifoLast.full,
                      full |-> n = PipeBuf]
      /\ fifo' = SubSeq(fifo, n + 1, Len(fifo))
  BY DEF Fifos!Read
<1> HIDE DEF n
<1>4. fifo' \in Seq(Cell) /\ Len(fifo') = Len(fifo) - n
  BY <1>1, <1>2, <1>3
<1>5. Head(fifo).first \in BOOLEAN /\ Head(fifo) = fifo[1]
  <2>1. Head(fifo) = fifo[1]
    BY DEF Head
  <2>2. 1 \in 1 .. Len(fifo)
    BY <1>2
  <2>3. fifo[1] \in Cell
    BY <1>1, <2>2, ElementOfSeq
  <2> QED BY <2>1, <2>3 DEF Cell
<1>6. Fifos!TypeOK'
  <2>1. fifoLast' \in [header : BOOLEAN, afterFull : BOOLEAN, full : BOOLEAN]
    BY <1>1, <1>3, <1>5
  <2>2. Len(fifo') <= Capacity
    BY <1>1, <1>2, <1>4, FifoAssumption
  <2> QED BY <1>1, <1>4, <2>1, <2>2 DEF FifoInv, Fifos!TypeOK, Cell
<1>7. Fifos!SplitOnlyWhenFull'
  BY <1>1, <1>3, <1>5 DEF FifoInv, HeadIsFirst, Fifos!SplitOnlyWhenFull
<1>8. HeadIsFirst'
  <2>1. n # PipeBuf => fifo' = <<>>
    BY <1>2, <1>4, EmptySeq
  <2> QED BY <1>3, <2>1 DEF HeadIsFirst
<1> QED
  BY <1>1, <1>6, <1>7, <1>8 DEF FifoInv, Fifos!OnlyLateLinesLost, OpenAreLate

(* A writer's line begins with its header, and a late writer is in late.   *)
LEMMA FifoWriteStep == ASSUME FifoInv, NEW w \in Writers, Fifos!Write(w) PROVE FifoInv'
<1>1. /\ writer[w] = "on" /\ lines[w] < MaxLines /\ reader # "gone"
      /\ lines' = [lines EXCEPT ![w] = @ + 1]
      /\ UNCHANGED <<exists, reader, writer, fifoLast, late>>
  BY DEF Fifos!Write
<1>2. PICK n \in 1 .. PipeBuf : /\ Len(fifo) + n <= Capacity
                                /\ fifo' = fifo \o Fifos!Line(w, n)
  BY DEF Fifos!Write
<1>3. fifo \in Seq(Cell)
  BY DEF FifoInv, Fifos!TypeOK, Cell
<1>4. /\ fifo' \in Seq(Cell) /\ Len(fifo') = Len(fifo) + n
      /\ fifo # <<>> => fifo'[1] = fifo[1]
      /\ fifo = <<>> => fifo'[1].first
      /\ \A k \in 1 .. Len(fifo') :
           (k \in 1 .. Len(fifo) /\ fifo'[k] = fifo[k]) \/ fifo'[k].from = w
  <2>1. PICK t : t = fifo \o Fifos!Line(w, n)
    OBVIOUS
  <2>2. LineBehind(fifo, w, n, t)
    BY <1>3, <2>1, LineAdded
  <2>3. fifo' = t
    BY <1>2, <2>1
  <2> QED BY <2>2, <2>3 DEF LineBehind
<1>5. Fifos!TypeOK'
  <2>1. lines' \in [Writers -> 0 .. MaxLines]
    <3>1. lines \in [Writers -> 0 .. MaxLines] /\ lines[w] \in 0 .. MaxLines
      BY DEF FifoInv, Fifos!TypeOK
    <3>2. lines[w] + 1 \in 0 .. MaxLines
      BY <1>1, <3>1, FifoAssumption
    <3> QED BY <1>1, <3>1, <3>2
  <2>2. Len(fifo') <= Capacity
    BY <1>2, <1>4
  <2> QED BY <1>1, <1>4, <2>1, <2>2 DEF FifoInv, Fifos!TypeOK, Cell
<1>6. HeadIsFirst'
  BY <1>1, <1>4 DEF FifoInv, HeadIsFirst
<1>7. Fifos!OnlyLateLinesLost'
  <2> SUFFICES ASSUME reader \in {"remove", "gone"}, NEW k \in 1 .. Len(fifo')
               PROVE  fifo'[k].from \in late
    BY <1>1 DEF Fifos!OnlyLateLinesLost
  <2>1. w \in late
    BY <1>1 DEF FifoInv, OpenAreLate
  <2> QED BY <1>4, <2>1 DEF FifoInv, Fifos!OnlyLateLinesLost
<1> QED
  BY <1>1, <1>5, <1>6, <1>7 DEF FifoInv, Fifos!SplitOnlyWhenFull, OpenAreLate

(* The other steps leave the cells as they are.                            *)
LEMMA FifoInvStep == FifoInv /\ [Fifos!Next]_Fifos!vars => FifoInv'
<1> SUFFICES ASSUME FifoInv, [Fifos!Next]_Fifos!vars PROVE FifoInv'
  OBVIOUS
<1>0. /\ Fifos!TypeOK /\ Fifos!SplitOnlyWhenFull /\ Fifos!OnlyLateLinesLost
      /\ HeadIsFirst /\ OpenAreLate
  BY DEF FifoInv
<1>1. ASSUME UNCHANGED <<fifo, fifoLast, lines>>, Fifos!TypeOK',
             Fifos!OnlyLateLinesLost', OpenAreLate'
      PROVE  FifoInv'
  BY <1>0, <1>1 DEF FifoInv, Fifos!SplitOnlyWhenFull, HeadIsFirst
<1>2. CASE UNCHANGED Fifos!vars
  <2>1. Fifos!TypeOK'
    BY <1>0, <1>2 DEF Fifos!TypeOK, Fifos!vars
  <2>2. Fifos!OnlyLateLinesLost' /\ OpenAreLate'
    BY <1>0, <1>2 DEF Fifos!OnlyLateLinesLost, OpenAreLate, Fifos!vars
  <2> QED BY <1>1, <1>2, <2>1, <2>2 DEF Fifos!vars
<1>3. CASE Fifos!MakeFifo \/ Fifos!OpenToRead \/ Fifos!EndOfFile \/ Fifos!Remove
  <2>1. /\ UNCHANGED <<fifo, writer, lines, fifoLast, late>> /\ exists' \in BOOLEAN
        /\ reader' \in {"open", "loop", "remove", "gone"}
        /\ reader' = "remove" =>
             /\ \A k \in 1 .. Len(fifo) : fifo[k].from \in late
             /\ \A w \in Writers : writer[w] \notin {"open", "on"}
        /\ reader' = "gone" => reader = "remove" /\ ~exists'
    <3>1. CASE Fifos!MakeFifo
      BY <3>1 DEF Fifos!MakeFifo
    <3>2. CASE Fifos!OpenToRead
      BY <1>0, <3>2 DEF Fifos!OpenToRead, Fifos!TypeOK
    <3>3. CASE Fifos!EndOfFile
      <4>1. \A k \in 1 .. Len(fifo) : fifo[k].from \in late
        BY <3>3 DEF Fifos!EndOfFile
      <4> QED BY <1>0, <3>3, <4>1 DEF Fifos!EndOfFile, Fifos!AtEnd, Fifos!TypeOK
    <3>4. CASE Fifos!Remove
      BY <3>4 DEF Fifos!Remove
    <3> QED BY <1>3, <3>1, <3>2, <3>3, <3>4
  <2>2. Fifos!TypeOK'
    BY <1>0, <2>1 DEF Fifos!TypeOK
  <2>3. Fifos!OnlyLateLinesLost' /\ OpenAreLate'
    BY <1>0, <2>1 DEF Fifos!OnlyLateLinesLost, OpenAreLate
  <2> QED BY <1>1, <2>1, <2>2, <2>3
<1>4. ASSUME NEW w \in Writers, Fifos!StartWriter(w) \/ Fifos!OpenToWrite(w) \/ Fifos!Close(w)
      PROVE  FifoInv'
  <2>1. /\ UNCHANGED <<exists, fifo, reader, lines, fifoLast>>
        /\ late' \in {late, late \cup {w}}
        /\ writer' = [writer EXCEPT ![w] = writer'[w]]
        /\ writer'[w] \in {"open", "on", "closed", "refused"}
        /\ writer'[w] \in {"open", "on"} =>
             \/ writer[w] \in {"open", "on"}
             \/ exists /\ (reader = "remove" => w \in late')
    BY <1>0, <1>4 DEF Fifos!StartWriter, Fifos!OpenToWrite, Fifos!Close, Fifos!TypeOK
  <2>2. Fifos!TypeOK'
    BY <1>0, <2>1 DEF Fifos!TypeOK
  <2>3. \A v \in Writers : v # w => writer'[v] = writer[v]
    BY <1>0, <2>1 DEF Fifos!TypeOK
  <2>4. Fifos!OnlyLateLinesLost' /\ OpenAreLate'
    BY <1>0, <2>1, <2>3 DEF Fifos!OnlyLateLinesLost, OpenAreLate
  <2> QED BY <1>1, <2>1, <2>2, <2>4
<1> QED
  BY <1>2, <1>3, <1>4, FifoReadStep, FifoWriteStep
    DEF Fifos!Next, Fifos!ReaderStep, Fifos!WriterStep

-----------------------------------------------------------------------------
(* The pipes.  A sequence of lines has so many directories in it.          *)
DirPlaces(s) == {k \in 1 .. Len(s) : s[k] = "d"}
IsDir(line) == IF line = "d" THEN 1 ELSE 0

(* Processes begin and end one after the other: ls before grep before wc,  *)
(* each with the end of the pipe it writes to, and what comes before one   *)
(* that has ended is empty.                                                *)
EndsInOrder ==
  /\ pipePc["ls"] # "none"
  /\ pipePc["ls"] = "start" =>
       /\ pipePc["grep"] = "none"
       /\ entries = <<>> /\ pipe1 = <<>> /\ pipe2 = <<>> /\ count = 0 /\ ~gaveUp
  /\ pipePc["ls"] = "loop" => "ls" \in writers1
  /\ pipePc["ls"] \in {"wait", "end"} /\ ~gaveUp => entries = <<>>
  /\ pipePc["grep"] \in {"none", "start"} => pipePc["wc"] = "none"
  /\ pipePc["grep"] = "loop" => "grep" \in writers2
  /\ pipePc["grep"] \in {"wait", "end"} => pipe1 = <<>> /\ writers1 = {}
  /\ pipePc["wc"] = "end" => pipe2 = <<>> /\ writers2 = {}
  /\ pipePc["grep"] = "end" => pipePc["wc"] = "end"
  /\ pipePc["ls"] = "end" /\ ~popen /\ ~gaveUp => pipePc["grep"] = "end"

(* Every directory of the listing is counted or on its way, but for an     *)
(* entry that vanished; only directories pass zad1's grep.                 *)
Seen == count + Pipe!DirsIn(pipe2) + Pipe!DirsIn(pipe1) + Pipe!DirsIn(entries)
DirsAccounted == /\ Seen <= dirs /\ (~gaveUp => Seen = dirs)
                 /\ ~popen => \A k \in 1 .. Len(pipe2) : pipe2[k] = "d"

(* The inductive invariant of the pipes.                                   *)
PipeInv == Pipe!TypeOK /\ EndsInOrder /\ DirsAccounted

(* The pipes count sets as FiniteSets does.                                *)
LEMMA CardinalityOfPipes == ASSUME NEW S PROVE Pipe!Cardinality(S) = Cardinality(S)
BY DEF Pipe!Cardinality, Cardinality

(* The places of directories are finitely many, one at most per line.      *)
LEMMA DirsAreFinite ==
  ASSUME NEW s \in Seq(Pipe!Line)
  PROVE  /\ IsFiniteSet(DirPlaces(s)) /\ Pipe!DirsIn(s) = Cardinality(DirPlaces(s))
         /\ Pipe!DirsIn(s) \in Nat /\ Pipe!DirsIn(s) <= Len(s)
<1>1. Len(s) \in Nat
  OBVIOUS
<1>2. IsFiniteSet(1 .. Len(s)) /\ Cardinality(1 .. Len(s)) = Len(s)
  BY <1>1, FS_Interval
<1>3. DirPlaces(s) \subseteq 1 .. Len(s)
  BY DEF DirPlaces
<1>4. /\ IsFiniteSet(DirPlaces(s)) /\ Cardinality(DirPlaces(s)) \in Nat
      /\ Cardinality(DirPlaces(s)) <= Len(s)
  BY <1>2, <1>3, FS_Subset, FS_CardinalityType
<1>5. Pipe!DirsIn(s) = Cardinality(DirPlaces(s))
  BY CardinalityOfPipes DEF Pipe!DirsIn, DirPlaces
<1> QED
  BY <1>4, <1>5

(* There is no directory in nothing.                                       *)
LEMMA NoDirs == Pipe!DirsIn(<<>>) = 0
<1>1. PICK s : s = <<>>
  OBVIOUS
<1>2. s \in Seq(Pipe!Line) /\ Len(s) = 0
  BY <1>1, EmptySeq
<1>3. Pipe!DirsIn(s) \in Nat /\ Pipe!DirsIn(s) <= 0
  BY <1>2, DirsAreFinite
<1> QED
  BY <1>1, <1>3

(* A line added counts if it is a directory.                               *)
LEMMA DirAppended ==
  ASSUME NEW s \in Seq(Pipe!Line), NEW x \in Pipe!Line
  PROVE  Pipe!DirsIn(Append(s, x)) = Pipe!DirsIn(s) + IsDir(x)
<1> DEFINE t == Append(s, x)
<1>1. /\ t \in Seq(Pipe!Line) /\ Len(t) = Len(s) + 1 /\ Len(s) \in Nat
      /\ \A k \in 1 .. Len(s) : t[k] = s[k]
      /\ t[Len(s) + 1] = x
  BY AppendProperties, LenProperties
<1> HIDE DEF t
<1>2. Len(s) + 1 \notin DirPlaces(s)
  BY <1>1 DEF DirPlaces
<1>3. CASE x = "d"
  <2>1. DirPlaces(t) = DirPlaces(s) \cup {Len(s) + 1}
    BY <1>1, <1>3 DEF DirPlaces
  <2>2. Cardinality(DirPlaces(s) \cup {Len(s) + 1}) = Cardinality(DirPlaces(s)) + 1
    BY <1>2, DirsAreFinite, FS_AddElement
  <2>3. Pipe!DirsIn(t) = Pipe!DirsIn(s) + 1
    BY <1>1, <2>1, <2>2, DirsAreFinite
  <2> QED BY <1>3, <2>3 DEF t, IsDir
<1>4. CASE x # "d"
  <2>1. DirPlaces(t) = DirPlaces(s)
    BY <1>1, <1>4 DEF DirPlaces
  <2>2. Pipe!DirsIn(t) = Pipe!DirsIn(s) + 0
    BY <1>1, <2>1, DirsAreFinite
  <2> QED BY <1>4, <2>2 DEF t, IsDir
<1> QED
  BY <1>3, <1>4

(* A line taken no longer counts; the places of the others move by one.    *)
LEMMA DirTaken ==
  ASSUME NEW s \in Seq(Pipe!Line), s # <<>>
  PROVE  /\ Head(s) \in Pipe!Line /\ Tail(s) \in Seq(Pipe!Line)
         /\ Len(Tail(s)) = Len(s) - 1
         /\ Pipe!DirsIn(s) = Pipe!DirsIn(Tail(s)) + IsDir(Head(s))
<1> DEFINE t == Tail(s)
<1>1. /\ t \in Seq(Pipe!Line) /\ Len(t) = Len(s) - 1 /\ Len(s) \in Nat /\ Len(s) >= 1
      /\ \A k \in 1 .. Len(t) : t[k] = s[k + 1]
      /\ Head(s) \in Pipe!Line
  BY HeadTailProperties, LenProperties, EmptySeq
<1>2. Head(s) = s[1]
  BY DEF Head
<1> HIDE DEF t
<1> DEFINE f == [k \in DirPlaces(t) |-> k + 1]
           U == DirPlaces(s) \ {1}
<1>3. f \in Bijection(DirPlaces(t), U)
  <2>1. \A k \in DirPlaces(t) : k \in Nat /\ k + 1 \in U
    BY <1>1 DEF DirPlaces
  <2>2. \A j \in U : j - 1 \in DirPlaces(t) /\ f[j - 1] = j
    BY <1>1 DEF DirPlaces
  <2>3. f \in [DirPlaces(t) -> U]
    BY <2>1
  <2>4. f \in Injection(DirPlaces(t), U)
    BY <2>1, <2>3 DEF Injection, IsInjective
  <2>5. f \in Surjection(DirPlaces(t), U)
    BY <2>2, <2>3 DEF Surjection
  <2> QED BY <2>4, <2>5 DEF Bijection
<1>4. Cardinality(U) = Pipe!DirsIn(t)
  BY <1>1, <1>3, DirsAreFinite, FS_Bijection DEF ExistsBijection
<1>5. Pipe!DirsIn(s) = Pipe!DirsIn(t) + IsDir(Head(s))
  <2>1. CASE s[1] = "d"
    <3>1. 1 \in DirPlaces(s)
      BY <1>1, <2>1 DEF DirPlaces
    <3>2. Cardinality(U) = Pipe!DirsIn(s) - 1
      BY <3>1, DirsAreFinite, FS_RemoveElement
    <3> HIDE DEF U
    <3> QED BY <1>1, <1>2, <1>4, <2>1, <3>2, DirsAreFinite DEF IsDir
  <2>2. CASE s[1] # "d"
    <3>1. U = DirPlaces(s)
      BY <2>2 DEF DirPlaces
    <3>2. Cardinality(U) = Pipe!DirsIn(s)
      BY <3>1, DirsAreFinite
    <3> HIDE DEF U
    <3> QED BY <1>1, <1>2, <1>4, <2>2, <3>2, DirsAreFinite DEF IsDir
  <2> QED BY <2>1, <2>2
<1> QED
  BY <1>1, <1>5 DEF t


(* At the start nothing is listed.                                         *)
LEMMA PipeInvInit == Pipe!Init => PipeInv
<1> SUFFICES ASSUME Pipe!Init PROVE PipeInv
  OBVIOUS
<1>1. /\ popen = FALSE /\ gaveUp = FALSE /\ entries = <<>> /\ pipe1 = <<>> /\ pipe2 = <<>>
      /\ dirs = 0 /\ count = 0 /\ writers1 = {} /\ writers2 = {}
      /\ pipePc = [p \in Pipe!Procs |-> IF p = "ls" THEN "start" ELSE "none"]
  BY DEF Pipe!Init
<1>2. pipePc["ls"] = "start" /\ pipePc["grep"] = "none" /\ pipePc["wc"] = "none"
  BY <1>1 DEF Pipe!Procs
<1>3. /\ Pipe!DirsIn(entries) = 0 /\ Pipe!DirsIn(pipe1) = 0 /\ Pipe!DirsIn(pipe2) = 0
  BY <1>1, NoDirs
<1>4. Pipe!TypeOK
  <2>1. /\ entries \in Seq(Pipe!Line) /\ pipe1 \in Seq(Pipe!Line)
        /\ pipe2 \in Seq(Pipe!Line)
        /\ Len(entries) = 0 /\ Len(pipe1) = 0 /\ Len(pipe2) = 0
    BY <1>1
  <2>2. pipePc \in [Pipe!Procs -> {"none", "start", "loop", "wait", "end"}]
    BY <1>1
  <2>3. /\ Len(entries) <= MaxEntries /\ Len(pipe1) <= PipeLen /\ Len(pipe2) <= PipeLen
        /\ count \in 0 .. MaxEntries /\ dirs \in 0 .. MaxEntries
    BY <1>1, <2>1, PipeAssumption
  <2> QED BY <1>1, <2>1, <2>2, <2>3 DEF Pipe!TypeOK
<1>5. EndsInOrder
  BY <1>1, <1>2 DEF EndsInOrder
<1>6. DirsAccounted
  <2>1. Seen = 0
    BY <1>1, <1>3 DEF Seen
  <2> QED BY <1>1, <2>1 DEF DirsAccounted
<1> QED
  BY <1>4, <1>5, <1>6 DEF PipeInv

(* The numbers and the sequences of a state of the pipes.                  *)
LEMMA PipeNumbers ==
  ASSUME PipeInv
  PROVE  /\ entries \in Seq(Pipe!Line) /\ pipe1 \in Seq(Pipe!Line)
         /\ pipe2 \in Seq(Pipe!Line)
         /\ Len(entries) \in Nat /\ Len(pipe1) \in Nat /\ Len(pipe2) \in Nat
         /\ Pipe!DirsIn(entries) \in Nat /\ Pipe!DirsIn(pipe1) \in Nat
         /\ Pipe!DirsIn(pipe2) \in Nat /\ count \in Nat /\ dirs \in Nat
         /\ MaxEntries \in Nat /\ PipeLen \in Nat
         /\ Len(entries) <= MaxEntries /\ dirs <= MaxEntries
         /\ Len(pipe1) <= PipeLen /\ Len(pipe2) <= PipeLen
<1>1. /\ entries \in Seq(Pipe!Line) /\ pipe1 \in Seq(Pipe!Line)
      /\ pipe2 \in Seq(Pipe!Line)
      /\ Len(entries) <= MaxEntries /\ Len(pipe1) <= PipeLen /\ Len(pipe2) <= PipeLen
      /\ count \in 0 .. MaxEntries /\ dirs \in 0 .. MaxEntries
  BY DEF PipeInv, Pipe!TypeOK
<1>2. /\ Pipe!DirsIn(entries) \in Nat /\ Pipe!DirsIn(pipe1) \in Nat
      /\ Pipe!DirsIn(pipe2) \in Nat
  BY <1>1, DirsAreFinite
<1>3. /\ Len(entries) \in Nat /\ Len(pipe1) \in Nat /\ Len(pipe2) \in Nat
  BY <1>1, LenProperties
<1>4. count \in Nat /\ dirs \in Nat /\ dirs <= MaxEntries
  BY <1>1, PipeAssumption
<1> QED
  BY <1>1, <1>2, <1>3, <1>4, PipeAssumption

(* A process moves on and no line does.                                    *)
LEMMA NoLineMoved ==
  ASSUME PipeInv, UNCHANGED <<popen, entries, pipe1, pipe2, count, dirs, gaveUp>>,
         writers1' \subseteq Pipe!Procs, writers2' \subseteq Pipe!Procs,
         pipePc' \in [Pipe!Procs -> {"none", "start", "loop", "wait", "end"}]
  PROVE  Pipe!TypeOK' /\ DirsAccounted'
<1>1. Pipe!TypeOK /\ DirsAccounted
  BY DEF PipeInv
<1>2. Pipe!TypeOK'
  BY <1>1 DEF Pipe!TypeOK
<1>3. Seen' = Seen
  BY DEF Seen, Pipe!DirsIn
<1>4. DirsAccounted'
  BY <1>1, <1>3 DEF DirsAccounted
<1> QED
  BY <1>2, <1>4

(* ls lists a directory that another may fill and starts the others.       *)
LEMMA ForkedPipes == ASSUME PipeInv, Pipe!Fork1 PROVE PipeInv'
<1>1. /\ pipePc["ls"] = "start" /\ pipePc["grep"] = "none" /\ pipePc["wc"] = "none"
      /\ pipe1 = <<>> /\ pipe2 = <<>> /\ count = 0 /\ gaveUp = FALSE
      /\ UNCHANGED <<pipe1, pipe2, count, gaveUp>>
      /\ pipePc \in [Pipe!Procs -> {"none", "start", "loop", "wait", "end"}]
      /\ writers1 \subseteq Pipe!Procs /\ writers2 \subseteq Pipe!Procs
  BY DEF PipeInv, EndsInOrder, Pipe!Fork1, Pipe!TypeOK
<1>2. PICK s \in UNION {[1 .. n -> Pipe!Line] : n \in 0 .. MaxEntries} :
        entries' = s /\ dirs' = Pipe!DirsIn(s)
  BY DEF Pipe!Fork1
<1>3. /\ entries' \in Seq(Pipe!Line) /\ Len(entries') \in Nat
      /\ Len(entries') <= MaxEntries
  <2>1. PICK n \in 0 .. MaxEntries : s \in [1 .. n -> Pipe!Line]
    BY <1>2
  <2>2. n \in Nat /\ n <= MaxEntries
    BY <2>1, PipeAssumption
  <2>3. s \in Seq(Pipe!Line) /\ Len(s) = n
    BY <2>1, <2>2
  <2> QED BY <1>2, <2>2, <2>3
<1>4. /\ dirs' = Pipe!DirsIn(entries') /\ dirs' \in Nat /\ dirs' <= Len(entries')
  BY <1>2, <1>3, DirsAreFinite
<1>5. /\ popen' \in BOOLEAN
      /\ writers1' \subseteq Pipe!Procs /\ writers2' \subseteq Pipe!Procs
      /\ "ls" \in writers1'
      /\ pipePc' \in [Pipe!Procs -> {"none", "start", "loop", "wait", "end"}]
      /\ pipePc'["ls"] = "loop"
      /\ \/ pipePc'["grep"] = "start" /\ pipePc'["wc"] = "none"
         \/ pipePc'["grep"] = "loop" /\ pipePc'["wc"] = "loop" /\ "grep" \in writers2'
  BY <1>1 DEF Pipe!Fork1, Pipe!Procs
<1>6. Pipe!TypeOK'
  <2>1. dirs' \in 0 .. MaxEntries
    BY <1>3, <1>4, PipeAssumption
  <2>2. /\ pipe1 \in Seq(Pipe!Line) /\ pipe2 \in Seq(Pipe!Line) /\ Len(pipe1) <= PipeLen
        /\ Len(pipe2) <= PipeLen /\ count \in 0 .. MaxEntries /\ gaveUp \in BOOLEAN
    BY DEF PipeInv, Pipe!TypeOK
  <2> QED BY <1>1, <1>3, <1>5, <2>1, <2>2 DEF Pipe!TypeOK
<1>7. EndsInOrder'
  BY <1>1, <1>5 DEF EndsInOrder
<1>8. DirsAccounted'
  <2>1. Pipe!DirsIn(pipe1') = 0 /\ Pipe!DirsIn(pipe2') = 0
    BY <1>1, NoDirs
  <2>2. Seen' = count' + Pipe!DirsIn(pipe2') + Pipe!DirsIn(pipe1') + Pipe!DirsIn(entries')
    BY DEF Seen, Pipe!DirsIn
  <2>3. Seen' = dirs'
    BY <1>1, <1>4, <2>1, <2>2
  <2>4. \A k \in 1 .. Len(pipe2') : pipe2'[k] = "d"
    BY <1>1
  <2> QED BY <1>4, <2>3, <2>4 DEF DirsAccounted
<1> QED
  BY <1>6, <1>7, <1>8 DEF PipeInv


(* An entry goes into the first pipe, or was gone and ls gives up.         *)
LEMMA ListedLine == ASSUME PipeInv, Pipe!List PROVE PipeInv'
<1>0. Pipe!TypeOK /\ EndsInOrder /\ DirsAccounted
  BY DEF PipeInv
<1>1. /\ pipePc["ls"] = "loop" /\ entries # <<>> /\ entries' = Tail(entries)
      /\ UNCHANGED <<popen, pipe2, writers2, count, dirs>>
  BY DEF Pipe!List
<1>2. /\ entries' \in Seq(Pipe!Line) /\ Head(entries) \in Pipe!Line
      /\ Len(entries') = Len(entries) - 1
      /\ Pipe!DirsIn(entries) = Pipe!DirsIn(entries') + IsDir(Head(entries))
  BY <1>1, PipeNumbers, DirTaken
<1>3. Len(entries') \in Nat /\ Len(entries') <= MaxEntries /\ Pipe!DirsIn(entries') \in Nat
  BY <1>2, PipeNumbers, DirsAreFinite, LenProperties
<1>4. Seen = count + Pipe!DirsIn(pipe2) + Pipe!DirsIn(pipe1) + Pipe!DirsIn(entries)
      /\ Seen <= dirs /\ (~gaveUp => Seen = dirs)
  BY <1>0 DEF Seen, DirsAccounted
<1>5. Seen' = count + Pipe!DirsIn(pipe2) + Pipe!DirsIn(pipe1') + Pipe!DirsIn(entries')
  BY <1>1 DEF Seen, Pipe!DirsIn
<1>6. IsDir(Head(entries)) \in {0, 1}
  BY DEF IsDir
<1>7. /\ count \in Nat /\ dirs \in Nat /\ Pipe!DirsIn(pipe2) \in Nat
      /\ Pipe!DirsIn(pipe1) \in Nat /\ Pipe!DirsIn(entries) \in Nat
      /\ Pipe!DirsIn(entries') \in Nat /\ IsDir(Head(entries)) \in {0, 1}
      /\ Pipe!DirsIn(entries) = Pipe!DirsIn(entries') + IsDir(Head(entries))
  BY <1>2, <1>3, <1>6, PipeNumbers
<1>8. CASE /\ Pipe!HasRoom(pipe1) /\ pipe1' = Append(pipe1, Head(entries))
           /\ UNCHANGED <<writers1, pipePc, gaveUp>>
  <2>1. /\ pipe1' \in Seq(Pipe!Line) /\ Len(pipe1') = Len(pipe1) + 1
        /\ Pipe!DirsIn(pipe1') = Pipe!DirsIn(pipe1) + IsDir(Head(entries))
    BY <1>2, <1>8, PipeNumbers, DirAppended, AppendProperties
  <2>2. Len(pipe1') <= PipeLen
    BY <1>8, <2>1, PipeNumbers DEF Pipe!HasRoom
  <2>3. Pipe!TypeOK'
    BY <1>0, <1>1, <1>2, <1>3, <1>8, <2>1, <2>2 DEF Pipe!TypeOK
  <2>4. EndsInOrder'
    BY <1>0, <1>1, <1>8 DEF EndsInOrder
  <2>5. Seen' = Seen
    <3>1. Pipe!DirsIn(pipe1') = Pipe!DirsIn(pipe1) + IsDir(Head(entries))
      BY <2>1
    <3> QED BY <1>4, <1>5, <1>7, <3>1
  <2>6. DirsAccounted'
    BY <1>0, <1>1, <1>8, <2>5 DEF DirsAccounted
  <2> QED BY <2>3, <2>4, <2>6 DEF PipeInv
<1>9. CASE /\ ~popen /\ gaveUp' = TRUE /\ writers1' = writers1 \ {"ls"}
           /\ pipePc' = [pipePc EXCEPT !["ls"] = "end"] /\ UNCHANGED pipe1
  <2>1. pipePc'["ls"] = "end" /\ pipePc'["grep"] = pipePc["grep"]
        /\ pipePc'["wc"] = pipePc["wc"]
        /\ pipePc' \in [Pipe!Procs -> {"none", "start", "loop", "wait", "end"}]
    BY <1>0, <1>9 DEF Pipe!TypeOK, Pipe!Procs
  <2>2. Pipe!TypeOK'
    BY <1>0, <1>1, <1>2, <1>3, <1>9, <2>1 DEF Pipe!TypeOK
  <2>3. EndsInOrder'
    BY <1>0, <1>1, <1>9, <2>1 DEF EndsInOrder
  <2>4. Seen' <= dirs
    <3>1. Pipe!DirsIn(pipe1') = Pipe!DirsIn(pipe1)
      BY <1>9
    <3> QED BY <1>4, <1>5, <1>7, <3>1
  <2>5. DirsAccounted'
    BY <1>0, <1>1, <1>9, <2>4 DEF DirsAccounted
  <2> QED BY <2>2, <2>3, <2>5 DEF PipeInv
<1> QED
  BY <1>8, <1>9 DEF Pipe!List

(* grep passes a line on, or it was no directory.                          *)
LEMMA FilteredLine == ASSUME PipeInv, Pipe!Filter PROVE PipeInv'
<1>0. Pipe!TypeOK /\ EndsInOrder /\ DirsAccounted
  BY DEF PipeInv
<1>1. /\ pipePc["grep"] = "loop" /\ pipe1 # <<>> /\ pipe1' = Tail(pipe1)
      /\ UNCHANGED <<popen, entries, writers1, writers2, pipePc, count, dirs, gaveUp>>
  BY DEF Pipe!Filter
<1>2. /\ pipe1' \in Seq(Pipe!Line) /\ Head(pipe1) \in Pipe!Line
      /\ Len(pipe1') = Len(pipe1) - 1
      /\ Pipe!DirsIn(pipe1) = Pipe!DirsIn(pipe1') + IsDir(Head(pipe1))
  BY <1>1, PipeNumbers, DirTaken
<1>3. Len(pipe1') \in Nat /\ Len(pipe1') <= PipeLen /\ Pipe!DirsIn(pipe1') \in Nat
  BY <1>2, PipeNumbers, DirsAreFinite, LenProperties
<1>4. Seen = count + Pipe!DirsIn(pipe2) + Pipe!DirsIn(pipe1) + Pipe!DirsIn(entries)
  BY DEF Seen
<1>5. Seen' = count + Pipe!DirsIn(pipe2') + Pipe!DirsIn(pipe1') + Pipe!DirsIn(entries)
  BY <1>1 DEF Seen, Pipe!DirsIn
<1>6. IsDir(Head(pipe1)) \in {0, 1}
  BY DEF IsDir
<1>7. ASSUME pipe2' \in Seq(Pipe!Line), Len(pipe2') <= PipeLen,
             Pipe!DirsIn(pipe2') = Pipe!DirsIn(pipe2) + IsDir(Head(pipe1)),
             ~popen => \A k \in 1 .. Len(pipe2') : pipe2'[k] = "d"
      PROVE  PipeInv'
  <2>1. Pipe!TypeOK'
    BY <1>0, <1>1, <1>2, <1>3, <1>7 DEF Pipe!TypeOK
  <2>2. pipePc["wc"] # "end" /\ pipePc["ls"] # "start"
    BY <1>0, <1>1 DEF EndsInOrder
  <2>3. EndsInOrder'
    BY <1>0, <1>1, <2>2 DEF EndsInOrder
  <2>4. Seen' = Seen
    <3>1. /\ count \in Nat /\ Pipe!DirsIn(pipe2) \in Nat /\ Pipe!DirsIn(pipe1) \in Nat
          /\ Pipe!DirsIn(entries) \in Nat /\ Pipe!DirsIn(pipe1') \in Nat
      BY <1>3, PipeNumbers
    <3>2. Pipe!DirsIn(pipe1) = Pipe!DirsIn(pipe1') + IsDir(Head(pipe1))
      BY <1>2
    <3>3. Pipe!DirsIn(pipe2') = Pipe!DirsIn(pipe2) + IsDir(Head(pipe1))
      BY <1>7
    <3> QED BY <1>4, <1>5, <1>6, <3>1, <3>2, <3>3
  <2>5. DirsAccounted'
    BY <1>0, <1>1, <1>7, <2>4 DEF DirsAccounted
  <2> QED BY <2>1, <2>3, <2>5 DEF PipeInv
<1>8. CASE Pipe!Passed(Head(pipe1))
  <2>1. Pipe!HasRoom(pipe2) /\ pipe2' = Append(pipe2, Head(pipe1))
    BY <1>8 DEF Pipe!Filter
  <2>2. /\ pipe2' \in Seq(Pipe!Line) /\ Len(pipe2') = Len(pipe2) + 1
        /\ Pipe!DirsIn(pipe2') = Pipe!DirsIn(pipe2) + IsDir(Head(pipe1))
        /\ \A k \in 1 .. Len(pipe2) : pipe2'[k] = pipe2[k]
        /\ pipe2'[Len(pipe2) + 1] = Head(pipe1)
    BY <1>2, <2>1, PipeNumbers, DirAppended, AppendProperties
  <2>3. Len(pipe2') <= PipeLen
    BY <2>1, <2>2, PipeNumbers DEF Pipe!HasRoom
  <2>4. ASSUME ~popen, NEW k \in 1 .. Len(pipe2') PROVE pipe2'[k] = "d"
    <3>1. Head(pipe1) = "d"
      BY <1>8, <2>4 DEF Pipe!Passed
    <3>2. k \in 1 .. Len(pipe2) \/ k = Len(pipe2) + 1
      BY <2>2, PipeNumbers
    <3>3. k \in 1 .. Len(pipe2) => pipe2[k] = "d"
      BY <1>0, <2>4 DEF DirsAccounted
    <3> QED BY <2>2, <3>1, <3>2, <3>3
  <2> QED BY <1>7, <2>2, <2>3, <2>4
<1>9. CASE ~Pipe!Passed(Head(pipe1))
  <2>1. UNCHANGED pipe2 /\ IsDir(Head(pipe1)) = 0
    BY <1>9 DEF Pipe!Filter, Pipe!Passed, IsDir
  <2>2. Pipe!DirsIn(pipe2') = Pipe!DirsIn(pipe2) + IsDir(Head(pipe1))
    BY <2>1, PipeNumbers
  <2> QED BY <1>0, <1>7, <2>1, <2>2, PipeNumbers DEF DirsAccounted
<1> QED
  BY <1>8, <1>9

(* wc counts a line, which is a directory or is not counted.               *)
LEMMA CountedLine == ASSUME PipeInv, Pipe!Count PROVE PipeInv'
<1>0. Pipe!TypeOK /\ EndsInOrder /\ DirsAccounted
  BY DEF PipeInv
<1>1. /\ pipePc["wc"] = "loop" /\ pipe2 # <<>> /\ pipe2' = Tail(pipe2)
      /\ UNCHANGED <<popen, entries, pipe1, writers1, writers2, pipePc, dirs, gaveUp>>
  BY DEF Pipe!Count
<1>2. /\ pipe2' \in Seq(Pipe!Line) /\ Head(pipe2) = pipe2[1]
      /\ Len(pipe2') = Len(pipe2) - 1
      /\ Pipe!DirsIn(pipe2) = Pipe!DirsIn(pipe2') + IsDir(Head(pipe2))
  BY <1>1, PipeNumbers, DirTaken DEF Head
<1>3. /\ Len(pipe2') \in Nat /\ Len(pipe2') <= PipeLen /\ Pipe!DirsIn(pipe2') \in Nat
      /\ \A k \in 1 .. Len(pipe2') : pipe2'[k] = pipe2[k + 1]
  <2>1. /\ pipe2 \in Seq(Pipe!Line) /\ Len(pipe2) \in Nat /\ Len(pipe2) <= PipeLen
        /\ PipeLen \in Nat
    BY PipeNumbers
  <2>2. \A k \in 1 .. Len(pipe2') : pipe2'[k] = pipe2[k + 1]
    BY <1>1, <2>1, HeadTailProperties
  <2>3. Len(pipe2') \in Nat /\ Pipe!DirsIn(pipe2') \in Nat
    BY <1>2, DirsAreFinite, LenProperties
  <2>4. Len(pipe2') <= PipeLen
    BY <1>2, <2>1, <2>3
  <2> QED BY <2>2, <2>3, <2>4
<1>4. ~popen => \A k \in 1 .. Len(pipe2) : pipe2[k] = "d"
  BY <1>0 DEF DirsAccounted
<1>5. count' = count + IsDir(Head(pipe2))
  <2>1. 1 \in 1 .. Len(pipe2)
    BY <1>2, <1>3, PipeNumbers
  <2>2. ~popen => Head(pipe2) = "d"
    BY <1>2, <1>4, <2>1
  <2>3. CASE popen /\ Head(pipe2) # "d"
    BY <2>3, PipeNumbers DEF Pipe!Count, IsDir
  <2>4. CASE Head(pipe2) = "d"
    BY <2>4 DEF Pipe!Count, IsDir
  <2> QED BY <2>2, <2>3, <2>4
<1>6. IsDir(Head(pipe2)) \in {0, 1}
  BY DEF IsDir
<1>7. /\ count \in Nat /\ dirs \in Nat /\ MaxEntries \in Nat /\ dirs <= MaxEntries
       /\ Pipe!DirsIn(pipe2) \in Nat /\ Pipe!DirsIn(pipe1) \in Nat
       /\ Pipe!DirsIn(entries) \in Nat /\ Pipe!DirsIn(pipe2') \in Nat
       /\ IsDir(Head(pipe2)) \in {0, 1}
       /\ Pipe!DirsIn(pipe2) = Pipe!DirsIn(pipe2') + IsDir(Head(pipe2))
  BY <1>2, <1>3, <1>6, PipeNumbers
<1>8. Seen' = Seen
  <2>1. Seen = count + Pipe!DirsIn(pipe2) + Pipe!DirsIn(pipe1) + Pipe!DirsIn(entries)
    BY DEF Seen
  <2>2. Seen' = count' + Pipe!DirsIn(pipe2') + Pipe!DirsIn(pipe1) + Pipe!DirsIn(entries)
    BY <1>1 DEF Seen, Pipe!DirsIn
  <2> QED BY <1>5, <1>7, <2>1, <2>2
<1>9. DirsAccounted'
  <2>1. ~popen => \A k \in 1 .. Len(pipe2') : pipe2'[k] = "d"
    <3> SUFFICES ASSUME ~popen, NEW k \in 1 .. Len(pipe2') PROVE pipe2'[k] = "d"
      OBVIOUS
    <3>1. k + 1 \in 1 .. Len(pipe2)
      BY <1>2, <1>3, PipeNumbers
    <3> QED BY <1>3, <1>4, <3>1
  <2> QED BY <1>0, <1>1, <1>8, <2>1 DEF DirsAccounted
<1>10. count' \in 0 .. MaxEntries
  <2>1. Seen = count + Pipe!DirsIn(pipe2) + Pipe!DirsIn(pipe1) + Pipe!DirsIn(entries)
        /\ Seen <= dirs
    BY <1>0 DEF Seen, DirsAccounted
  <2> QED BY <1>5, <1>7, <2>1
<1>11. Pipe!TypeOK'
  BY <1>0, <1>1, <1>2, <1>3, <1>10 DEF Pipe!TypeOK
<1>12. EndsInOrder'
  BY <1>0, <1>1 DEF EndsInOrder
<1> QED
  BY <1>9, <1>11, <1>12 DEF PipeInv


(* A process that starts, closes its end of a pipe or sees its child end   *)
(* does so in order.                                                       *)
LEMMA PipeOrderStep ==
  ASSUME PipeInv,
         \/ Pipe!Fork2 \/ Pipe!StartWc \/ Pipe!EndList \/ Pipe!EndFilter
         \/ Pipe!EndCount \/ Pipe!Wait("ls") \/ Pipe!Wait("grep")
  PROVE  PipeInv'
<1>1. /\ EndsInOrder
      /\ popen \in BOOLEAN
      /\ pipePc \in [Pipe!Procs -> {"none", "start", "loop", "wait", "end"}]
      /\ writers1 \subseteq {"ls", "grep", "wc"} /\ writers2 \subseteq {"ls", "grep", "wc"}
  BY DEF PipeInv, Pipe!TypeOK, Pipe!Procs
<1>2. ASSUME NEW p \in {"ls", "grep", "wc"},
             NEW x \in {"none", "start", "loop", "wait", "end"},
             pipePc' = [pipePc EXCEPT ![p] = x]
      PROVE  /\ pipePc' \in [Pipe!Procs -> {"none", "start", "loop", "wait", "end"}]
             /\ pipePc'["ls"] = IF p = "ls" THEN x ELSE pipePc["ls"]
             /\ pipePc'["grep"] = IF p = "grep" THEN x ELSE pipePc["grep"]
             /\ pipePc'["wc"] = IF p = "wc" THEN x ELSE pipePc["wc"]
  BY <1>1, <1>2 DEF Pipe!Procs
<1>3. ASSUME UNCHANGED <<popen, entries, pipe1, pipe2, count, dirs, gaveUp>>,
             writers1' \subseteq {"ls", "grep", "wc"},
             writers2' \subseteq {"ls", "grep", "wc"},
             pipePc' \in [Pipe!Procs -> {"none", "start", "loop", "wait", "end"}],
             EndsInOrder'
      PROVE  PipeInv'
  BY <1>3, NoLineMoved DEF PipeInv, Pipe!Procs
<1>4. CASE Pipe!Fork2
  <2>1. /\ pipePc["grep"] = "start"
        /\ writers1' = writers1 \ {"grep"} /\ writers2' = {"grep", "wc"}
        /\ UNCHANGED <<popen, entries, pipe1, pipe2, count, dirs, gaveUp>>
    BY <1>4 DEF Pipe!Fork2, Pipe!GrepCloses
  <2>2. /\ pipePc' \in [Pipe!Procs -> {"none", "start", "loop", "wait", "end"}]
        /\ pipePc'["ls"] = pipePc["ls"] /\ pipePc'["grep"] = "loop"
        /\ pipePc'["wc"] = "start"
    BY <1>1, <1>4 DEF Pipe!Fork2, Pipe!Procs
  <2>3. EndsInOrder'
    BY <1>1, <2>1, <2>2 DEF EndsInOrder
  <2> QED BY <1>1, <1>3, <2>1, <2>2, <2>3
<1>5. CASE Pipe!StartWc
  <2>1. /\ pipePc["wc"] = "start" /\ writers1' = writers1 /\ writers2' = writers2 \ {"wc"}
        /\ pipePc' = [pipePc EXCEPT !["wc"] = "loop"]
        /\ UNCHANGED <<popen, entries, pipe1, pipe2, count, dirs, gaveUp>>
    BY <1>5 DEF Pipe!StartWc, Pipe!WcCloses
  <2>2. /\ pipePc' \in [Pipe!Procs -> {"none", "start", "loop", "wait", "end"}]
        /\ pipePc'["ls"] = pipePc["ls"] /\ pipePc'["grep"] = pipePc["grep"]
        /\ pipePc'["wc"] = "loop"
    BY <1>2, <2>1
  <2>3. EndsInOrder'
    BY <1>1, <2>1, <2>2 DEF EndsInOrder
  <2> QED BY <1>1, <1>3, <2>1, <2>2, <2>3
<1>6. CASE Pipe!EndList
  <2>1. /\ pipePc["ls"] = "loop" /\ entries = <<>>
        /\ writers1' = writers1 \ {"ls"} /\ writers2' = writers2
        /\ pipePc' = [pipePc EXCEPT !["ls"] = IF popen THEN "end" ELSE "wait"]
        /\ UNCHANGED <<popen, entries, pipe1, pipe2, count, dirs, gaveUp>>
    BY <1>6 DEF Pipe!EndList
  <2>2. /\ pipePc' \in [Pipe!Procs -> {"none", "start", "loop", "wait", "end"}]
        /\ pipePc'["grep"] = pipePc["grep"] /\ pipePc'["wc"] = pipePc["wc"]
        /\ pipePc'["ls"] \in {"wait", "end"} /\ (~popen => pipePc'["ls"] = "wait")
    BY <1>1, <2>1 DEF Pipe!Procs
  <2>3. EndsInOrder'
    BY <1>1, <2>1, <2>2 DEF EndsInOrder
  <2> QED BY <1>1, <1>3, <2>1, <2>2, <2>3
<1>7. CASE Pipe!EndFilter
  <2>1. /\ pipePc["grep"] = "loop" /\ pipe1 = <<>> /\ writers1 = {} /\ writers1' = {}
        /\ writers2' = writers2 \ {"grep"}
        /\ pipePc' = [pipePc EXCEPT !["grep"] = "wait"]
        /\ UNCHANGED <<popen, entries, pipe1, pipe2, count, dirs, gaveUp>>
    BY <1>7 DEF Pipe!EndFilter
  <2>2. /\ pipePc' \in [Pipe!Procs -> {"none", "start", "loop", "wait", "end"}]
        /\ pipePc'["ls"] = pipePc["ls"] /\ pipePc'["grep"] = "wait"
        /\ pipePc'["wc"] = pipePc["wc"]
    BY <1>2, <2>1
  <2>3. pipePc["wc"] # "end" /\ pipePc["ls"] \notin {"start", "loop"}
        /\ ~(pipePc["ls"] = "end" /\ ~popen /\ ~gaveUp)
    BY <1>1, <2>1 DEF EndsInOrder
  <2>4. EndsInOrder'
    BY <1>1, <2>1, <2>2, <2>3 DEF EndsInOrder
  <2> QED BY <1>1, <1>3, <2>1, <2>2, <2>4
<1>8. CASE Pipe!EndCount
  <2>1. /\ pipePc["wc"] = "loop" /\ pipe2 = <<>> /\ writers2 = {}
        /\ pipePc' = [pipePc EXCEPT !["wc"] = "end"]
        /\ UNCHANGED <<popen, entries, pipe1, pipe2, writers1, writers2, count, dirs, gaveUp>>
    BY <1>8 DEF Pipe!EndCount
  <2>2. /\ pipePc' \in [Pipe!Procs -> {"none", "start", "loop", "wait", "end"}]
        /\ pipePc'["ls"] = pipePc["ls"] /\ pipePc'["grep"] = pipePc["grep"]
        /\ pipePc'["wc"] = "end"
    BY <1>2, <2>1
  <2>3. EndsInOrder'
    BY <1>1, <2>1, <2>2 DEF EndsInOrder
  <2> QED BY <1>1, <1>3, <2>1, <2>2, <2>3
<1>9. CASE Pipe!Wait("ls")
  <2>1. /\ pipePc["ls"] = "wait" /\ pipePc["grep"] = "end"
        /\ pipePc' = [pipePc EXCEPT !["ls"] = "end"]
        /\ UNCHANGED <<popen, entries, pipe1, pipe2, writers1, writers2, count, dirs, gaveUp>>
    BY <1>9 DEF Pipe!Wait, Pipe!ForChild
  <2>2. /\ pipePc' \in [Pipe!Procs -> {"none", "start", "loop", "wait", "end"}]
        /\ pipePc'["ls"] = "end" /\ pipePc'["grep"] = pipePc["grep"]
        /\ pipePc'["wc"] = pipePc["wc"]
    BY <1>2, <2>1
  <2>3. EndsInOrder'
    BY <1>1, <2>1, <2>2 DEF EndsInOrder
  <2> QED BY <1>1, <1>3, <2>1, <2>2, <2>3
<1>10. CASE Pipe!Wait("grep")
  <2>1. /\ pipePc["grep"] = "wait" /\ pipePc["wc"] = "end"
        /\ pipePc' = [pipePc EXCEPT !["grep"] = "end"]
        /\ UNCHANGED <<popen, entries, pipe1, pipe2, writers1, writers2, count, dirs, gaveUp>>
    BY <1>10 DEF Pipe!Wait, Pipe!ForChild
  <2>2. /\ pipePc' \in [Pipe!Procs -> {"none", "start", "loop", "wait", "end"}]
        /\ pipePc'["ls"] = pipePc["ls"] /\ pipePc'["grep"] = "end"
        /\ pipePc'["wc"] = pipePc["wc"]
    BY <1>2, <2>1
  <2>3. EndsInOrder'
    BY <1>1, <2>1, <2>2 DEF EndsInOrder
  <2> QED BY <1>1, <1>3, <2>1, <2>2, <2>3
<1> QED
  BY <1>4, <1>5, <1>6, <1>7, <1>8, <1>9, <1>10

(* Every step of the pipes keeps their invariant.                          *)
LEMMA PipeInvStep == PipeInv /\ [Pipe!Next]_Pipe!vars => PipeInv'
<1> SUFFICES ASSUME PipeInv, [Pipe!Next]_Pipe!vars PROVE PipeInv'
  OBVIOUS
<1>1. CASE UNCHANGED Pipe!vars
  <2>1. /\ UNCHANGED <<popen, entries, pipe1, pipe2, count, dirs, gaveUp>>
        /\ UNCHANGED <<writers1, writers2, pipePc>>
    BY <1>1 DEF Pipe!vars
  <2>2. Pipe!TypeOK' /\ DirsAccounted'
    BY <2>1, NoLineMoved DEF PipeInv, Pipe!TypeOK
  <2>3. EndsInOrder'
    BY <2>1 DEF PipeInv, EndsInOrder
  <2> QED BY <2>2, <2>3 DEF PipeInv
<1> QED
  BY <1>1, ForkedPipes, ListedLine, FilteredLine, CountedLine, PipeOrderStep
    DEF Pipe!Next

(* When the first process has ended nothing is on its way.                 *)
LEMMA PipeInvSound == PipeInv => Pipe!TypeOK /\ Pipe!CountIsComplete
<1> SUFFICES ASSUME PipeInv, pipePc[IF popen THEN "grep" ELSE "ls"] = "end", ~gaveUp
             PROVE  pipePc["wc"] = "end" /\ count = dirs
  BY DEF PipeInv, Pipe!CountIsComplete
<1>1. pipePc["grep"] = "end"
  <2>1. CASE popen
    BY <2>1
  <2>2. CASE ~popen
    BY <2>2 DEF PipeInv, EndsInOrder
  <2> QED BY <2>1, <2>2
<1>2. pipePc["wc"] = "end" /\ pipe2 = <<>> /\ pipe1 = <<>> /\ writers1 = {}
  BY <1>1 DEF PipeInv, EndsInOrder
<1>3. entries = <<>>
  <2>1. pipePc["ls"] \in {"none", "start", "loop", "wait", "end"}
    BY DEF PipeInv, Pipe!TypeOK, Pipe!Procs
  <2> QED BY <1>2, <2>1 DEF PipeInv, EndsInOrder
<1>4. count + Pipe!DirsIn(pipe2) + Pipe!DirsIn(pipe1) + Pipe!DirsIn(entries) = dirs
  BY DEF PipeInv, DirsAccounted, Seen
<1>5. Pipe!DirsIn(pipe2) = 0 /\ Pipe!DirsIn(pipe1) = 0 /\ Pipe!DirsIn(entries) = 0
  BY <1>2, <1>3, NoDirs
<1>6. count \in Nat /\ dirs \in Nat
  BY PipeNumbers
<1> QED
  BY <1>2, <1>4, <1>5, <1>6

(* A message printed from the FIFO begins with its header unless the read  *)
(* before was full, only lines of late writers are lost, and what wc (or   *)
(* the file of zad3) counts are all the directories of the listing.        *)
THEOREM PipesAreSound == Fifos!Spec /\ Pipe!Spec => []PipesSound
<1>1. FifoInv /\ PipeInv => PipesSound
  BY PipeInvSound DEF PipesSound, FifoInv
<1> QED
  BY <1>1, FifoInvInit, FifoInvStep, PipeInvInit, PipeInvStep, PTL
    DEF Fifos!Spec, Fifos!vars, Pipe!Spec, Pipe!vars

-----------------------------------------------------------------------------
(* Signals and threads.  Until main has read its arguments there is no     *)
(* thread, and only one that was created has started.                      *)
SigOrder ==
  /\ signalMain = "arguments" => created = 0
  /\ signalMain # "arguments" => test # 0
  /\ signalMain = "create" => created < NumThreads
  /\ \A t \in Signals!Threads : signalPc[t] # "start" => t <= created

(* The signal does not have its default action any more once main has      *)
(* called signal() in tests 2 and 3, or a thread in tests 4 and 5.         *)
SigPrepared ==
  /\ signalMain = "send" /\ test \in {2, 3} => action # "default"
  /\ test \in {4, 5} /\ sig \in Signals!Catchable
     /\ (\E t \in Signals!Threads : signalPc[t] # "start") => action # "default"

(* Who is between lock and unlock holds the mutex.                         *)
SigHolder ==
  \A t \in Signals!Threads : mutex = t <=> signalPc[t] \in {"read", "rewind", "unlock"}

(* After a read that found nothing the file is at its start, or the reader *)
(* is about to set it there.                                               *)
SigRewound ==
  NumRecords > 0 /\ Records > 0 =>
    /\ empty <= 1
    /\ empty = 1 => offset = 0 \/ \E t \in Signals!Threads : signalPc[t] = "rewind"

(* The inductive invariant of the threads and their signals.               *)
SigInv == /\ Signals!TypeOK /\ SigOrder /\ SigPrepared /\ SigHolder /\ SigRewound
          /\ Signals!KilledUnpreparedOnly

(* At the start there is no thread.                                        *)
LEMMA SigInvInit == Signals!Init => SigInv
<1> SUFFICES ASSUME Signals!Init PROVE SigInv
  OBVIOUS
<1>1. /\ test = 0 /\ sig = "SIGUSR1" /\ signalMain = "arguments" /\ created = 0
      /\ running = FALSE /\ process = "alive" /\ action = "default"
      /\ mutex = -1 /\ offset = 0 /\ empty = 0 /\ handling = -1 /\ outcome = ""
      /\ signalPc \in [Signals!Threads -> {"start", "wait", "malloc", "lock", "read",
                                           "rewind", "unlock"}]
      /\ \A t \in Signals!Threads : signalPc[t] = "start"
  BY DEF Signals!Init, Signals!Nobody
<1>2. \A t \in Signals!Threads : t \in Nat /\ t >= 1
  BY DEF Signals!Threads
<1>3. Signals!TypeOK
  <2>1. 0 \in 0 .. NumThreads /\ 0 \in 0 .. Records /\ 0 \in 0 .. 6
    BY ThreadAssumption
  <2> QED BY <1>1, <2>1 DEF Signals!TypeOK, Signals!Signals, Signals!Nobody, Signals!Division
<1>4. SigOrder /\ SigPrepared
  BY <1>1 DEF SigOrder, SigPrepared
<1>5. SigHolder
  <2> SUFFICES ASSUME NEW t \in Signals!Threads
               PROVE  mutex = t <=> signalPc[t] \in {"read", "rewind", "unlock"}
    BY DEF SigHolder
  <2>1. mutex # t
    <3>1. mutex = -1
      BY <1>1
    <3> QED BY <1>2, <3>1
  <2>2. signalPc[t] = "start"
    BY <1>1
  <2> QED BY <2>1, <2>2
<1>6. SigRewound /\ Signals!KilledUnpreparedOnly
  <2>1. empty = 0 /\ process = "alive"
    BY <1>1
  <2> QED BY <2>1 DEF SigRewound, Signals!KilledUnpreparedOnly
<1> QED
  BY <1>3, <1>4, <1>5, <1>6 DEF SigInv

(* Ranges of what a step may change.                                       *)
LEMMA SigPlain ==
  ASSUME SigInv
  PROVE  /\ test \in 0 .. 6 /\ sig \in Signals!Signals
         /\ created \in Nat /\ created <= NumThreads /\ NumThreads \in Nat /\ NumThreads >= 1
         /\ offset \in Nat /\ offset <= Records /\ Records \in Nat /\ NumRecords \in Nat
         /\ empty \in Nat
         /\ signalPc \in [Signals!Threads -> {"start", "wait", "malloc", "lock", "read",
                                              "rewind", "unlock"}]
<1>1. /\ test \in 0 .. 6 /\ sig \in Signals!Signals /\ empty \in Nat
      /\ signalPc \in [Signals!Threads -> {"start", "wait", "malloc", "lock", "read",
                                           "rewind", "unlock"}]
      /\ created \in 0 .. NumThreads /\ offset \in 0 .. Records
  BY DEF SigInv, Signals!TypeOK, Signals!Division
<1>2. /\ created \in Nat /\ created <= NumThreads /\ offset \in Nat /\ offset <= Records
  BY <1>1, ThreadAssumption
<1> QED
  BY <1>1, <1>2, ThreadAssumption

(* A step of main or of the handler leaves the threads where they are.     *)
LEMMA SigMainKept ==
  ASSUME SigInv, UNCHANGED <<signalPc, mutex, offset, empty>>,
         test' \in 0 .. 6, sig' \in Signals!Signals,
         signalMain' \in {"arguments", "create", "open", "dispose", "send", "join"},
         created' \in 0 .. NumThreads, running' \in BOOLEAN,
         process' \in {"alive", "killed", "stopped", "exited"},
         action' \in {"default", "ignore", "handler"},
         handling' \in Signals!Threads \cup {Signals!Main, Signals!Nobody},
         outcome' \in {"", "sent", "printed"},
         SigOrder', SigPrepared', Signals!KilledUnpreparedOnly'
  PROVE  SigInv'
<1>1. Signals!TypeOK'
  BY DEF SigInv, Signals!TypeOK, Signals!Division
<1>2. SigHolder'
  BY DEF SigInv, SigHolder
<1>3. SigRewound'
  BY DEF SigInv, SigRewound
<1> QED
  BY <1>1, <1>2, <1>3 DEF SigInv

(* The steps of main and of the handler.                                   *)
LEMMA SigMainStep ==
  ASSUME SigInv, process = "alive", Signals!MainStep \/ Signals!Handle
  PROVE  SigInv'
<1>1. /\ Signals!TypeOK /\ SigOrder /\ SigPrepared /\ Signals!KilledUnpreparedOnly
  BY DEF SigInv
<1>2. /\ test \in 0 .. 6 /\ sig \in Signals!Signals
      /\ signalMain \in {"arguments", "create", "open", "dispose", "send", "join"}
      /\ created \in 0 .. NumThreads /\ running \in BOOLEAN
      /\ action \in {"default", "ignore", "handler"}
      /\ handling \in Signals!Threads \cup {Signals!Main, Signals!Nobody}
      /\ outcome \in {"", "sent", "printed"}
  BY <1>1 DEF Signals!TypeOK, Signals!Division
<1>3. \A t \in Signals!Threads : t \in Nat /\ t >= 1
  BY DEF Signals!Threads
<1>4. CASE Signals!Arguments
  <2>1. /\ signalMain = "arguments" /\ signalMain' = "create"
        /\ test' \in Signals!Tests \cup {Signals!Division} /\ sig' \in Signals!Signals
        /\ UNCHANGED <<created, running, process, signalPc, mutex, offset, empty,
                       action, handling, outcome>>
    BY <1>4 DEF Signals!Arguments, Signals!fileVars, Signals!signalVars
  <2>2. test' \in 0 .. 6 /\ test' # 0
    BY <2>1 DEF Signals!Tests, Signals!Division
  <2>3. created = 0 /\ created < NumThreads
    BY <1>1, <2>1, ThreadAssumption DEF SigOrder
  <2>4. \A t \in Signals!Threads : signalPc[t] = "start"
    BY <1>1, <1>3, <2>3 DEF SigOrder
  <2>5. SigOrder' /\ SigPrepared' /\ Signals!KilledUnpreparedOnly'
    BY <2>1, <2>2, <2>3, <2>4 DEF SigOrder, SigPrepared, Signals!KilledUnpreparedOnly
  <2> QED BY <1>2, <2>1, <2>2, <2>5, SigMainKept
<1>5. CASE Signals!Create
  <2>1. /\ signalMain = "create" /\ created' = created + 1
        /\ signalMain' \in {"create", "open"} /\ (signalMain' = "create" => created' # NumThreads)
        /\ UNCHANGED <<test, sig, running, process, signalPc, mutex, offset, empty,
                       action, handling, outcome>>
    BY <1>5 DEF Signals!Create, Signals!fileVars, Signals!signalVars
  <2>2. created < NumThreads /\ test # 0
    BY <1>1, <2>1 DEF SigOrder
  <2>3. created \in Nat /\ NumThreads \in Nat
    BY SigPlain
  <2>4. /\ created' \in 0 .. NumThreads
        /\ signalMain' = "create" => created' < NumThreads
        /\ \A t \in Signals!Threads : t <= created => t <= created'
    BY <1>3, <2>1, <2>2, <2>3
  <2>5. SigOrder'
    BY <1>1, <2>1, <2>2, <2>4 DEF SigOrder
  <2>6. SigPrepared' /\ Signals!KilledUnpreparedOnly'
    BY <1>1, <2>1 DEF SigPrepared, Signals!KilledUnpreparedOnly
  <2> QED BY <1>2, <2>1, <2>4, <2>5, <2>6, SigMainKept
<1>6. CASE Signals!OpenBarrier
  <2>1. /\ signalMain = "open" /\ running' = TRUE
        /\ signalMain' \in {"dispose", "join", "send"}
        /\ signalMain' = "send" => test \notin {2, 3}
        /\ UNCHANGED <<test, sig, created, process, signalPc, mutex, offset, empty,
                       action, handling, outcome>>
    BY <1>6 DEF Signals!OpenBarrier, Signals!AfterOpening, Signals!fileVars,
                Signals!signalVars
  <2>2. SigOrder' /\ SigPrepared' /\ Signals!KilledUnpreparedOnly'
    BY <1>1, <2>1 DEF SigOrder, SigPrepared, Signals!KilledUnpreparedOnly
  <2> QED BY <1>2, <2>1, <2>2, SigMainKept
<1>7. CASE Signals!Dispose
  <2>1. /\ signalMain = "dispose"
        /\ UNCHANGED <<test, sig, created, running, signalPc, mutex, offset, empty,
                       handling, outcome>>
        /\ \/ action' \in {"ignore", "handler"} /\ signalMain' = "send" /\ process' = process
           \/ process' = "exited" /\ action' = action /\ signalMain' = signalMain
    <3>1. CASE sig \in Signals!Catchable
      BY <1>7, <3>1 DEF Signals!Dispose, Signals!fileVars
    <3>2. CASE sig \notin Signals!Catchable
      BY <1>7, <3>2 DEF Signals!Dispose, Signals!fileVars
    <3> QED BY <3>1, <3>2
  <2>2. SigOrder' /\ SigPrepared' /\ Signals!KilledUnpreparedOnly'
    BY <1>1, <2>1 DEF SigOrder, SigPrepared, Signals!KilledUnpreparedOnly
  <2> QED BY <1>2, <2>1, <2>2, SigMainKept
<1>8. CASE Signals!Send
  <2>1. /\ signalMain = "send" /\ signalMain' = "join" /\ outcome' = "sent"
        /\ UNCHANGED <<test, sig, created, running, action, signalPc, mutex, offset, empty>>
    BY <1>8 DEF Signals!Send, Signals!fileVars
  <2>2. /\ process' \in {"alive", "killed", "stopped"}
        /\ process' = "killed" => action = "default"
    BY <1>8 DEF Signals!Send
  <2>3. handling' \in Signals!Threads \cup {Signals!Main, Signals!Nobody}
    <3>1. CASE action = "handler"
      BY <1>8, <3>1 DEF Signals!Send, Signals!Candidates
    <3>2. CASE action # "handler"
      BY <1>2, <1>8, <3>2 DEF Signals!Send
    <3> QED BY <3>1, <3>2
  <2>4. SigOrder' /\ SigPrepared'
    BY <1>1, <2>1 DEF SigOrder, SigPrepared
  <2>5. Signals!KilledUnpreparedOnly'
    <3> SUFFICES ASSUME process' = "killed", sig \in Signals!Catchable,
                        test # Signals!Division, test # 1
                 PROVE  test \in {4, 5} /\ \A t \in Signals!Threads : signalPc[t] = "start"
      BY <2>1 DEF Signals!KilledUnpreparedOnly
    <3>1. action = "default" /\ test # 0 /\ test \notin {2, 3}
      BY <1>1, <2>1, <2>2 DEF SigOrder, SigPrepared
    <3>2. test \in {4, 5}
      <4>1. test \in 0 .. 6
        BY <1>2
      <4>2. test # 0 /\ test # 1 /\ test # 2 /\ test # 3 /\ test # 6
        BY <3>1 DEF Signals!Division
      <4> QED BY <4>1, <4>2
    <3> QED BY <1>1, <3>1, <3>2 DEF SigPrepared
  <2> QED BY <1>2, <2>1, <2>2, <2>3, <2>4, <2>5, SigMainKept
<1>9. CASE Signals!Handle
  <2>1. /\ handling' = Signals!Nobody /\ outcome' = "printed"
        /\ UNCHANGED <<test, sig, signalMain, created, running, process, action, signalPc,
                       mutex, offset, empty>>
    BY <1>9 DEF Signals!Handle, Signals!mainVars, Signals!fileVars
  <2>2. SigOrder' /\ SigPrepared' /\ Signals!KilledUnpreparedOnly'
    BY <1>1, <2>1 DEF SigOrder, SigPrepared, Signals!KilledUnpreparedOnly
  <2> QED BY <1>2, <2>1, <2>2, SigMainKept
<1> QED
  BY <1>4, <1>5, <1>6, <1>7, <1>8, <1>9 DEF Signals!MainStep


(* Where the threads are after one has moved.                              *)
LEMMA SigMoved ==
  ASSUME SigInv, NEW t \in Signals!Threads, NEW from,
         NEW to \in {"wait", "malloc", "lock", "read", "rewind", "unlock"},
         Signals!Moves(t, from, to)
  PROVE  /\ signalPc' \in [Signals!Threads -> {"start", "wait", "malloc", "lock", "read",
                                               "rewind", "unlock"}]
         /\ signalPc[t] = from /\ signalPc'[t] = to /\ t <= created
         /\ \A u \in Signals!Threads : u # t => signalPc'[u] = signalPc[u]
<1>1. /\ signalPc[t] = from /\ t <= created /\ signalPc' = [signalPc EXCEPT ![t] = to]
  BY DEF Signals!Moves
<1>2. signalPc \in [Signals!Threads -> {"start", "wait", "malloc", "lock", "read",
                                        "rewind", "unlock"}]
  BY SigPlain
<1> QED
  BY <1>1, <1>2

(* A thread that has started moves on: what is left to show is the mutex   *)
(* and the file.                                                           *)
LEMMA SigThreadKept ==
  ASSUME SigInv, process = "alive", NEW t \in Signals!Threads, NEW from, from # "start",
         NEW to \in {"wait", "malloc", "lock", "read", "rewind", "unlock"},
         Signals!Moves(t, from, to),
         UNCHANGED <<test, sig, signalMain, created, running, process, action, handling,
                     outcome>>,
         mutex' \in Signals!Threads \cup {Signals!Nobody},
         offset' \in 0 .. Records, empty' \in Nat, SigHolder', SigRewound'
  PROVE  SigInv'
<1>1. /\ signalPc' \in [Signals!Threads -> {"start", "wait", "malloc", "lock", "read",
                                            "rewind", "unlock"}]
      /\ signalPc[t] = from /\ signalPc'[t] = to /\ t <= created
      /\ \A u \in Signals!Threads : u # t => signalPc'[u] = signalPc[u]
  BY SigMoved
<1>2. Signals!TypeOK'
  BY <1>1 DEF SigInv, Signals!TypeOK
<1>3. SigOrder'
  BY <1>1 DEF SigInv, SigOrder
<1>4. SigPrepared'
  BY <1>1 DEF SigInv, SigPrepared
<1>5. Signals!KilledUnpreparedOnly'
  BY DEF Signals!KilledUnpreparedOnly
<1> QED
  BY <1>2, <1>3, <1>4, <1>5 DEF SigInv

(* A thread that calls signal() changes what is done with the signal.      *)
LEMMA SigSetUp ==
  ASSUME SigInv, process = "alive", NEW t \in Signals!Threads, Signals!SetUp(t)
  PROVE  SigInv'
<1>1. /\ UNCHANGED <<test, sig, signalMain, created, running, mutex, offset, empty,
                     handling, outcome>>
      /\ process' = IF test = 6 /\ t = 1 THEN "killed" ELSE process
      /\ Signals!Moves(t, "start", "wait")
  BY DEF Signals!SetUp, Signals!mainVars, Signals!fileVars, Signals!Division
<1>2. /\ signalPc' \in [Signals!Threads -> {"start", "wait", "malloc", "lock", "read",
                                            "rewind", "unlock"}]
      /\ signalPc[t] = "start" /\ signalPc'[t] = "wait" /\ t <= created
      /\ \A u \in Signals!Threads : u # t => signalPc'[u] = signalPc[u]
  BY <1>1, SigMoved
<1>3. /\ action' \in {"default", "ignore", "handler"}
      /\ action' = "default" => action = "default"
      /\ test \in {4, 5} /\ sig \in Signals!Catchable => action' # "default"
  <2>1. action \in {"default", "ignore", "handler"}
    BY DEF SigInv, Signals!TypeOK
  <2>2. CASE sig \in Signals!Catchable /\ test \in {3, 5}
    <3>1. action' = "handler"
      BY <2>2 DEF Signals!SetUp
    <3> QED BY <3>1
  <2>3. CASE sig \in Signals!Catchable /\ test = 4
    <3>1. action' = "ignore"
      BY <2>3 DEF Signals!SetUp
    <3> QED BY <3>1
  <2>4. CASE ~(sig \in Signals!Catchable /\ test \in {3, 4, 5})
    <3>1. action' = action
      BY <2>4 DEF Signals!SetUp
    <3> QED BY <2>1, <2>4, <3>1
  <2> QED BY <2>2, <2>3, <2>4
<1>4. process' \in {"alive", "killed"} /\ (process' = "killed" => test = 6)
  BY <1>1
<1>5. Signals!TypeOK'
  BY <1>1, <1>2, <1>3, <1>4 DEF SigInv, Signals!TypeOK
<1>6. SigOrder'
  BY <1>1, <1>2 DEF SigInv, SigOrder
<1>7. SigPrepared'
  BY <1>1, <1>3 DEF SigInv, SigPrepared
<1>8. SigHolder'
  BY <1>1, <1>2 DEF SigInv, SigHolder
<1>9. SigRewound'
  BY <1>1, <1>2 DEF SigInv, SigRewound
<1>10. Signals!KilledUnpreparedOnly'
  BY <1>1, <1>4 DEF Signals!KilledUnpreparedOnly, Signals!Division
<1> QED
  BY <1>5, <1>6, <1>7, <1>8, <1>9, <1>10 DEF SigInv

(* The reader that holds the mutex moves the position, and is the only one *)
(* between lock and unlock: after an empty read it is the one to rewind.   *)
LEMMA SigRead ==
  ASSUME SigInv, process = "alive", NEW t \in Signals!Threads, Signals!Read(t)
  PROVE  SigInv'
<1> DEFINE n == Signals!Least(NumRecords, Records - offset)
           to == IF n < NumRecords THEN "rewind" ELSE "unlock"
<1>1. /\ Signals!Moves(t, "read", to) /\ offset' = offset + n
      /\ empty' = IF n = 0 THEN empty + 1 ELSE 0
      /\ UNCHANGED <<test, sig, signalMain, created, running, process, mutex, action,
                     handling, outcome>>
  BY DEF Signals!Read, Signals!mainVars, Signals!signalVars
<1>2. /\ offset \in Nat /\ offset <= Records /\ Records \in Nat /\ NumRecords \in Nat
      /\ empty \in Nat
  BY SigPlain
<1>3. /\ n \in Nat /\ offset + n <= Records
      /\ NumRecords > 0 /\ n = 0 => offset = Records
  BY <1>2 DEF Signals!Least
<1>4. to \in {"rewind", "unlock"} /\ (n < NumRecords => to = "rewind")
  OBVIOUS
<1> HIDE DEF n, to
<1>5. /\ signalPc[t] = "read" /\ signalPc'[t] = to
      /\ \A u \in Signals!Threads : u # t => signalPc'[u] = signalPc[u]
  BY <1>1, <1>4, SigMoved
<1>6. offset' \in 0 .. Records /\ empty' \in Nat
  <2>1. offset + n \in 0 .. Records
    BY <1>2, <1>3
  <2>2. CASE n = 0
    BY <1>1, <1>2, <2>1, <2>2
  <2>3. CASE n # 0
    BY <1>1, <2>1, <2>3
  <2> QED BY <2>2, <2>3
<1>7. SigHolder'
  BY <1>1, <1>4, <1>5 DEF SigInv, SigHolder
<1>8. SigRewound'
  <2> SUFFICES ASSUME NumRecords > 0, Records > 0
               PROVE  /\ empty' <= 1
                      /\ empty' = 1 => \E u \in Signals!Threads : signalPc'[u] = "rewind"
    BY DEF SigRewound
  <2>1. CASE n # 0
    <3>1. empty' = 0
      BY <1>1, <2>1
    <3> QED BY <3>1
  <2>2. CASE n = 0
    <3>1. \A u \in Signals!Threads : signalPc[u] # "rewind"
      BY <1>5 DEF SigInv, SigHolder
    <3>2. offset # 0
      BY <1>2, <1>3, <2>2
    <3>3. empty <= 1 /\ empty # 1
      BY <3>1, <3>2 DEF SigInv, SigRewound
    <3>4. empty' = 1
      BY <1>1, <1>2, <2>2, <3>3
    <3>5. signalPc'[t] = "rewind"
      BY <1>2, <1>4, <1>5, <2>2
    <3> QED BY <3>4, <3>5
  <2> QED BY <2>1, <2>2
<1> QED
  <2>1. mutex' \in Signals!Threads \cup {Signals!Nobody}
    BY <1>1 DEF SigInv, Signals!TypeOK
  <2> QED BY <1>1, <1>4, <1>6, <1>7, <1>8, <2>1, SigThreadKept

(* The other steps of a thread.                                            *)
LEMMA SigThreadStep ==
  ASSUME SigInv, process = "alive", NEW t \in Signals!Threads, Signals!ThreadStep(t)
  PROVE  SigInv'
<1>1. /\ mutex \in Signals!Threads \cup {Signals!Nobody}
      /\ offset \in 0 .. Records /\ empty \in Nat /\ SigHolder /\ SigRewound
  BY DEF SigInv, Signals!TypeOK
<1>2. 0 \in 0 .. Records
  BY ThreadAssumption
<1>3. \A u \in Signals!Threads : u # Signals!Nobody
  BY DEF Signals!Threads, Signals!Nobody
<1>4. CASE Signals!PassBarrier(t) \/ Signals!Allocated(t)
  <2>1. PICK from \in {"wait", "malloc"}, to \in {"malloc", "lock"} :
          Signals!Moves(t, from, to)
    BY <1>4 DEF Signals!PassBarrier, Signals!Allocated
  <2>2. UNCHANGED <<test, sig, signalMain, created, running, process, mutex, offset, empty,
                    action, handling, outcome>>
    BY <1>4 DEF Signals!PassBarrier, Signals!Allocated, Signals!mainVars,
                Signals!fileVars, Signals!signalVars
  <2>3. /\ signalPc[t] = from /\ signalPc'[t] = to
        /\ \A u \in Signals!Threads : u # t => signalPc'[u] = signalPc[u]
    BY <2>1, SigMoved
  <2>4. SigHolder' /\ SigRewound'
    BY <1>1, <2>2, <2>3 DEF SigHolder, SigRewound
  <2> QED BY <1>1, <2>1, <2>2, <2>4, SigThreadKept
<1>5. CASE Signals!Lock(t)
  <2>1. /\ mutex = Signals!Nobody /\ mutex' = t /\ Signals!Moves(t, "lock", "read")
        /\ UNCHANGED <<test, sig, signalMain, created, running, process, offset, empty,
                       action, handling, outcome>>
    BY <1>5 DEF Signals!Lock, Signals!Unlocked, Signals!mainVars, Signals!signalVars
  <2>2. /\ signalPc[t] = "lock" /\ signalPc'[t] = "read"
        /\ \A u \in Signals!Threads : u # t => signalPc'[u] = signalPc[u]
    BY <2>1, SigMoved
  <2>3. SigHolder'
    BY <1>1, <1>3, <2>1, <2>2 DEF SigHolder
  <2>4. SigRewound'
    BY <1>1, <2>1, <2>2 DEF SigRewound
  <2> QED BY <1>1, <2>1, <2>3, <2>4, SigThreadKept
<1>6. CASE Signals!Rewind(t)
  <2>1. /\ offset' = 0 /\ Signals!Moves(t, "rewind", "unlock")
        /\ UNCHANGED <<test, sig, signalMain, created, running, process, mutex, empty,
                       action, handling, outcome>>
    BY <1>6 DEF Signals!Rewind, Signals!mainVars, Signals!signalVars
  <2>2. /\ signalPc[t] = "rewind" /\ signalPc'[t] = "unlock"
        /\ \A u \in Signals!Threads : u # t => signalPc'[u] = signalPc[u]
    BY <2>1, SigMoved
  <2>3. SigHolder'
    BY <1>1, <2>1, <2>2 DEF SigHolder
  <2>4. SigRewound'
    BY <1>1, <2>1 DEF SigRewound
  <2> QED BY <1>1, <1>2, <2>1, <2>3, <2>4, SigThreadKept
<1>7. CASE Signals!Unlock(t)
  <2>1. /\ mutex' = Signals!Nobody /\ Signals!Moves(t, "unlock", "lock")
        /\ UNCHANGED <<test, sig, signalMain, created, running, process, offset, empty,
                       action, handling, outcome>>
    BY <1>7 DEF Signals!Unlock, Signals!mainVars, Signals!signalVars
  <2>2. /\ signalPc[t] = "unlock" /\ signalPc'[t] = "lock"
        /\ \A u \in Signals!Threads : u # t => signalPc'[u] = signalPc[u]
    BY <2>1, SigMoved
  <2>3. mutex = t
    BY <1>1, <2>2 DEF SigHolder
  <2>4. SigHolder'
    BY <1>1, <1>3, <2>1, <2>2, <2>3 DEF SigHolder
  <2>5. SigRewound'
    BY <1>1, <2>1, <2>2 DEF SigRewound
  <2> QED BY <1>1, <2>1, <2>4, <2>5, SigThreadKept
<1> QED
  BY <1>4, <1>5, <1>6, <1>7, SigSetUp, SigRead DEF Signals!ThreadStep

(* Every step keeps the invariant.                                         *)
LEMMA SigInvStep == SigInv /\ [Signals!Next]_Signals!vars => SigInv'
<1> SUFFICES ASSUME SigInv, [Signals!Next]_Signals!vars PROVE SigInv'
  OBVIOUS
<1>1. CASE UNCHANGED Signals!vars
  <2>1. UNCHANGED <<test, sig, signalMain, created, running, process, signalPc, mutex,
                    offset, empty, action, handling, outcome>>
    BY <1>1 DEF Signals!vars, Signals!mainVars, Signals!fileVars, Signals!signalVars
  <2>2. Signals!TypeOK' /\ Signals!KilledUnpreparedOnly'
    <3>1. Signals!TypeOK /\ Signals!KilledUnpreparedOnly
      BY DEF SigInv
    <3>2. Signals!TypeOK'
      <4>1. /\ test' \in 0 .. Signals!Division /\ created' \in 0 .. NumThreads
            /\ offset' \in 0 .. Records /\ empty' \in Nat
        BY <2>1, <3>1 DEF Signals!TypeOK
      <4>2. /\ signalPc' \in [Signals!Threads -> {"start", "wait", "malloc", "lock", "read",
                                                  "rewind", "unlock"}]
            /\ mutex' \in Signals!Threads \cup {Signals!Nobody}
            /\ handling' \in Signals!Threads \cup {Signals!Main, Signals!Nobody}
        BY <2>1, <3>1 DEF Signals!TypeOK
      <4>3. /\ sig' \in Signals!Signals /\ running' \in BOOLEAN
            /\ signalMain' \in {"arguments", "create", "open", "dispose", "send", "join"}
            /\ process' \in {"alive", "killed", "stopped", "exited"}
            /\ action' \in {"default", "ignore", "handler"}
            /\ outcome' \in {"", "sent", "printed"}
        BY <2>1, <3>1 DEF Signals!TypeOK
      <4> QED BY <4>1, <4>2, <4>3 DEF Signals!TypeOK
    <3>3. Signals!KilledUnpreparedOnly'
      BY <2>1, <3>1 DEF Signals!KilledUnpreparedOnly
    <3> QED BY <3>2, <3>3
  <2>3. SigOrder' /\ SigPrepared'
    BY <2>1 DEF SigInv, SigOrder, SigPrepared
  <2>4. SigHolder' /\ SigRewound'
    BY <2>1 DEF SigInv, SigHolder, SigRewound
  <2> QED BY <2>2, <2>3, <2>4 DEF SigInv
<1> QED
  BY <1>1, SigMainStep, SigThreadStep DEF Signals!Next

(* A signal kills the process only where nothing has been set for it, and  *)
(* no two reads in a row find the end of the file.                         *)
THEOREM SignalsAreSound == Signals!Spec => []SignalsSound
<1>1. SigInv => SignalsSound
  BY DEF SigInv, SignalsSound, SigRewound, Signals!NoTwoEmptyReads
<1> QED
  BY <1>1, SigInvInit, SigInvStep, PTL DEF Signals!Spec, Signals!vars

=============================================================================
