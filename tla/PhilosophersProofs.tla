------------------------- MODULE PhilosophersProofs -------------------------
(***************************************************************************)
(* What holds at every table: for any number of philosophers from two on,  *)
(* any number of courses and any number of spurious wake-ups.              *)
(***************************************************************************)
EXTENDS Philosophers, TLAPS

(* The two forks of a philosopher are two different forks of the table.    *)
LEMMA ForksOfPhilosopher ==
  ASSUME NEW p \in P
  PROVE  FirstFork(p) \in P /\ SecondFork(p) \in P /\ FirstFork(p) # SecondFork(p)
  BY NAssumption DEF P, FirstFork, SecondFork, ForkOrder

(* A fork lies between two philosophers, so of three that reach for it two *)
(* are the same.                                                           *)
LEMMA TwoShareAFork ==
  ASSUME NEW f \in P, NEW p \in P, NEW q \in P, NEW r \in P,
         f = FirstFork(p) \/ f = SecondFork(p),
         f = FirstFork(q) \/ f = SecondFork(q),
         f = FirstFork(r) \/ f = SecondFork(r)
  PROVE  p = q \/ q = r \/ p = r
  BY NAssumption DEF P, FirstFork, SecondFork, ForkOrder

(* The fork of the current phase is one of the two.                        *)
LEMMA ForkOfIsInP ==
  ASSUME NEW p \in P
  PROVE  ForkOf(p) \in P /\ (ForkOf(p) = FirstFork(p) \/ ForkOf(p) = SecondFork(p))
  BY ForksOfPhilosopher DEF ForkOf

-----------------------------------------------------------------------------
(* A philosopher that has eaten every course has left the for loop.        *)
CoursesLeft == \A p \in P : pc[p] # "done" => count[p] < Courses

(* Type correctness, and with it that no philosopher of dining_function    *)
(* eats more courses than COURSES_TO_EAT.                                  *)
THEOREM TypeCorrect == Spec => [](TypeOK /\ CoursesLeft)
<1>1. Init => TypeOK /\ CoursesLeft
  BY NAssumption, CoursesAssumption, SpuriousAssumption
  DEF Init, TypeOK, CoursesLeft, Phases, Labels, P, Nobody
<1>2. TypeOK /\ CoursesLeft /\ [Next]_vars => (TypeOK /\ CoursesLeft)'
  <2> SUFFICES ASSUME TypeOK, CoursesLeft, [Next]_vars PROVE (TypeOK /\ CoursesLeft)'
    OBVIOUS
  <2> USE NAssumption, CoursesAssumption, SpuriousAssumption
      DEF TypeOK, CoursesLeft, Phases, Labels, main, Goto
  <2>1. CASE Create
    BY <2>1 DEF Create
  <2>2. CASE Join
    BY <2>2 DEF Join
  <2>3. ASSUME NEW p \in P, Lock(p) PROVE (TypeOK /\ CoursesLeft)'
    BY <2>3, ForkOfIsInP DEF Lock
  <2>4. ASSUME NEW p \in P, SeeFree(p) PROVE (TypeOK /\ CoursesLeft)'
    BY <2>4 DEF SeeFree
  <2>5. ASSUME NEW p \in P, Wait(p) PROVE (TypeOK /\ CoursesLeft)'
    BY <2>5, ForkOfIsInP DEF Wait
  <2>6. ASSUME NEW p \in P, Take(p) PROVE (TypeOK /\ CoursesLeft)'
    BY <2>6, ForkOfIsInP DEF Take
  <2>7. ASSUME NEW p \in P, Drop(p) PROVE (TypeOK /\ CoursesLeft)'
    <3>1. PICK W \in Woken(ForkOf(p)) :
            pc' = [q \in P |-> IF q = p THEN "unlock" ELSE IF q \in W THEN "lock" ELSE pc[q]]
      BY <2>7 DEF Drop
    <3>2. \A q \in W : pc[q] = "waiting"
      BY DEF Woken, Sleepers
    <3>3. CoursesLeft'
      BY <2>7, <3>1, <3>2 DEF Drop
    <3>4. QED
      BY <2>7, <3>1, <3>3 DEF Drop
  <2>8. ASSUME NEW p \in P, Unlock(p) PROVE (TypeOK /\ CoursesLeft)'
    <3>1. count' = [count EXCEPT ![p] = IF phase[p] = "drop2" THEN @ + 1 ELSE @]
          /\ count[p] < Courses
      BY <2>8 DEF Unlock
    <3>2. count' \in [P -> 0 .. Courses]
      BY <3>1
    <3>3. CoursesLeft'
      BY <2>8, <3>1, <3>2 DEF Unlock, AllEaten
    <3>4. NextPhase(phase[p]) \in Phases
      BY DEF NextPhase
    <3>5. QED
      BY <2>8, <3>2, <3>3, <3>4 DEF Unlock
  <2>9. ASSUME NEW p \in P, SpuriousWakeup(p) PROVE (TypeOK /\ CoursesLeft)'
    BY <2>9 DEF SpuriousWakeup
  <2>10. CASE UNCHANGED vars
    BY <2>10 DEF vars
  <2>11. QED
    BY <2>1, <2>2, <2>3, <2>4, <2>5, <2>6, <2>7, <2>8, <2>9, <2>10
    DEF Next, Step, Exited
<1>3. QED
  BY <1>1, <1>2, PTL DEF Spec

-----------------------------------------------------------------------------
InMutex(p) == pc[p] \in {"test", "set", "unlock"}

(* Between lock_mutex and unlock_mutex a philosopher owns the mutex of the *)
(* fork it works on; the fork it is about to take is still free; and a     *)
(* fork in somebody's hands is marked used.                                *)
MutexOwned == \A p \in P : InMutex(p) => mutex[ForkOf(p)] = p
SeenFreeIsFree == \A p \in P : Taking(p) /\ pc[p] = "set" => status[ForkOf(p)] = "free"
HeldIsUsed == \A p, f \in P : Holds(p, f) => status[f] = "used"

(* Only a philosopher that takes a fork tests its status or waits for it.  *)
TestsWhileTaking == \A p \in P : pc[p] \in {"test", "waiting"} => Taking(p)

ForkInv == /\ MutexOwned
           /\ SeenFreeIsFree
           /\ HeldIsUsed
           /\ TestsWhileTaking
           /\ ForkExclusion
           /\ NoSleepBesideFreeFork

(* The walk of one philosopher through a phase of dining_function keeps    *)
(* the invariant, whatever the others do in between.                       *)
LEMMA ForkInvStep ==
  ASSUME TypeOK, ForkInv, [Next]_vars
  PROVE  ForkInv'
<1> USE DEF TypeOK, Phases, Labels, main, Goto, Taking, InMutex
<1>1. CASE Create \/ Join
  BY <1>1 DEF Create, Join, ForkInv, MutexOwned, SeenFreeIsFree, HeldIsUsed,
     TestsWhileTaking, ForkExclusion, NoSleepBesideFreeFork, Holds, ForkOf
<1>2. ASSUME NEW p \in P, Lock(p) PROVE ForkInv'
  <2>1. phase' = phase /\ status' = status /\ \A q \in P : ForkOf(q)' = ForkOf(q)
    BY <1>2 DEF Lock, ForkOf
  <2>2. \A q, f \in P : Holds(q, f)' <=> Holds(q, f)
    BY <1>2, <2>1 DEF Lock, Holds
  <2>3. MutexOwned'
    <3>1. ForkOf(p) \in P /\ mutex' = [mutex EXCEPT ![ForkOf(p)] = p]
      BY <1>2, ForkOfIsInP DEF Lock
    <3>2. \A q \in P : InMutex(q)' => q = p \/ InMutex(q)
      BY <1>2 DEF Lock
    <3>3. \A q \in P : InMutex(q) => mutex[ForkOf(q)] = q /\ ForkOf(q) \in P
      BY ForkOfIsInP DEF ForkInv, MutexOwned
    <3>4. \A q \in P : q # mutex[ForkOf(p)]
      BY <1>2, NAssumption DEF Lock, Unlocked, Nobody, P
    <3> HIDE DEF TypeOK, InMutex, P
    <3>5. QED
      BY <2>1, <3>1, <3>2, <3>3, <3>4, TypeOK DEF MutexOwned, TypeOK
  <2>4. SeenFreeIsFree' /\ TestsWhileTaking'
    BY <1>2, <2>1 DEF Lock, ForkInv, SeenFreeIsFree, TestsWhileTaking
  <2>5. NoSleepBesideFreeFork'
    BY <1>2, <2>1 DEF Lock, ForkInv, NoSleepBesideFreeFork
  <2>6. QED
    BY <2>1, <2>2, <2>3, <2>4, <2>5 DEF ForkInv, HeldIsUsed, ForkExclusion
<1>3. ASSUME NEW p \in P, SeeFree(p) PROVE ForkInv'
  <2>1. /\ phase' = phase /\ status' = status /\ mutex' = mutex
        /\ \A q \in P : ForkOf(q)' = ForkOf(q)
    BY <1>3 DEF SeeFree, ForkOf
  <2>2. \A q, f \in P : Holds(q, f)' <=> Holds(q, f)
    BY <1>3, <2>1 DEF SeeFree, Holds
  <2>3. MutexOwned' /\ SeenFreeIsFree' /\ TestsWhileTaking' /\ NoSleepBesideFreeFork'
    BY <1>3, <2>1
    DEF SeeFree, ForkInv, MutexOwned, SeenFreeIsFree, TestsWhileTaking, NoSleepBesideFreeFork
  <2>4. QED
    BY <2>1, <2>2, <2>3 DEF ForkInv, HeldIsUsed, ForkExclusion
<1>4. ASSUME NEW p \in P, Wait(p) PROVE ForkInv'
  <2>1. phase' = phase /\ status' = status /\ \A q \in P : ForkOf(q)' = ForkOf(q)
    BY <1>4 DEF Wait, ForkOf
  <2>2. Taking(p)
    BY <1>4 DEF Wait, ForkInv, TestsWhileTaking
  <2>3. \A q, f \in P : Holds(q, f)' <=> Holds(q, f)
    BY <1>4, <2>1, <2>2 DEF Wait, Holds
  <2>4. MutexOwned'
    BY <1>4, <2>1, ForkOfIsInP DEF Wait, ForkInv, MutexOwned
  <2>5. SeenFreeIsFree' /\ TestsWhileTaking' /\ NoSleepBesideFreeFork'
    BY <1>4, <2>1, <2>2
    DEF Wait, ForkInv, SeenFreeIsFree, TestsWhileTaking, NoSleepBesideFreeFork
  <2>6. QED
    BY <2>1, <2>3, <2>4, <2>5 DEF ForkInv, HeldIsUsed, ForkExclusion
<1>5. ASSUME NEW p \in P, Take(p) PROVE ForkInv'
  <2> DEFINE f == ForkOf(p)
  <2>1. phase' = phase /\ mutex' = mutex /\ \A q \in P : ForkOf(q)' = ForkOf(q)
    BY <1>5 DEF Take, ForkOf
  <2>2. f \in P /\ status[f] = "free" /\ status' = [status EXCEPT ![f] = "used"]
    BY <1>5, ForkOfIsInP DEF Take, ForkInv, SeenFreeIsFree
  <2>3. \A q \in P : ~Holds(q, f)
    BY <2>2 DEF ForkInv, HeldIsUsed
  <2>4. \A q, g \in P : Holds(q, g)' <=> Holds(q, g) \/ (q = p /\ g = f)
    BY <1>5, <2>1 DEF Take, Holds, ForkOf
  <2>5. SeenFreeIsFree'
    BY <1>5, <2>1, <2>2 DEF Take, ForkInv, SeenFreeIsFree, MutexOwned
  <2>6. MutexOwned' /\ TestsWhileTaking' /\ NoSleepBesideFreeFork'
    BY <1>5, <2>1, <2>2, ForkOfIsInP
    DEF Take, ForkInv, MutexOwned, TestsWhileTaking, NoSleepBesideFreeFork
  <2>7. HeldIsUsed'
    BY <2>2, <2>4 DEF ForkInv, HeldIsUsed
  <2>8. ForkExclusion'
    BY <2>3, <2>4 DEF ForkInv, ForkExclusion
  <2>9. QED
    BY <2>5, <2>6, <2>7, <2>8 DEF ForkInv
<1>6. ASSUME NEW p \in P, Drop(p) PROVE ForkInv'
  <2> DEFINE f == ForkOf(p)
  <2>1. PICK W \in Woken(f) :
          pc' = [q \in P |-> IF q = p THEN "unlock" ELSE IF q \in W THEN "lock" ELSE pc[q]]
    BY <1>6 DEF Drop
  <2>2. W \subseteq Sleepers(f) /\ (Sleepers(f) # {} => W # {})
    BY DEF Woken
  <2>3. /\ phase' = phase /\ mutex' = mutex /\ \A q \in P : ForkOf(q)' = ForkOf(q)
        /\ status' = [status EXCEPT ![f] = "free"] /\ f \in P
        /\ ~Taking(p) /\ pc[p] = "set"
    BY <1>6, ForkOfIsInP DEF Drop, ForkOf
  <2>4. Holds(p, f) /\ \A g \in P : Holds(p, g)' <=> Holds(p, g) /\ g # f
    BY <2>1, <2>3, ForksOfPhilosopher DEF Holds, ForkOf
  <2>5. \A q \in W : pc[q] = "waiting" /\ pc'[q] = "lock" /\ Taking(q) /\ q # p /\ q \in P
    BY <2>1, <2>2, <2>3 DEF Sleepers, ForkInv, TestsWhileTaking
  <2>6. \A q, g \in P : q # p => (Holds(q, g)' <=> Holds(q, g))
    BY <2>1, <2>3, <2>5 DEF Holds
  <2>7. MutexOwned' /\ TestsWhileTaking'
    BY <2>1, <2>3, <2>5 DEF ForkInv, MutexOwned, TestsWhileTaking
  <2>8. SeenFreeIsFree'
    BY <2>1, <2>3, <2>5 DEF ForkInv, SeenFreeIsFree
  <2>9. ForkExclusion'
    BY <2>4, <2>6 DEF ForkInv, ForkExclusion
  <2>10. HeldIsUsed'
    <3>1. \A q \in P : q # p => ~Holds(q, f)
      BY <2>3, <2>4 DEF ForkInv, ForkExclusion
    <3>2. QED
      BY <2>3, <2>4, <2>6, <3>1 DEF ForkInv, HeldIsUsed
  <2>11. NoSleepBesideFreeFork'
    <3>1. SUFFICES ASSUME NEW q \in P, pc'[q] = "waiting", ForkOf(q) = f PROVE FALSE
      BY <2>1, <2>3, <2>5 DEF ForkInv, NoSleepBesideFreeFork
    <3>2. q \in Sleepers(f) /\ q \notin W /\ q # p
      BY <2>1, <3>1 DEF Sleepers
    <3>3. PICK r \in W : TRUE
      BY <2>2, <3>2
    <3>4. r \in P /\ r # p /\ r # q /\ ForkOf(r) = f
      BY <2>2, <2>5, <3>2, <3>3 DEF Sleepers
    <3>5. \A x \in {p, q, r} : f = FirstFork(x) \/ f = SecondFork(x)
      BY <3>1, <3>4, ForkOfIsInP
    <3>6. p = q \/ q = r \/ p = r
      BY <2>3, <3>4, <3>5, TwoShareAFork
    <3>7. QED
      BY <3>2, <3>4, <3>6
  <2>12. QED
    BY <2>7, <2>8, <2>9, <2>10, <2>11 DEF ForkInv
<1>7. ASSUME NEW p \in P, Unlock(p) PROVE ForkInv'
  <2> DEFINE f == ForkOf(p)
  <2>1. /\ status' = status /\ f \in P /\ mutex[f] = p
        /\ mutex' = [mutex EXCEPT ![f] = Nobody]
        /\ pc' = [pc EXCEPT ![p] = pc'[p]] /\ pc'[p] \in {"lock", "done"}
        /\ phase' = [phase EXCEPT ![p] = NextPhase(@)]
    BY <1>7, ForkOfIsInP DEF Unlock, ForkInv, MutexOwned
  <2>2. \A q \in P : q # p => /\ ForkOf(q)' = ForkOf(q)
                              /\ \A g \in P : Holds(q, g)' <=> Holds(q, g)
    BY <2>1 DEF ForkOf, Holds
  <2>3. \A g \in P : Holds(p, g)' => Holds(p, g)
    BY <1>7, <2>1 DEF Unlock, NextPhase, Holds
  <2>4. MutexOwned'
    BY <2>1, <2>2 DEF ForkInv, MutexOwned
  <2>5. SeenFreeIsFree' /\ TestsWhileTaking' /\ NoSleepBesideFreeFork'
    BY <2>1, <2>2 DEF ForkInv, SeenFreeIsFree, TestsWhileTaking, NoSleepBesideFreeFork
  <2>6. HeldIsUsed' /\ ForkExclusion'
    BY <2>1, <2>2, <2>3 DEF ForkInv, HeldIsUsed, ForkExclusion
  <2>7. QED
    BY <2>4, <2>5, <2>6 DEF ForkInv
<1>8. ASSUME NEW p \in P, SpuriousWakeup(p) PROVE ForkInv'
  <2>1. /\ phase' = phase /\ status' = status /\ mutex' = mutex
        /\ \A q \in P : ForkOf(q)' = ForkOf(q)
    BY <1>8 DEF SpuriousWakeup, ForkOf
  <2>2. Taking(p)
    BY <1>8 DEF SpuriousWakeup, ForkInv, TestsWhileTaking
  <2>3. \A q, f \in P : Holds(q, f)' <=> Holds(q, f)
    BY <1>8, <2>1, <2>2 DEF SpuriousWakeup, Holds
  <2>4. MutexOwned' /\ SeenFreeIsFree' /\ TestsWhileTaking' /\ NoSleepBesideFreeFork'
    BY <1>8, <2>1, <2>2
    DEF SpuriousWakeup, ForkInv, MutexOwned, SeenFreeIsFree, TestsWhileTaking, NoSleepBesideFreeFork
  <2>5. QED
    BY <2>1, <2>3, <2>4 DEF ForkInv, HeldIsUsed, ForkExclusion
<1>9. CASE UNCHANGED vars
  BY <1>9 DEF vars, ForkInv, MutexOwned, SeenFreeIsFree, HeldIsUsed,
     TestsWhileTaking, ForkExclusion, NoSleepBesideFreeFork, Holds, ForkOf
<1>10. QED
  BY <1>1, <1>2, <1>3, <1>4, <1>5, <1>6, <1>7, <1>8, <1>9 DEF Next, Step, Exited

(* The locks, looks and hands of dining_function agree in every state.     *)
LEMMA ForkInvHolds == Spec => []ForkInv
<1>1. Init => ForkInv
  BY DEF Init, ForkInv, MutexOwned, SeenFreeIsFree, HeldIsUsed, TestsWhileTaking,
         ForkExclusion, NoSleepBesideFreeFork, Holds, InMutex, Taking
<1>2. QED
  BY <1>1, ForkInvStep, TypeCorrect, PTL DEF Spec

(* At any table no fork is in two hands: the status words and their        *)
(* mutexes in dining_function do exclude.                                  *)
THEOREM ForkExclusionHolds == Spec => []ForkExclusion
<1>1. ForkInv => ForkExclusion
  BY DEF ForkInv
<1>2. QED
  BY <1>1, ForkInvHolds, PTL

(* At any table nobody is left asleep beside a free fork: since two        *)
(* philosophers share a fork, the one signal of the one who drops it       *)
(* reaches the only possible sleeper.                                      *)
THEOREM NoSleepBesideFreeForkHolds == Spec => []NoSleepBesideFreeFork
<1>1. ForkInv => NoSleepBesideFreeFork
  BY DEF ForkInv
<1>2. QED
  BY <1>1, ForkInvHolds, PTL
=============================================================================
