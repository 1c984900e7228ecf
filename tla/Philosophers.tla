---------------------------- MODULE Philosophers ----------------------------
(***************************************************************************)
(* The dining philosophers of lab9/zad1: N threads, N forks, each fork a   *)
(* status word guarded by a mutex and a condition variable.  Philosopher   *)
(* N-1 takes fork 0 first, every other takes the fork of its own number.   *)
(*                                                                         *)
(* A course goes through four phases, take1, take2, drop1, drop2.  Every   *)
(* phase works on one fork and follows the same walk under its mutex:      *)
(*                                                                         *)
(*   lock -> test -> set -> unlock     test -> waiting -> lock             *)
(*                                                                         *)
(* (a drop phase goes from lock straight to set).                          *)
(***************************************************************************)
EXTENDS Integers, Sequences

CONSTANTS N,             \* NUM_PHILOSOPHERS
          Courses,       \* COURSES_TO_EAT
          MaxSpurious    \* bound on the wake-ups nobody signalled

ASSUME NAssumption == N \in Nat /\ N >= 2
ASSUME CoursesAssumption == Courses \in Nat \ {0}
ASSUME SpuriousAssumption == MaxSpurious \in Nat

P == 0 .. N - 1          \* the philosophers, and the forks

VARIABLES status,        \* fork_status: "free" or "used"
          mutex,         \* fork_mutex: the philosopher that holds it, or N
          phase,         \* the phase of each philosopher's course
          pc,            \* where it stands in that phase
          count,         \* courses it has finished
          created,       \* main: how many threads it has created
          joined,        \* main: how many threads it has joined
          spurious       \* how many spurious wake-ups have happened

main == <<created, joined>>
vars == <<status, mutex, phase, pc, count, main, spurious>>

Nobody == N

Phases == {"take1", "take2", "drop1", "drop2"}
Labels == {"lock", "test", "waiting", "set", "unlock", "done"}

Taking(p) == phase[p] \in {"take1", "take2"}

(* The order of the two forks: the last philosopher reverses it.           *)
SameOrderForAll(p) == <<p, (p + 1) % N>>   \* planted defect: no reversal
ForkOrder(p) == IF p = N - 1 THEN <<0, p>> ELSE <<p, p + 1>>
FirstFork(p)  == ForkOrder(p)[1]
SecondFork(p) == ForkOrder(p)[2]

(* The fork the current phase of p works on.                               *)
ForkOf(p) == IF phase[p] \in {"take1", "drop1"} THEN FirstFork(p) ELSE SecondFork(p)

Goto(p, l) == pc' = [pc EXCEPT ![p] = l]

Init ==
  /\ status = [f \in P |-> "free"]
  /\ mutex = [f \in P |-> Nobody]
  /\ phase = [p \in P |-> "take1"]
  /\ pc = [p \in P |-> "lock"]
  /\ count = [p \in P |-> 0]
  /\ created = 0
  /\ joined = 0
  /\ spurious = 0

-----------------------------------------------------------------------------
(* main: create every thread, then join them in order.                     *)
Create ==
  /\ created < N
  /\ created' = created + 1
  /\ UNCHANGED <<status, mutex, phase, pc, count, joined, spurious>>

Join ==
  /\ created = N
  /\ joined < N
  /\ pc[joined] = "done"
  /\ joined' = joined + 1
  /\ UNCHANGED <<status, mutex, phase, pc, count, created, spurious>>

NeverBusy(f) == TRUE                      \* planted defect: trylock, result ignored
Unlocked(f) == mutex[f] = Nobody

(* lock_mutex, also the one pthread_cond_wait performs before it returns.  *)
Lock(p) ==
  /\ p < created
  /\ pc[p] = "lock"
  /\ Unlocked(ForkOf(p))
  /\ mutex' = [mutex EXCEPT ![ForkOf(p)] = p]
  /\ Goto(p, IF Taking(p) THEN "test" ELSE "set")
  /\ UNCHANGED <<status, phase, count, main, spurious>>

(* The condition of the while loop, found false.                           *)
SeeFree(p) ==
  /\ pc[p] = "test"
  /\ status[ForkOf(p)] = "free"
  /\ Goto(p, "set")
  /\ UNCHANGED <<status, mutex, phase, count, main, spurious>>

(* The condition found true: wait_condition releases the mutex and sleeps  *)
(* in one step.                                                            *)
Wait(p) ==
  /\ pc[p] = "test"
  /\ status[ForkOf(p)] = "used"
  /\ mutex' = [mutex EXCEPT ![ForkOf(p)] = Nobody]
  /\ Goto(p, "waiting")
  /\ UNCHANGED <<status, phase, count, main, spurious>>

Take(p) ==
  /\ Taking(p)
  /\ pc[p] = "set"
  /\ status' = [status EXCEPT ![ForkOf(p)] = "used"]
  /\ Goto(p, "unlock")
  /\ UNCHANGED <<mutex, phase, count, main, spurious>>

Sleepers(f) == {q \in P : pc[q] = "waiting" /\ ForkOf(q) = f}

(* pthread_cond_signal: wakes at least one sleeper if there is any.        *)
WokenByNoSignal(f) == {{}}                \* planted defect: signal forgotten
Woken(f) == {W \in SUBSET Sleepers(f) : Sleepers(f) # {} => W # {}}

Drop(p) ==
  /\ ~Taking(p)
  /\ pc[p] = "set"
  /\ status' = [status EXCEPT ![ForkOf(p)] = "free"]
  /\ \E W \in Woken(ForkOf(p)) :
       pc' = [q \in P |-> IF q = p THEN "unlock" ELSE IF q \in W THEN "lock" ELSE pc[q]]
  /\ UNCHANGED <<mutex, phase, count, main, spurious>>

NextPhase(ph) == CASE ph = "take1" -> "take2" [] ph = "take2" -> "drop1"
                   [] ph = "drop1" -> "drop2" [] ph = "drop2" -> "take1"

OneCourseMore(c) == c > Courses           \* planted defect: count <= COURSES_TO_EAT
AllEaten(c) == c = Courses

(* unlock_mutex; after drop2 the for loop counts the course.               *)
Unlock(p) ==
  /\ pc[p] = "unlock"
  /\ mutex' = [mutex EXCEPT ![ForkOf(p)] = Nobody]
  /\ phase' = [phase EXCEPT ![p] = NextPhase(@)]
  /\ count' = [count EXCEPT ![p] = IF phase[p] = "drop2" THEN @ + 1 ELSE @]
  /\ Goto(p, IF AllEaten(count'[p]) THEN "done" ELSE "lock")
  /\ UNCHANGED <<status, main, spurious>>

(* POSIX allows pthread_cond_wait to return without a signal.              *)
SpuriousWakeup(p) ==
  /\ pc[p] = "waiting"
  /\ spurious < MaxSpurious
  /\ spurious' = spurious + 1
  /\ Goto(p, "lock")
  /\ UNCHANGED <<status, mutex, phase, count, main>>

Step(p) == Lock(p) \/ SeeFree(p) \/ Wait(p) \/ Take(p) \/ Drop(p) \/ Unlock(p)

(* exit(0): the only place where the program may stop.                     *)
Exited == joined = N /\ UNCHANGED vars

Next == \/ Create
        \/ Join
        \/ \E p \in P : Step(p) \/ SpuriousWakeup(p)
        \/ Exited

Spec == Init /\ [][Next]_vars

(* The scheduler runs every runnable thread; no mutex is handed out fairly.*)
FairSpec == /\ Spec
            /\ WF_vars(Create \/ Join)
            /\ \A p \in P : WF_vars(Step(p))

-----------------------------------------------------------------------------
TypeOK ==
  /\ status \in [P -> {"free", "used"}]
  /\ mutex \in [P -> P \cup {Nobody}]
  /\ phase \in [P -> Phases]
  /\ pc \in [P -> Labels]
  /\ count \in [P -> 0 .. Courses]
  /\ created \in 0 .. N
  /\ joined \in 0 .. N
  /\ spurious \in 0 .. MaxSpurious

(* p has set the status of fork f to used and has not set it back.         *)
Holds(p, f) ==
  \/ f = FirstFork(p)  /\ \/ phase[p] = "take1" /\ pc[p] = "unlock"
                          \/ phase[p] = "take2"
                          \/ phase[p] = "drop1" /\ pc[p] # "unlock"
  \/ f = SecondFork(p) /\ \/ phase[p] = "take2" /\ pc[p] = "unlock"
                          \/ phase[p] = "drop1"
                          \/ phase[p] = "drop2" /\ pc[p] # "unlock"

(* No fork is ever in the hands of two philosophers, though each of them   *)
(* tests and sets the status in separate steps.                            *)
ForkExclusion == \A f \in P, p, q \in P : Holds(p, f) /\ Holds(q, f) => p = q

(* A philosopher sleeps only on a fork that is in use, so the one who puts *)
(* it down is still to signal: the test and the sleep leave no gap for a   *)
(* signal to be lost in.                                                   *)
NoSleepBesideFreeFork ==
  \A p \in P : pc[p] = "waiting" => status[ForkOf(p)] = "used"

(* Every philosopher eats all the courses and main reaches exit(0): nobody *)
(* deadlocks on the ring of forks and no sleeper is forgotten.             *)
MainExits == <>(joined = N)
=============================================================================
