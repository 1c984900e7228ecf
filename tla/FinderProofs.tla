---------------------------- MODULE FinderProofs -----------------------------
(***************************************************************************)
(* What holds of the finder of lab8 for any number of threads, any size of *)
(* the file and of the buffers, and all three ways to take a cancellation: *)
(* only threads that exist are cancelled, and an answer that is in the     *)
(* file is printed before main returns.                                    *)
(***************************************************************************)
EXTENDS Finder, TLAPS

-----------------------------------------------------------------------------
(* Once the barrier is open, a thread has left the start or a cancellation *)
(* was asked for, every thread has been created.                           *)
AllCreated == running \/ pending # {} \/ (\E t \in Threads : pc[t] # "start")
              => created = N

PendingAreThreads == pending \subseteq Threads

(* A thread that reports a record or cancels the others stands at it.      *)
AtARecord == \A t \in Threads : pc[t] \in {"report", "cancel"} => i[t] <= M

CancelInv == TypeOK /\ AllCreated /\ PendingAreThreads /\ AtARecord

(* A thread's steps keep the variables in their ranges.                    *)
LEMMA TurnTyped ==
  ASSUME TypeOK, AtARecord, NEW t \in Threads, Step(t) \/ Die(t) PROVE TypeOK'
<1>0. N \in Nat /\ M \in Nat /\ Records \in Nat /\ t \in 1 .. N
  BY NumbersAssumption DEF Threads
<1>1. CASE PassBarrier(t) \/ Lock(t) \/ Unlock(t) \/ Find(t) \/ NextTurn(t) \/ Die(t)
  <2>1. pc' \in [Threads -> Labels]
    BY <1>1 DEF TypeOK, PassBarrier, Lock, Unlock, Find, NextTurn, Die, Goto, Labels
  <2>2. mutex' \in 0 .. N
    BY <1>0, <1>1 DEF TypeOK, PassBarrier, Lock, Unlock, Find, NextTurn, Die, Nobody
  <2>3. UNCHANGED <<main, offset, turn>>
    BY <1>1 DEF PassBarrier, Lock, Unlock, Find, NextTurn, Die
  <2>4. QED
    BY <2>1, <2>2, <2>3 DEF TypeOK, main, turn
<1>2. CASE Read(t)
  <2>1. Least(M, Records - offset) \in 0 .. M /\ Least(M, Records - offset) <= Records - offset
    BY <1>0 DEF TypeOK, Least
  <2>2. nread' \in [Threads -> 0 .. M] /\ nread'[t] = Least(M, Records - offset)
    BY <1>2, <2>1 DEF TypeOK, Read
  <2>3. offset' \in 0 .. Records
    BY <1>0, <1>2, <2>1, <2>2 DEF TypeOK, Read
  <2>4. [n \in 1 .. M |-> IF n <= nread'[t] THEN offset + n ELSE buf[t][n]]
          \in [1 .. M -> 0 .. Records]
    <3>1. ASSUME NEW n \in 1 .. M
          PROVE  (IF n <= nread'[t] THEN offset + n ELSE buf[t][n]) \in 0 .. Records
      <4>1. buf[t][n] \in 0 .. Records
        BY DEF TypeOK
      <4>2. n <= nread'[t] => offset + n \in 0 .. Records
        BY <1>0, <2>1, <2>2 DEF TypeOK
      <4>3. QED
        BY <4>1, <4>2
    <3>2. QED
      BY <3>1
  <2>5. buf' \in [Threads -> [1 .. M -> 0 .. Records]]
    BY <1>2, <2>4 DEF TypeOK, Read
  <2>6. pc' \in [Threads -> Labels]
    BY <1>2 DEF TypeOK, Read, Goto, Labels
  <2>7. QED
    BY <1>2, <2>2, <2>3, <2>5, <2>6 DEF TypeOK, Read, main, file
<1>3. CASE Check(t)
  <2>1. 1 \in 1 .. M + 1
    BY <1>0
  <2>2. QED
    BY <1>3, <2>1 DEF TypeOK, Check, Goto, Labels, main, file, Short
<1>4. CASE Miss(t)
  <2>1. i[t] + 1 \in 1 .. M + 1
    BY <1>0, <1>4 DEF TypeOK, Miss, AllScanned
  <2>2. QED
    BY <1>4, <2>1 DEF TypeOK, Miss, main, file
<1>5. CASE Report(t)
  <2>1. 1 \in 1 .. N + 1
    BY <1>0
  <2>2. QED
    BY <1>5, <2>1 DEF TypeOK, Report, Goto, Labels, main, file
<1>6. CASE CancelOne(t)
  <2>1. j[t] + 1 \in 1 .. N + 1
    BY <1>0, <1>6 DEF TypeOK, CancelOne, AllCancelled
  <2>2. QED
    BY <1>6, <2>1 DEF TypeOK, CancelOne, main, file
<1>7. CASE NextRecord(t)
  <2>1. i[t] + 1 \in 1 .. M + 1
    BY <1>0, <1>7 DEF TypeOK, AtARecord, NextRecord
  <2>2. QED
    BY <1>7, <2>1 DEF TypeOK, NextRecord, Goto, Labels, main, file
<1>8. QED
  BY <1>1, <1>2, <1>3, <1>4, <1>5, <1>6, <1>7 DEF Step

LEMMA CancelInvStep ==
  ASSUME CancelInv, NEW t \in Threads, Step(t) \/ Die(t) PROVE CancelInv'
<1>0. N \in Nat /\ M \in Nat
  BY NumbersAssumption
<1>1. TypeOK'
  BY TurnTyped DEF CancelInv
<1>2. AtARecord'
  <2> SUFFICES ASSUME NEW u \in Threads, pc'[u] \in {"report", "cancel"} PROVE i'[u] <= M
    BY DEF AtARecord
  <2>1. CASE u # t
    <3>1. pc'[u] = pc[u] /\ i'[u] = i[u]
      BY <2>1 DEF CancelInv, TypeOK, Step, Die, PassBarrier, Lock, Read, Unlock, Check, Miss,
         Find, Report, CancelOne, NextRecord, NextTurn, Goto, turn
    <3>2. QED
      BY <3>1 DEF CancelInv, AtARecord
  <2>2. CASE u = t
    <3>1. Find(t) \/ Report(t) \/ CancelOne(t)
      BY <2>2 DEF CancelInv, TypeOK, Step, Die, PassBarrier, Lock, Read, Unlock, Check, Miss,
         NextRecord, NextTurn, Goto
    <3>2. i'[t] = i[t] /\ i[t] \in 1 .. M + 1
      BY <3>1 DEF CancelInv, TypeOK, Find, Report, CancelOne, turn
    <3>3. i[t] <= M
      BY <1>0, <3>1, <3>2 DEF CancelInv, AtARecord, Find, Report, CancelOne, AllScanned
    <3>4. QED
      BY <2>2, <3>2, <3>3
  <2>3. QED
    BY <2>1, <2>2
<1>3. created' = created /\ running' = running
  BY DEF Step, Die, PassBarrier, Lock, Read, Unlock, Check, Miss, Find, Report, CancelOne,
     NextRecord, NextTurn, main
<1>4. created = N
  <2>1. CASE Die(t)
    BY <2>1 DEF CancelInv, AllCreated, Die
  <2>2. CASE PassBarrier(t)
    BY <2>2 DEF CancelInv, AllCreated, PassBarrier, Passed
  <2>3. CASE pc[t] # "start"
    BY <2>3 DEF CancelInv, AllCreated
  <2>4. QED
    BY <2>1, <2>2, <2>3 DEF Step, Lock, Read, Unlock, Check, Miss, Find, Report, CancelOne,
       NextRecord, NextTurn
<1>5. PendingAreThreads'
  <2>1. CASE CancelOne(t)
    <3>1. j[t] \in Threads
      BY <1>0, <2>1 DEF CancelInv, TypeOK, CancelOne, AllCancelled, Threads
    <3>2. QED
      BY <2>1, <3>1 DEF CancelInv, PendingAreThreads, CancelOne
  <2>2. CASE pending' = pending
    BY <2>2 DEF CancelInv, PendingAreThreads
  <2>3. QED
    BY <2>1, <2>2 DEF Step, Die, PassBarrier, Lock, Read, Unlock, Check, Miss, Find, Report,
       NextRecord, NextTurn
<1>6. QED
  BY <1>1, <1>2, <1>3, <1>4, <1>5 DEF CancelInv, AllCreated

LEMMA CancelInvMain ==
  ASSUME CancelInv, Create \/ OpenBarrier \/ Join \/ UNCHANGED vars PROVE CancelInv'
<1>0. N \in Nat /\ M \in Nat /\ Records \in Nat
  BY NumbersAssumption
<1>1. UNCHANGED <<mutex, offset, pc, turn, pending>>
  BY DEF Create, OpenBarrier, Join, vars
<1>2. AtARecord' /\ PendingAreThreads'
  BY <1>1 DEF CancelInv, AtARecord, PendingAreThreads, turn
<1>3. created' \in 0 .. N /\ joined' \in 0 .. N /\ running' \in BOOLEAN
  <2>1. created' \in 0 .. N /\ joined' \in 0 .. N
    BY <1>0 DEF CancelInv, TypeOK, Create, OpenBarrier, Join, vars, main
  <2>2. running' \in BOOLEAN
    BY DEF CancelInv, TypeOK, Create, OpenBarrier, Join, vars, main
  <2>3. QED
    BY <2>1, <2>2
<1>4. TypeOK'
  BY <1>1, <1>3 DEF CancelInv, TypeOK, turn
<1>5. AllCreated'
  <2>1. CASE Create
    BY <2>1, <1>0 DEF CancelInv, TypeOK, AllCreated, Create
  <2>2. CASE OpenBarrier
    BY <2>2 DEF OpenBarrier, AllCreated
  <2>3. CASE Join \/ UNCHANGED vars
    BY <2>3 DEF CancelInv, AllCreated, Join, vars, main
  <2>4. QED
    BY <2>1, <2>2, <2>3
<1>6. QED
  BY <1>2, <1>4, <1>5 DEF CancelInv

LEMMA CancelInvInit == Init => CancelInv
<1> SUFFICES ASSUME Init PROVE CancelInv
  OBVIOUS
<1>0. N \in Nat /\ M \in Nat /\ Records \in Nat
  BY NumbersAssumption
<1>1. created \in 0 .. N /\ joined \in 0 .. N /\ mutex \in 0 .. N /\ offset \in 0 .. Records
  BY <1>0 DEF Init, Nobody
<1>2. 0 \in 0 .. Records /\ 0 \in 0 .. M /\ 1 \in 1 .. M + 1 /\ 1 \in 1 .. N + 1
  BY <1>0
<1>3. buf \in [Threads -> [1 .. M -> 0 .. Records]]
  BY <1>2 DEF Init
<1>4. nread \in [Threads -> 0 .. M] /\ i \in [Threads -> 1 .. M + 1] /\ j \in [Threads -> 1 .. N + 1]
  BY <1>2 DEF Init
<1>5. TypeOK
  BY <1>1, <1>3, <1>4 DEF Init, TypeOK, Labels
<1>6. AtARecord /\ AllCreated /\ PendingAreThreads
  BY DEF Init, AtARecord, AllCreated, PendingAreThreads
<1>7. QED
  BY <1>5, <1>6 DEF CancelInv

LEMMA CancelInvAlways == Spec => []CancelInv
<1>1. CancelInv /\ [Next]_vars => CancelInv'
  BY CancelInvStep, CancelInvMain DEF Next, Idle
<1>2. QED
  BY <1>1, CancelInvInit, PTL DEF Spec

(* "this is to avoid cancelling not yet started threads": pthread_cancel   *)
(* is called for threads that exist, only, whatever their number.          *)
THEOREM OnlyCreatedAreCancelled == Spec => []CancelsCreatedThreads
<1>1. CancelInv => CancelsCreatedThreads
  BY NumbersAssumption DEF CancelInv, AllCreated, PendingAreThreads, CancelsCreatedThreads, Threads
<1>2. QED
  BY <1>1, CancelInvAlways, PTL

-----------------------------------------------------------------------------
(* The rest is about the time before anything has been printed.  A thread  *)
(* then holds a record if it has read it and has not looked at it yet.     *)
Holds(t, r) ==
  \E n \in 1 .. M :
    /\ buf[t][n] = r
    /\ pc[t] \in {"unlock", "check"} \/ (pc[t] \in {"scan", "report"} /\ i[t] <= n)

Silent == reported = {}

(* Nobody is cancelled before something is printed...                      *)
NobodyCancelled ==
  Silent => pending = {} /\ \A t \in Threads : pc[t] \notin {"cancel", "cancelled"}

(* ... no record with the word that has left the file is lost...           *)
EveryMatchIsHeld ==
  Silent => \A r \in matching \cap (1 .. offset) : \E t \in Threads : Holds(t, r)

(* ... and no thread stops before the end of the file.                     *)
AtTheEnd == Silent => offset = Records
StopsAtTheEnd ==
  \A t \in Threads :
    /\ pc[t] \in {"unlock", "check"} /\ nread[t] < M => AtTheEnd
    /\ ~loop[t] => AtTheEnd
    /\ pc[t] = "ended" => AtTheEnd

JoinedAreOver == \A t \in Threads : t <= joined => pc[t] \in {"ended", "cancelled"}

MatchesAreRecords == matching \subseteq 0 .. Records

AnswerInv == /\ MatchesAreRecords /\ NobodyCancelled /\ EveryMatchIsHeld
             /\ StopsAtTheEnd /\ JoinedAreOver

(* As long as nothing is printed, nobody cancels and nobody dies.          *)
QuietStep(t) == \/ PassBarrier(t) \/ Lock(t) \/ Read(t) \/ Unlock(t) \/ Check(t)
                \/ Miss(t) \/ Find(t) \/ NextTurn(t)

LEMMA SilentSteps ==
  ASSUME NobodyCancelled, NEW t \in Threads, Step(t) \/ Die(t), Silent'
  PROVE  Silent /\ QuietStep(t)
<1>1. ~Report(t)
  BY DEF Silent, Report
<1>2. Silent
  BY <1>1 DEF Silent, Step, Die, PassBarrier, Lock, Read, Unlock, Check, Miss, Find,
     CancelOne, NextRecord, NextTurn
<1>3. QED
  BY <1>1, <1>2 DEF NobodyCancelled, Step, Die, QuietStep, CancelOne, NextRecord

LEMMA NobodyCancelledStep ==
  ASSUME TypeOK, NobodyCancelled, NEW t \in Threads, Step(t) \/ Die(t)
  PROVE  NobodyCancelled'
<1> SUFFICES ASSUME Silent'
             PROVE  pending' = {} /\ \A u \in Threads : pc'[u] \notin {"cancel", "cancelled"}
  BY DEF NobodyCancelled
<1>1. Silent /\ QuietStep(t)
  BY SilentSteps
<1>2. QED
  BY <1>1 DEF NobodyCancelled, TypeOK, QuietStep, PassBarrier, Lock, Read, Unlock, Check,
     Miss, Find, NextTurn, Goto

(* A read fills the buffer of a thread that holds nothing with the next    *)
(* records of the file; a record is let go only when it is no match.       *)
LEMMA MatchesHeldStep ==
  ASSUME TypeOK, NobodyCancelled, EveryMatchIsHeld, NEW t \in Threads, Step(t) \/ Die(t)
  PROVE  EveryMatchIsHeld'
<1>0. N \in Nat /\ M \in Nat /\ Records \in Nat
  BY NumbersAssumption
<1> SUFFICES ASSUME Silent', NEW r \in matching' \cap (1 .. offset')
             PROVE  \E u \in Threads : Holds(u, r)'
  BY DEF EveryMatchIsHeld
<1>1. Silent /\ QuietStep(t)
  BY SilentSteps
<1>2. r \in matching
  BY <1>1 DEF QuietStep, PassBarrier, Lock, Read, Unlock, Check, Miss, Find, NextTurn, file
<1>3. ASSUME NEW u \in Threads, u # t, Holds(u, r) PROVE Holds(u, r)'
  <2>1. buf'[u] = buf[u] /\ pc'[u] = pc[u] /\ i'[u] = i[u]
    BY <1>1, <1>3 DEF TypeOK, QuietStep, PassBarrier, Lock, Read, Unlock, Check, Miss, Find,
       NextTurn, Goto, turn
  <2>2. QED
    BY <1>3, <2>1 DEF Holds
<1>4. CASE Read(t)
  <2>1. CASE r <= offset
    <3>1. PICK u \in Threads : Holds(u, r)
      BY <1>1, <1>2, <2>1, <1>0 DEF EveryMatchIsHeld, TypeOK
    <3>2. u # t
      BY <1>4, <3>1 DEF Read, Holds
    <3>3. QED
      BY <1>3, <3>1, <3>2
  <2>2. CASE r > offset
    <3> DEFINE n == r - offset
               got == Least(M, Records - offset)
    <3>1. nread'[t] = got /\ offset' = offset + got
      BY <1>4 DEF Read, TypeOK
    <3>2. got \in 0 .. M
      BY <1>0 DEF TypeOK, Least
    <3>3. n \in 1 .. M /\ n <= nread'[t] /\ offset + n = r
      BY <1>0, <2>2, <3>1, <3>2 DEF TypeOK
    <3>4. buf'[t] = [l \in 1 .. M |-> IF l <= nread'[t] THEN offset + l ELSE buf[t][l]]
      BY <1>4 DEF Read, TypeOK
    <3>5. buf'[t][n] = r
      BY <3>3, <3>4
    <3>6. pc'[t] = "unlock"
      BY <1>4 DEF Read, Goto, TypeOK
    <3>7. QED
      BY <3>3, <3>5, <3>6 DEF Holds
  <2>3. QED
    BY <1>0, <1>4, <2>1, <2>2 DEF TypeOK
<1>5. CASE ~Read(t)
  <2>1. offset' = offset /\ buf' = buf
    BY <1>1, <1>5 DEF QuietStep, PassBarrier, Lock, Unlock, Check, Miss, Find, NextTurn, turn
  <2>2. PICK u \in Threads : Holds(u, r)
    BY <1>1, <1>2, <2>1 DEF EveryMatchIsHeld
  <2>3. CASE u = t
    <3>1. PICK n \in 1 .. M :
            /\ buf[t][n] = r
            /\ pc[t] \in {"unlock", "check"} \/ (pc[t] \in {"scan", "report"} /\ i[t] <= n)
      BY <2>2, <2>3 DEF Holds
    <3>2. i[t] \in 1 .. M + 1
      BY DEF TypeOK
    <3>3. CASE Unlock(t)
      <4>1. pc'[t] = "check"
        BY <3>3 DEF Unlock, Goto, TypeOK
      <4>2. QED
        BY <2>1, <2>3, <3>1, <4>1 DEF Holds
    <3>4. CASE Check(t)
      <4>1. pc'[t] = "scan" /\ i'[t] = 1
        BY <3>4 DEF Check, Goto, TypeOK
      <4>2. QED
        BY <1>0, <2>1, <2>3, <3>1, <4>1 DEF Holds
    <3>5. CASE Miss(t)
      <4>1. pc'[t] = "scan" /\ i'[t] = i[t] + 1 /\ pc[t] = "scan"
        BY <3>5 DEF Miss, TypeOK
      <4>2. i[t] # n
        BY <1>2, <3>1, <3>5 DEF Miss
      <4>3. i[t] + 1 <= n
        BY <1>0, <3>1, <3>2, <4>1, <4>2
      <4>4. QED
        BY <2>1, <2>3, <3>1, <4>1, <4>3 DEF Holds
    <3>6. CASE Find(t)
      <4>1. pc'[t] = "report" /\ i'[t] = i[t] /\ pc[t] = "scan"
        BY <3>6 DEF Find, Goto, TypeOK, turn
      <4>2. QED
        BY <2>1, <2>3, <3>1, <4>1 DEF Holds
    <3>7. ~NextTurn(t)
      BY <1>0, <3>1, <3>2 DEF NextTurn, AllScanned
    <3>8. QED
      BY <1>1, <1>5, <3>1, <3>3, <3>4, <3>5, <3>6, <3>7 DEF QuietStep, PassBarrier, Lock
  <2>4. QED
    BY <1>3, <2>2, <2>3
<1>6. QED
  BY <1>4, <1>5

(* A thread leaves its loop after a short read, which reached the end of   *)
(* the file, or after a finding.                                           *)
LEMMA StopsStep ==
  ASSUME TypeOK, NobodyCancelled, StopsAtTheEnd, NEW t \in Threads, Step(t) \/ Die(t)
  PROVE  StopsAtTheEnd'
<1>0. N \in Nat /\ M \in Nat /\ Records \in Nat
  BY NumbersAssumption
<1> SUFFICES ASSUME Silent', NEW u \in Threads,
                    \/ pc'[u] \in {"unlock", "check"} /\ nread'[u] < M
                    \/ ~loop'[u]
                    \/ pc'[u] = "ended"
             PROVE  offset' = Records
  BY DEF StopsAtTheEnd, AtTheEnd
<1>1. Silent /\ QuietStep(t)
  BY SilentSteps
<1>2. CASE Read(t)
  <2>1. nread'[t] = Least(M, Records - offset) /\ offset' = offset + nread'[t]
    BY <1>2 DEF Read, TypeOK
  <2>2. CASE offset = Records
    BY <1>0, <2>1, <2>2 DEF Least
  <2>3. CASE offset # Records
    <3>1. u = t \/ (pc'[u] = pc[u] /\ nread'[u] = nread[u])
      BY <1>2 DEF Read, Goto, TypeOK
    <3>2. loop' = loop
      BY <1>2 DEF Read
    <3>3. pc'[t] = "unlock" /\ loop[t] = TRUE
      BY <1>1, <1>2, <2>3 DEF Read, Goto, TypeOK, StopsAtTheEnd, AtTheEnd
    <3>4. u = t /\ nread'[t] < M
      BY <1>1, <2>3, <3>1, <3>2, <3>3 DEF StopsAtTheEnd, AtTheEnd
    <3>5. QED
      BY <1>0, <2>1, <3>4 DEF Least, TypeOK
  <2>4. QED
    BY <2>2, <2>3
<1>3. CASE ~Read(t)
  <2>1. offset' = offset /\ nread' = nread
    BY <1>1, <1>3 DEF QuietStep, PassBarrier, Lock, Unlock, Check, Miss, Find, NextTurn, turn
  <2>2. CASE u # t
    <3>1. pc'[u] = pc[u] /\ loop'[u] = loop[u]
      BY <1>1, <2>2 DEF QuietStep, PassBarrier, Lock, Read, Unlock, Check, Miss, Find, NextTurn,
         turn, Goto, TypeOK
    <3>2. QED
      BY <1>1, <2>1, <3>1 DEF StopsAtTheEnd, AtTheEnd
  <2>3. CASE u = t
    BY <1>1, <1>3, <2>1, <2>3 DEF StopsAtTheEnd, AtTheEnd, QuietStep, PassBarrier, Lock, Unlock,
       Check, Miss, Find, NextTurn, Short, turn, Goto, TypeOK
  <2>4. QED
    BY <2>2, <2>3
<1>4. QED
  BY <1>2, <1>3

(* A thread that is over takes no step.                                    *)
LEMMA JoinedStep ==
  ASSUME TypeOK, JoinedAreOver, NEW t \in Threads, Step(t) \/ Die(t)
  PROVE  JoinedAreOver'
<1>1. joined' = joined
  BY DEF Step, Die, PassBarrier, Lock, Read, Unlock, Check, Miss, Find, Report, CancelOne,
     NextRecord, NextTurn, main
<1>2. pc[t] \notin {"ended", "cancelled"}
  BY DEF Step, Die, PassBarrier, Lock, Read, Unlock, Check, Miss, Find, Report, CancelOne,
     NextRecord, NextTurn
<1>3. \A u \in Threads : u # t => pc'[u] = pc[u]
  BY DEF TypeOK, Step, Die, PassBarrier, Lock, Read, Unlock, Check, Miss, Find, Report,
     CancelOne, NextRecord, NextTurn, Goto
<1>4. QED
  BY <1>1, <1>2, <1>3 DEF JoinedAreOver

LEMMA AnswerInvMain ==
  ASSUME TypeOK, AnswerInv, Create \/ OpenBarrier \/ Join \/ UNCHANGED vars
  PROVE  AnswerInv'
<1>1. UNCHANGED <<file, offset, pc, turn, pending, reported>>
  BY DEF Create, OpenBarrier, Join, vars
<1>2. MatchesAreRecords' /\ NobodyCancelled' /\ EveryMatchIsHeld'
  BY <1>1 DEF AnswerInv, MatchesAreRecords, NobodyCancelled, EveryMatchIsHeld, Silent, Holds,
     file, turn
<1>3. StopsAtTheEnd'
  BY <1>1 DEF AnswerInv, StopsAtTheEnd, AtTheEnd, Silent, turn
<1>4. JoinedAreOver'
  <2>1. CASE Join
    <3>1. /\ pc' = pc /\ joined' = joined + 1
          /\ pc[joined + 1] \in {"ended", "cancelled"}
      BY <2>1 DEF Join
    <3>2. \A t \in Threads : t <= joined + 1 => t <= joined \/ t = joined + 1
      BY NumbersAssumption DEF TypeOK, Threads
    <3>3. QED
      BY <3>1, <3>2 DEF AnswerInv, JoinedAreOver
  <2>2. CASE joined' = joined
    BY <1>1, <2>2 DEF AnswerInv, JoinedAreOver
  <2>3. QED
    BY <2>1, <2>2 DEF Create, OpenBarrier, vars, main
<1>5. QED
  BY <1>2, <1>3, <1>4 DEF AnswerInv

(* If a record contains the word, some thread has printed a finding by the *)
(* time main returns, in all three variants: no thread that is cancelled,  *)
(* or that stops at the end of the file, takes the only answer with it.    *)
THEOREM AnswerIsAlwaysFound == Spec => []AnswerIsFound
<1>0. N \in Nat \ {0} /\ M \in Nat /\ Records \in Nat
  BY NumbersAssumption
<1>1. Init => AnswerInv
  <2> SUFFICES ASSUME Init PROVE AnswerInv
    OBVIOUS
  <2>1. MatchesAreRecords /\ NobodyCancelled /\ StopsAtTheEnd
    BY DEF Init, MatchesAreRecords, NobodyCancelled, StopsAtTheEnd
  <2>2. 1 .. offset = {}
    BY DEF Init
  <2>3. JoinedAreOver
    BY <1>0 DEF Init, JoinedAreOver, Threads
  <2>4. QED
    BY <2>1, <2>2, <2>3 DEF AnswerInv, EveryMatchIsHeld
<1>2. CancelInv /\ AnswerInv /\ [Next]_vars => AnswerInv'
  <2> SUFFICES ASSUME CancelInv, AnswerInv, [Next]_vars PROVE AnswerInv'
    OBVIOUS
  <2>1. ASSUME NEW t \in Threads, Step(t) \/ Die(t) PROVE AnswerInv'
    <3>1. MatchesAreRecords'
      BY <2>1 DEF AnswerInv, MatchesAreRecords, Step, Die, PassBarrier, Lock, Read, Unlock,
         Check, Miss, Find, Report, CancelOne, NextRecord, NextTurn, file
    <3>2. QED
      BY <2>1, <3>1, NobodyCancelledStep, MatchesHeldStep, StopsStep, JoinedStep
      DEF AnswerInv, CancelInv
  <2>2. QED
    BY <2>1, AnswerInvMain DEF Next, Idle, CancelInv
<1>3. CancelInv /\ AnswerInv => AnswerIsFound
  <2> SUFFICES ASSUME CancelInv, AnswerInv, Returned, Silent,
                      NEW r \in matching, r # 0
               PROVE  FALSE
    BY DEF AnswerIsFound, Silent
  <2>1. \A t \in Threads : pc[t] = "ended"
    BY <1>0 DEF AnswerInv, JoinedAreOver, NobodyCancelled, Returned, Threads
  <2>2. 1 \in Threads
    BY <1>0 DEF Threads
  <2>3. offset = Records
    BY <2>1, <2>2 DEF AnswerInv, StopsAtTheEnd, AtTheEnd
  <2>4. r \in matching \cap (1 .. offset)
    BY <1>0, <2>3 DEF AnswerInv, MatchesAreRecords
  <2>5. QED
    BY <2>1, <2>4 DEF AnswerInv, EveryMatchIsHeld, Holds
<1>4. QED
  BY <1>1, <1>2, <1>3, CancelInvAlways, PTL DEF Spec
=============================================================================
