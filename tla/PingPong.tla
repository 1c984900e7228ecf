------------------------------ MODULE PingPong ------------------------------
(***************************************************************************)
(* The three signal programs of lab4.  Parent and child have the same plan: *)
(* the child says that it is ready, the parent sends SIGUSR1 a number of   *)
(* times and then SIGUSR2, the child sends back as many as it has counted. *)
(*                                                                         *)
(*   zad1 "plain"      standard signals, sigsuspend                        *)
(*   zad2 "confirmed"  each SIGUSR1 is answered by another, pause          *)
(*   zad3 "realtime"   queued real-time signals, sigsuspend                *)
(*                                                                         *)
(* All three test a flag and go to sleep in two steps, with the signals    *)
(* unblocked.  The kernel runs the handlers of everything pending before   *)
(* the program goes on.                                                    *)
(***************************************************************************)
EXTENDS Integers

CONSTANTS Variants,   \* the programs considered
          MaxSignals, \* bound: the largest argument of the parent
          RtLimit     \* real-time signals the kernel queues (RLIMIT_SIGPENDING)

Procs == {"parent", "child"}
Other(p) == IF p = "parent" THEN "child" ELSE "parent"

VARIABLES variant, N,  \* the program and its num_signals
          pc,          \* "off", "begin", "reset", "test", "sleep", "send", "end", "killed"
          stage,       \* 1 waits for the first flag, 2 sends, 3 waits for the last
          pending1, pending2,  \* SIGUSR1s (how many) and SIGUSR2 (whether) to be handled
          counter, flag, confirmation,  \* the variables of each program
          i,           \* signals sent
          once,        \* whether sa_flags happens to hold SA_RESETHAND
          unset        \* the signals whose handler has been reset

vars == <<variant, N, pc, stage, pending1, pending2, counter, flag, confirmation,
          i, once, unset>>

Init ==
  /\ variant = "plain" /\ N = 0
  /\ pc = [p \in Procs |-> "off"] /\ stage = [p \in Procs |-> 1]
  /\ pending1 = [p \in Procs |-> 0] /\ pending2 = [p \in Procs |-> FALSE]
  /\ counter = [p \in Procs |-> 0] /\ i = [p \in Procs |-> 0]
  /\ flag = [p \in Procs |-> FALSE] /\ confirmation = [p \in Procs |-> FALSE]
  /\ once = [p \in Procs |-> FALSE] /\ unset = [p \in Procs |-> {}]

-----------------------------------------------------------------------------
Least(a, b) == IF a < b THEN a ELSE b

(* A standard signal that is pending already is not sent again.            *)
AlwaysMerged(n) == 1                     \* planted defect: standard signal numbers
WithOneMore(n) == IF variant = "realtime" THEN Least(n + 1, RtLimit) ELSE 1

Signal1(p) == pending1' = [pending1 EXCEPT ![p] = WithOneMore(@)]
Signal2(p) == pending2' = [pending2 EXCEPT ![p] = TRUE]

(* main of the parent: handlers and fork.  zad2 leaves sa_flags unset.     *)
Start ==
  /\ pc["parent"] = "off"
  /\ variant' \in Variants /\ N' \in 0 .. MaxSignals
  /\ once' \in [Procs -> IF variant' = "confirmed" THEN BOOLEAN ELSE {FALSE}]
  /\ pc' = [parent |-> "reset", child |-> "begin"]
  /\ UNCHANGED <<stage, pending1, pending2, counter, flag, confirmation, i, unset>>

(* The parent clears its flag after fork: the child may have been faster.  *)
Reset ==
  /\ pc["parent"] = "reset"
  /\ flag' = [flag EXCEPT !["parent"] = FALSE]
  /\ pc' = [pc EXCEPT !["parent"] = "test"]
  /\ UNCHANGED <<variant, N, stage, pending1, pending2, counter, confirmation, i, once, unset>>

(* The child after exec: handlers, and word to the parent.                 *)
Ready ==
  /\ pc["child"] = "begin"
  /\ Signal2("parent")
  /\ pc' = [pc EXCEPT !["child"] = "test"]
  /\ UNCHANGED <<variant, N, stage, pending1, counter, flag, confirmation, i, once, unset>>

Awaited(p) == IF stage[p] = 2 THEN confirmation[p] ELSE flag[p]

Cleared(p) ==
  /\ confirmation' = [confirmation EXCEPT ![p] = FALSE]
  /\ flag' = IF p = "parent" /\ stage[p] = 1 THEN [flag EXCEPT ![p] = FALSE] ELSE flag

(* while(!flag): leave the loop, or go to sleep.  The child of zad2 sets   *)
(* a new handler for SIGUSR1, with signal(), before it sends.              *)
Proceed(p) ==
  /\ pc[p] = "test" /\ Awaited(p)
  /\ Cleared(p)
  /\ IF stage[p] = 3
     THEN pc' = [pc EXCEPT ![p] = "end"] /\ UNCHANGED <<stage, once, unset>>
     ELSE /\ pc' = [pc EXCEPT ![p] = "send"]
          /\ stage' = [stage EXCEPT ![p] = 2]
          /\ once' = IF p = "child" THEN [once EXCEPT ![p] = FALSE] ELSE once
          /\ unset' = IF p = "child" THEN [unset EXCEPT ![p] = {}] ELSE unset
  /\ UNCHANGED <<variant, N, pending1, pending2, counter, i>>

Sleep(p) ==
  /\ pc[p] = "test" /\ ~Awaited(p)
  /\ pc' = [pc EXCEPT ![p] = "sleep"]
  /\ UNCHANGED <<variant, N, stage, pending1, pending2, counter, flag, confirmation,
                 i, once, unset>>

ToSend(p) == IF p = "parent" THEN N ELSE counter[p]

OneTooMany(p) == i[p] <= ToSend(p)       \* planted defect
MoreToSend(p) == i[p] < ToSend(p)

SendOne(p) ==
  /\ pc[p] = "send" /\ MoreToSend(p)
  /\ Signal1(Other(p))
  /\ i' = [i EXCEPT ![p] = @ + 1]
  /\ pc' = [pc EXCEPT ![p] = IF variant = "confirmed" THEN "test" ELSE "send"]
  /\ UNCHANGED <<variant, N, stage, pending2, counter, flag, confirmation, once, unset>>

(* After the last one SIGUSR2; the parent has set its handlers anew.       *)
SendLast(p) ==
  /\ pc[p] = "send" /\ ~MoreToSend(p)
  /\ Signal2(Other(p))
  /\ pc' = [pc EXCEPT ![p] = IF p = "parent" THEN "test" ELSE "end"]
  /\ stage' = [stage EXCEPT ![p] = 3]
  /\ unset' = IF p = "parent" THEN [unset EXCEPT ![p] = {}] ELSE unset
  /\ UNCHANGED <<variant, N, pending1, counter, flag, confirmation, i, once>>

-----------------------------------------------------------------------------
(* In zad2 SIGUSR1 is a confirmation for the side that sends.              *)
ParentConfirms(p) == variant = "confirmed" /\ p = "parent"   \* planted defect: never switched
Confirms(p) == /\ variant = "confirmed"
               /\ IF p = "parent" THEN stage[p] < 3 ELSE stage[p] > 1

Raised(p) == (IF pending1[p] > 0 THEN {1} ELSE {}) \cup (IF pending2[p] THEN {2} ELSE {})

(* The handlers of everything pending; a handler that was reset to the     *)
(* default lets the signal kill the process.                               *)
Handle(p) ==
  /\ pc[p] \notin {"off", "begin", "end", "killed"} /\ Raised(p) # {}
  /\ pending2' = [pending2 EXCEPT ![p] = FALSE]
  /\ flag' = [flag EXCEPT ![p] = flag[p] \/ pending2[p]]
  /\ unset' = [unset EXCEPT ![p] = IF once[p] THEN @ \cup Raised(p) ELSE @]
  /\ pc' = [pc EXCEPT ![p] = IF Raised(p) \cap unset[p] # {} THEN "killed"
                             ELSE IF @ = "sleep" THEN "test" ELSE @]
  /\ \/ /\ Confirms(p)
        /\ confirmation' = [confirmation EXCEPT ![p] = @ \/ pending1[p] > 0]
        /\ pending1' = [pending1 EXCEPT ![p] = 0]
        /\ UNCHANGED counter
     \/ /\ ~Confirms(p)
        /\ counter' = [counter EXCEPT ![p] = @ + pending1[p]]
        /\ pending1' = [pending1 EXCEPT
             ![p] = 0,
             ![Other(p)] = IF variant = "confirmed" /\ pending1[p] > 0 THEN 1 ELSE @]
        /\ UNCHANGED confirmation
  /\ UNCHANGED <<variant, N, stage, i, once>>

Step == \/ Start \/ Reset \/ Ready
        \/ \E p \in Procs : \/ Proceed(p) \/ Sleep(p) \/ SendOne(p) \/ SendLast(p)
                            \/ Handle(p)
Next == Step

(* Each process runs, and handles what is pending; as no behaviour is      *)
(* endless, it is enough that some step is taken while there is one.       *)
Spec == Init /\ [][Next]_vars /\ WF_vars(Step)

-----------------------------------------------------------------------------
(* Types of the two processes' state.                                      *)
TypeOK ==
  /\ variant \in {"plain", "confirmed", "realtime"} /\ N \in 0 .. MaxSignals
  /\ pc \in [Procs -> {"off", "begin", "reset", "test", "sleep", "send", "end", "killed"}]
  /\ stage \in [Procs -> 1 .. 3]
  /\ pending1 \in [Procs -> 0 .. MaxSignals] /\ pending2 \in [Procs -> BOOLEAN]
  /\ counter \in [Procs -> 0 .. MaxSignals] /\ i \in [Procs -> 0 .. MaxSignals]
  /\ flag \in [Procs -> BOOLEAN] /\ confirmation \in [Procs -> BOOLEAN]
  /\ once \in [Procs -> BOOLEAN] /\ unset \in [Procs -> SUBSET {1, 2}]

(* What the parent prints: confirmed signals come back all, queued ones as *)
(* far as the kernel queues them, merging ones at least once.              *)
CountedRight ==
  pc["parent"] = "end" =>
    CASE variant = "confirmed" -> counter["parent"] = N
      [] variant = "realtime" -> Least(N, RtLimit) <= counter["parent"] /\ counter["parent"] <= N
      [] OTHER -> Least(N, 1) <= counter["parent"] /\ counter["parent"] <= N

(* A process asleep although what it waits for has happened: between the   *)
(* test and the call that sleeps, or before the parent cleared its flag.   *)
Overslept(p) == pc[p] = "sleep" /\ Awaited(p)
ReadyForgotten == /\ stage["parent"] = 1 /\ pc["parent"] \in {"test", "sleep"}
                  /\ pc["child"] # "begin"
                  /\ ~flag["parent"] /\ ~pending2["parent"]

(* The parent prints its count, unless a signal came at the wrong moment   *)
(* or, with unset sa_flags, the second of a kind killed a process.         *)
RoundTripEnds == <>(\/ pc["parent"] = "end" \/ ReadyForgotten
                    \/ \E p \in Procs : pc[p] = "killed" \/ Overslept(p))
=============================================================================
