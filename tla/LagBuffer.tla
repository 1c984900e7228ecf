------------------------------ MODULE LagBuffer ------------------------------
(***************************************************************************)
(* What the task buffer of lab7 promises to its users, with the processes, *)
(* the semaphores and the ring left out: a buffer of at most Cap tasks     *)
(* that answers one task late.  Tasks are numbered in the order they are   *)
(* added.  The k-th take returns task k-1 (nothing, 0, for the first),     *)
(* unless the buffer was full: then task k-1 has been overwritten by the   *)
(* task added last, and that one is returned - and, if nothing overwrites  *)
(* it, returned again Cap takes later.                                     *)
(***************************************************************************)
EXTENDS Integers, Sequences

CONSTANT Cap

VARIABLES added,   \* how many tasks were added
          taken    \* the tasks taken, in order

vars == <<added, taken>>

Waiting == added - Len(taken)

Init == added = 0 /\ taken = <<>>

Add == /\ Waiting < Cap
       /\ added' = added + 1
       /\ UNCHANGED taken

Take == /\ Waiting > 0
        /\ taken' = Append(taken, IF Waiting = Cap THEN added ELSE Len(taken))
        /\ UNCHANGED added

Next == Add \/ Take

Spec == Init /\ [][Next]_vars
=============================================================================
