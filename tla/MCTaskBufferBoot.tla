-------------------------- MODULE MCTaskBufferBoot --------------------------
(* Model-checking instances of TaskBufferBoot, where p1 and p2 produce and *)
(* c1 consumes, and of IpcCleanup with two users.  The first state chooses *)
(* which of the two runs; the other stays as it began.                     *)
EXTENDS TaskBufferBoot, IpcCleanup

CONSTANTS p1, p2, c1, u1, u2

TwoProducers == {p1, p2}
OneConsumer == {c1}
Everyone == {p1, p2, c1}
TwoUsers == {u1, u2}

VARIABLE program

StartInit == /\ program \in {"boot", "cleanup"}
             /\ BootInit /\ CleanInit
             /\ program = "cleanup" => ~posix /\ ~overlap

StartNext ==
  \/ program = "boot" /\ BootNext /\ UNCHANGED <<program, cleanVars>>
  \/ program = "cleanup" /\ CleanNext /\ UNCHANGED <<program, allVars>>

StartSpec == /\ StartInit /\ [][StartNext]_<<program, allVars, cleanVars>>
             /\ \A u \in Users : WF_cleanVars(SemopFails(u))
=============================================================================
