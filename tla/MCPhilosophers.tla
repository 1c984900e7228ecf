--------------------------- MODULE MCPhilosophers ---------------------------
(* Model-checking instances of Philosophers.                               *)
EXTENDS Philosophers
=============================================================================
