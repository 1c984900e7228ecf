------------------------------ MODULE MCFinder ------------------------------
(* Model-checking instances of Finder.                                     *)
EXTENDS Finder

AllThree == {"asynchronous", "deferred", "disabled"}
=============================================================================
