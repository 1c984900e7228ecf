---------------------------- MODULE MCTaskBuffer ----------------------------
(* Model-checking instances of TaskBuffer: p1, p2 produce, c1, c2 consume. *)
EXTENDS TaskBuffer, TLC

CONSTANTS p1, p2, c1, c2

TwoProducers == {p1, p2}
TwoConsumers == {c1, c2}
OneEach == {p1, c1}
Nobody == {}

=============================================================================
