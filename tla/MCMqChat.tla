------------------------------ MODULE MCMqChat ------------------------------
(* Two clients of one name, and one of another, which writes two texts. *)
EXTENDS MqChat, TLC

CONSTANTS a1, a2, b

ThreeClients == {a1, a2, b}
TwoOfOneName == (a1 :> "a") @@ (a2 :> "a") @@ (b :> "b")
OneText == (a1 :> 0) @@ (a2 :> 0) @@ (b :> 2)
=============================================================================
