----------------------------- MODULE MCSysVChat -----------------------------
(* Model-checking instances of SysVChat.                                   *)
EXTENDS SysVChat, TLC

CONSTANTS a, b, c, i1, i2, k1, k2

TwoClients == {a, b}
ThreeClients == {a, b, c}
TwoIds == {i1, i2}
TwoKeys == {k1, k2}
OneEach == (a :> i1) @@ (b :> i2)
OneReused == (a :> i1) @@ (b :> i2) @@ (c :> i1)
TwoTexts == (a :> 1) @@ (b :> 2) @@ (c :> 1)
OneTextEach == (a :> 1) @@ (b :> 1)
Nobody == {}
JustB == {b}

Symmetry == Permutations({k1, k2})
=============================================================================
