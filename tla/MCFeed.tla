--------------------------------- MODULE MCFeed ---------------------------------
(* Instances of Feed for TLC: an old and a young fund over a holiday. *)
EXTENDS Feed, TLC

CONSTANTS c1, c2
TwoFunds == <<c1, c2>>
Both == {c1, c2}
HeldSecond == {c2}
OldAndYoung == (c1 :> 1) @@ (c2 :> 2)
=============================================================================
