-------------------------- MODULE MCClientSession ---------------------------
(* Instances of ClientSession for TLC. *)
EXTENDS ClientSession, TLC

CONSTANTS a, b

Two == {a, b}
\* The stream whose application may leave fits its channel; or does not.
Fits == a :> 1 @@ b :> 2
Overfull == a :> 3 @@ b :> 0
=============================================================================
