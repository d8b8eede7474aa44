------------------------------ MODULE MCMatch ------------------------------
(* Instances of Match for TLC. *)
EXTENDS Match, TLC

CONSTANTS c1, c2, c3, s1, s2

SharedSig == c1 :> s1 @@ c2 :> s1 @@ c3 :> s2      \* c3 has its signature for itself
Answers   == c1 :> 1 @@ c2 :> 2 @@ c3 :> 2
=============================================================================
