--------------------------- MODULE MCOrderManager ---------------------------
(* Instances of OrderManager for TLC. *)
EXTENDS OrderManager, TLC

CONSTANTS o1, o2, c1, r1, r2

SameId  == [o \in Orders |-> o]                 \* orders are modified in place
OtherId == o1 :> o2 @@ o2 :> o2                 \* o2 takes the place of o1
=============================================================================
