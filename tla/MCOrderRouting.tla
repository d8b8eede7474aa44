--------------------------- MODULE MCOrderRouting ---------------------------
(* Instances of OrderRouting for TLC. *)
EXTENDS OrderRouting, TLC

CONSTANTS o1, o2, c1, c2, s1, t1, t2

SharedIds == o1 :> c1 @@ o2 :> c1          \* a ClientOrderID used twice
OneId     == o1 :> c1

TradesSymmetric == Permutations(Trades)
OrdersSymmetric == Permutations(Orders)
=============================================================================
