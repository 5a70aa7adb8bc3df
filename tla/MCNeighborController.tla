------------------------ MODULE MCNeighborController ------------------------
(* The Neighbor controller with Routers in one network or in two. *)
EXTENDS NeighborController, TLC

CONSTANTS r1, r2, w1, w2

OneNetwork  == [r \in Routers |-> w1]
TwoNetworks == [r \in Routers |-> IF r = r2 THEN w2 ELSE w1]
=============================================================================
