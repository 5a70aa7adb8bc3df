------------------------- MODULE MCRouterController -------------------------
(* The Router controller on small networks. *)
EXTENDS RouterController, TLC

CONSTANTS Old   \* Routers that are up and meshed when the run starts

\* A quiet network of the Routers Old, reached after their creation; the
\* others have yet to be created.  One behaviour of Spec from Init leads here.
Meshed(r) == [present |-> TRUE, initialized |-> TRUE, online |-> TRUE,
              addr |-> TRUE, face |-> 1, ready |-> TRUE, synced |-> TRUE]

GrownInit ==
    /\ phase = [r \in Routers |-> IF r \in Old THEN "live" ELSE "absent"]
    /\ finalizer = [r \in Routers |-> r \in Old]
    /\ status = [r \in Routers |-> IF r \in Old THEN Meshed(r) ELSE NoStatus]
    /\ inner = [q \in Routers |-> [r \in Routers |->
                   IF q \in Old /\ r \in Old /\ q # r THEN 1 ELSE 0]]
    /\ cache = [r \in Routers |-> Snapshot(r)]
    /\ dirty = {}
    /\ queue = {}
    /\ task = [r \in Routers |-> Idle]
    /\ faults = 0

GrownSpec == GrownInit /\ [][Next]_vars

\* Pods that all have an address in the family of the mesh: what liveness is
\* checked on.  No step of the controller is excluded.
Addressed == \A r \in Routers : status[r].face # 0 => status[r].addr
LiveSpec  == Init /\ [][Next /\ Addressed']_vars /\ Fairness

\* Small symmetric networks: interchangeable Routers on either side.
GrownSymmetry == Permutations(Old) \union Permutations(Routers \ Old)
=============================================================================
