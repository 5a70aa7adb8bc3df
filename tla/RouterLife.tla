----------------------------- MODULE RouterLife ------------------------------
(***************************************************************************)
(* The life of the Routers of a network, as the pods and pod-sync lead it  *)
(* and the Router controller finds it: what RouterPod promises and         *)
(* RouterController takes its Routers to do.                               *)
(*                                                                         *)
(* A Router is made at most once, initialized before it is online, and     *)
(* never online and then offline; a pod that comes back may publish a face *)
(* anew, another one or none.                                              *)
(***************************************************************************)
CONSTANTS Routers

VARIABLES
    life,          \* of each Router: absent, live, deleting or gone
    initialized,   \* the Routers with status.initialized
    online,        \* the Routers with status.online
    faced          \* the Routers whose status.innerFace is not null

statusVars == <<initialized, online, faced>>
lifeVars   == <<life, statusVars>>

Present(r) == life[r] \in {"live", "deleting"}

LifeInit ==
    /\ life = [r \in Routers |-> "absent"]
    /\ initialized = {} /\ online = {} /\ faced = {}

Create(r) ==
    /\ life[r] = "absent"
    /\ life' = [life EXCEPT ![r] = "live"]
    /\ UNCHANGED statusVars

\* Pods are deleted before their Routers are made: those will never be.
Forgo ==
    /\ \E rs \in SUBSET {r \in Routers : life[r] = "absent"} :
          life' = [r \in Routers |-> IF r \in rs THEN "gone" ELSE life[r]]
    /\ UNCHANGED statusVars

Delete(r) ==
    /\ life[r] = "live"
    /\ life' = [life EXCEPT ![r] = "deleting"]
    /\ UNCHANGED statusVars

\* The object leaves the API server, its status with it.
Leave(r) ==
    /\ Present(r)
    /\ life' = [life EXCEPT ![r] = "gone"]
    /\ initialized' = initialized \ {r}
    /\ online' = online \ {r}
    /\ faced' = faced \ {r}

Publish(r) ==
    /\ Present(r)
    /\ initialized' = initialized \union {r}
    /\ faced' \in {faced \union {r}, faced \ {r}}
    /\ UNCHANGED <<life, online>>

GoOnline(r) ==
    /\ Present(r) /\ r \in initialized
    /\ online' = online \union {r}
    /\ UNCHANGED <<life, initialized, faced>>

LifeNext ==
    \/ \E r \in Routers : Create(r) \/ Delete(r) \/ Leave(r) \/ Publish(r) \/ GoOnline(r)
    \/ Forgo

LifeSpec == LifeInit /\ [][LifeNext]_lifeVars
=============================================================================
