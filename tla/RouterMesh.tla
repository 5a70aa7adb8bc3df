----------------------------- MODULE RouterMesh -----------------------------
(***************************************************************************)
(* What the Router controller promises, without its cache, queue and       *)
(* tasks: the innerNeighbors maps of a network seen as one relation that   *)
(* only ever holds faces the named Router really published, each entry     *)
(* moving forward, and that no longer names a Router once it is gone.      *)
(***************************************************************************)
EXTENDS Naturals

CONSTANTS Routers

VARIABLES
    phase,   \* absent, live, deleting or gone
    face,    \* the face each Router has published last, 0 before
    inner    \* inner[q][r]: the face of r that q knows, 0 when none

meshVars == <<phase, face, inner>>

Present(r) == phase[r] \in {"live", "deleting"}
Holders(r) == {q \in Routers : inner[q][r] # 0}
Empty      == [r \in Routers |-> 0]

MeshInit ==
    /\ phase = [r \in Routers |-> "absent"]
    /\ face = Empty
    /\ inner = [q \in Routers |-> Empty]

Create(r) ==
    /\ phase[r] = "absent"
    /\ phase' = [phase EXCEPT ![r] = "live"]
    /\ UNCHANGED <<face, inner>>

Delete(r) ==
    /\ phase[r] = "live"
    /\ phase' = [phase EXCEPT ![r] = "deleting"]
    /\ UNCHANGED <<face, inner>>

Publish(r) ==
    /\ Present(r)
    /\ face' = [face EXCEPT ![r] = @ + 1]
    /\ UNCHANGED <<phase, inner>>

\* q learns a face of r, never an older one than it knows.
Announce(r, q) ==
    /\ q # r /\ Present(r) /\ Present(q)
    /\ \E f \in 1 .. face[r] :
         /\ f >= inner[q][r]
         /\ inner' = [inner EXCEPT ![q][r] = f]
    /\ UNCHANGED <<phase, face>>

\* Only a Router being deleted is forgotten.
Withdraw(r, q) ==
    /\ phase[r] = "deleting"
    /\ inner' = [inner EXCEPT ![q][r] = 0]
    /\ UNCHANGED <<phase, face>>

\* A Router leaves when nobody holds it, and takes its own map along.
Retire(r) ==
    /\ Present(r)
    /\ Holders(r) = {}
    /\ phase' = [phase EXCEPT ![r] = "gone"]
    /\ face' = [face EXCEPT ![r] = 0]
    /\ inner' = [inner EXCEPT ![r] = Empty]

MeshNext ==
    \E r \in Routers :
        \/ Create(r) \/ Delete(r) \/ Publish(r) \/ Retire(r)
        \/ \E q \in Routers : Announce(r, q) \/ Withdraw(r, q)

MeshSpec == MeshInit /\ [][MeshNext]_meshVars
=============================================================================
