-------------------------- MODULE NetworkController -------------------------
(***************************************************************************)
(* The Network controller (src/src/network_controller): from one Network   *)
(* it applies the ServiceAccount, Role and RoleBinding of the router pods, *)
(* their DaemonSet, and a Service per public face, then reports in the     *)
(* Network's status.  What it made has the Network as owner, so that the   *)
(* garbage collector removes it after the Network.                         *)
(***************************************************************************)
EXTENDS Naturals, FiniteSets, Conditions

CONSTANTS
    MaxGen,      \* generations of the Network's spec
    MaxFaults    \* failed API calls and restarts

ASSUME BoundAssumption == MaxGen \in Nat \ {0} /\ MaxFaults \in Nat

VARIABLES
    now,        \* the clock, as the parity of its seconds
    object,     \* absent, live, deleting, gone
    finalizer,
    spec,       \* generation, and the faces it asks for
    rbac,       \* which of ServiceAccount, Role, RoleBinding exist
    ds,         \* the DaemonSet: generation it was made from (0: none), image
    services,   \* the faces that have a Service
    status,     \* the conditions of the Network
    cache, dirty, queue, task, faults

objVars   == <<object, finalizer, spec>>
ownedVars == <<rbac, ds, services>>
runVars   == <<cache, dirty, queue, task>>
vars      == <<now, objVars, ownedVars, status, runVars, faults>>

Rbac  == {"sa", "role", "binding"}
Faces == {"tcp", "ws"}
Gen   == 0 .. MaxGen
Types == {"RBACReady", "DSCreated", "Ready"}
Image == {"own", "default"}    \* the operator's own image, or the built-in default

NetworkSpec   == [gen : Gen, faces : SUBSET Faces]
DaemonSet     == [gen : Gen, image : Image]
NetworkStatus == [Types -> Condition(Gen, {0, 1})]

NoSpec   == [gen |-> 0, faces |-> {}]
NoDs     == [gen |-> 0, image |-> "own"]
NoStatus == NoConditions(Types)

Cached == [known : BOOLEAN, deleting : BOOLEAN, finalizer : BOOLEAN, spec : NetworkSpec]

\* finalize; the calls of reconcile in their order; event: of cleanup.
PC   == {"idle", "finalize", "image", "sa", "role", "binding", "ds", "tcp", "ws",
         "patch", "event", "release"}

\* conds: the conditions made by this pass, from none; those in the status are
\* not looked at.
Task == [pc : PC, spec : NetworkSpec, image : Image, conds : NetworkStatus]

Idle    == [pc |-> "idle", spec |-> NoSpec, image |-> "own", conds |-> NoStatus]
Exists  == object \in {"live", "deleting"}
Unknown == [known |-> FALSE, deleting |-> FALSE, finalizer |-> FALSE, spec |-> NoSpec]

Snapshot ==
    IF Exists THEN [known |-> TRUE, deleting |-> object = "deleting",
                    finalizer |-> finalizer, spec |-> spec]
    ELSE Unknown

TypeOK ==
    /\ now \in {0, 1}
    /\ object \in {"absent", "live", "deleting", "gone"} /\ finalizer \in BOOLEAN
    /\ spec \in NetworkSpec
    /\ rbac \subseteq Rbac /\ ds \in DaemonSet /\ services \subseteq Faces
    /\ status \in NetworkStatus
    /\ cache \in Cached /\ {dirty, queue} \subseteq BOOLEAN /\ task \in Task
    /\ faults \in 0 .. MaxFaults

Init ==
    /\ now = 0
    /\ object = "absent" /\ finalizer = FALSE /\ spec = NoSpec
    /\ rbac = {} /\ ds = NoDs /\ services = {}
    /\ status = NoStatus
    /\ cache = Unknown /\ dirty = FALSE /\ queue = FALSE /\ task = Idle
    /\ faults = 0

-----------------------------------------------------------------------------
(* Users, time, the garbage collector.                                     *)

CreateNetwork ==
    /\ object = "absent"
    /\ object' = "live" /\ dirty' = TRUE
    /\ \E f \in SUBSET Faces : spec' = [gen |-> 1, faces |-> f]
    /\ UNCHANGED <<now, finalizer, ownedVars, status, cache, queue, task, faults>>

EditNetwork ==
    /\ object = "live" /\ spec.gen < MaxGen
    /\ \E f \in SUBSET Faces : spec' = [gen |-> spec.gen + 1, faces |-> f]
    /\ dirty' = TRUE
    /\ UNCHANGED <<now, object, finalizer, ownedVars, status, cache, queue, task, faults>>

DeleteNetwork ==
    /\ object = "live"
    /\ object' = IF finalizer THEN "deleting" ELSE "gone"
    /\ dirty' = TRUE
    /\ UNCHANGED <<now, finalizer, spec, ownedVars, status, cache, queue, task, faults>>

Tick ==
    /\ now' = 1 - now
    /\ UNCHANGED <<objVars, ownedVars, status, runVars, faults>>

CollectGarbage ==
    /\ object = "gone"
    /\ \/ \E r \in rbac : rbac' = rbac \ {r} /\ UNCHANGED <<ds, services>>
       \/ ds # NoDs /\ ds' = NoDs /\ UNCHANGED <<rbac, services>>
       \/ \E f \in services : services' = services \ {f} /\ UNCHANGED <<rbac, ds>>
    /\ UNCHANGED <<now, objVars, status, runVars, faults>>

-----------------------------------------------------------------------------
(* The controller runtime.                                                 *)

\* Mutant: events that come while the object is being reconciled are dropped.
Watch_Busy ==
    /\ dirty
    /\ cache' = Snapshot
    /\ queue' = (queue \/ (Exists /\ task.pc = "idle"))
    /\ dirty' = FALSE
    /\ UNCHANGED <<now, objVars, ownedVars, status, task, faults>>

Watch ==
    /\ dirty
    /\ cache' = Snapshot
    /\ queue' = (queue \/ Exists)
    /\ dirty' = FALSE
    /\ UNCHANGED <<now, objVars, ownedVars, status, task, faults>>

Restart ==
    /\ faults < MaxFaults
    /\ faults' = faults + 1
    /\ cache' = Snapshot
    /\ queue' = Exists /\ dirty' = FALSE
    /\ task' = Idle
    /\ UNCHANGED <<now, objVars, ownedVars, status>>

\* Mutant: the failed task is kept aside until its delay is over.
Fail_Parked == task' = [task EXCEPT !.pc = "delayed"] /\ UNCHANGED queue

\* network_error_policy: back in the queue (its delay is left out).
Fail == task' = Idle /\ queue' = TRUE

End      == task' = Idle /\ UNCHANGED queue
Goto(pc) == task' = [task EXCEPT !.pc = pc] /\ UNCHANGED queue

\* On to the next call, with a condition made on the way.
Report(pc, type) ==
    /\ task' = [task EXCEPT !.pc = pc,
                   !.conds = Upsert(task.conds, type, TRUE, task.spec.gen, now)]
    /\ UNCHANGED queue

\* Every call but the one for the image ends the pass when it fails.
CallFails ==
    /\ task.pc \notin {"idle", "image"}
    /\ faults < MaxFaults
    /\ faults' = faults + 1
    /\ Fail
    /\ UNCHANGED <<now, objVars, ownedVars, status, cache, dirty>>

-----------------------------------------------------------------------------
(* reconcile_network: finalizer, reconcile or cleanup.                     *)

Start ==
    /\ queue /\ task.pc = "idle"
    /\ queue' = FALSE
    /\ LET pc == IF cache.deleting THEN (IF cache.finalizer THEN "event" ELSE "idle")
                 ELSE IF cache.finalizer THEN "image" ELSE "finalize"
       IN  task' = [pc |-> IF cache.known THEN pc ELSE "idle",
                    spec |-> cache.spec, image |-> "own", conds |-> NoStatus]
    /\ UNCHANGED <<now, objVars, ownedVars, status, cache, dirty, faults>>

AddFinalizer ==
    /\ task.pc = "finalize"
    /\ IF object = "live"
       THEN finalizer' = TRUE /\ dirty' = TRUE /\ End
       ELSE Fail /\ UNCHANGED <<finalizer, dirty>>
    /\ UNCHANGED <<now, object, spec, ownedVars, status, cache, faults>>

\* get_my_image: a failure is not an error, the default image is taken.
GetImage ==
    /\ task.pc = "image"
    /\ \/ Goto("sa") /\ UNCHANGED faults
       \/ /\ faults < MaxFaults
          /\ faults' = faults + 1
          /\ task' = [task EXCEPT !.pc = "sa", !.image = "default"]
          /\ UNCHANGED queue
    /\ UNCHANGED <<now, objVars, ownedVars, status, cache, dirty>>

\* Mutant: the RoleBinding is left out.
ApplyRbac_Unbound ==
    /\ \/ task.pc = "sa" /\ Goto("role")
       \/ task.pc = "role" /\ Report("ds", "RBACReady")
    /\ rbac' = rbac \union {task.pc}
    /\ UNCHANGED <<now, objVars, ds, services, status, cache, dirty, faults>>

\* ServiceAccount, Role and RoleBinding, one call each.
ApplyRbac ==
    /\ \/ task.pc = "sa" /\ Goto("role")
       \/ task.pc = "role" /\ Goto("binding")
       \/ task.pc = "binding" /\ Report("ds", "RBACReady")
    /\ rbac' = rbac \union {task.pc}
    /\ UNCHANGED <<now, objVars, ds, services, status, cache, dirty, faults>>

\* Mutant: the DaemonSet is only created, never updated.
ApplyDaemonSet_Create ==
    /\ task.pc = "ds"
    /\ ds' = IF ds = NoDs THEN [gen |-> task.spec.gen, image |-> task.image] ELSE ds
    /\ Report("tcp", "DSCreated")
    /\ UNCHANGED <<now, objVars, rbac, services, status, cache, dirty, faults>>

ApplyDaemonSet ==
    /\ task.pc = "ds"
    /\ ds' = [gen |-> task.spec.gen, image |-> task.image]
    /\ Report("tcp", "DSCreated")
    /\ UNCHANGED <<now, objVars, rbac, services, status, cache, dirty, faults>>

\* A Service for each face of the spec; that of a face no longer there stays.
ApplyService ==
    /\ \/ task.pc = "tcp" /\ Goto("ws")
       \/ task.pc = "ws" /\ Goto("patch")
    /\ services' = services \union ({task.pc} \intersect task.spec.faces)
    /\ UNCHANGED <<now, objVars, rbac, ds, status, cache, dirty, faults>>

\* The merge-patch replaces the conditions by those of this pass; within the same
\* second as the last it changes nothing.
PatchStatus ==
    /\ task.pc = "patch"
    /\ IF Exists
       THEN /\ status' = Upsert(task.conds, "Ready", TRUE, task.spec.gen, now)
            /\ dirty' = (dirty \/ status' # status)
            /\ End
       ELSE Fail /\ UNCHANGED <<status, dirty>>
    /\ UNCHANGED <<now, objVars, ownedVars, cache, faults>>

\* cleanup publishes an event, and must.
PublishDelete ==
    /\ task.pc = "event"
    /\ Goto("release")
    /\ UNCHANGED <<now, objVars, ownedVars, status, cache, dirty, faults>>

Release ==
    /\ task.pc = "release"
    /\ IF object = "deleting"
       THEN object' = "gone" /\ dirty' = TRUE /\ End
       ELSE Fail /\ UNCHANGED <<object, dirty>>
    /\ UNCHANGED <<now, finalizer, spec, ownedVars, status, cache, faults>>

-----------------------------------------------------------------------------
TaskStep ==
    \/ Start \/ AddFinalizer \/ GetImage \/ ApplyRbac \/ ApplyDaemonSet
    \/ ApplyService \/ PatchStatus \/ PublishDelete \/ Release

UserStep == CreateNetwork \/ EditNetwork \/ DeleteNetwork

Next == UserStep \/ Tick \/ CollectGarbage \/ Watch \/ TaskStep \/ CallFails \/ Restart

Fairness == WF_vars(Watch) /\ WF_vars(TaskStep) /\ WF_vars(CollectGarbage)

Spec == Init /\ [][Next]_vars /\ Fairness

-----------------------------------------------------------------------------
(* Properties.                                                             *)

\* Router pods never start without the rights their init container and sidecar
\* need: no DaemonSet exists before ServiceAccount, Role and RoleBinding do,
\* also after a pass that failed between them (network.rs 302-336).
RightsFirst == Exists /\ ds.gen # 0 => rbac = Rbac

Holds(type) == status[type].status = "True"

\* `Ready: DSCreated && RBACReady' and what these two say was applied (network.rs
\* 261-263), of the generation they report: the status never runs ahead of what
\* was applied, although the spec may be edited while the calls are made.
ReadyBacked ==
    Exists =>
        /\ Holds("Ready") => Holds("DSCreated") /\ Holds("RBACReady")
        /\ Holds("RBACReady") => rbac = Rbac
        /\ \A t \in Types : status[t].observed <= ds.gen /\ status[t].observed <= spec.gen

Settled == ~dirty /\ ~queue /\ task.pc = "idle"

\* Through with a Network, the controller has applied the latest generation: no
\* edit is lost to a pass already under way or to a failure half-way through
\* (network.rs 277-468).
SettledApplied ==
    object = "live" /\ Settled =>
        /\ ds.gen = spec.gen /\ spec.faces \subseteq services
        /\ \A t \in Types : Holds(t) /\ status[t].observed = spec.gen

\* Deleting a Network ends, and takes everything it made along.
DeletionCompletes ==
    object = "deleting" ~> object = "gone" /\ rbac = {} /\ ds = NoDs /\ services = {}

\* `Public faces to expose from router pods' (network.rs 94): a face taken out
\* of the spec is not exposed any longer once the controller is through.
SettledFaces == object = "live" /\ Settled => services = spec.faces

\* `If not specified, the operator will use its own image' (network.rs 86-87).
OwnImage == object = "live" /\ Settled => ds.image = "own"

\* `preserving last_transition_time if status is unchanged' (conditions.rs 58).
TransitionTimeKept ==
    [][\A t \in Types : status[t].status # "Absent" /\ status'[t].status = status[t].status =>
           status'[t].since = status[t].since]_vars
=============================================================================
