------------------------------ MODULE PodSync -------------------------------
(***************************************************************************)
(* The pod-sync controller (src/src/pod_controller): every router pod of a *)
(* Network's DaemonSet is given a Router, and a Certificate when the       *)
(* Network has an issuer; a finalizer on the pod has both deleted with it. *)
(* Router and Certificate are two API calls, so are the two deletions.     *)
(***************************************************************************)
EXTENDS Naturals, FiniteSets

CONSTANTS
    Pods,         \* names of router pods
    MaxEdits,     \* edits of the Network's routerCertIssuer
    MaxFaults,    \* restarts, and failed API calls that end a pass
    MaxLost       \* pods with a failed deletion, which the code passes over

ASSUME BoundAssumption == {MaxEdits, MaxFaults, MaxLost} \subseteq Nat

VARIABLES
    phase,      \* life of each pod: absent, live, deleting, gone
    scheduled,  \* the pods with a nodeName
    finalizer,  \* the pods with this controller's finalizer
    issuer,     \* does the Network have a routerCertIssuer?
    unseen,     \* history: the pods that no pass has read the Network for since its last edit
    router,     \* the Router of each pod: none, live, deleting
    certRef,    \* the pods whose Router refers to its Certificate
    cert,       \* the pods whose Certificate exists
    cache,      \* each pod as the reflector last saw it
    dirty,      \* the pods with an undelivered watch event
    queue,      \* the pods queued for reconciliation
    task,       \* the reconciliation in flight of each pod
    lost,       \* the pods of which a deletion has failed
    edits, faults

podVars  == <<phase, scheduled, finalizer>>
netVars  == <<issuer, unseen>>
objVars  == <<router, certRef, cert>>
runVars  == <<cache, dirty, queue, task>>
counters == <<lost, edits, faults>>
vars     == <<podVars, netVars, objVars, runVars, counters>>

Cached == [known : BOOLEAN, deleting : BOOLEAN, finalizer : BOOLEAN, scheduled : BOOLEAN]

\* finalize: adding the finalizer; network, cert, router: pod_apply;
\* find, delRouter, delCert: pod_cleanup; release: removing the finalizer.
\* `certified': the Certificate was applied, or the Router names one.
PC   == {"idle", "finalize", "network", "cert", "router",
         "find", "delRouter", "delCert", "release"}
Task == [pc : PC, scheduled : BOOLEAN, certified : BOOLEAN]

Idle    == [pc |-> "idle", scheduled |-> FALSE, certified |-> FALSE]
Unknown == [known |-> FALSE, deleting |-> FALSE, finalizer |-> FALSE, scheduled |-> FALSE]

Exists(p) == phase[p] \in {"live", "deleting"}

Snapshot(p) ==
    IF Exists(p)
    THEN [known |-> TRUE, deleting |-> phase[p] = "deleting",
          finalizer |-> p \in finalizer, scheduled |-> p \in scheduled]
    ELSE Unknown

TypeOK ==
    /\ phase \in [Pods -> {"absent", "live", "deleting", "gone"}]
    /\ scheduled \subseteq Pods /\ finalizer \subseteq Pods
    /\ issuer \in BOOLEAN /\ unseen \subseteq Pods
    /\ router \in [Pods -> {"none", "live", "deleting"}]
    /\ certRef \subseteq Pods /\ cert \subseteq Pods
    /\ cache \in [Pods -> Cached]
    /\ dirty \subseteq Pods /\ queue \subseteq Pods
    /\ task \in [Pods -> Task]
    /\ lost \subseteq Pods /\ Cardinality(lost) <= MaxLost
    /\ edits \in 0 .. MaxEdits /\ faults \in 0 .. MaxFaults

Init ==
    /\ phase = [p \in Pods |-> "absent"]
    /\ scheduled = {} /\ finalizer = {}
    /\ issuer \in BOOLEAN /\ unseen = {}
    /\ router = [p \in Pods |-> "none"]
    /\ certRef = {} /\ cert = {}
    /\ cache = [p \in Pods |-> Unknown]
    /\ dirty = {} /\ queue = {}
    /\ task = [p \in Pods |-> Idle]
    /\ lost = {} /\ edits = 0 /\ faults = 0

-----------------------------------------------------------------------------
(* The cluster.                                                            *)

CreatePod(p) ==
    /\ phase[p] = "absent"
    /\ phase' = [phase EXCEPT ![p] = "live"]
    /\ dirty' = dirty \union {p}
    /\ UNCHANGED <<scheduled, finalizer, netVars, objVars, cache, queue, task, counters>>

SchedulePod(p) ==
    /\ phase[p] = "live" /\ p \notin scheduled
    /\ scheduled' = scheduled \union {p}
    /\ dirty' = dirty \union {p}
    /\ UNCHANGED <<phase, finalizer, netVars, objVars, cache, queue, task, counters>>

\* Deletion waits for the finalizer, when there is one.
DeletePod(p) ==
    /\ phase[p] = "live"
    /\ phase' = [phase EXCEPT ![p] = IF p \in finalizer THEN "deleting" ELSE "gone"]
    /\ dirty' = dirty \union {p}
    /\ UNCHANGED <<scheduled, finalizer, netVars, objVars, cache, queue, task, counters>>

\* The kubelet writes the pod's status: its containers start, end, restart.
PodChanges(p) ==
    /\ Exists(p)
    /\ dirty' = dirty \union {p}
    /\ UNCHANGED <<podVars, netVars, objVars, cache, queue, task, counters>>

EditIssuer ==
    /\ edits < MaxEdits
    /\ edits' = edits + 1
    /\ issuer' = ~issuer /\ unseen' = Pods
    /\ UNCHANGED <<podVars, objVars, runVars, lost, faults>>

\* The Router controller is through with a deleted Router.
RouterGone(p) ==
    /\ router[p] = "deleting"
    /\ router' = [router EXCEPT ![p] = "none"]
    /\ certRef' = certRef \ {p}
    /\ UNCHANGED <<podVars, netVars, cert, runVars, counters>>

-----------------------------------------------------------------------------
(* The controller runtime.                                                 *)

Watch(p) ==
    /\ p \in dirty
    /\ cache' = [cache EXCEPT ![p] = Snapshot(p)]
    /\ queue' = IF Exists(p) THEN queue \union {p} ELSE queue
    /\ dirty' = dirty \ {p}
    /\ UNCHANGED <<podVars, netVars, objVars, task, counters>>

Restart ==
    /\ faults < MaxFaults
    /\ faults' = faults + 1
    /\ cache' = [p \in Pods |-> Snapshot(p)]
    /\ queue' = {p \in Pods : Exists(p)}
    /\ dirty' = {}
    /\ task' = [p \in Pods |-> Idle]
    /\ UNCHANGED <<podVars, netVars, objVars, lost, edits>>

\* Mutant: the error policy waits for the next change of the pod.
Fail_Await(p) == task' = [task EXCEPT ![p] = Idle] /\ UNCHANGED queue

\* Mutant: the failed task is kept aside until its delay is over.
Fail_Parked(p) == task' = [task EXCEPT ![p].pc = "delayed"] /\ UNCHANGED queue

\* pod_error_policy: back in the queue (its delay is left out).
Fail(p) == task' = [task EXCEPT ![p] = Idle] /\ queue' = queue \union {p}

End(p)      == task' = [task EXCEPT ![p] = Idle] /\ UNCHANGED queue
Goto(p, pc) == task' = [task EXCEPT ![p].pc = pc] /\ UNCHANGED queue

\* The deletions alone do not propagate their error: see DeleteRouter.
CallFails(p) ==
    /\ task[p].pc \notin {"idle", "delRouter", "delCert"}
    /\ faults < MaxFaults
    /\ faults' = faults + 1
    /\ Fail(p)
    /\ UNCHANGED <<podVars, netVars, objVars, cache, dirty, lost, edits>>

-----------------------------------------------------------------------------
(* reconcile_pod: finalizer, pod_apply or pod_cleanup.                     *)

Start(p) ==
    /\ p \in queue /\ task[p].pc = "idle"
    /\ queue' = queue \ {p}
    /\ LET c  == cache[p]
           pc == IF c.deleting THEN (IF c.finalizer THEN "find" ELSE "idle")
                 ELSE IF c.finalizer THEN "network" ELSE "finalize"
       IN  IF c.known
           THEN task' = [task EXCEPT ![p] =
                           [pc |-> pc, scheduled |-> c.scheduled, certified |-> FALSE]]
           ELSE UNCHANGED task
    /\ UNCHANGED <<podVars, netVars, objVars, cache, dirty, counters>>

AddFinalizer(p) ==
    /\ task[p].pc = "finalize"
    /\ IF phase[p] = "live"
       THEN /\ finalizer' = finalizer \union {p}
            /\ dirty' = dirty \union {p}
            /\ End(p)
       ELSE Fail(p) /\ UNCHANGED <<finalizer, dirty>>
    /\ UNCHANGED <<phase, scheduled, netVars, objVars, cache, counters>>

\* A pod without a node is an error: it comes back when it has one, or later.
GetNetwork(p) ==
    /\ task[p].pc = "network"
    /\ IF task[p].scheduled THEN Goto(p, IF issuer THEN "cert" ELSE "router") ELSE Fail(p)
    /\ unseen' = unseen \ {p}
    /\ UNCHANGED <<podVars, issuer, objVars, cache, dirty, counters>>

ApplyCert(p) ==
    /\ task[p].pc = "cert"
    /\ cert' = cert \union {p}
    /\ task' = [task EXCEPT ![p].pc = "router", ![p].certified = TRUE]
    /\ UNCHANGED <<podVars, netVars, router, certRef, cache, dirty, queue, counters>>

\* Mutant: a merge patch, which leaves a spec.cert that it does not name.
ApplyRouter_Merge(p) ==
    /\ task[p].pc = "router"
    /\ router' = [router EXCEPT ![p] = IF @ = "none" THEN "live" ELSE @]
    /\ certRef' = IF task[p].certified THEN certRef \union {p} ELSE certRef
    /\ End(p)
    /\ UNCHANGED <<podVars, netVars, cert, cache, dirty, counters>>

\* Server-side apply: creates the Router, or sets and removes its spec.cert.
ApplyRouter(p) ==
    /\ task[p].pc = "router"
    /\ router' = [router EXCEPT ![p] = IF @ = "none" THEN "live" ELSE @]
    /\ certRef' = IF task[p].certified THEN certRef \union {p} ELSE certRef \ {p}
    /\ End(p)
    /\ UNCHANGED <<podVars, netVars, cert, cache, dirty, counters>>

\* No Router: nothing to tell which Certificate to delete.
FindRouter(p) ==
    /\ task[p].pc = "find"
    /\ task' = [task EXCEPT ![p].pc = "delRouter",
                            ![p].certified = router[p] # "none" /\ p \in certRef]
    /\ UNCHANGED <<podVars, netVars, objVars, cache, dirty, queue, counters>>

\* Mutant: the Certificate is deleted first.
DeleteRouter_CertFirst(p) ==
    /\ task[p].pc = "delRouter"
    /\ IF task[p].certified /\ p \in cert
       THEN cert' = cert \ {p} /\ UNCHANGED <<router, certRef, task>>
       ELSE /\ router' = [router EXCEPT ![p] = IF @ = "live" THEN "deleting" ELSE @]
            /\ task' = [task EXCEPT ![p].pc = "release"]
            /\ UNCHANGED <<cert, certRef>>
    /\ UNCHANGED <<podVars, netVars, cache, dirty, queue, counters>>

\* Mutant: a Router without a Certificate is left to its owner reference.
DeleteRouter_Certified(p) ==
    /\ task[p].pc = "delRouter"
    /\ router' = [router EXCEPT ![p] = IF @ = "live" /\ task[p].certified
                                       THEN "deleting" ELSE @]
    /\ Goto(p, IF task[p].certified THEN "delCert" ELSE "release")
    /\ UNCHANGED <<podVars, netVars, certRef, cert, cache, dirty, counters>>

\* A deletion that fails, and that nobody repeats.
Lose(p) == lost' = lost \union {p} /\ Cardinality(lost') <= MaxLost

\* The result is dropped (let _ = ...): failed or not, the cleanup goes on.
DeleteRouter(p) ==
    /\ task[p].pc = "delRouter"
    /\ \/ /\ router' = [router EXCEPT ![p] = IF @ = "live" THEN "deleting" ELSE @]
          /\ UNCHANGED lost
       \/ Lose(p) /\ UNCHANGED router
    /\ Goto(p, IF task[p].certified THEN "delCert" ELSE "release")
    /\ UNCHANGED <<podVars, netVars, certRef, cert, cache, dirty, edits, faults>>

DeleteCert(p) ==
    /\ task[p].pc = "delCert"
    /\ \/ cert' = cert \ {p} /\ UNCHANGED lost
       \/ Lose(p) /\ UNCHANGED cert
    /\ Goto(p, "release")
    /\ UNCHANGED <<podVars, netVars, router, certRef, cache, dirty, edits, faults>>

Release(p) ==
    /\ task[p].pc = "release"
    /\ IF phase[p] = "deleting"
       THEN /\ phase' = [phase EXCEPT ![p] = "gone"]
            /\ dirty' = dirty \union {p}
            /\ End(p)
       ELSE Fail(p) /\ UNCHANGED <<phase, dirty>>
    /\ UNCHANGED <<scheduled, finalizer, netVars, objVars, cache, counters>>

-----------------------------------------------------------------------------
TaskStep(p) ==
    \/ Start(p) \/ AddFinalizer(p)
    \/ GetNetwork(p) \/ ApplyCert(p) \/ ApplyRouter(p)
    \/ FindRouter(p) \/ DeleteRouter(p) \/ DeleteCert(p) \/ Release(p)

ClusterStep(p) ==
    CreatePod(p) \/ SchedulePod(p) \/ DeletePod(p) \/ PodChanges(p) \/ RouterGone(p)

Next ==
    \/ \E p \in Pods : ClusterStep(p) \/ Watch(p) \/ TaskStep(p) \/ CallFails(p)
    \/ EditIssuer \/ Restart

Spec == Init /\ [][Next]_vars /\ \A p \in Pods : WF_vars(Watch(p)) /\ WF_vars(TaskStep(p))

-----------------------------------------------------------------------------
(* Properties.                                                             *)

\* A pass that may still make the Router.
Applying(p) == task[p].pc \in {"network", "cert", "router"}

\* Once a pod is being deleted, no pass applies it, and the cache shows the
\* deletion or nothing, no pass ever will.
Doomed(p) ==
    /\ phase[p] \in {"deleting", "gone"} /\ ~Applying(p)
    /\ cache[p].known => cache[p].deleting

Settled(p) == p \notin dirty /\ p \notin queue /\ task[p].pc = "idle"

\* `Delete the router for the pod' (pod_sync.rs 74): no Router stays live when
\* the finalizer has let its pod go, whatever was restarted or edited in the
\* middle.  A failed deletion is passed over: see RouterGoes.
NoOrphanRouter == \A p \in Pods \ lost : router[p] = "live" => Exists(p)

\* The same without the proviso, as that comment reads.
RouterGoes == \A p \in Pods : router[p] = "live" => Exists(p)

\* A live Router refers to a Certificate that exists: it is applied first and
\* deleted last, also when the controller restarts in between
\* (pod_sync.rs 41-68, 95-112).
RefResolves == \A p \in Pods \ lost : router[p] = "live" /\ p \in certRef => p \in cert

\* What pod_apply is to leave behind: the Router, with the Certificate it refers
\* to if the Network has an issuer, with no reference otherwise.
Applied(p) ==
    /\ router[p] = "live"
    /\ p \notin unseen => (p \in certRef <=> issuer) /\ (issuer => p \in cert)

\* A scheduled pod the controller is through with has its Router, whatever
\* failed on the way and although only the pod's own events wake the
\* controller, and Router and Certificate follow the issuer of the Network,
\* unless it was edited since the pod was last looked at, which wakes nobody
\* (pod_sync.rs 22-71).
SettledPod ==
    \A p \in Pods :
        Settled(p) /\ phase[p] = "live" /\ p \in scheduled => Applied(p)

\* The finalizer never holds a pod for ever, also when its Router is gone
\* already (pod_sync.rs 81-92).
DeletionCompletes == \A p \in Pods : phase[p] = "deleting" ~> phase[p] = "gone"
=============================================================================
