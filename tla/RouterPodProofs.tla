--------------------------- MODULE RouterPodProofs ---------------------------
(***************************************************************************)
(* Theorems about the pods of a node, for any number of them, of edits,    *)
(* failures and restarts: first of pod-sync alone (Spec), then with the    *)
(* containers of the pods (PodSpec), which keep what pod-sync keeps.       *)
(***************************************************************************)
EXTENDS RouterPod, FiniteSetTheorems, TLAPS

-----------------------------------------------------------------------------
(* Pod-sync alone.                                                         *)

Cleaning(p) == task[p].pc \in {"find", "delRouter", "delCert", "release"}

\* What the cache may be behind in; and it is behind only with an event to come.
CacheOK(p) ==
    /\ cache[p].finalizer => p \in finalizer
    /\ cache[p].deleting => phase[p] \in {"deleting", "gone"}
    /\ p \in dirty \/ cache[p] = Snapshot(p)

\* What a task relies on while others step.
TaskOK(p) ==
    /\ Applying(p) => p \in finalizer /\ phase[p] \in {"live", "deleting"}
    /\ task[p].pc \in {"network", "cert"} => ~task[p].certified
    /\ task[p].pc = "router" /\ task[p].certified => p \in cert
    /\ task[p].pc = "cert" => p \in unseen \/ issuer
    /\ task[p].pc = "router" => p \in unseen \/ (task[p].certified <=> issuer)
    /\ Cleaning(p) => Doomed(p)
    /\ task[p].pc \in {"delCert", "release"} => p \in lost \/ router[p] # "live"

\* When a Router may be there, and when it is on its way.
RouterOK(p) ==
    /\ router[p] # "none" => p \in finalizer
    /\ p \in finalizer => phase[p] # "absent"
    /\ phase[p] = "gone" /\ p \in finalizer => Doomed(p)
    /\ router[p] = "deleting" => Doomed(p)
    /\ p \notin lost /\ router[p] = "live" => Exists(p)
    /\ p \notin lost /\ router[p] = "live" /\ p \in certRef => p \in cert
    /\ phase[p] = "live" /\ p \in scheduled /\ ~Applied(p) =>
         p \in dirty \/ p \in queue \/ task[p].pc # "idle"

PodOK(p) == CacheOK(p) /\ TaskOK(p) /\ RouterOK(p)

Inv == TypeOK /\ \A p \in Pods : PodOK(p)

\* The pods a step is not about see no change, but of lost and dirty.
Same(q) ==
    /\ phase'[q] = phase[q] /\ router'[q] = router[q] /\ cache'[q] = cache[q]
    /\ task'[q] = task[q]
    /\ (q \in scheduled') = (q \in scheduled)
    /\ (q \in finalizer') = (q \in finalizer)
    /\ (q \in certRef') = (q \in certRef)
    /\ (q \in cert') = (q \in cert)
    /\ (q \in queue') = (q \in queue)
    /\ issuer' = issuer /\ (q \in unseen') = (q \in unseen)
    /\ q \in lost => q \in lost'
    /\ q \in dirty => q \in dirty'

USE BoundAssumption

-----------------------------------------------------------------------------
(* Type correctness.                                                       *)

LEMMA SnapshotType ==
    ASSUME TypeOK, NEW p \in Pods
    PROVE  Snapshot(p) \in Cached
BY DEF TypeOK, Snapshot, Unknown, Cached, Exists

LEMMA IdleType == Idle \in Task /\ Unknown \in Cached
BY DEF Idle, Task, PC, Unknown, Cached

LEMMA TypeInit == Init => TypeOK
BY FS_EmptySet, IdleType DEF Init, TypeOK

\* Ending, failing and going on keep the types of task and queue.
LEMMA TypeTask ==
    ASSUME TypeOK, NEW p \in Pods,
           End(p) \/ Fail(p) \/ \E pc \in PC : Goto(p, pc)
    PROVE  task' \in [Pods -> Task] /\ queue' \subseteq Pods
<1>1. task[p] \in Task
  BY DEF TypeOK
<1>2. ASSUME NEW pc \in PC PROVE [task[p] EXCEPT !.pc = pc] \in Task
  BY <1>1 DEF Task
<1>3. CASE End(p) \/ Fail(p)
  BY <1>3, IdleType DEF TypeOK, End, Fail
<1>4. ASSUME NEW pc \in PC, Goto(p, pc)
      PROVE  task' \in [Pods -> Task] /\ queue' \subseteq Pods
  BY <1>2, <1>4 DEF TypeOK, Goto
<1> QED BY <1>3, <1>4

\* A task with its place and its certificate set is one.
LEMMA TaskEdit ==
    ASSUME NEW t \in Task, NEW pc \in PC, NEW b \in BOOLEAN
    PROVE  [t EXCEPT !.pc = pc, !.certified = b] \in Task
BY DEF Task

LEMMA TypeStep == TypeOK /\ [Next]_vars => TypeOK'
<1> SUFFICES ASSUME TypeOK, [Next]_vars PROVE TypeOK'
    OBVIOUS
<1> USE DEF TypeOK, podVars, netVars, objVars, runVars, counters
<1>1. ASSUME NEW p \in Pods, ClusterStep(p) \/ Watch(p) PROVE TypeOK'
  <2>1. CASE ClusterStep(p)
    BY <2>1 DEF ClusterStep, CreatePod, SchedulePod, DeletePod, PodChanges, RouterGone
  <2>2. CASE Watch(p)
    BY <2>2, SnapshotType DEF Watch
  <2> QED BY <1>1, <2>1, <2>2
<1>2. ASSUME NEW p \in Pods, TaskStep(p) PROVE TypeOK'
  <2>1. CASE Start(p)
    <3>1. cache[p].scheduled \in BOOLEAN
      BY DEF Cached
    <3>2. \A pc \in PC : [pc |-> pc, scheduled |-> cache[p].scheduled, certified |-> FALSE] \in Task
      BY <3>1 DEF Task
    <3>3. task' \in [Pods -> Task]
      <4>1. task' = task \/ \E pc \in PC : task' = [task EXCEPT ![p] =
                [pc |-> pc, scheduled |-> cache[p].scheduled, certified |-> FALSE]]
        BY <2>1 DEF Start, PC
      <4> QED BY <3>2, <4>1
    <3>4. queue' \subseteq Pods
      BY <2>1 DEF Start
    <3> QED BY <2>1, <3>3, <3>4 DEF Start
  <2>2. CASE AddFinalizer(p)
    BY <2>2, TypeTask DEF AddFinalizer
  <2>3. CASE GetNetwork(p)
    BY <2>3, TypeTask DEF GetNetwork, PC
  <2>4. CASE ApplyCert(p)
    <3>1. [task[p] EXCEPT !.pc = "router", !.certified = TRUE] \in Task
      BY TaskEdit DEF PC
    <3>2. task' \in [Pods -> Task]
      BY <2>4, <3>1 DEF ApplyCert
    <3> QED BY <2>4, <3>2 DEF ApplyCert
  <2>5. CASE ApplyRouter(p)
    BY <2>5, TypeTask DEF ApplyRouter
  <2>6. CASE FindRouter(p)
    <3> DEFINE named == router[p] # "none" /\ p \in certRef
    <3>1. named \in BOOLEAN
      OBVIOUS
    <3>2. task' = [task EXCEPT ![p].pc = "delRouter", ![p].certified = named]
      BY <2>6 DEF FindRouter
    <3> HIDE DEF named
    <3>3. [task[p] EXCEPT !.pc = "delRouter", !.certified = named] \in Task
      BY <3>1, TaskEdit DEF PC
    <3>4. task' \in [Pods -> Task]
      BY <3>2, <3>3
    <3> QED BY <2>6, <3>4 DEF FindRouter
  <2>7. CASE DeleteRouter(p)
    BY <2>7, TypeTask DEF DeleteRouter, Lose, PC
  <2>8. CASE DeleteCert(p)
    BY <2>8, TypeTask DEF DeleteCert, Lose, PC
  <2>9. CASE Release(p)
    BY <2>9, TypeTask DEF Release
  <2> QED BY <1>2, <2>1, <2>2, <2>3, <2>4, <2>5, <2>6, <2>7, <2>8, <2>9 DEF TaskStep
<1>3. ASSUME NEW p \in Pods, CallFails(p) PROVE TypeOK'
  BY <1>3, TypeTask DEF CallFails
<1>4. CASE EditIssuer
  BY <1>4 DEF EditIssuer
<1>5. CASE Restart
  BY <1>5, SnapshotType, IdleType DEF Restart
<1>6. CASE UNCHANGED vars
  BY <1>6 DEF vars
<1> QED BY <1>1, <1>2, <1>3, <1>4, <1>5, <1>6 DEF Next

-----------------------------------------------------------------------------
(* The invariant.                                                          *)

LEMMA InvInit == Init => Inv
BY TypeInit DEF Init, Inv, PodOK, CacheOK, TaskOK, RouterOK, Doomed, Applying, Cleaning,
     Snapshot, Exists, Unknown, Idle, Applied

\* A pod the step is not about.
LEMMA SameOK ==
    ASSUME NEW q \in Pods, PodOK(q), Same(q)
    PROVE  PodOK(q)'
<1>1. Snapshot(q)' = Snapshot(q) /\ Exists(q)' = Exists(q)
  <2>1. Exists(q)' = Exists(q) /\ Unknown' = Unknown
    BY DEF Same, Exists, Unknown
  <2> QED BY <2>1, Zenon DEF Same, Snapshot
<1>2. Applying(q)' = Applying(q) /\ Cleaning(q)' = Cleaning(q) /\ Doomed(q)' = Doomed(q)
  BY DEF Same, Applying, Cleaning, Doomed
<1>3. CacheOK(q)'
  BY <1>1 DEF Same, PodOK, CacheOK
<1>4. TaskOK(q)'
  BY <1>2 DEF Same, PodOK, TaskOK
<1>5. RouterOK(q)'
  BY <1>1, <1>2 DEF Same, PodOK, RouterOK, Applied
<1> QED BY <1>3, <1>4, <1>5 DEF PodOK

\* A step of p is about no other pod.
LEMMA OneAtATime ==
    ASSUME TypeOK, NEW p \in Pods, NEW q \in Pods, q # p,
           ClusterStep(p) \/ Watch(p) \/ TaskStep(p) \/ CallFails(p)
    PROVE  Same(q)
<1> USE DEF TypeOK, podVars, netVars, objVars, runVars, counters, Same, Fail, End, Goto, Lose
<1>1. CASE ClusterStep(p)
  BY <1>1 DEF ClusterStep, CreatePod, SchedulePod, DeletePod, PodChanges, RouterGone
<1>2. CASE Watch(p)
  BY <1>2 DEF Watch
<1>3. CASE TaskStep(p)
  <2>1. CASE Start(p) \/ AddFinalizer(p) \/ GetNetwork(p) \/ ApplyCert(p)
    BY <2>1 DEF Start, AddFinalizer, GetNetwork, ApplyCert
  <2>2. CASE ApplyRouter(p) \/ FindRouter(p) \/ Release(p)
    BY <2>2 DEF ApplyRouter, FindRouter, Release
  <2>3. CASE DeleteRouter(p) \/ DeleteCert(p)
    BY <2>3 DEF DeleteRouter, DeleteCert
  <2> QED BY <1>3, <2>1, <2>2, <2>3 DEF TaskStep
<1>4. CASE CallFails(p)
  BY <1>4 DEF CallFails
<1> QED BY <1>1, <1>2, <1>3, <1>4

\* The cluster's steps: the finalizer stays on, and events are noted.
LEMMA ClusterOK ==
    ASSUME Inv, NEW p \in Pods, ClusterStep(p) \/ Watch(p)
    PROVE  PodOK(p)'
<1> USE DEF Inv, TypeOK, podVars, netVars, objVars, runVars, counters,
            PodOK, CacheOK, TaskOK, RouterOK, Applied, Doomed, Applying, Cleaning, Snapshot,
            Exists
<1>1. CASE CreatePod(p)
  BY <1>1 DEF CreatePod
<1>2. CASE SchedulePod(p)
  BY <1>2 DEF SchedulePod
<1>3. CASE DeletePod(p)
  BY <1>3 DEF DeletePod
<1>4. CASE PodChanges(p)
  BY <1>4 DEF PodChanges
<1>5. CASE RouterGone(p)
  BY <1>5 DEF RouterGone
<1>6. CASE Watch(p)
  BY <1>6 DEF Watch, Unknown
<1> QED BY <1>1, <1>2, <1>3, <1>4, <1>5, <1>6 DEF ClusterStep

\* The steps of a reconciliation.
LEMMA TaskStepOK ==
    ASSUME Inv, NEW p \in Pods, TaskStep(p)
    PROVE  PodOK(p)'
<1> USE DEF Inv, TypeOK, podVars, netVars, objVars, runVars, counters, End, Fail, Goto, Lose, Idle,
            PodOK, CacheOK, TaskOK, RouterOK, Applied, Doomed, Applying, Cleaning, Snapshot,
            Exists
<1>1. CASE Start(p)
  <2>1. cache[p] \in Cached /\ task[p] \in Task
    OBVIOUS
  <2> QED BY <1>1, <2>1 DEF Start, Cached, Unknown
<1>2. CASE AddFinalizer(p)
  BY <1>2 DEF AddFinalizer
<1>3. CASE GetNetwork(p)
  BY <1>3 DEF GetNetwork, Task
<1>4. CASE ApplyCert(p)
  BY <1>4 DEF ApplyCert, Task
<1>5. CASE ApplyRouter(p)
  BY <1>5 DEF ApplyRouter
<1>6. CASE FindRouter(p)
  BY <1>6 DEF FindRouter, Task
<1>7. CASE DeleteRouter(p)
  BY <1>7 DEF DeleteRouter, Task
<1>8. CASE DeleteCert(p)
  BY <1>8 DEF DeleteCert, Task
<1>9. CASE Release(p)
  BY <1>9 DEF Release
<1> QED BY <1>1, <1>2, <1>3, <1>4, <1>5, <1>6, <1>7, <1>8, <1>9 DEF TaskStep

\* Failures, edits of the Network, restarts.
LEMMA FaultOK ==
    ASSUME Inv, NEW p \in Pods, CallFails(p) \/ EditIssuer \/ Restart
    PROVE  PodOK(p)'
<1> USE DEF Inv, TypeOK, podVars, netVars, objVars, runVars, counters, Idle,
            PodOK, CacheOK, TaskOK, RouterOK, Applied, Doomed, Applying, Cleaning, Snapshot,
            Exists
<1>1. CASE CallFails(p)
  BY <1>1 DEF CallFails, Fail
<1>2. CASE EditIssuer
  BY <1>2 DEF EditIssuer
<1>3. CASE Restart
  BY <1>3 DEF Restart, Unknown
<1> QED BY <1>1, <1>2, <1>3

LEMMA InvStep == Inv /\ [Next]_vars => Inv'
<1> SUFFICES ASSUME Inv, [Next]_vars PROVE Inv'
    OBVIOUS
<1>1. TypeOK'
  BY TypeStep DEF Inv
<1>2. ASSUME NEW q \in Pods PROVE PodOK(q)'
  <2>1. ASSUME NEW p \in Pods, ClusterStep(p) \/ Watch(p) \/ TaskStep(p) \/ CallFails(p)
        PROVE  PodOK(q)'
    <3>1. CASE q = p
      BY <2>1, <3>1, ClusterOK, TaskStepOK, FaultOK
    <3>2. CASE q # p
      BY <2>1, <3>2, OneAtATime, SameOK DEF Inv
    <3> QED BY <3>1, <3>2
  <2>2. CASE EditIssuer \/ Restart
    BY <2>2, FaultOK
  <2>3. CASE UNCHANGED vars
    <3>1. Same(q)
      BY <2>3 DEF vars, podVars, netVars, objVars, runVars, counters, Same
    <3> QED BY <3>1, SameOK DEF Inv
  <2> QED BY <2>1, <2>2, <2>3 DEF Next
<1> QED BY <1>1, <1>2 DEF Inv

LEMMA Invariance == Spec => []Inv
<1>1. Init => Inv
  BY InvInit
<1>2. Inv /\ [Next]_vars => Inv'
  BY InvStep
<1> QED BY <1>1, <1>2, PTL DEF Spec

-----------------------------------------------------------------------------
(* The theorems.                                                           *)

\* What the invariant says of the properties.
LEMMA InvImplies ==
    Inv => TypeOK /\ SettledPod /\ NoOrphanRouter /\ RefResolves
BY DEF Inv, PodOK, RouterOK, SettledPod, Settled, NoOrphanRouter, RefResolves

\* Every variable keeps its type.
THEOREM TypeCorrect == Spec => []TypeOK
<1>1. Inv => TypeOK
  BY InvImplies
<1> QED BY <1>1, Invariance, PTL

\* A pod that the controller is through with has its Router, and its Certificate
\* as the Network had it when the pod was last looked at (SettledPod).
THEOREM RoutersMade == Spec => []SettledPod
<1>1. Inv => SettledPod
  BY InvImplies
<1> QED BY <1>1, Invariance, PTL

\* No Router stays live when the finalizer has let its pod go.
THEOREM RoutersGo == Spec => []NoOrphanRouter
<1>1. Inv => NoOrphanRouter
  BY InvImplies
<1> QED BY <1>1, Invariance, PTL

\* A live Router refers to a Certificate that exists.
THEOREM RefsResolve == Spec => []RefResolves
<1>1. Inv => RefResolves
  BY InvImplies
<1> QED BY <1>1, Invariance, PTL

-----------------------------------------------------------------------------
(* The pods with their containers.                                         *)

\* Only one pod is wanted or has containers.
Active(p) == phase[p] = "live" \/ ~Stopped(p)

OneActive == \A p, q \in Pods : Active(p) /\ Active(q) => p = q

\* What the init container has done when it has come so far.
Past == {"load", "keyFile", "certFile", "publish", "run"}
FilesOK(p) ==
    /\ phase[p] = "absent" => box[p] = "none"
    /\ box[p] \in {"router", "cert"} \union Past => files["config"] = p
    /\ box[p] \in {"certFile", "publish", "run"} /\ p \in secure => files["key"] = p
    /\ box[p] \in {"publish", "run"} /\ p \in secure => files["cert"] = p

\* The face that Publish writes.
Published == IF ChosenFaces = {} THEN "none" ELSE CHOOSE f \in ChosenFaces : TRUE

\* A Router that goes from under a running pod does not come back.
FaceOK(p) ==
    /\ box[p] = "run" /\ router[p] # "none" => face[p] = Published
    /\ box[p] = "run" /\ router[p] = "none" => Doomed(p)
    /\ p \in online => face[p] # "no"
    /\ router[p] = "none" => face[p] = "no" /\ p \notin online

PodInv ==
    /\ Inv /\ PodTypeOK /\ OneActive
    /\ \A p \in Pods : FilesOK(p) /\ FaceOK(p)

\* A step of the node, as far as pod-sync's variables go: a step of a pod's life,
\* an event, a fault counted.
Quiet ==
    /\ UNCHANGED <<podVars, netVars, objVars, cache, queue, task, lost, edits>>
    /\ dirty \subseteq dirty' /\ dirty' \subseteq Pods
    /\ faults' \in 0 .. MaxFaults

USE NodeAssumption, BoundAssumption

-----------------------------------------------------------------------------
(* pod-sync's invariant.                                                   *)

\* What goes on in the containers does not disturb it.
LEMMA QuietOK ==
    ASSUME Inv, Quiet
    PROVE  Inv'
<1>1. TypeOK'
  BY DEF Inv, TypeOK, Quiet, podVars, netVars, objVars
<1>2. ASSUME NEW p \in Pods PROVE PodOK(p)'
  <2>1. Same(p)
    BY DEF Quiet, podVars, netVars, objVars, Same
  <2> QED BY <2>1, SameOK DEF Inv
<1> QED BY <1>1, <1>2 DEF Inv

\* A step of pod-sync in the composition is one of PodSync.
LEMMA SyncIsNext == SyncStep => Next
BY DEF SyncStep, Next, ClusterStep

\* Every other step is one too, or quiet.
LEMMA NodeIsNext ==
    ASSUME Inv, Issue \/ RollOut \/ \E p \in Pods : NodeStep(p)
    PROVE  [Next]_vars \/ Quiet
<1> USE DEF Inv, TypeOK, podVars, netVars, objVars, runVars, counters, vars
<1>1. CASE Issue \/ RollOut
  BY <1>1 DEF Issue, RollOut
<1>2. ASSUME NEW p \in Pods, Place(p) \/ Evict(p) PROVE Next
  BY <1>2 DEF Place, Evict, Next, ClusterStep
<1>3. ASSUME NEW p \in Pods, Kill(p) \/ GoOnline(p) PROVE UNCHANGED vars
  BY <1>3 DEF Kill, GoOnline
<1>4. ASSUME NEW p \in Pods, InitStep(p), ~GoOnline(p) PROVE Quiet
  <2> USE DEF Quiet, Step, Becomes, Restarts, Exists
  <2>1. CASE StartInit(p) \/ Wait(p) \/ TimeOut(p)
    BY <2>1 DEF StartInit, Wait, TimeOut
  <2>2. CASE LoadSecrets(p) \/ WriteFile(p)
    BY <2>2 DEF LoadSecrets, WriteFile
  <2>3. CASE Publish(p)
    BY <2>3 DEF Publish
  <2> QED BY <1>4, <2>1, <2>2, <2>3 DEF InitStep
<1>5. ASSUME NEW p \in Pods, WaitFails(p) \/ Crash(p) PROVE Quiet
  BY <1>5 DEF WaitFails, Crash, Fault, Quiet, Step, Becomes, Restarts, Exists
<1> QED BY <1>1, <1>2, <1>3, <1>4, <1>5 DEF NodeStep

LEMMA SyncInvStep == Inv /\ [PodNext]_allVars => Inv'
<1> SUFFICES ASSUME Inv, [PodNext]_allVars PROVE Inv'
    OBVIOUS
<1>1. [Next]_vars \/ Quiet
  <2>1. CASE SyncStep
    BY <2>1, SyncIsNext
  <2>2. CASE Issue \/ RollOut \/ \E p \in Pods : NodeStep(p)
    BY <2>2, NodeIsNext
  <2>3. CASE UNCHANGED allVars
    BY <2>3 DEF allVars
  <2> QED BY <2>1, <2>2, <2>3 DEF PodNext
<1> QED BY <1>1, InvStep, QuietOK

-----------------------------------------------------------------------------
(* The types of the pods' own variables.                                   *)

LEMMA ChosenType ==
    ASSUME PodTypeOK
    PROVE  Published \in {"none"} \union Families
<1>1. ChosenFaces \subseteq Families
  BY DEF PodTypeOK, ChosenFaces, Families
<1>2. ChosenFaces # {} => (CHOOSE f \in ChosenFaces : TRUE) \in ChosenFaces
  OBVIOUS
<1> QED BY <1>1, <1>2 DEF Published

LEMMA PublishWrites ==
    ASSUME NEW p \in Pods, Publish(p), router[p] # "none"
    PROVE  face' = [face EXCEPT ![p] = Published]
BY DEF Publish, Published

\* Where a container goes.
LEMMA BoxType ==
    ASSUME PodTypeOK, NEW p \in Pods, NEW b \in Box, Step(p, b) \/ Becomes(p, b)
    PROVE  box' \in [Pods -> Box]
BY DEF PodTypeOK, Step, Becomes

LEMMA PodTypeStep == PodTypeOK /\ Inv /\ Inv' /\ [PodNext]_allVars => PodTypeOK'
<1> SUFFICES ASSUME PodTypeOK, Inv, Inv', [PodNext]_allVars PROVE PodTypeOK'
    OBVIOUS
<1>0. TypeOK /\ TypeOK'
  BY DEF Inv
<1> USE DEF PodTypeOK, nodeVars, rtVars, Box, Waiting, Writing
<1>1. CASE SyncStep
  <2>1. Along
    BY <1>1 DEF SyncStep
  <2>2. \A p \in Pods : (IF router'[p] = "none" THEN "no" ELSE face[p]) \in {"no", "none"} \union Families
    OBVIOUS
  <2> QED BY <1>0, <2>1, <2>2 DEF Along
<1>2. CASE Issue \/ RollOut
  <2>1. cert \subseteq Pods /\ issuer \in BOOLEAN
    BY <1>0 DEF TypeOK
  <2>2. CASE Issue
    <3>1. valid' \subseteq Pods /\ anchor' \in BOOLEAN
      BY <2>1, <2>2 DEF Issue
    <3> QED BY <1>0, <2>2, <3>1 DEF Issue
  <2>3. CASE RollOut
    BY <1>0, <2>1, <2>3 DEF RollOut
  <2> QED BY <1>2, <2>2, <2>3
<1>3. ASSUME NEW p \in Pods, NodeStep(p) PROVE PodTypeOK'
  <2>1. CASE Place(p) \/ Evict(p) \/ Kill(p)
    BY <1>0, <2>1 DEF Place, Evict, Kill
  <2>2. CASE StartInit(p) \/ TimeOut(p)
    BY <1>0, <2>2, BoxType DEF StartInit, TimeOut, Restarts
  <2>3. CASE Wait(p) \/ WaitFails(p)
    <3>1. After(p) \in Box
      BY DEF After
    <3>2. box' \in [Pods -> Box]
      BY <2>3, <3>1, BoxType DEF Wait, WaitFails
    <3>3. files' \in [{"config", "key", "cert"} -> Pods \union {None}]
      BY <2>3 DEF Wait, WaitFails, Configured
    <3> QED BY <1>0, <2>3, <3>2, <3>3 DEF Wait, WaitFails
  <2>4. CASE LoadSecrets(p) \/ WriteFile(p)
    BY <1>0, <2>4, BoxType DEF LoadSecrets, WriteFile, Restarts
  <2>5. CASE Publish(p)
    <3>1. box' \in [Pods -> Box]
      BY <2>5, BoxType DEF Publish, Restarts
    <3>2. face' \in [Pods -> {"no", "none"} \union Families]
      <4>1. CASE router[p] # "none"
        BY <2>5, <4>1, PublishWrites, ChosenType
      <4>2. CASE router[p] = "none"
        BY <2>5, <4>2 DEF Publish
      <4> QED BY <4>1, <4>2
    <3> QED BY <1>0, <2>5, <3>1, <3>2 DEF Publish
  <2>6. CASE GoOnline(p)
    BY <1>0, <2>6 DEF GoOnline
  <2>7. CASE Crash(p)
    <3>1. box' \in [Pods -> Box]
      BY <2>7, BoxType DEF Crash, Restarts
    <3> QED BY <1>0, <2>7, <3>1 DEF Crash
  <2> QED BY <1>3, <2>1, <2>2, <2>3, <2>4, <2>5, <2>6, <2>7 DEF NodeStep, InitStep
<1>4. CASE UNCHANGED allVars
  BY <1>0, <1>4 DEF allVars
<1> QED BY <1>1, <1>2, <1>3, <1>4 DEF PodNext
-----------------------------------------------------------------------------
(* One pod at a time, its files, its face.                                 *)

\* pod-sync lets no pod come back to life, and no Router that it is done with.
Keeps(p) ==
    /\ phase'[p] = "live" => phase[p] = "live"
    /\ phase'[p] = "absent" => phase[p] = "absent"
    /\ router'[p] # "none" /\ router[p] = "none" => Applying(p)
    /\ router[p] # "none" /\ router'[p] = "none" => router[p] = "deleting"
    /\ Doomed(p) => Doomed(p)'

LEMMA SyncKeeps ==
    ASSUME Inv, SyncStep, NEW p \in Pods
    PROVE  Keeps(p)
<1> USE DEF Inv, TypeOK, podVars, netVars, objVars, runVars, counters, vars, Keeps, Doomed, Applying
<1>1. PodOK(p)
  OBVIOUS
<1>2. ASSUME NEW q \in Pods, SchedulePod(q) \/ RouterGone(q) PROVE Keeps(p)
  BY <1>2 DEF SchedulePod, RouterGone
<1>3. ASSUME NEW q \in Pods, Watch(q) PROVE Keeps(p)
  BY <1>3 DEF Watch, Snapshot, Exists, Unknown
<1>4. ASSUME NEW q \in Pods, TaskStep(q) PROVE Keeps(p)
  <2> USE DEF End, Fail, Goto, Lose, Idle
  <2>1. CASE Start(q)
    BY <2>1 DEF Start
  <2>2. CASE AddFinalizer(q) \/ GetNetwork(q)
    BY <2>2 DEF AddFinalizer, GetNetwork
  <2>3. CASE ApplyCert(q) \/ ApplyRouter(q)
    BY <2>3 DEF ApplyCert, ApplyRouter
  <2>4. CASE FindRouter(q)
    BY <2>4 DEF FindRouter
  <2>5. CASE DeleteRouter(q)
    BY <2>5 DEF DeleteRouter
  <2>6. CASE DeleteCert(q)
    BY <2>6 DEF DeleteCert
  <2>7. CASE Release(q)
    BY <2>7 DEF Release
  <2> QED BY <1>4, <2>1, <2>2, <2>3, <2>4, <2>5, <2>6, <2>7 DEF TaskStep
<1>5. ASSUME NEW q \in Pods, CallFails(q) PROVE Keeps(p)
  BY <1>5 DEF CallFails, Fail, Idle
<1>6. CASE EditIssuer
  BY <1>6 DEF EditIssuer
<1>7. CASE Restart
  BY <1>7 DEF Restart, Idle, Snapshot, Exists, Unknown
<1> QED BY <1>2, <1>3, <1>4, <1>5, <1>6, <1>7 DEF SyncStep

\* Who has containers, or may get some.
LEMMA ActiveStep == PodInv /\ [PodNext]_allVars => OneActive'
<1> SUFFICES ASSUME PodInv, [PodNext]_allVars PROVE OneActive'
    OBVIOUS
<1>0. Inv /\ PodTypeOK /\ OneActive
  BY DEF PodInv
<1>1. ASSUME \A q \in Pods : Active(q)' => Active(q) PROVE OneActive'
  BY <1>0, <1>1 DEF OneActive
<1>2. CASE SyncStep
  <2>1. ASSUME NEW q \in Pods PROVE Active(q)' => Active(q)
    BY <1>0, <1>2, SyncKeeps DEF SyncStep, Along, nodeVars, Keeps, Active, Stopped
  <2> QED BY <1>1, <2>1
<1>3. CASE Issue \/ RollOut
  BY <1>1, <1>3 DEF Issue, RollOut, vars, podVars, Active, Stopped
<1>4. ASSUME NEW p \in Pods, Place(p) PROVE OneActive'
  <2>1. \A q \in Pods \ {p} : ~Active(q)'
    BY <1>0, <1>4 DEF Place, CreatePod, Active, Stopped, PodTypeOK, TypeOK
  <2> QED BY <2>1 DEF OneActive
<1>5. ASSUME NEW p \in Pods, Evict(p) \/ Kill(p) PROVE OneActive'
  <2>1. ASSUME NEW q \in Pods PROVE Active(q)' => Active(q)
    BY <1>0, <1>5 DEF Evict, Kill, DeletePod, nodeVars, vars, podVars, Active, Stopped,
                      PodTypeOK, TypeOK
  <2> QED BY <1>1, <2>1
<1>6. ASSUME NEW p \in Pods, InitStep(p) \/ WaitFails(p) \/ Crash(p) PROVE OneActive'
  <2>1. phase' = phase /\ Active(p) /\ \A q \in Pods \ {p} : box'[q] = box[q]
    BY <1>0, <1>6 DEF InitStep, StartInit, Wait, TimeOut, LoadSecrets, WriteFile, Publish, GoOnline,
         WaitFails, Crash, Restarts, Step, Becomes, vars, podVars, nodeVars, Active, Stopped,
         Waiting, Writing, PodTypeOK
  <2>2. \A q \in Pods : Active(q)' => Active(q)
    BY <2>1 DEF Active, Stopped
  <2> QED BY <1>1, <2>2
<1>7. CASE UNCHANGED allVars
  BY <1>1, <1>7 DEF allVars, vars, podVars, nodeVars, Active, Stopped
<1> QED BY <1>2, <1>3, <1>4, <1>5, <1>6, <1>7 DEF PodNext, NodeStep

\* Files are written by the only pod that has containers.
LEMMA FilesStep ==
    ASSUME PodInv, [PodNext]_allVars, NEW q \in Pods
    PROVE  FilesOK(q)'
<1>0. Inv /\ PodTypeOK /\ OneActive /\ FilesOK(q)
  BY DEF PodInv
<1> USE DEF FilesOK, Past, Waiting, Writing, Box
<1>1. CASE SyncStep
  BY <1>0, <1>1, SyncKeeps DEF SyncStep, Along, nodeVars, Keeps
<1>2. CASE Issue \/ RollOut
  BY <1>0, <1>2 DEF Issue, RollOut, vars, podVars
<1>3. ASSUME NEW p \in Pods, Place(p) \/ Evict(p) \/ Kill(p) PROVE FilesOK(q)'
  BY <1>0, <1>3 DEF Place, CreatePod, Evict, DeletePod, Kill, vars, podVars, nodeVars,
                    PodTypeOK, TypeOK
<1>4. ASSUME NEW p \in Pods, InitStep(p) \/ WaitFails(p) \/ Crash(p) PROVE FilesOK(q)'
  <2>1. phase' = phase /\ secure' = secure
    BY <1>4 DEF InitStep, StartInit, Wait, TimeOut, LoadSecrets, WriteFile, Publish, GoOnline,
         WaitFails, Crash, Restarts, Step, Becomes, vars, podVars, nodeVars
  <2>2. CASE q # p
    <3>1. Active(p) /\ box'[q] = box[q]
      BY <1>0, <1>4, <2>2 DEF InitStep, StartInit, Wait, TimeOut, LoadSecrets, WriteFile, Publish,
           GoOnline, WaitFails, Crash, Restarts, Step, Becomes, nodeVars, Active, Stopped, PodTypeOK
    <3>2. Stopped(q)
      BY <1>0, <2>2, <3>1 DEF OneActive, Active
    <3> QED BY <1>0, <2>1, <3>1, <3>2 DEF Stopped
  <2>3. CASE q = p
    <3> USE DEF Step, Becomes, Restarts, PodTypeOK
    <3>1. CASE StartInit(p) \/ TimeOut(p)
      BY <1>0, <2>1, <2>3, <3>1 DEF StartInit, TimeOut, TypeOK
    <3>2. CASE Wait(p)
      BY <1>0, <2>1, <2>3, <3>2 DEF Wait, After, Configured
    <3>3. CASE WaitFails(p)
      BY <1>0, <2>1, <2>3, <3>3 DEF WaitFails, After
    <3>4. CASE LoadSecrets(p)
      BY <1>0, <2>1, <2>3, <3>4 DEF LoadSecrets
    <3>5. CASE WriteFile(p)
      BY <1>0, <2>1, <2>3, <3>5 DEF WriteFile
    <3>6. CASE Publish(p)
      BY <1>0, <2>1, <2>3, <3>6 DEF Publish
    <3>7. CASE GoOnline(p)
      BY <1>0, <2>1, <2>3, <3>7 DEF GoOnline, nodeVars
    <3>8. CASE Crash(p)
      BY <1>0, <2>1, <2>3, <3>8 DEF Crash
    <3> QED BY <1>4, <3>1, <3>2, <3>3, <3>4, <3>5, <3>6, <3>7, <3>8 DEF InitStep
  <2> QED BY <2>2, <2>3
<1>5. CASE UNCHANGED allVars
  BY <1>0, <1>5 DEF allVars, vars, podVars, nodeVars
<1> QED BY <1>1, <1>2, <1>3, <1>4, <1>5 DEF PodNext, NodeStep

\* The addresses change only under the pod that runs.
LEMMA FaceStep ==
    ASSUME PodInv, [PodNext]_allVars, NEW q \in Pods
    PROVE  FaceOK(q)'
<1>0. Inv /\ PodTypeOK /\ OneActive /\ FaceOK(q) /\ FilesOK(q)
  BY DEF PodInv
<1> USE DEF FaceOK, Waiting, Writing, Box
<1>1. CASE SyncStep
  <2>1. Keeps(q) /\ Along
    BY <1>0, <1>1, SyncKeeps DEF SyncStep
  <2>2. box' = box /\ Published' = Published
    BY <2>1 DEF Along, nodeVars, Published, ChosenFaces
  <2>3. router[q] = "deleting" => Doomed(q)
    BY <1>0 DEF Inv, PodOK, RouterOK
  <2>4. Doomed(q) => ~Applying(q)
    BY DEF Doomed
  <2>5. face' = [p \in Pods |-> IF router'[p] = "none" THEN "no" ELSE face[p]]
        /\ (q \in online' => q \in online /\ router'[q] # "none")
    BY <2>1 DEF Along
  <2> QED BY <1>0, <2>1, <2>2, <2>3, <2>4, <2>5 DEF Keeps
<1>2. CASE Issue \/ RollOut
  BY <1>0, <1>2 DEF Issue, RollOut, vars, podVars, netVars, objVars, runVars, rtVars, Published, ChosenFaces,
                    Doomed, Applying
<1>3. ASSUME NEW p \in Pods, Place(p) \/ Evict(p) \/ Kill(p) PROVE FaceOK(q)'
  <2>1. face' = face /\ online' = online /\ addrs' = addrs /\ router' = router /\ task' = task
        /\ cache' = cache
    BY <1>3 DEF Place, CreatePod, Evict, DeletePod, Kill, vars, objVars, runVars, rtVars, nodeVars
  <2>2. box'[q] = "run" => box[q] = "run"
    BY <1>0, <1>3 DEF Place, Evict, Kill, nodeVars, PodTypeOK
  <2>3. phase[q] \in {"deleting", "gone"} => phase'[q] \in {"deleting", "gone"}
    BY <1>0, <1>3 DEF Place, CreatePod, Evict, DeletePod, Kill, vars, podVars, PodTypeOK, TypeOK
  <2> QED BY <1>0, <2>1, <2>2, <2>3 DEF Published, ChosenFaces, Doomed, Applying
<1>4. ASSUME NEW p \in Pods, InitStep(p) \/ WaitFails(p) \/ Crash(p) PROVE FaceOK(q)'
  <2>1. /\ phase' = phase /\ router' = router /\ task' = task /\ cache' = cache
        /\ Active(p) /\ (box'[q] # box[q] => q = p)
    BY <1>0, <1>4 DEF InitStep, StartInit, Wait, TimeOut, LoadSecrets, WriteFile, Publish, GoOnline,
         WaitFails, Crash, Restarts, Step, Becomes, vars, podVars, netVars, objVars, runVars, nodeVars,
         Active, Stopped, PodTypeOK
  <2>2. Doomed(q)' = Doomed(q)
    BY <2>1 DEF Doomed, Applying
  <2>3. CASE Publish(p) /\ router[p] # "none"
    <3>1. face' = [face EXCEPT ![p] = Published] /\ addrs' = addrs /\ online' = online
      BY <2>3, PublishWrites DEF Publish
    <3>2. face \in [Pods -> {"no", "none"} \union Families] /\ Published # "no"
      BY <1>0, ChosenType DEF PodTypeOK, Families
    <3>3. Published' = Published
      BY <3>1 DEF Published, ChosenFaces
    <3>4. box' = [box EXCEPT ![p] = "run"]
      BY <2>3 DEF Publish, Becomes
    <3> QED BY <1>0, <2>1, <2>2, <2>3, <3>1, <3>2, <3>3, <3>4 DEF PodTypeOK
  <2>4. CASE GoOnline(p)
    <3>1. Published # "no"
      BY <1>0, ChosenType DEF Families
    <3>2. Published' = Published
      BY <2>4 DEF GoOnline, nodeVars, Published, ChosenFaces
    <3> QED BY <1>0, <2>1, <2>2, <2>4, <3>1, <3>2 DEF GoOnline, nodeVars
  <2>5. CASE Crash(p)
    <3>1. CASE q = p
      BY <1>0, <2>1, <2>2, <2>5, <3>1 DEF Crash, Restarts, Becomes, rtVars, PodTypeOK
    <3>2. CASE q # p
      <4>1. box[q] # "run"
        BY <1>0, <2>1, <3>2 DEF OneActive, Active, Stopped
      <4> QED BY <1>0, <2>1, <2>2, <2>5, <3>2, <4>1 DEF Crash, rtVars
    <3> QED BY <3>1, <3>2
  <2>6. CASE \/ StartInit(p) \/ Wait(p) \/ TimeOut(p) \/ LoadSecrets(p) \/ WriteFile(p)
             \/ (Publish(p) /\ router[p] = "none") \/ WaitFails(p)
    <3>1. face' = face /\ online' = online /\ addrs' = addrs
      BY <2>6 DEF StartInit, Wait, TimeOut, LoadSecrets, WriteFile, Publish, WaitFails, rtVars
    <3>2. box'[q] = "run" => box[q] = "run"
      BY <1>0, <2>6 DEF StartInit, Wait, TimeOut, LoadSecrets, WriteFile, Publish, WaitFails,
           After, Restarts, Step, Becomes, PodTypeOK
    <3> QED BY <1>0, <2>1, <2>2, <3>1, <3>2 DEF Published, ChosenFaces
  <2> QED BY <1>4, <2>3, <2>4, <2>5, <2>6 DEF InitStep
<1>5. CASE UNCHANGED allVars
  BY <1>0, <1>5 DEF allVars, vars, podVars, netVars, objVars, runVars, nodeVars, rtVars, Published, ChosenFaces,
                    Doomed, Applying
<1> QED BY <1>1, <1>2, <1>3, <1>4, <1>5 DEF PodNext, NodeStep

-----------------------------------------------------------------------------
(* The theorems.                                                           *)

LEMMA PodInvInit == PodInit => PodInv
<1> SUFFICES ASSUME PodInit PROVE PodInv
    OBVIOUS
<1>1. Inv
  BY InvInit DEF PodInit
<1>2. PodTypeOK
  BY <1>1 DEF PodInit, PodTypeOK, Inv, Box
<1>3. OneActive
  BY DEF PodInit, Init, OneActive, Active, Stopped
<1>4. ASSUME NEW p \in Pods PROVE FilesOK(p) /\ FaceOK(p)
  BY DEF PodInit, FilesOK, Past, FaceOK
<1> QED BY <1>1, <1>2, <1>3, <1>4 DEF PodInv

LEMMA PodInvariance == PodSpec => []PodInv
<1>1. PodInit => PodInv
  BY PodInvInit
<1>2. PodInv /\ [PodNext]_allVars => PodInv'
  BY SyncInvStep, PodTypeStep, ActiveStep, FilesStep, FaceStep DEF PodInv
<1> QED BY <1>1, <1>2, PTL DEF PodSpec

\* What the invariant says of the properties.
LEMMA PodInvImplies ==
    PodInv => PodTypeOK /\ SettledPod /\ NoOrphanRouter /\ RefResolves /\ FilesOwn /\ FacePublished
<1> SUFFICES ASSUME PodInv
             PROVE  /\ PodTypeOK /\ SettledPod /\ NoOrphanRouter /\ RefResolves
                    /\ FilesOwn /\ FacePublished
    OBVIOUS
<1>1. PodTypeOK /\ SettledPod /\ NoOrphanRouter /\ RefResolves
  BY InvImplies DEF PodInv
<1>2. FilesOwn
  BY DEF PodInv, FilesOK, Past, FilesOwn
<1>3. Published = IF addrs = {} THEN "none" ELSE IF Family \in addrs THEN Family
                  ELSE CHOOSE f \in addrs : TRUE
  <2>1. CASE Family \in addrs
    <3>1. (CHOOSE f \in {Family} : TRUE) = Family
      OBVIOUS
    <3> QED BY <2>1, <3>1 DEF Published, ChosenFaces
  <2>2. CASE Family \notin addrs
    BY <2>2 DEF Published, ChosenFaces
  <2> QED BY <2>1, <2>2
<1>4. FacePublished
  BY <1>3 DEF PodInv, FaceOK, FacePublished
<1> QED BY <1>1, <1>2, <1>4

\* Every variable keeps its type, in the composition too.
THEOREM PodTypeCorrect == PodSpec => []PodTypeOK
<1>1. PodInv => PodTypeOK
  BY PodInvImplies
<1> QED BY <1>1, PodInvariance, PTL

\* What pod-sync promises alone it keeps among the pods of a node.
THEOREM SyncInComposition == PodSpec => [](SettledPod /\ NoOrphanRouter /\ RefResolves)
<1>1. PodInv => SettledPod /\ NoOrphanRouter /\ RefResolves
  BY PodInvImplies
<1> QED BY <1>1, PodInvariance, PTL

\* The forwarder of a pod runs on the files of its own pod.
THEOREM OwnFiles == PodSpec => []FilesOwn
<1>1. PodInv => FilesOwn
  BY PodInvImplies
<1> QED BY <1>1, PodInvariance, PTL

\* The Router of a running pod is initialized, with a face the node has.
THEOREM RightFace == PodSpec => []FacePublished
<1>1. PodInv => FacePublished
  BY PodInvImplies
<1> QED BY <1>1, PodInvariance, PTL

-----------------------------------------------------------------------------
(* The life of Routers, as RouterLife has it.                              *)

\* A step that the Routers do not show, but for pods that are given up.
LEMMA LifeSame ==
    ASSUME router' = router, face' = face, online' = online,
           \A q \in Pods : Doomed(q) => Doomed(q)'
    PROVE  Life!Forgo
<1> DEFINE rs == {q \in Pods : LifeOf(q) = "absent" /\ LifeOf(q)' = "gone"}
<1>1. \A q \in Pods : LifeOf(q)' = LifeOf(q) \/ q \in rs
  BY DEF LifeOf
<1>2. rs \in SUBSET {r \in Pods : [p \in Pods |-> LifeOf(p)][r] = "absent"}
  OBVIOUS
<1>3. [p \in Pods |-> LifeOf(p)]' =
        [r \in Pods |-> IF r \in rs THEN "gone" ELSE [p \in Pods |-> LifeOf(p)][r]]
  BY <1>1
<1> QED BY <1>2, <1>3 DEF Life!Forgo, Life!statusVars

\* What pod-sync does to a status: it goes with its Router.
LEMMA AlongKeeps ==
    ASSUME PodInv, Along, \A q \in Pods : router'[q] = "none" => router[q] = "none"
    PROVE  face' = face /\ online' = online
<1>1. \A q \in Pods : router[q] = "none" => face[q] = "no" /\ q \notin online
  BY DEF PodInv, FaceOK
<1>2. face \in [Pods -> {"no", "none"} \union Families] /\ online \subseteq Pods
  BY DEF PodInv, PodTypeOK
<1> QED BY <1>1, <1>2 DEF Along

\* A pod whose Router is being deleted, or gone, is given up.
LEMMA GoingDoomed ==
    ASSUME PodInv, NEW p \in Pods
    PROVE  /\ router[p] \in {"none", "live", "deleting"}
           /\ router[p] = "deleting" => Doomed(p)
           /\ Applying(p) => ~Doomed(p)
BY DEF PodInv, Inv, TypeOK, PodOK, RouterOK, Doomed

\* The steps of pod-sync that change a Router.
LEMMA SyncLife ==
    ASSUME PodInv, SyncStep
    PROVE  Life!LifeNext
<1>0. Inv /\ PodTypeOK /\ Along
  BY DEF PodInv, SyncStep
<1>k. \A q \in Pods : Keeps(q)
  BY <1>0, SyncKeeps
<1> USE DEF Inv, TypeOK
<1>1. CASE router' = router
  <2>1. face' = face /\ online' = online
    BY <1>0, <1>1, AlongKeeps
  <2>2. Life!Forgo
    BY <1>1, <1>k, <2>1, LifeSame DEF Keeps
  <2> QED BY <2>2 DEF Life!LifeNext
<1>2. ASSUME NEW p \in Pods, ApplyRouter(p), router' # router PROVE Life!LifeNext
  <2>1. router[p] = "none" /\ router' = [router EXCEPT ![p] = "live"] /\ Applying(p)
    BY <1>0, <1>2 DEF ApplyRouter, Applying
  <2>2. /\ phase' = phase /\ cache' = cache
        /\ \A q \in Pods \ {p} : task'[q] = task[q]
    BY <1>0, <1>2 DEF ApplyRouter, End, podVars
  <2>3. \A q \in Pods \ {p} : LifeOf(q)' = LifeOf(q)
    BY <1>0, <2>1, <2>2 DEF LifeOf, Doomed, Applying
  <2>4. LifeOf(p) = "absent" /\ LifeOf(p)' = "live"
    BY <1>0, <2>1, GoingDoomed DEF LifeOf
  <2>5. face' = face /\ online' = online
    BY <1>0, <2>1, AlongKeeps
  <2>6. Life!Create(p)
    BY <2>3, <2>4, <2>5 DEF Life!Create, Life!statusVars
  <2> QED BY <2>6 DEF Life!LifeNext
<1>3. ASSUME NEW p \in Pods, RouterGone(p) PROVE Life!LifeNext
  <2>1. /\ router[p] = "deleting" /\ router' = [router EXCEPT ![p] = "none"]
        /\ phase' = phase /\ cache' = cache /\ task' = task
    BY <1>3 DEF RouterGone, podVars, runVars
  <2>2. \A q \in Pods : Doomed(q)' = Doomed(q)
    BY <2>1 DEF Doomed, Applying
  <2>3. Doomed(p)
    BY <2>1, GoingDoomed
  <2>4. \A q \in Pods \ {p} : LifeOf(q)' = LifeOf(q)
    BY <1>0, <2>1, <2>2 DEF LifeOf
  <2>5. LifeOf(p) = "deleting" /\ LifeOf(p)' = "gone"
    BY <1>0, <2>1, <2>2, <2>3 DEF LifeOf
  <2>6. \A q \in Pods : router'[q] = "none" <=> router[q] = "none" \/ q = p
    BY <1>0, <2>1
  <2>7. /\ \A q \in Pods \ {p} : face'[q] = face[q] /\ (q \in online' <=> q \in online)
        /\ face'[p] = "no" /\ p \notin online' /\ online' \subseteq online
    BY <1>0, <2>6 DEF PodInv, FaceOK, Along
  <2>8. Life!Leave(p)
    <3>1. online' = online \ {p}
      BY <1>0, <2>7 DEF PodTypeOK
    <3>2. {q \in Pods : face[q] # "no"}' = {q \in Pods : face[q] # "no"} \ {p}
      BY <2>7
    <3>3. {q \in Pods : face[q] \in Families}' = {q \in Pods : face[q] \in Families} \ {p}
      BY <2>7 DEF Families
    <3>4. [q \in Pods |-> LifeOf(q)]' = [[q \in Pods |-> LifeOf(q)] EXCEPT ![p] = "gone"]
      BY <2>4, <2>5
    <3> QED BY <2>5, <3>1, <3>2, <3>3, <3>4 DEF Life!Leave, Life!Present
  <2> QED BY <2>8 DEF Life!LifeNext
<1>4. ASSUME NEW p \in Pods, DeleteRouter(p), router' # router PROVE Life!LifeNext
  <2>1. router[p] = "live" /\ router' = [router EXCEPT ![p] = "deleting"]
    BY <1>0, <1>4 DEF DeleteRouter
  <2>2. \A q \in Pods \ {p} : LifeOf(q)' = LifeOf(q)
    BY <1>0, <1>4, <2>1 DEF DeleteRouter, Goto, podVars, LifeOf, Doomed, Applying
  <2>3. LifeOf(p) = "live" /\ LifeOf(p)' = "deleting"
    BY <1>0, <2>1 DEF LifeOf
  <2>4. face' = face /\ online' = online
    BY <1>0, <2>1, AlongKeeps
  <2>5. Life!Delete(p)
    BY <2>2, <2>3, <2>4 DEF Life!Delete, Life!statusVars
  <2> QED BY <2>5 DEF Life!LifeNext
<1>5. \/ router' = router
      \/ \E p \in Pods : ApplyRouter(p) \/ RouterGone(p) \/ DeleteRouter(p)
  BY DEF SyncStep, SchedulePod, Watch, TaskStep, CallFails, EditIssuer, Restart, Start, AddFinalizer,
         GetNetwork, ApplyCert, FindRouter, DeleteCert, Release, objVars
<1> QED BY <1>1, <1>2, <1>3, <1>4, <1>5

\* The steps of the node: they change a status only.
LEMMA NodeLife ==
    ASSUME PodInv, NEW p \in Pods, NodeStep(p)
    PROVE  Life!LifeNext
<1>0. Inv /\ PodTypeOK /\ FaceOK(p)
  BY DEF PodInv
<1> USE DEF Inv, TypeOK, podVars, netVars, objVars, runVars, counters, vars, nodeVars, rtVars
<1>1. router' = router /\ task' = task /\ cache' = cache
  BY DEF NodeStep, Place, CreatePod, Evict, DeletePod, Kill, InitStep, StartInit, Wait, TimeOut,
         LoadSecrets, WriteFile, Publish, GoOnline, WaitFails, Crash, Restarts, Step, Becomes
<1>2. CASE Place(p) \/ Evict(p) \/ Kill(p)
  <2>1. face' = face /\ online' = online
    BY <1>2 DEF Place, Evict, Kill
  <2>2. \A q \in Pods : phase[q] \in {"deleting", "gone"} => phase'[q] \in {"deleting", "gone"}
    BY <1>0, <1>2 DEF Place, CreatePod, Evict, DeletePod, Kill
  <2>3. \A q \in Pods : Doomed(q) => Doomed(q)'
    BY <1>1, <2>2 DEF Doomed, Applying
  <2>4. Life!Forgo
    BY <1>1, <2>1, <2>3, LifeSame
  <2> QED BY <2>4 DEF Life!LifeNext
<1> SUFFICES ASSUME InitStep(p) \/ WaitFails(p) \/ Crash(p) PROVE Life!LifeNext
  BY <1>2 DEF NodeStep
<1>3. phase' = phase
  BY DEF InitStep, StartInit, Wait, TimeOut, LoadSecrets, WriteFile, Publish, GoOnline, WaitFails,
         Crash, Restarts, Step, Becomes
<1>4. \A q \in Pods : Doomed(q)' = Doomed(q) /\ LifeOf(q)' = LifeOf(q)
  BY <1>1, <1>3 DEF Doomed, Applying, LifeOf
<1>5. CASE face' = face /\ online' = online
  <2>1. Life!Forgo
    BY <1>1, <1>4, <1>5, LifeSame
  <2> QED BY <2>1 DEF Life!LifeNext
<1>6. CASE Publish(p) /\ router[p] # "none"
  <2>1. face' = [face EXCEPT ![p] = Published] /\ online' = online
    BY <1>6, PublishWrites DEF Publish
  <2>2. Published # "no"
    BY <1>0, ChosenType DEF Families
  <2>3. \A q \in Pods \ {p} : face'[q] = face[q]
    BY <2>1
  <2>4. face'[p] = Published
    BY <1>0, <2>1 DEF PodTypeOK
  <2>5. {q \in Pods : face[q] # "no"}' = {q \in Pods : face[q] # "no"} \union {p}
    BY <2>2, <2>3, <2>4
  <2>6. {q \in Pods : face[q] \in Families}' \in
          {{q \in Pods : face[q] \in Families} \union {p}, {q \in Pods : face[q] \in Families} \ {p}}
    <3>1. CASE Published \in Families
      BY <2>3, <2>4, <3>1
    <3>2. CASE Published \notin Families
      BY <2>3, <2>4, <3>2
    <3> QED BY <3>1, <3>2
  <2>7. LifeOf(p) \in {"live", "deleting"}
    BY <1>6, GoingDoomed DEF LifeOf
  <2>8. Life!Publish(p)
    BY <1>4, <2>1, <2>5, <2>6, <2>7 DEF Life!Publish, Life!Present
  <2> QED BY <2>8 DEF Life!LifeNext
<1>7. CASE GoOnline(p)
  <2>1. face' = face /\ online' = online \union {p} /\ router[p] # "none" /\ box[p] = "run"
    BY <1>7 DEF GoOnline
  <2>2. face[p] # "no"
    BY <1>0, <2>1, ChosenType DEF FaceOK, Families
  <2>3. LifeOf(p) \in {"live", "deleting"}
    BY <2>1, GoingDoomed DEF LifeOf
  <2>4. Life!GoOnline(p)
    BY <1>4, <2>1, <2>2, <2>3 DEF Life!GoOnline, Life!Present
  <2> QED BY <2>4 DEF Life!LifeNext
<1> QED BY <1>5, <1>6, <1>7 DEF InitStep, StartInit, Wait, TimeOut, LoadSecrets, WriteFile, Publish,
                               WaitFails, Crash

\* The pods of a node and pod-sync lead the life that the Router controller takes
\* its Routers to lead, for any number of pods, edits, crashes and lost deletions.
THEOREM LivesAsAssumed == PodSpec => ImplementsLife
<1>1. PodInit => Life!LifeInit
  BY DEF PodInit, Init, Life!LifeInit, LifeOf, Doomed, Families
<1>2. PodInv /\ [PodNext]_allVars => [Life!LifeNext]_(Life!lifeVars)
  <2> SUFFICES ASSUME PodInv, [PodNext]_allVars PROVE [Life!LifeNext]_(Life!lifeVars)
    OBVIOUS
  <2>1. CASE SyncStep
    BY <2>1, SyncLife
  <2>2. CASE Issue \/ RollOut \/ UNCHANGED allVars
    <3>1. /\ router' = router /\ face' = face /\ online' = online
          /\ phase' = phase /\ task' = task /\ cache' = cache
      BY <2>2 DEF Issue, RollOut, allVars, vars, podVars, netVars, objVars, runVars, rtVars
    <3>2. \A q \in Pods : LifeOf(q)' = LifeOf(q)
      BY <3>1 DEF LifeOf, Doomed, Applying
    <3> QED BY <3>1, <3>2 DEF Life!lifeVars, Life!statusVars
  <2>3. ASSUME NEW p \in Pods, NodeStep(p) PROVE Life!LifeNext
    BY <2>3, NodeLife
  <2> QED BY <2>1, <2>2, <2>3 DEF PodNext
<1> QED BY <1>1, <1>2, PodInvariance, PTL DEF PodSpec, ImplementsLife, Life!LifeSpec
=============================================================================
