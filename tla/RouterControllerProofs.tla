----------------------- MODULE RouterControllerProofs -----------------------
(* Theorems about the Router controller, for any set of Routers and any    *)
(* number of faces, failures and restarts.                                 *)
EXTENDS RouterController, TLAPS

Applying(r) == task[r].pc \in {"offline", "list", "propagate"}
Cleaning(r) == task[r].pc \in {"retract", "clean"}

\* What the cache may be behind in: it never shows a finalizer, a deletion or
\* a face that the object does not have.
CacheOK(r) ==
    /\ phase[r] = "absent" =>
         ~finalizer[r] /\ ~cache[r].known /\ cache[r].face = 0 /\ task[r].pc = "idle"
    /\ cache[r].finalizer => finalizer[r]
    /\ cache[r].deleting => phase[r] \in {"deleting", "gone"}
    /\ Exists(r) => cache[r].face <= status[r].face
    /\ phase[r] = "gone" /\ finalizer[r] => ~cache[r].known \/ cache[r].deleting

\* What a task relies on while others step.
TaskOK(r) ==
    /\ Applying(r) => Exists(r) /\ finalizer[r] /\ task[r].face <= cache[r].face
    /\ Applying(r) => \A q \in Routers : inner[q][r] <= task[r].face
    /\ task[r].pc = "propagate" => \A q \in task[r].todo : q # r /\ task[r].face # 0
    /\ Cleaning(r) => /\ phase[r] \in {"deleting", "gone"}
                      /\ ~cache[r].known \/ cache[r].deleting

\* Who may hold an entry of whom, and that cleanup has listed them all.
EntryOK(q, r) ==
    inner[q][r] # 0 =>
        /\ q # r /\ Exists(q) /\ Exists(r) /\ finalizer[r]
        /\ inner[q][r] <= cache[r].face
        /\ task[r].pc = "clean" => q \in task[r].todo

\* Whatever is not null was published.
AddrOK(r) ==
    /\ status[r].addr => status[r].face # 0
    /\ cache[r].addr => cache[r].face # 0
    /\ task[r].addr => task[r].face # 0

AddrInv  == \A r \in Routers : AddrOK(r)
CacheInv == \A r \in Routers : CacheOK(r)
TaskInv  == \A r \in Routers : TaskOK(r)
EntryInv == \A q, r \in Routers : EntryOK(q, r)

Inv == TypeOK /\ AddrInv /\ CacheInv /\ TaskInv /\ EntryInv

USE MaxFaceAssumption, MaxFaultsAssumption

-----------------------------------------------------------------------------
(* Type correctness.                                                       *)

\* A watch event carries a well-typed version of the object.
LEMMA SnapshotType ==
    ASSUME TypeOK, NEW r \in Routers
    PROVE  Snapshot(r) \in Cached
BY DEF TypeOK, Snapshot, Unknown, Cached, Status, Face

\* The absent face is one.
LEMMA NoFace == 0 \in Face
BY DEF Face

\* The status of a new Router is well typed.
LEMMA NoStatusType == NoStatus \in Status
BY NoFace DEF NoStatus, Status

\* So is the idle task.
LEMMA IdleType == Idle \in Task
BY NoFace DEF Idle, Task, PC

\* The types of the fields of a task.
LEMMA TaskFields ==
    ASSUME NEW t \in Task
    PROVE  t.pc \in PC /\ t.todo \subseteq Routers /\ t.face \in Face /\ t.ready \in BOOLEAN
BY DEF Task

\* A task or a status with a field set is one.
LEMMA TaskEdit ==
    ASSUME NEW t \in Task, NEW pc \in PC
    PROVE  [t EXCEPT !.pc = pc] \in Task
BY DEF Task

LEMMA TaskTodo ==
    ASSUME NEW t \in Task, NEW S \in SUBSET Routers
    PROVE  [t EXCEPT !.todo = S] \in Task /\ [t EXCEPT !.todo = S].pc = t.pc
BY DEF Task

LEMMA StatusEdit ==
    ASSUME NEW s \in Status, NEW f \in Face
    PROVE  /\ [s EXCEPT !.present = TRUE, !.initialized = TRUE, !.face = f] \in Status
           /\ [s EXCEPT !.online = TRUE] \in Status
BY DEF Status

\* A patch of one entry keeps the neighbor maps well typed.
LEMMA EntryType ==
    ASSUME TypeOK, NEW q \in Routers, NEW r \in Routers, NEW f \in Face
    PROVE  [inner EXCEPT ![q][r] = f] \in [Routers -> [Routers -> Face]]
BY DEF TypeOK

\* So does the removal of an object.
LEMMA EraseType ==
    ASSUME TypeOK, NEW r \in Routers, Erase(r)
    PROVE  /\ phase' \in [Routers -> Phase] /\ status' \in [Routers -> Status]
           /\ inner' \in [Routers -> [Routers -> Face]] /\ dirty' \subseteq Routers
BY NoFace, NoStatusType DEF TypeOK, Erase, Phase

\* The initial state is well typed.
LEMMA TypeInit == Init => TypeOK
BY DEF Init, TypeOK, Phase, Status, NoStatus, Face, Cached, Unknown, Task, PC, Idle

\* The end of a task, with or without a retry, keeps the types of task and queue.
LEMMA TypeDone ==
    ASSUME TypeOK, NEW r \in Routers, Done(r) \/ Retry(r)
    PROVE  task' \in [Routers -> Task] /\ queue' \subseteq Routers
BY IdleType DEF TypeOK, Done, Retry

\* The patch of the conditions, failed or not, keeps the types.
LEMMA TypeConditions ==
    ASSUME TypeOK, NEW r \in Routers, NEW b \in BOOLEAN, PatchConditions(r, b)
    PROVE  /\ status' \in [Routers -> Status]
           /\ dirty' \subseteq Routers
           /\ task' \in [Routers -> Task] /\ queue' \subseteq Routers
<1>1. CASE Exists(r)
  <2>1. status[r] \in Status /\ task[r].ready \in BOOLEAN
    BY TaskFields DEF TypeOK
  <2>2. Done(r) /\ dirty' \subseteq Routers
    BY <1>1 DEF PatchConditions, TypeOK
  <2>3. status' = [status EXCEPT ![r] = [status[r] EXCEPT !.present = TRUE,
                                  !.ready = task[r].ready, !.synced = b]]
    BY <1>1 DEF PatchConditions
  <2>4. status' \in [Routers -> Status]
    BY <2>1, <2>3 DEF TypeOK, Status
  <2> QED BY <2>2, <2>4, TypeDone
<1>2. CASE ~Exists(r)
  BY <1>2, TypeDone DEF PatchConditions, TypeOK
<1> QED BY <1>1, <1>2

\* A task that has just listed its Routers is well typed.
LEMMA TypeWork ==
    ASSUME TypeOK, NEW r \in Routers, NEW p \in PC, NEW S \in SUBSET Routers,
           Work(r, p, S)
    PROVE  task' \in [Routers -> Task]
<1>1. task[r] \in Task
  BY DEF TypeOK
<1>2. [task[r] EXCEPT !.pc = p, !.todo = S] \in Task
  BY <1>1 DEF Task
<1> QED BY <1>2 DEF TypeOK, Work

\* Every step keeps the types.
LEMMA TypeStep == TypeOK /\ [Next]_vars => TypeOK'
<1> SUFFICES ASSUME TypeOK, [Next]_vars PROVE TypeOK'
    OBVIOUS
<1> USE DEF TypeOK, Phase
<1>1. ASSUME NEW r \in Routers, PodStep(r) PROVE TypeOK'
  <2>1. CASE CreateRouter(r)
    BY <2>1 DEF CreateRouter, ctrlVars
  <2>2. CASE DeleteRouter(r)
    <3>1. CASE finalizer[r]
      BY <2>2, <3>1 DEF DeleteRouter, ctrlVars
    <3>2. CASE ~finalizer[r]
      BY <2>2, <3>2, EraseType DEF DeleteRouter, ctrlVars
    <3> QED BY <3>1, <3>2
  <2>3. CASE PublishFace(r)
    <3>1. /\ status[r].face + 1 \in Face
          /\ status' = [status EXCEPT ![r].present = TRUE, ![r].initialized = TRUE, ![r].face = @ + 1]
      BY <2>3 DEF PublishFace, Status, Face
    <3>2. [status[r] EXCEPT !.present = TRUE, !.initialized = TRUE, !.face = status[r].face + 1] \in Status
      BY <3>1, StatusEdit
    <3>3. status' \in [Routers -> Status]
      BY <3>1, <3>2
    <3> QED BY <2>3, <3>3 DEF PublishFace, ctrlVars
  <2>4. CASE GoOnline(r)
    <3>1. [status[r] EXCEPT !.online = TRUE] \in Status
      BY NoFace, StatusEdit
    <3>2. status' \in [Routers -> Status]
      BY <2>4, <3>1 DEF GoOnline
    <3> QED BY <2>4, <3>2 DEF GoOnline, ctrlVars
  <2> QED BY <1>1, <2>1, <2>2, <2>3, <2>4 DEF PodStep
<1>2. ASSUME NEW r \in Routers, Watch(r) PROVE TypeOK'
  BY <1>2, SnapshotType DEF Watch, apiVars
<1>3. CASE Restart
  BY <1>3, SnapshotType, IdleType DEF Restart, apiVars
<1>4. ASSUME NEW r \in Routers, ApplyStep(r) PROVE TypeOK'
  <2>1. CASE StartFinalize(r)
    <3>1. [task[r] EXCEPT !.pc = "finalize"] \in Task
      BY TaskEdit DEF PC
    <3>2. task' \in [Routers -> Task]
      BY <2>1, <3>1 DEF StartFinalize
    <3> QED BY <2>1, <3>2 DEF StartFinalize, Dequeue, apiVars
  <2>2. CASE AddFinalizer(r)
    <3>1. task' \in [Routers -> Task] /\ queue' \subseteq Routers
      BY <2>2, TypeDone DEF AddFinalizer
    <3>2. finalizer' \in [Routers -> BOOLEAN] /\ dirty' \subseteq Routers
      BY <2>2 DEF AddFinalizer
    <3> QED BY <2>2, <3>1, <3>2 DEF AddFinalizer
  <2>3. CASE StartApply(r)
    BY <2>3 DEF StartApply, Dequeue, apiVars, Task, PC, Cached
  <2>4. CASE ReportOffline(r)
    BY <2>4, TypeConditions DEF ReportOffline
  <2>5. CASE ListPeers(r)
    BY <2>5, TypeWork DEF ListPeers, apiVars, PC
  <2>6. CASE Propagate(r)
    <3>1. PICK q \in task[r].todo :
             IF Exists(q) /\ status[q].present
             THEN /\ inner' = [inner EXCEPT ![q][r] = task[r].face]
                  /\ dirty' = IF inner[q][r] = task[r].face THEN dirty ELSE dirty \union {q}
                  /\ task' = [task EXCEPT ![r].todo = @ \ {q}]
                  /\ UNCHANGED queue
             ELSE Retry(r) /\ UNCHANGED <<inner, dirty>>
      BY <2>6 DEF Propagate
    <3>2. q \in Routers /\ task[r].face \in Face
      BY TaskFields
    <3>3. CASE Exists(q) /\ status[q].present
      <4>1. inner' = [inner EXCEPT ![q][r] = task[r].face]
        BY <3>1, <3>3
      <4>2. inner' \in [Routers -> [Routers -> Face]]
        BY <3>2, <4>1, EntryType
      <4>3. task' = [task EXCEPT ![r].todo = @ \ {q}]
        BY <3>1, <3>3
      <4>4. task' \in [Routers -> Task]
        <5>1. task[r] \in Task /\ task[r].todo \ {q} \in SUBSET Routers
          BY TaskFields
        <5>2. [task[r] EXCEPT !.todo = task[r].todo \ {q}] \in Task
          BY <5>1, TaskTodo, Zenon
        <5> QED BY <4>3, <5>2
      <4> QED BY <2>6, <3>1, <3>2, <3>3, <4>2, <4>4 DEF Propagate
    <3>4. CASE ~(Exists(q) /\ status[q].present)
      BY <2>6, <3>1, <3>4, TypeDone DEF Propagate
    <3> QED BY <3>3, <3>4
  <2>7. CASE ReportSynced(r)
    BY <2>7, TypeConditions DEF ReportSynced
  <2> QED BY <1>4, <2>1, <2>2, <2>3, <2>4, <2>5, <2>6, <2>7 DEF ApplyStep
<1>5. ASSUME NEW r \in Routers, CleanupStep(r) PROVE TypeOK'
  <2>1. CASE StartCleanup(r)
    <3>1. [task[r] EXCEPT !.pc = "retract"] \in Task
      BY TaskEdit DEF PC
    <3>2. task' \in [Routers -> Task]
      BY <2>1, <3>1 DEF StartCleanup
    <3> QED BY <2>1, <3>2 DEF StartCleanup, Dequeue, apiVars
  <2>2. CASE ListHolders(r)
    BY <2>2, TypeWork DEF ListHolders, apiVars, PC
  <2>3. CASE Retract(r)
    <3>1. PICK q \in task[r].todo :
             IF Exists(q) /\ inner[q][r] # 0
             THEN /\ inner' = [inner EXCEPT ![q][r] = 0]
                  /\ dirty' = dirty \union {q}
                  /\ task' = [task EXCEPT ![r].todo = @ \ {q}]
                  /\ UNCHANGED queue
             ELSE Retry(r) /\ UNCHANGED <<inner, dirty>>
      BY <2>3 DEF Retract
    <3>2. q \in Routers /\ 0 \in Face
      BY TaskFields, NoFace
    <3>3. CASE Exists(q) /\ inner[q][r] # 0
      <4>1. inner' = [inner EXCEPT ![q][r] = 0]
        BY <3>1, <3>3
      <4>2. inner' \in [Routers -> [Routers -> Face]]
        BY <3>2, <4>1, EntryType
      <4>3. task' = [task EXCEPT ![r].todo = @ \ {q}]
        BY <3>1, <3>3
      <4>4. task' \in [Routers -> Task]
        <5>1. task[r] \in Task /\ task[r].todo \ {q} \in SUBSET Routers
          BY TaskFields
        <5>2. [task[r] EXCEPT !.todo = task[r].todo \ {q}] \in Task
          BY <5>1, TaskTodo, Zenon
        <5> QED BY <4>3, <5>2
      <4> QED BY <2>3, <3>1, <3>2, <3>3, <4>2, <4>4 DEF Retract
    <3>4. CASE ~(Exists(q) /\ inner[q][r] # 0)
      BY <2>3, <3>1, <3>4, TypeDone DEF Retract
    <3> QED BY <3>3, <3>4
  <2>4. CASE Release(r)
    <3>1. CASE phase[r] = "deleting"
      BY <2>4, <3>1, TypeDone, EraseType DEF Release
    <3>2. CASE phase[r] # "deleting"
      BY <2>4, <3>2, TypeDone DEF Release
    <3> QED BY <3>1, <3>2
  <2> QED BY <1>5, <2>1, <2>2, <2>3, <2>4 DEF CleanupStep
<1>6. ASSUME NEW r \in Routers, Forget(r) PROVE TypeOK'
  BY <1>6 DEF Forget, Dequeue, apiVars
<1>7. ASSUME NEW r \in Routers, CallFails(r) PROVE TypeOK'
  BY <1>7, TypeDone DEF CallFails, apiVars
<1>8. CASE UNCHANGED vars
  BY <1>8 DEF vars
<1> QED BY <1>1, <1>2, <1>3, <1>4, <1>5, <1>6, <1>7, <1>8 DEF Next, TaskStep

\* Every variable keeps its type (router.rs 63-81).
THEOREM TypeCorrect == Spec => []TypeOK
BY TypeInit, TypeStep, PTL DEF Spec

-----------------------------------------------------------------------------
(* The inductive invariant.                                                *)

\* The initial state satisfies the invariant.
LEMMA InvInit == Init => Inv
BY TypeInit DEF Init, Inv, AddrInv, CacheInv, TaskInv, EntryInv, AddrOK, CacheOK, TaskOK, EntryOK, Exists,
                Applying, Cleaning, Unknown, Idle, NoStatus

\* The faces that the invariant compares are natural numbers.
LEMMA FacesAreNumbers ==
    ASSUME TypeOK
    PROVE  \A q, r \in Routers : /\ inner[q][r] \in Nat /\ status[r].face \in Nat
                                 /\ cache[r].face \in Nat /\ task[r].face \in Nat
<1> SUFFICES ASSUME NEW q \in Routers, NEW r \in Routers
    PROVE /\ inner[q][r] \in Nat /\ status[r].face \in Nat
          /\ cache[r].face \in Nat /\ task[r].face \in Nat
    OBVIOUS
<1>1. inner[q][r] \in Face /\ status[r] \in Status /\ cache[r] \in Cached /\ task[r] \in Task
  BY DEF TypeOK
<1> QED BY <1>1 DEF Face, Status, Cached, Task

\* What a watch event shows of an object that exists, and of one that does not.
LEMMA SnapshotFields ==
    ASSUME TypeOK, NEW r \in Routers
    PROVE  /\ Snapshot(r).known <=> Exists(r)
           /\ Snapshot(r).deleting <=> phase[r] = "deleting"
           /\ Snapshot(r).finalizer => finalizer[r]
           /\ Snapshot(r).face = IF Exists(r) THEN status[r].face ELSE 0
<1>1. CASE Exists(r)
  BY <1>1 DEF Snapshot, TypeOK
<1>2. CASE ~Exists(r)
  <2>1. Snapshot(r) = Unknown /\ phase[r] # "deleting"
    BY <1>2 DEF Snapshot, Exists
  <2>2. ~Unknown.known /\ ~Unknown.deleting /\ ~Unknown.finalizer /\ Unknown.face = 0
    BY DEF Unknown
  <2> QED BY <1>2, <2>1, <2>2
<1> QED BY <1>1, <1>2

\* A conditions patch changes no face, and ends the task.
LEMMA ConditionsFrame ==
    ASSUME TypeOK, NEW r \in Routers, NEW b \in BOOLEAN, PatchConditions(r, b)
    PROVE  /\ \A x \in Routers : status'[x].face = status[x].face
           /\ task' = [task EXCEPT ![r] = Idle]
<1>1. task' = [task EXCEPT ![r] = Idle]
  BY DEF PatchConditions, Done, Retry
<1>2. status' = status \/ status' = [status EXCEPT ![r] =
          [status[r] EXCEPT !.present = TRUE, !.ready = task[r].ready, !.synced = b]]
  BY DEF PatchConditions
<1>3. CASE status' = status
  BY <1>1, <1>3
<1>4. CASE status' = [status EXCEPT ![r] =
          [status[r] EXCEPT !.present = TRUE, !.ready = task[r].ready, !.synced = b]]
  <2>1. status[r] \in Status
    BY DEF TypeOK
  <2>2. [status[r] EXCEPT !.present = TRUE, !.ready = task[r].ready, !.synced = b].face
          = status[r].face
    BY <2>1 DEF Status
  <2>3. status \in [Routers -> Status]
    BY DEF TypeOK
  <2>4. \A x \in Routers : status'[x].face = status[x].face
    BY <1>4, <2>2, <2>3
  <2> QED BY <1>1, <2>4
<1> QED BY <1>2, <1>3, <1>4

\* A step of another Router changes nothing here but the neighbor map.
Frame(m) ==
    /\ phase'[m] = phase[m] /\ finalizer'[m] = finalizer[m] /\ status'[m] = status[m]
    /\ cache'[m] = cache[m] /\ task'[m] = task[m]
    /\ m \in queue' <=> m \in queue
    /\ m \in dirty => m \in dirty'

StepOf(s) == PodStep(s) \/ Watch(s) \/ TaskStep(s) \/ CallFails(s)

LEMMA Others ==
    ASSUME TypeOK, NEW s \in Routers, NEW m \in Routers, m # s, StepOf(s)
    PROVE  Frame(m)
<1> USE DEF TypeOK, Frame, apiVars, ctrlVars, Done, Retry
<1>1. CASE PodStep(s)
  BY <1>1 DEF PodStep, CreateRouter, DeleteRouter, PublishFace, GoOnline, Erase
<1>2. CASE Watch(s) \/ Forget(s) \/ CallFails(s)
  BY <1>2 DEF Watch, Forget, CallFails, Dequeue
<1>3. CASE ApplyStep(s)
  <2>1. CASE StartFinalize(s) \/ StartApply(s) \/ ListPeers(s)
    BY <2>1 DEF StartFinalize, StartApply, ListPeers, Dequeue, Work
  <2>2. CASE AddFinalizer(s)
    BY <2>2 DEF AddFinalizer
  <2>3. CASE ReportOffline(s)
    BY <2>3 DEF ReportOffline, PatchConditions
  <2>4. CASE Propagate(s)
    BY <2>4 DEF Propagate
  <2>5. CASE ReportSynced(s)
    BY <2>5 DEF ReportSynced, PatchConditions
  <2> QED BY <1>3, <2>1, <2>2, <2>3, <2>4, <2>5 DEF ApplyStep
<1>4. CASE CleanupStep(s)
  BY <1>4 DEF CleanupStep, StartCleanup, ListHolders, Retract, Release, Erase, Dequeue, Work
<1> QED BY <1>1, <1>2, <1>3, <1>4 DEF StepOf, TaskStep

\* A step leaves the status, the cached object and the task as far as the face goes,
\* or they say what was published, or nothing.
LEMMA AddrFrame ==
    ASSUME TypeOK, NEW r \in Routers, StepOf(r)
    PROVE  /\ \/ status'[r].addr = status[r].addr /\ status'[r].face = status[r].face
              \/ ~status'[r].addr
              \/ status'[r].face = status[r].face + 1
           /\ cache'[r] \in {cache[r], Snapshot(r)}
           /\ \/ task'[r].addr = task[r].addr /\ task'[r].face = task[r].face
              \/ ~task'[r].addr
              \/ task'[r].addr = cache[r].addr /\ task'[r].face = cache[r].face
<1> USE DEF TypeOK, apiVars, ctrlVars
<1>0. status[r] \in Status /\ task[r] \in Task
  OBVIOUS
<1>1. CASE PodStep(r)
  <2>1. CASE CreateRouter(r) \/ DeleteRouter(r)
    BY <2>1 DEF CreateRouter, DeleteRouter, Erase, NoStatus
  <2>2. CASE PublishFace(r)
    BY <1>0, <2>2 DEF PublishFace, Status
  <2>3. CASE GoOnline(r)
    BY <1>0, <2>3 DEF GoOnline, Status
  <2> QED BY <1>1, <2>1, <2>2, <2>3 DEF PodStep
<1>2. CASE Watch(r) \/ Forget(r) \/ CallFails(r)
  BY <1>2 DEF Watch, Forget, Dequeue, CallFails, Retry, Idle
<1>3. CASE ApplyStep(r)
  <2>1. CASE StartFinalize(r) \/ AddFinalizer(r)
    BY <1>0, <2>1 DEF StartFinalize, AddFinalizer, Dequeue, Done, Retry, Task, Idle
  <2>2. CASE StartApply(r)
    BY <2>2 DEF StartApply, Dequeue
  <2>3. CASE ReportOffline(r) \/ ReportSynced(r)
    <3>1. PICK b \in BOOLEAN : PatchConditions(r, b) /\ UNCHANGED cache
      BY <2>3 DEF ReportOffline, ReportSynced
    <3>2. task' = [task EXCEPT ![r] = Idle]
      BY <3>1 DEF PatchConditions, Done, Retry
    <3>3. status' = status \/ status' = [status EXCEPT ![r] =
              [status[r] EXCEPT !.present = TRUE, !.ready = task[r].ready, !.synced = b]]
      BY <3>1 DEF PatchConditions
    <3>4. task'[r].pc = "idle" /\ ~task'[r].addr /\ task'[r].face = 0
      BY <3>2 DEF Idle
    <3>5. status'[r].face = status[r].face /\ status'[r].addr = status[r].addr
      <4>1. CASE status' = status
        BY <4>1
      <4>2. CASE status' = [status EXCEPT ![r] =
              [status[r] EXCEPT !.present = TRUE, !.ready = task[r].ready, !.synced = b]]
        <5>1. status'[r] =
              [status[r] EXCEPT !.present = TRUE, !.ready = task[r].ready, !.synced = b]
          BY <4>2
        <5> QED BY <1>0, <5>1 DEF Status
      <4> QED BY <3>3, <4>1, <4>2
    <3> QED BY <3>1, <3>4, <3>5
  <2>4. CASE ListPeers(r)
    BY <1>0, <2>4 DEF ListPeers, Work, Task
  <2>5. CASE Propagate(r)
    BY <1>0, <2>5 DEF Propagate, Retry, Task, Idle
  <2> QED BY <1>3, <2>1, <2>2, <2>3, <2>4, <2>5 DEF ApplyStep
<1>4. CASE CleanupStep(r)
  <2>1. CASE StartCleanup(r)
    BY <1>0, <2>1 DEF StartCleanup, Dequeue, Task
  <2>2. CASE ListHolders(r)
    BY <1>0, <2>2 DEF ListHolders, Work, Task
  <2>3. CASE Retract(r)
    BY <1>0, <2>3 DEF Retract, Retry, Task, Idle
  <2>4. CASE Release(r)
    BY <2>4 DEF Release, Erase, Done, Retry, Idle, NoStatus
  <2> QED BY <1>4, <2>1, <2>2, <2>3, <2>4 DEF CleanupStep
<1> QED BY <1>1, <1>2, <1>3, <1>4 DEF StepOf, TaskStep

LEMMA AddrStep == Inv /\ [Next]_vars => AddrInv'
<1> SUFFICES ASSUME Inv, [Next]_vars, NEW x \in Routers PROVE AddrOK(x)'
  BY DEF AddrInv
<1>0. TypeOK /\ AddrOK(x)
  BY DEF Inv, AddrInv
<1>1. Snapshot(x).addr => Snapshot(x).face # 0
  BY <1>0 DEF AddrOK, Snapshot, Unknown
<1>2. ASSUME NEW r \in Routers, StepOf(r) PROVE AddrOK(x)'
  <2>1. CASE x = r
    BY <1>0, <1>1, <1>2, <2>1, AddrFrame, FacesAreNumbers DEF AddrOK
  <2>2. CASE x # r
    BY <1>0, <1>2, <2>2, Others DEF Frame, AddrOK
  <2> QED BY <2>1, <2>2
<1>3. CASE Restart
  BY <1>0, <1>1, <1>3 DEF Restart, apiVars, AddrOK, Idle
<1>4. CASE UNCHANGED vars
  BY <1>0, <1>4 DEF vars, AddrOK
<1> QED BY <1>2, <1>3, <1>4 DEF Next, StepOf

\* No step makes the cache run ahead of the objects.
LEMMA CacheStep == Inv /\ [Next]_vars => CacheInv'
<1> SUFFICES ASSUME Inv, [Next]_vars PROVE CacheInv'
    OBVIOUS
<1> USE DEF Inv, TypeOK, CacheInv, CacheOK, TaskInv, TaskOK, Exists, Applying, Cleaning
<1>1. ASSUME NEW r \in Routers, PodStep(r) PROVE CacheInv'
  <2>1. CASE CreateRouter(r)
    <3> SUFFICES ASSUME NEW x \in Routers PROVE CacheOK(x)'
      OBVIOUS
    <3>1. UNCHANGED <<finalizer, status, inner, cache, queue, task>>
      BY <2>1 DEF CreateRouter, ctrlVars
    <3>2. CASE x = r
      <4>1. phase[x] = "absent" /\ phase'[x] = "live"
        BY <2>1, <3>2 DEF CreateRouter
      <4> QED BY <3>1, <4>1, FacesAreNumbers
    <3>3. CASE x # r
      BY <2>1, <3>1, <3>3 DEF CreateRouter
    <3> QED BY <3>2, <3>3
  <2>2. CASE DeleteRouter(r)
    BY <2>2 DEF DeleteRouter, Erase, ctrlVars, NoStatus
  <2>3. CASE PublishFace(r)
    <3> SUFFICES ASSUME NEW x \in Routers PROVE CacheOK(x)'
      OBVIOUS
    <3>1. UNCHANGED <<phase, finalizer, inner, cache, queue, task>>
      BY <2>3 DEF PublishFace, ctrlVars
    <3>2. status'[x].face \in {status[x].face, status[x].face + 1}
      BY <2>3 DEF PublishFace, Status
    <3> QED BY <3>1, <3>2, FacesAreNumbers
  <2>4. CASE GoOnline(r)
    BY <2>4 DEF GoOnline, ctrlVars, Status
  <2> QED BY <1>1, <2>1, <2>2, <2>3, <2>4 DEF PodStep
<1>2. ASSUME NEW r \in Routers, ApplyStep(r) PROVE CacheInv'
  <2>1. CASE StartFinalize(r)
    BY <2>1 DEF StartFinalize, Dequeue, apiVars, Task
  <2>2. CASE AddFinalizer(r)
    BY <2>2 DEF AddFinalizer, Done, Retry, Idle
  <2>3. CASE StartApply(r)
    BY <2>3 DEF StartApply, Dequeue, apiVars
  <2>4. CASE ReportOffline(r)
    <3> SUFFICES ASSUME NEW x \in Routers PROVE CacheOK(x)'
      OBVIOUS
    <3>1. UNCHANGED <<phase, finalizer, inner, cache>>
      BY <2>4 DEF ReportOffline
    <3>2. status'[x].face = status[x].face /\ task' = [task EXCEPT ![r] = Idle]
      BY <2>4, ConditionsFrame DEF ReportOffline
    <3>3. task'[x] = task[x] \/ task'[x].pc = "idle"
      BY <3>2 DEF Idle
    <3> QED BY <3>1, <3>2, <3>3
  <2>5. CASE ListPeers(r)
    BY <2>5 DEF ListPeers, Work, apiVars, Task
  <2>6. CASE Propagate(r)
    <3> SUFFICES ASSUME NEW x \in Routers PROVE CacheOK(x)'
      OBVIOUS
    <3>1. UNCHANGED <<phase, finalizer, status, cache>>
      BY <2>6 DEF Propagate
    <3>2. \/ task' = [task EXCEPT ![r] = Idle]
          \/ \E S \in SUBSET Routers : task' = [task EXCEPT ![r].todo = S]
      BY <2>6, TaskFields DEF Propagate, Retry
    <3>3. \A S \in SUBSET Routers : [task[r] EXCEPT !.todo = S].pc = task[r].pc
      BY TaskTodo
    <3>4. CASE task' = [task EXCEPT ![r] = Idle]
      BY <3>1, <3>4 DEF Idle
    <3>5. ASSUME NEW S \in SUBSET Routers, task' = [task EXCEPT ![r].todo = S] PROVE CacheOK(x)'
      <4>1. task'[x].pc = task[x].pc
        BY <3>3, <3>5
      <4> QED BY <3>1, <4>1
    <3> QED BY <3>2, <3>4, <3>5
  <2>7. CASE ReportSynced(r)
    <3> SUFFICES ASSUME NEW x \in Routers PROVE CacheOK(x)'
      OBVIOUS
    <3>1. UNCHANGED <<phase, finalizer, inner, cache>>
      BY <2>7 DEF ReportSynced
    <3>2. status'[x].face = status[x].face /\ task' = [task EXCEPT ![r] = Idle]
      BY <2>7, ConditionsFrame DEF ReportSynced
    <3>3. task'[x] = task[x] \/ task'[x].pc = "idle"
      BY <3>2 DEF Idle
    <3> QED BY <3>1, <3>2, <3>3
  <2> QED BY <1>2, <2>1, <2>2, <2>3, <2>4, <2>5, <2>6, <2>7 DEF ApplyStep
<1>3. ASSUME NEW r \in Routers, CleanupStep(r) PROVE CacheInv'
  <2>1. CASE StartCleanup(r)
    BY <2>1 DEF StartCleanup, Dequeue, apiVars, Task
  <2>2. CASE ListHolders(r)
    BY <2>2 DEF ListHolders, Work, apiVars, Task
  <2>3. CASE Retract(r)
    <3> SUFFICES ASSUME NEW x \in Routers PROVE CacheOK(x)'
      OBVIOUS
    <3>1. UNCHANGED <<phase, finalizer, status, cache>>
      BY <2>3 DEF Retract
    <3>2. \/ task' = [task EXCEPT ![r] = Idle]
          \/ \E S \in SUBSET Routers : task' = [task EXCEPT ![r].todo = S]
      BY <2>3, TaskFields DEF Retract, Retry
    <3>3. task'[x].pc = task[x].pc \/ task'[x].pc = "idle"
      <4>1. CASE x = r
        <5>1. ASSUME NEW S \in SUBSET Routers, task' = [task EXCEPT ![r].todo = S]
              PROVE task'[r].pc = task[r].pc
          <6>1. task'[r] = [task[r] EXCEPT !.todo = S]
            BY <5>1
          <6> QED BY <6>1, TaskTodo
        <5>2. CASE task' = [task EXCEPT ![r] = Idle]
          BY <5>2 DEF Idle
        <5> QED BY <3>2, <4>1, <5>1, <5>2
      <4>2. CASE x # r
        BY <3>2, <4>2
      <4> QED BY <4>1, <4>2
    <3> QED BY <3>1, <3>3
  <2>4. CASE Release(r)
    BY <2>4 DEF Release, Erase, Done, Retry, Idle, NoStatus
  <2> QED BY <1>3, <2>1, <2>2, <2>3, <2>4 DEF CleanupStep
<1>4. ASSUME NEW r \in Routers, Watch(r) PROVE CacheInv'
  <2> SUFFICES ASSUME NEW x \in Routers PROVE CacheOK(x)'
    OBVIOUS
  <2>1. UNCHANGED <<phase, finalizer, status, inner, task>>
    BY <1>4 DEF Watch, apiVars
  <2>2. CASE x = r
    <3>1. cache'[x] = Snapshot(x)
      BY <1>4, <2>2 DEF Watch
    <3> QED BY <2>1, <3>1, SnapshotFields, FacesAreNumbers
  <2>3. CASE x # r
    <3>1. cache'[x] = cache[x]
      BY <1>4, <2>3 DEF Watch
    <3> QED BY <2>1, <3>1
  <2> QED BY <2>2, <2>3
<1>5. CASE Restart
  <2> SUFFICES ASSUME NEW x \in Routers PROVE CacheOK(x)'
    OBVIOUS
  <2>1. UNCHANGED <<phase, finalizer, status, inner>>
    BY <1>5 DEF Restart, apiVars
  <2>2. cache'[x] = Snapshot(x) /\ task'[x].pc = "idle"
    BY <1>5 DEF Restart, Idle
  <2> QED BY <2>1, <2>2, SnapshotFields, FacesAreNumbers
<1>6. ASSUME NEW r \in Routers, Forget(r) PROVE CacheInv'
  BY <1>6 DEF Forget, Dequeue, apiVars
<1>7. ASSUME NEW r \in Routers, CallFails(r) PROVE CacheInv'
  BY <1>7 DEF CallFails, Retry, apiVars, Idle
<1>8. CASE UNCHANGED vars
  BY <1>8 DEF vars
<1> QED BY <1>1, <1>2, <1>3, <1>4, <1>5, <1>6, <1>7, <1>8 DEF Next, TaskStep

\* A task that does not move, or ends, is safe from the others' steps.
LEMMA TaskFrame ==
    ASSUME TypeOK, NEW x \in Routers, TaskOK(x),
           cache'[x] = cache[x], finalizer[x] => finalizer'[x],
           Applying(x) /\ Exists(x) => Exists(x)',
           phase[x] \in {"deleting", "gone"} => phase'[x] \in {"deleting", "gone"},
           task'[x] = task[x] \/ task'[x].pc = "idle",
           \A q \in Routers : inner'[q][x] = inner[q][x] \/ inner'[q][x] = 0
    PROVE  TaskOK(x)'
<1>1. CASE task'[x].pc = "idle"
  BY <1>1 DEF TaskOK, Applying, Cleaning
<1>2. CASE task'[x] = task[x]
  <2>1. Applying(x) => \A q \in Routers : inner'[q][x] <= task[x].face
    BY FacesAreNumbers DEF TaskOK
  <2> QED BY <1>2, <2>1 DEF TaskOK, Applying, Cleaning
<1> QED BY <1>1, <1>2

\* No step takes away what a task under way relies on.
LEMMA TaskInvStep == Inv /\ [Next]_vars => TaskInv'
<1> SUFFICES ASSUME Inv, [Next]_vars PROVE TaskInv'
    OBVIOUS
<1> USE DEF Inv, TypeOK, CacheInv, CacheOK, TaskInv, TaskOK, EntryInv, EntryOK, Exists, Applying, Cleaning
<1>1. ASSUME NEW r \in Routers, PodStep(r) PROVE TaskInv'
  <2>1. CASE CreateRouter(r)
    BY <2>1 DEF CreateRouter, ctrlVars
  <2>2. CASE DeleteRouter(r)
    <3> SUFFICES ASSUME NEW x \in Routers PROVE TaskOK(x)'
      OBVIOUS
    <3>1. UNCHANGED <<finalizer, cache, queue, task>>
      BY <2>2 DEF DeleteRouter, ctrlVars
    <3>2. \/ inner' = inner /\ phase' = [phase EXCEPT ![r] = "deleting"]
          \/ Erase(r) /\ ~finalizer[r]
      BY <2>2 DEF DeleteRouter
    <3>3. \A q \in Routers : inner'[q][x] = inner[q][x] \/ inner'[q][x] = 0
      BY <3>2 DEF Erase
    <3>4. Applying(x) /\ Exists(x) => Exists(x)'
      BY <3>2 DEF Erase
    <3>5. phase[x] \in {"deleting", "gone"} => phase'[x] \in {"deleting", "gone"}
      BY <3>2 DEF Erase
    <3> QED BY <3>1, <3>3, <3>4, <3>5, TaskFrame
  <2>3. CASE PublishFace(r)
    BY <2>3 DEF PublishFace, ctrlVars, Status
  <2>4. CASE GoOnline(r)
    BY <2>4 DEF GoOnline, ctrlVars, Status
  <2> QED BY <1>1, <2>1, <2>2, <2>3, <2>4 DEF PodStep
<1>2. ASSUME NEW r \in Routers, ApplyStep(r) PROVE TaskInv'
  <2>1. CASE StartFinalize(r)
    BY <2>1 DEF StartFinalize, Dequeue, apiVars, Task
  <2>2. CASE AddFinalizer(r)
    <3> SUFFICES ASSUME NEW x \in Routers PROVE TaskOK(x)'
      OBVIOUS
    <3>1. UNCHANGED <<phase, inner, cache>> /\ (finalizer[x] => finalizer'[x])
      BY <2>2 DEF AddFinalizer
    <3>2. task'[x] = task[x] \/ task'[x].pc = "idle"
      BY <2>2 DEF AddFinalizer, Done, Retry, Idle
    <3> QED BY <3>1, <3>2
  <2>3. CASE StartApply(r)
    <3> SUFFICES ASSUME NEW x \in Routers PROVE TaskOK(x)'
      OBVIOUS
    <3>1. UNCHANGED <<phase, finalizer, status, inner, cache>>
      BY <2>3 DEF StartApply, apiVars
    <3>2. CASE x = r
      <4>1. task'[x].pc \in {"list", "offline"} /\ task'[x].face = cache[x].face
        BY <2>3, <3>2 DEF StartApply
      <4>2. Exists(x) /\ finalizer[x]
        BY <2>3, <3>2 DEF StartApply, Phase
      <4>3. \A q \in Routers : inner[q][x] <= cache[x].face
        BY FacesAreNumbers
      <4> QED BY <3>1, <4>1, <4>2, <4>3, FacesAreNumbers
    <3>3. CASE x # r
      BY <2>3, <3>1, <3>3 DEF StartApply
    <3> QED BY <3>2, <3>3
  <2>4. CASE ReportOffline(r)
    <3> SUFFICES ASSUME NEW x \in Routers PROVE TaskOK(x)'
      OBVIOUS
    <3>1. UNCHANGED <<phase, finalizer, inner, cache>>
      BY <2>4 DEF ReportOffline
    <3>2. status'[x].face = status[x].face /\ task' = [task EXCEPT ![r] = Idle]
      BY <2>4, ConditionsFrame DEF ReportOffline
    <3>3. task'[x] = task[x] \/ task'[x].pc = "idle"
      BY <3>2 DEF Idle
    <3> QED BY <3>1, <3>2, <3>3
  <2>5. CASE ListPeers(r)
    <3>1. AddrOK(r) /\ task[r].pc = "list"
      BY <2>5 DEF ListPeers, AddrInv
    <3>2. task'[r].pc = "propagate" /\ task'[r].face = task[r].face
          /\ \A q \in task'[r].todo : q # r /\ task[r].addr
      BY <2>5 DEF ListPeers, Work, Task
    <3> SUFFICES ASSUME NEW x \in Routers PROVE TaskOK(x)'
      OBVIOUS
    <3>3. CASE x = r
      BY <2>5, <3>1, <3>2, <3>3 DEF ListPeers, apiVars, AddrOK
    <3>4. CASE x # r
      BY <2>5, <3>4 DEF ListPeers, Work, apiVars
    <3> QED BY <3>3, <3>4
  <2>6. CASE Propagate(r)
    <3> SUFFICES ASSUME NEW x \in Routers PROVE TaskOK(x)'
      OBVIOUS
    <3>1. UNCHANGED <<phase, finalizer, status, cache>>
      BY <2>6 DEF Propagate
    <3>2. PICK p \in task[r].todo :
             \/ /\ Exists(p) /\ status[p].present
                /\ inner' = [inner EXCEPT ![p][r] = task[r].face]
                /\ task' = [task EXCEPT ![r].todo = @ \ {p}]
             \/ inner' = inner /\ task' = [task EXCEPT ![r] = Idle]
      BY <2>6 DEF Propagate, Retry
    <3>3. p \in Routers /\ task[r].pc = "propagate"
      BY <2>6, TaskFields DEF Propagate
    <3>4. CASE inner' = inner /\ task' = [task EXCEPT ![r] = Idle]
      <4>1. task'[x] = task[x] \/ task'[x].pc = "idle"
        BY <3>4 DEF Idle
      <4> QED BY <3>1, <3>4, <4>1
    <3>5. CASE /\ Exists(p) /\ status[p].present
               /\ inner' = [inner EXCEPT ![p][r] = task[r].face]
               /\ task' = [task EXCEPT ![r].todo = @ \ {p}]
      <4>1. task'[x].pc = task[x].pc /\ task'[x].face = task[x].face
        BY <3>5 DEF Task
      <4>2. task'[x].todo = IF x = r THEN task[x].todo \ {p} ELSE task[x].todo
        <5>1. CASE x = r
          BY <3>5, <5>1 DEF Task
        <5>2. CASE x # r
          BY <3>5, <5>2
        <5> QED BY <5>1, <5>2
      <4>3. \A q \in Routers :
               inner'[q][x] = IF q = p /\ x = r THEN task[r].face ELSE inner[q][x]
        BY <3>3, <3>5
      <4>4. Applying(x) => \A q \in Routers : inner'[q][x] <= task'[x].face
        BY <4>1, <4>3, FacesAreNumbers
      <4>5. task'[x].todo \subseteq task[x].todo
        BY <4>2
      <4> QED BY <3>1, <4>1, <4>4, <4>5
    <3> QED BY <3>2, <3>4, <3>5
  <2>7. CASE ReportSynced(r)
    <3> SUFFICES ASSUME NEW x \in Routers PROVE TaskOK(x)'
      OBVIOUS
    <3>1. UNCHANGED <<phase, finalizer, inner, cache>>
      BY <2>7 DEF ReportSynced
    <3>2. status'[x].face = status[x].face /\ task' = [task EXCEPT ![r] = Idle]
      BY <2>7, ConditionsFrame DEF ReportSynced
    <3>3. task'[x] = task[x] \/ task'[x].pc = "idle"
      BY <3>2 DEF Idle
    <3> QED BY <3>1, <3>2, <3>3
  <2> QED BY <1>2, <2>1, <2>2, <2>3, <2>4, <2>5, <2>6, <2>7 DEF ApplyStep
<1>3. ASSUME NEW r \in Routers, CleanupStep(r) PROVE TaskInv'
  <2>1. CASE StartCleanup(r)
    BY <2>1 DEF StartCleanup, Dequeue, apiVars, Task
  <2>2. CASE ListHolders(r)
    BY <2>2 DEF ListHolders, Work, apiVars, Task
  <2>3. CASE Retract(r)
    <3> SUFFICES ASSUME NEW x \in Routers PROVE TaskOK(x)'
      OBVIOUS
    <3>1. UNCHANGED <<phase, finalizer, status, cache>>
      BY <2>3 DEF Retract
    <3>2. PICK p \in task[r].todo :
             \/ /\ Exists(p) /\ inner[p][r] # 0
                /\ inner' = [inner EXCEPT ![p][r] = 0]
                /\ task' = [task EXCEPT ![r].todo = @ \ {p}]
             \/ inner' = inner /\ task' = [task EXCEPT ![r] = Idle]
      BY <2>3 DEF Retract, Retry
    <3>3. p \in Routers /\ task[r].pc = "clean"
      BY <2>3, TaskFields DEF Retract
    <3>4. CASE inner' = inner /\ task' = [task EXCEPT ![r] = Idle]
      <4>1. task'[x] = task[x] \/ task'[x].pc = "idle"
        BY <3>4 DEF Idle
      <4> QED BY <3>1, <3>4, <4>1
    <3>5. CASE /\ Exists(p) /\ inner[p][r] # 0
               /\ inner' = [inner EXCEPT ![p][r] = 0]
               /\ task' = [task EXCEPT ![r].todo = @ \ {p}]
      <4>1. task'[x].pc = task[x].pc /\ task'[x].face = task[x].face
        BY <3>5 DEF Task
      <4>2. task'[x].todo = IF x = r THEN task[x].todo \ {p} ELSE task[x].todo
        <5>1. CASE x = r
          BY <3>5, <5>1 DEF Task
        <5>2. CASE x # r
          BY <3>5, <5>2
        <5> QED BY <5>1, <5>2
      <4>3. \A q \in Routers : inner'[q][x] = inner[q][x] \/ inner'[q][x] = 0
        BY <3>3, <3>5
      <4> QED BY <3>1, <4>1, <4>2, <4>3, FacesAreNumbers
    <3> QED BY <3>2, <3>4, <3>5
  <2>4. CASE Release(r)
    <3> SUFFICES ASSUME NEW x \in Routers PROVE TaskOK(x)'
      OBVIOUS
    <3>1. UNCHANGED <<finalizer, cache>> /\ task[r].pc = "clean"
      BY <2>4 DEF Release
    <3>2. task' = [task EXCEPT ![r] = Idle]
      BY <2>4 DEF Release, Done, Retry
    <3>3. task'[x] = task[x] \/ task'[x].pc = "idle"
      BY <3>2 DEF Idle
    <3>4. x # r => phase'[x] = phase[x]
      BY <2>4 DEF Release, Erase
    <3>5. \A q \in Routers : inner'[q][x] = inner[q][x] \/ inner'[q][x] = 0
      BY <2>4 DEF Release, Erase
    <3>6. CASE x = r
      BY <3>2, <3>6 DEF Idle
    <3>7. CASE x # r
      BY <3>1, <3>3, <3>4, <3>5, <3>7, TaskFrame
    <3> QED BY <3>6, <3>7
  <2> QED BY <1>3, <2>1, <2>2, <2>3, <2>4 DEF CleanupStep
<1>4. ASSUME NEW r \in Routers, Watch(r) PROVE TaskInv'
  <2> SUFFICES ASSUME NEW x \in Routers PROVE TaskOK(x)'
    OBVIOUS
  <2>1. UNCHANGED <<phase, finalizer, status, inner, task>>
    BY <1>4 DEF Watch, apiVars
  <2>2. CASE x = r
    <3>1. cache'[x] = Snapshot(x)
      BY <1>4, <2>2 DEF Watch
    <3> QED BY <2>1, <3>1, SnapshotFields, FacesAreNumbers
  <2>3. CASE x # r
    <3>1. cache'[x] = cache[x]
      BY <1>4, <2>3 DEF Watch
    <3> QED BY <2>1, <3>1
  <2> QED BY <2>2, <2>3
<1>5. CASE Restart
  BY <1>5, SnapshotFields DEF Restart, apiVars, Idle
<1>6. ASSUME NEW r \in Routers, Forget(r) PROVE TaskInv'
  BY <1>6 DEF Forget, Dequeue, apiVars
<1>7. ASSUME NEW r \in Routers, CallFails(r) PROVE TaskInv'
  BY <1>7 DEF CallFails, Retry, apiVars, Idle
<1>8. CASE UNCHANGED vars
  BY <1>8 DEF vars
<1> QED BY <1>1, <1>2, <1>3, <1>4, <1>5, <1>6, <1>7, <1>8 DEF Next, TaskStep

\* No step leaves an entry that cleanup has not listed, or of a Router that is gone.
LEMMA EntryStep == Inv /\ [Next]_vars => EntryInv'
<1> SUFFICES ASSUME Inv, [Next]_vars PROVE EntryInv'
    OBVIOUS
<1> USE DEF Inv, TypeOK, CacheInv, CacheOK, TaskInv, TaskOK, EntryInv, EntryOK, Exists, Applying, Cleaning
<1>1. ASSUME NEW r \in Routers, PodStep(r) PROVE EntryInv'
  <2>1. CASE CreateRouter(r)
    BY <2>1 DEF CreateRouter, ctrlVars
  <2>2. CASE DeleteRouter(r)
    BY <2>2 DEF DeleteRouter, Erase, ctrlVars, NoStatus
  <2>3. CASE PublishFace(r)
    BY <2>3 DEF PublishFace, ctrlVars, Status
  <2>4. CASE GoOnline(r)
    BY <2>4 DEF GoOnline, ctrlVars, Status
  <2> QED BY <1>1, <2>1, <2>2, <2>3, <2>4 DEF PodStep
<1>2. ASSUME NEW r \in Routers, ApplyStep(r) PROVE EntryInv'
  <2>1. CASE StartFinalize(r)
    BY <2>1 DEF StartFinalize, Dequeue, apiVars, Task
  <2>2. CASE AddFinalizer(r)
    <3>1. UNCHANGED <<phase, status, inner, cache>>
      BY <2>2 DEF AddFinalizer
    <3>2. \A x \in Routers : finalizer[x] => finalizer'[x]
      BY <2>2 DEF AddFinalizer
    <3>3. \A x \in Routers : task'[x] = task[x] \/ task'[x].pc = "idle"
      BY <2>2 DEF AddFinalizer, Done, Retry, Idle
    <3> QED BY <3>1, <3>2, <3>3
  <2>3. CASE StartApply(r)
    BY <2>3 DEF StartApply, Dequeue, apiVars
  <2>4. CASE ReportOffline(r)
    BY <2>4 DEF ReportOffline, PatchConditions, Done, Retry, Idle, Status
  <2>5. CASE ListPeers(r)
    BY <2>5 DEF ListPeers, Work, apiVars, Task
  <2>6. CASE Propagate(r)
    <3> SUFFICES ASSUME NEW q \in Routers, NEW x \in Routers PROVE EntryOK(q, x)'
      OBVIOUS
    <3>1. UNCHANGED <<phase, finalizer, status, cache>>
      BY <2>6 DEF Propagate
    <3>2. PICK p \in task[r].todo :
             \/ /\ Exists(p) /\ status[p].present
                /\ inner' = [inner EXCEPT ![p][r] = task[r].face]
                /\ task' = [task EXCEPT ![r].todo = @ \ {p}]
             \/ inner' = inner /\ task' = [task EXCEPT ![r] = Idle]
      BY <2>6 DEF Propagate, Retry
    <3>3. p \in Routers /\ task[r].pc = "propagate"
      BY <2>6, TaskFields DEF Propagate
    <3>4. CASE inner' = inner /\ task' = [task EXCEPT ![r] = Idle]
      <4>1. task'[x] = task[x] \/ task'[x].pc = "idle"
        BY <3>4 DEF Idle
      <4> QED BY <3>1, <3>4, <4>1
    <3>5. CASE /\ Exists(p) /\ status[p].present
               /\ inner' = [inner EXCEPT ![p][r] = task[r].face]
               /\ task' = [task EXCEPT ![r].todo = @ \ {p}]
      <4>1. task'[x].pc = task[x].pc /\ task'[x].face = task[x].face
        BY <3>5 DEF Task
      <4>2. task'[x].todo = IF x = r THEN task[x].todo \ {p} ELSE task[x].todo
        <5>1. CASE x = r
          BY <3>5, <5>1 DEF Task
        <5>2. CASE x # r
          BY <3>5, <5>2
        <5> QED BY <5>1, <5>2
      <4>3. inner'[q][x] = IF q = p /\ x = r THEN task[r].face ELSE inner[q][x]
        BY <3>3, <3>5
      <4> QED BY <3>1, <3>3, <3>5, <4>1, <4>2, <4>3, FacesAreNumbers
    <3> QED BY <3>2, <3>4, <3>5
  <2>7. CASE ReportSynced(r)
    BY <2>7 DEF ReportSynced, PatchConditions, Done, Retry, Idle, Status
  <2> QED BY <1>2, <2>1, <2>2, <2>3, <2>4, <2>5, <2>6, <2>7 DEF ApplyStep
<1>3. ASSUME NEW r \in Routers, CleanupStep(r) PROVE EntryInv'
  <2>1. CASE StartCleanup(r)
    BY <2>1 DEF StartCleanup, Dequeue, apiVars, Task
  <2>2. CASE ListHolders(r)
    BY <2>2 DEF ListHolders, Work, apiVars, Task
  <2>3. CASE Retract(r)
    <3> SUFFICES ASSUME NEW q \in Routers, NEW x \in Routers PROVE EntryOK(q, x)'
      OBVIOUS
    <3>1. UNCHANGED <<phase, finalizer, status, cache>>
      BY <2>3 DEF Retract
    <3>2. PICK p \in task[r].todo :
             \/ /\ Exists(p) /\ inner[p][r] # 0
                /\ inner' = [inner EXCEPT ![p][r] = 0]
                /\ task' = [task EXCEPT ![r].todo = @ \ {p}]
             \/ inner' = inner /\ task' = [task EXCEPT ![r] = Idle]
      BY <2>3 DEF Retract, Retry
    <3>3. p \in Routers /\ task[r].pc = "clean"
      BY <2>3, TaskFields DEF Retract
    <3>4. CASE inner' = inner /\ task' = [task EXCEPT ![r] = Idle]
      <4>1. task'[x] = task[x] \/ task'[x].pc = "idle"
        BY <3>4 DEF Idle
      <4> QED BY <3>1, <3>4, <4>1
    <3>5. CASE /\ Exists(p) /\ inner[p][r] # 0
               /\ inner' = [inner EXCEPT ![p][r] = 0]
               /\ task' = [task EXCEPT ![r].todo = @ \ {p}]
      <4>1. task'[x].pc = task[x].pc /\ task'[x].face = task[x].face
        BY <3>5 DEF Task
      <4>2. task'[x].todo = IF x = r THEN task[x].todo \ {p} ELSE task[x].todo
        <5>1. CASE x = r
          BY <3>5, <5>1 DEF Task
        <5>2. CASE x # r
          BY <3>5, <5>2
        <5> QED BY <5>1, <5>2
      <4>3. inner'[q][x] = IF q = p /\ x = r THEN 0 ELSE inner[q][x]
        BY <3>3, <3>5
      <4> QED BY <3>1, <3>3, <4>1, <4>2, <4>3, FacesAreNumbers
    <3> QED BY <3>2, <3>4, <3>5
  <2>4. CASE Release(r)
    <3> SUFFICES ASSUME NEW q \in Routers, NEW x \in Routers PROVE EntryOK(q, x)'
      OBVIOUS
    <3>1. UNCHANGED <<finalizer, cache>> /\ task[r].pc = "clean" /\ task[r].todo = {}
      BY <2>4 DEF Release
    <3>2. task' = [task EXCEPT ![r] = Idle]
      BY <2>4 DEF Release, Done, Retry
    <3>3. task'[x] = task[x] \/ task'[x].pc = "idle"
      BY <3>2 DEF Idle
    <3>4. \/ phase' = phase /\ inner' = inner
          \/ Erase(r)
      BY <2>4 DEF Release
    <3>5. CASE phase' = phase /\ inner' = inner
      BY <3>1, <3>3, <3>5
    <3>6. CASE Erase(r)
      <4>1. inner[q][r] = 0
        BY <3>1
      <4>2. inner'[q][x] = IF q = r THEN 0 ELSE inner[q][x]
        BY <3>6 DEF Erase
      <4>3. \A y \in Routers : y # r => phase'[y] = phase[y]
        BY <3>6 DEF Erase
      <4> QED BY <3>1, <3>3, <4>1, <4>2, <4>3
    <3> QED BY <3>4, <3>5, <3>6
  <2> QED BY <1>3, <2>1, <2>2, <2>3, <2>4 DEF CleanupStep
<1>4. ASSUME NEW r \in Routers, Watch(r) PROVE EntryInv'
  <2> SUFFICES ASSUME NEW q \in Routers, NEW x \in Routers PROVE EntryOK(q, x)'
    OBVIOUS
  <2>1. UNCHANGED <<phase, finalizer, status, inner, task>>
    BY <1>4 DEF Watch, apiVars
  <2>2. CASE x = r
    <3>1. cache'[x] = Snapshot(x)
      BY <1>4, <2>2 DEF Watch
    <3>2. Exists(x) => cache[x].face <= cache'[x].face
      BY <3>1, SnapshotFields
    <3>3. cache[x].face \in Nat /\ cache'[x].face \in Nat /\ inner[q][x] \in Nat
      BY <3>1, SnapshotFields, FacesAreNumbers
    <3> QED BY <2>1, <3>2, <3>3
  <2>3. CASE x # r
    <3>1. cache'[x] = cache[x]
      BY <1>4, <2>3 DEF Watch
    <3> QED BY <2>1, <3>1
  <2> QED BY <2>2, <2>3
<1>5. CASE Restart
  <2> SUFFICES ASSUME NEW q \in Routers, NEW x \in Routers PROVE EntryOK(q, x)'
    OBVIOUS
  <2>1. UNCHANGED <<phase, finalizer, status, inner>>
    BY <1>5 DEF Restart, apiVars
  <2>2. cache'[x] = Snapshot(x) /\ task'[x].pc = "idle"
    BY <1>5 DEF Restart, Idle
  <2>3. Exists(x) => cache[x].face <= cache'[x].face
    BY <2>2, SnapshotFields
  <2>4. cache[x].face \in Nat /\ cache'[x].face \in Nat /\ inner[q][x] \in Nat
    BY <2>2, SnapshotFields, FacesAreNumbers
  <2> QED BY <2>1, <2>2, <2>3, <2>4
<1>6. ASSUME NEW r \in Routers, Forget(r) PROVE EntryInv'
  BY <1>6 DEF Forget, Dequeue, apiVars
<1>7. ASSUME NEW r \in Routers, CallFails(r) PROVE EntryInv'
  BY <1>7 DEF CallFails, Retry, apiVars, Idle
<1>8. CASE UNCHANGED vars
  BY <1>8 DEF vars
<1> QED BY <1>1, <1>2, <1>3, <1>4, <1>5, <1>6, <1>7, <1>8 DEF Next, TaskStep

\* The invariant is inductive.
LEMMA InvStep == Inv /\ [Next]_vars => Inv'
BY TypeStep, AddrStep, CacheStep, TaskInvStep, EntryStep DEF Inv

\* It holds in every reachable state.
LEMMA Invariant == Spec => []Inv
BY InvInit, InvStep, PTL DEF Spec

-----------------------------------------------------------------------------
(* The theorems.                                                           *)

\* No innerNeighbors map names a Router that has left the API server, in any
\* network, whatever fails (router.rs 296-372).
THEOREM NoGhosts == Spec => []NoGhostNeighbor
<1>1. Inv => NoGhostNeighbor
  BY DEF Inv, EntryInv, EntryOK, NoGhostNeighbor
<1> QED BY <1>1, Invariant, PTL

\* Which entries a step may write: one that a task announces, with a face at
\* least as new, or entries that are cleared.
LEMMA EntryMoves ==
    ASSUME Inv, [Next]_vars, NEW q \in Routers, NEW x \in Routers
    PROVE  \/ inner'[q][x] = inner[q][x]
           \/ inner'[q][x] = 0
           \/ inner'[q][x] >= inner[q][x]
<1>1. ASSUME NEW r \in Routers, PodStep(r) \/ Watch(r) \/ Forget(r) \/ CallFails(r)
      PROVE  inner'[q][x] = inner[q][x] \/ inner'[q][x] = 0
  <2>1. inner' = inner \/ Erase(r)
    BY <1>1 DEF PodStep, CreateRouter, DeleteRouter, PublishFace, GoOnline, Watch,
                Forget, CallFails, apiVars
  <2> QED BY <2>1 DEF Erase, Inv, TypeOK
<1>2. ASSUME NEW r \in Routers, ApplyStep(r)
      PROVE  inner'[q][x] = inner[q][x] \/ inner'[q][x] >= inner[q][x]
  <2>1. CASE Propagate(r)
    <3>1. PICK p \in task[r].todo :
             inner' = inner \/ inner' = [inner EXCEPT ![p][r] = task[r].face]
      BY <2>1 DEF Propagate
    <3>2. p \in Routers
      BY TaskFields DEF Inv, TypeOK
    <3>3. inner[p][r] <= task[r].face /\ task[r].face \in Nat /\ inner[p][r] \in Nat
      BY <2>1, <3>2, FacesAreNumbers DEF Propagate, Inv, TaskInv, TaskOK, Applying
    <3> QED BY <3>1, <3>2, <3>3 DEF Inv, TypeOK
  <2>2. CASE inner' = inner
    BY <2>2
  <2> QED BY <1>2, <2>1, <2>2 DEF ApplyStep, StartFinalize, AddFinalizer, StartApply,
              ReportOffline, ListPeers, ReportSynced, apiVars
<1>3. ASSUME NEW r \in Routers, CleanupStep(r)
      PROVE  inner'[q][x] = inner[q][x] \/ inner'[q][x] = 0
  <2>1. CASE Retract(r)
    <3>1. PICK p \in task[r].todo :
             inner' = inner \/ inner' = [inner EXCEPT ![p][r] = 0]
      BY <2>1 DEF Retract
    <3>2. p \in Routers
      BY TaskFields DEF Inv, TypeOK
    <3> QED BY <3>1, <3>2 DEF Inv, TypeOK
  <2>2. CASE inner' = inner \/ Erase(r)
    BY <2>2 DEF Erase, Inv, TypeOK
  <2> QED BY <1>3, <2>1, <2>2 DEF CleanupStep, StartCleanup, ListHolders, Release, apiVars
<1>4. CASE Restart \/ UNCHANGED vars
  BY <1>4 DEF Restart, apiVars, vars
<1> QED BY <1>1, <1>2, <1>3, <1>4 DEF Next, TaskStep

\* Announcements of a Router reach each peer in the order of publication
\* (router.rs 98, 196-247).
THEOREM FacesInOrder == Spec => FaceNeverRegresses
<1>1. Inv /\ [Next]_vars =>
        [\A q, r \in Routers :
            inner[q][r] # 0 /\ inner'[q][r] # 0 => inner'[q][r] >= inner[q][r]]_vars
  <2> SUFFICES ASSUME Inv, [Next]_vars, NEW q \in Routers, NEW r \in Routers,
                      inner[q][r] # 0, inner'[q][r] # 0
               PROVE  inner'[q][r] >= inner[q][r]
    OBVIOUS
  <2>1. inner[q][r] \in Nat
    BY FacesAreNumbers DEF Inv
  <2> QED BY <2>1, EntryMoves
<1> QED BY <1>1, Invariant, PTL DEF Spec, FaceNeverRegresses

-----------------------------------------------------------------------------
(* The refinement.                                                         *)

\* The controller's own work, seen from the mesh: announcements, withdrawals,
\* departures, and steps that show nothing.
LEMMA ApplyRefines ==
    ASSUME Inv, NEW r \in Routers, ApplyStep(r)
    PROVE  [Mesh!MeshNext]_(Mesh!meshVars)
<1>1. CASE Propagate(r)
  <2>1. PICK p \in task[r].todo :
           \/ UNCHANGED inner
           \/ Exists(p) /\ inner' = [inner EXCEPT ![p][r] = task[r].face]
    BY <1>1 DEF Propagate, Retry
  <2>2. UNCHANGED <<phase, status>> /\ p \in Routers
    BY <1>1, TaskFields DEF Propagate, Inv, TypeOK
  <2>3. /\ p # r /\ task[r].face # 0 /\ Exists(r)
        /\ inner[p][r] <= task[r].face /\ task[r].face <= status[r].face
    BY <1>1, <2>2, FacesAreNumbers
       DEF Propagate, Inv, TaskInv, TaskOK, CacheInv, CacheOK, Applying
  <2>4. task[r].face \in 1 .. status[r].face /\ task[r].face >= inner[p][r]
    BY <2>2, <2>3, FacesAreNumbers DEF Inv
  <2>5. CASE UNCHANGED inner
    BY <2>2, <2>5 DEF Mesh!meshVars
  <2>6. CASE Exists(p) /\ inner' = [inner EXCEPT ![p][r] = task[r].face]
    <3>1. Mesh!Announce(r, p)
      BY <2>2, <2>3, <2>4, <2>6 DEF Mesh!Announce, Mesh!Present, Exists
    <3> QED BY <2>2, <3>1 DEF Mesh!MeshNext
  <2> QED BY <2>1, <2>5, <2>6
<1>2. CASE ReportOffline(r) \/ ReportSynced(r)
  <2>1. UNCHANGED <<phase, inner>>
    BY <1>2 DEF ReportOffline, ReportSynced
  <2>2. \A x \in Routers : status'[x].face = status[x].face
    BY <1>2, ConditionsFrame DEF ReportOffline, ReportSynced, Inv
  <2> QED BY <2>1, <2>2 DEF Mesh!meshVars
<1>3. CASE UNCHANGED <<phase, status, inner>>
  BY <1>3 DEF Mesh!meshVars
<1> QED BY <1>1, <1>2, <1>3 DEF ApplyStep, StartFinalize, AddFinalizer, StartApply,
           ListPeers, apiVars

\* Erasing a Router nobody holds is a departure.
LEMMA EraseRefines ==
    ASSUME Inv, NEW r \in Routers, Erase(r), Exists(r),
           \A q \in Routers : inner[q][r] = 0
    PROVE  Mesh!Retire(r)
<1>1. [x \in Routers |-> status'[x].face]
        = [[x \in Routers |-> status[x].face] EXCEPT ![r] = 0]
  BY DEF Erase, NoStatus, Inv, TypeOK
<1> QED BY <1>1 DEF Erase, Exists, Mesh!Retire, Mesh!Present, Mesh!Holders, Mesh!Empty

\* A step of cleanup withdraws an entry, retires its Router, or shows nothing.
LEMMA CleanupRefines ==
    ASSUME Inv, NEW r \in Routers, CleanupStep(r)
    PROVE  [Mesh!MeshNext]_(Mesh!meshVars)
<1>1. CASE Retract(r)
  <2>1. PICK p \in task[r].todo :
           \/ UNCHANGED inner
           \/ Exists(p) /\ inner[p][r] # 0 /\ inner' = [inner EXCEPT ![p][r] = 0]
    BY <1>1 DEF Retract, Retry
  <2>2. UNCHANGED <<phase, status>> /\ p \in Routers
    BY <1>1, TaskFields DEF Retract, Inv, TypeOK
  <2>3. CASE UNCHANGED inner
    BY <2>2, <2>3 DEF Mesh!meshVars
  <2>4. CASE Exists(p) /\ inner[p][r] # 0 /\ inner' = [inner EXCEPT ![p][r] = 0]
    <3>1. Exists(r) /\ phase[r] \in {"deleting", "gone"}
      BY <1>1, <2>2, <2>4
         DEF Retract, Inv, TaskInv, TaskOK, EntryInv, EntryOK, Cleaning
    <3>2. Mesh!Withdraw(r, p)
      BY <2>2, <2>4, <3>1 DEF Mesh!Withdraw, Exists
    <3> QED BY <2>2, <3>2 DEF Mesh!MeshNext
  <2> QED BY <2>1, <2>3, <2>4
<1>2. CASE Release(r) /\ phase[r] = "deleting"
  <2>1. \A q \in Routers : inner[q][r] = 0
    BY <1>2 DEF Release, Inv, EntryInv, EntryOK
  <2>2. Mesh!Retire(r)
    BY <1>2, <2>1, EraseRefines DEF Release, Exists
  <2> QED BY <2>2 DEF Mesh!MeshNext
<1>3. CASE UNCHANGED <<phase, status, inner>>
  BY <1>3 DEF Mesh!meshVars
<1> QED BY <1>1, <1>2, <1>3 DEF CleanupStep, StartCleanup, ListHolders, Release, apiVars

\* A step of the pods creates, deletes or retires a Router, publishes a face, or shows
\* nothing.
LEMMA PodRefines ==
    ASSUME Inv, NEW r \in Routers, PodStep(r)
    PROVE  [Mesh!MeshNext]_(Mesh!meshVars)
<1>1. CASE CreateRouter(r)
  <2>1. Mesh!Create(r)
    BY <1>1 DEF CreateRouter, Mesh!Create
  <2> QED BY <2>1 DEF Mesh!MeshNext
<1>2. CASE DeleteRouter(r) /\ finalizer[r]
  <2>1. Mesh!Delete(r)
    BY <1>2 DEF DeleteRouter, Mesh!Delete
  <2> QED BY <2>1 DEF Mesh!MeshNext
<1>3. CASE DeleteRouter(r) /\ ~finalizer[r]
  <2>1. \A q \in Routers : inner[q][r] = 0
    BY <1>3 DEF Inv, EntryInv, EntryOK
  <2>2. Mesh!Retire(r)
    BY <1>3, <2>1, EraseRefines DEF DeleteRouter, Exists
  <2> QED BY <2>2 DEF Mesh!MeshNext
<1>4. CASE PublishFace(r)
  <2>1. \A x \in Routers :
           status'[x].face = IF x = r THEN status[x].face + 1 ELSE status[x].face
    BY <1>4 DEF PublishFace, Inv, TypeOK, Status
  <2>2. [x \in Routers |-> status'[x].face]
          = [[x \in Routers |-> status[x].face] EXCEPT ![r] = @ + 1]
    BY <2>1
  <2>3. Mesh!Publish(r)
    BY <1>4, <2>2 DEF PublishFace, Mesh!Publish, Mesh!Present, Exists
  <2> QED BY <2>3 DEF Mesh!MeshNext
<1>5. CASE GoOnline(r)
  <2>1. \A x \in Routers : status'[x].face = status[x].face
    BY <1>5 DEF GoOnline, Inv, TypeOK, Status
  <2> QED BY <1>5, <2>1 DEF GoOnline, Mesh!meshVars
<1> QED BY <1>1, <1>2, <1>3, <1>4, <1>5 DEF PodStep

\* The Router controller implements RouterMesh: with all its caching, queueing,
\* partial failures and restarts, it shows the rest of the operator only
\* announcements of published faces and safe departures (router.rs 96-372).
THEOREM Refinement == Spec => ImplementsMesh
<1>1. Init => Mesh!MeshInit
  BY DEF Init, NoStatus, Mesh!MeshInit, Mesh!Empty
<1>2. Inv /\ [Next]_vars => [Mesh!MeshNext]_(Mesh!meshVars)
  <2> SUFFICES ASSUME Inv, [Next]_vars PROVE [Mesh!MeshNext]_(Mesh!meshVars)
    OBVIOUS
  <2>1. ASSUME NEW r \in Routers, Watch(r) \/ Forget(r) \/ CallFails(r)
        PROVE  [Mesh!MeshNext]_(Mesh!meshVars)
    BY <2>1 DEF Watch, Forget, CallFails, apiVars, Mesh!meshVars
  <2>2. CASE Restart \/ UNCHANGED vars
    BY <2>2 DEF Restart, apiVars, vars, Mesh!meshVars
  <2> QED BY <2>1, <2>2, PodRefines, ApplyRefines, CleanupRefines DEF Next, TaskStep
<1> QED BY <1>1, <1>2, Invariant, PTL DEF Spec, ImplementsMesh, Mesh!MeshSpec

-----------------------------------------------------------------------------
(* A controller at rest.                                                   *)

\* Nothing of r is to be handled but what its task, if any, started from.
Quiet(r) == phase[r] = "live" /\ r \notin dirty /\ r \notin queue

\* The conditions that the status of r calls for.
ReadyNow(r) == status[r].initialized /\ status[r].online /\ status[r].addr

\* Only with an event to come is the cache behind; without one, a task works
\* with the face and the flags of the object, and none ends before these are
\* reported.
QuietOK(r) ==
    /\ r \in dirty \/ cache[r] = Snapshot(r)
    /\ Quiet(r) =>
         /\ task[r].pc = "idle" =>
              status[r].ready = ReadyNow(r) /\ status[r].synced = status[r].online
         /\ task[r].pc = "finalize" => ~finalizer[r]
         /\ task[r].pc = "offline" => ~status[r].online /\ ~task[r].ready
         /\ task[r].pc \in {"list", "propagate"} =>
              /\ status[r].online /\ task[r].face = status[r].face /\ task[r].addr = status[r].addr
              /\ task[r].ready = ReadyNow(r)

QuietInv == \A r \in Routers : QuietOK(r)

LEMMA QuietOthers ==
    ASSUME NEW m \in Routers, QuietOK(m), Frame(m)
    PROVE  QuietOK(m)'
<1>1. Snapshot(m)' = Snapshot(m)
  BY Zenon DEF Frame, Snapshot, Exists, Unknown
<1>2. (m \in dirty \/ cache[m] = Snapshot(m))'
  BY <1>1 DEF Frame, QuietOK
<1>3. Quiet(m)' => Quiet(m)
  BY DEF Frame, Quiet
<1> QED BY <1>2, <1>3 DEF Frame, QuietOK, ReadyNow

\* A Router without an event to come is seen as it is.
LEMMA QuietSeen ==
    ASSUME NEW r \in Routers, QuietOK(r), phase[r] = "live", r \notin dirty
    PROVE  /\ cache[r].known /\ ~cache[r].deleting
           /\ cache[r].finalizer = finalizer[r] /\ cache[r].online = status[r].online
           /\ cache[r].initialized = status[r].initialized
           /\ cache[r].addr = status[r].addr /\ cache[r].face = status[r].face
<1>1. cache[r] = [known |-> TRUE, deleting |-> FALSE,
                  finalizer |-> finalizer[r], initialized |-> status[r].initialized,
                  online |-> status[r].online, addr |-> status[r].addr,
                  face |-> status[r].face]
  <2>1. (phase[r] = "deleting") = FALSE
    OBVIOUS
  <2>2. Exists(r) /\ cache[r] = Snapshot(r)
    BY DEF Exists, QuietOK
  <2> QED BY <2>1, <2>2, Zenon DEF Snapshot
<1> QED BY <1>1

LEMMA QuietOwn ==
    ASSUME Inv, NEW s \in Routers, QuietOK(s), StepOf(s)
    PROVE  QuietOK(s)'
<1> USE DEF Inv, TypeOK, apiVars, ctrlVars
<1>u. (UNCHANGED phase /\ UNCHANGED finalizer /\ UNCHANGED status) => Snapshot(s)' = Snapshot(s)
  BY Zenon DEF Snapshot, Exists, Unknown
<1>r. Retry(s) => s \in queue'
  BY DEF Retry
<1>i. Done(s) \/ Retry(s) => task'[s].pc = "idle"
  BY DEF Done, Retry, Idle
<1>1. CASE PodStep(s)
  <2>1. s \in dirty'
    BY <1>1 DEF PodStep, CreateRouter, DeleteRouter, PublishFace, GoOnline, Erase
  <2> QED BY <2>1 DEF QuietOK, Quiet
<1>2. CASE Watch(s)
  <2>1. cache'[s] = Snapshot(s) /\ Snapshot(s)' = Snapshot(s) /\ UNCHANGED phase
    BY <1>u, <1>2 DEF Watch
  <2>2. phase[s] = "live" => s \in queue'
    BY <1>2 DEF Watch, Exists
  <2> QED BY <2>1, <2>2 DEF QuietOK, Quiet
<1>3. CASE CallFails(s)
  BY <1>u, <1>r, <1>3 DEF CallFails, QuietOK, Quiet
<1>4. CASE Forget(s) \/ StartFinalize(s) \/ StartApply(s) \/ StartCleanup(s)
  <2>1. UNCHANGED <<phase, finalizer, status, cache, dirty>> /\ Snapshot(s)' = Snapshot(s)
    BY <1>u, <1>4 DEF Forget, StartFinalize, StartApply, StartCleanup
  <2> SUFFICES ASSUME Quiet(s)' PROVE QuietOK(s)'
    BY <2>1 DEF QuietOK
  <2>2. /\ cache[s].known /\ ~cache[s].deleting
        /\ cache[s].finalizer = finalizer[s] /\ cache[s].online = status[s].online
        /\ cache[s].initialized = status[s].initialized
        /\ cache[s].addr = status[s].addr /\ cache[s].face = status[s].face
    BY <2>1, QuietSeen DEF Quiet
  <2>3. CASE StartFinalize(s)
    <3>1. task'[s].pc = "finalize" /\ ~finalizer[s]
      BY <2>2, <2>3 DEF StartFinalize, Task
    <3> QED BY <2>1, <3>1 DEF QuietOK
  <2>4. CASE StartApply(s)
    <3>1. /\ task'[s].pc = IF status[s].online THEN "list" ELSE "offline"
          /\ task'[s].face = status[s].face /\ task'[s].addr = status[s].addr
          /\ task'[s].ready = ReadyNow(s)
      BY <2>2, <2>4 DEF StartApply, ReadyNow
    <3>2. ReadyNow(s)' = ReadyNow(s) /\ (ReadyNow(s) => status[s].online)
      BY <2>1 DEF ReadyNow
    <3>3. status[s].online \in BOOLEAN
      BY DEF Status
    <3> QED BY <2>1, <3>1, <3>2, <3>3 DEF QuietOK
  <2> QED BY <1>4, <2>2, <2>3, <2>4 DEF Forget, StartCleanup
<1>5. CASE AddFinalizer(s)
  <2>1. UNCHANGED <<phase, status, cache>> /\ task'[s].pc = "idle" /\ task[s].pc = "finalize"
    BY <1>i, <1>5 DEF AddFinalizer
  <2>2. CASE Retry(s) /\ UNCHANGED <<finalizer, dirty>>
    BY <1>u, <1>r, <2>1, <2>2 DEF QuietOK, Quiet
  <2>3. CASE /\ phase[s] = "live" /\ finalizer' = [finalizer EXCEPT ![s] = TRUE] /\ Done(s)
             /\ dirty' = IF finalizer[s] THEN dirty ELSE dirty \union {s}
    <3>1. CASE s \in dirty'
      BY <3>1 DEF QuietOK, Quiet
    <3>2. CASE s \notin dirty'
      <4>1. finalizer[s] /\ s \notin dirty /\ UNCHANGED finalizer
        BY <2>3, <3>2
      <4>2. s \in queue /\ UNCHANGED queue
        BY <2>1, <2>3, <4>1 DEF QuietOK, Quiet, Done
      <4> QED BY <1>u, <2>1, <2>3, <4>1, <4>2 DEF QuietOK, Quiet
    <3> QED BY <3>1, <3>2
  <2> QED BY <1>5, <2>2, <2>3 DEF AddFinalizer
<1>6. CASE ReportOffline(s) \/ ReportSynced(s)
  <2>1. PICK b \in BOOLEAN :
          /\ PatchConditions(s, b) /\ UNCHANGED <<phase, finalizer, cache>>
          /\ \/ b = FALSE /\ task[s].pc = "offline"
             \/ b = TRUE /\ task[s].pc = "propagate"
    BY <1>6 DEF ReportOffline, ReportSynced
  <2>2. CASE ~Exists(s)
    BY <1>u, <1>r, <2>1, <2>2 DEF PatchConditions, QuietOK, Quiet
  <2>3. CASE Exists(s)
    <3> DEFINE new == [status[s] EXCEPT !.present = TRUE, !.ready = task[s].ready, !.synced = b]
    <3>1. /\ status' = [status EXCEPT ![s] = new] /\ Done(s)
          /\ dirty' \in {dirty, dirty \union {s}}
          /\ dirty' = dirty => status' = status \/ s \in dirty
      BY <2>1, <2>3 DEF PatchConditions
    <3>2. status[s] \in Status /\ task[s].ready \in BOOLEAN
      BY DEF Task
    <3>3. /\ new.ready = task[s].ready /\ new.synced = b /\ new.online = status[s].online
          /\ new.addr = status[s].addr /\ new.initialized = status[s].initialized
      BY <3>2 DEF Status
    <3> HIDE DEF new
    <3>4. status'[s] = new
      BY <3>1
    <3>5. s \in dirty' \/ (s \notin dirty /\ status' = status)
      BY <3>1
    <3>6. (s \in dirty \/ cache[s] = Snapshot(s))'
      BY <1>u, <2>1, <3>5 DEF QuietOK
    <3> SUFFICES ASSUME Quiet(s)' PROVE QuietOK(s)'
      BY <3>6 DEF QuietOK
    <3>7. Quiet(s)
      BY <2>1, <3>1, <3>5 DEF Quiet, Done
    <3>8. task'[s].pc = "idle" /\ ReadyNow(s)' = ReadyNow(s)
      BY <1>i, <3>1, <3>3, <3>4 DEF ReadyNow
    <3>9. (status[s].ready = ReadyNow(s) /\ status[s].synced = status[s].online)'
      <4>1. CASE b = FALSE /\ task[s].pc = "offline"
        <5>1. ~status[s].online /\ ~task[s].ready /\ ~ReadyNow(s)
          BY <3>7, <4>1 DEF QuietOK, ReadyNow
        <5>2. ReadyNow(s) \in BOOLEAN /\ status[s].online \in BOOLEAN
          BY <3>2 DEF ReadyNow, Status
        <5> QED BY <3>2, <3>3, <3>4, <3>8, <4>1, <5>1, <5>2
      <4>2. CASE b = TRUE /\ task[s].pc = "propagate"
        <5>1. status[s].online /\ task[s].ready = ReadyNow(s)
          BY <3>7, <4>2 DEF QuietOK
        <5>2. status[s].online \in BOOLEAN
          BY <3>2 DEF Status
        <5> QED BY <3>2, <3>3, <3>4, <3>8, <4>2, <5>1, <5>2
      <4> QED BY <2>1, <4>1, <4>2
    <3> QED BY <3>6, <3>8, <3>9 DEF QuietOK
  <2> QED BY <2>2, <2>3
<1>7. CASE ListPeers(s)
  <2>1. /\ UNCHANGED <<phase, finalizer, status, cache, dirty, queue>>
        /\ task[s].pc = "list" /\ task'[s].pc = "propagate"
        /\ task'[s].addr = task[s].addr /\ task'[s].face = task[s].face
        /\ task'[s].ready = task[s].ready
    BY <1>7 DEF ListPeers, Work, Task
  <2>2. Snapshot(s)' = Snapshot(s) /\ ReadyNow(s)' = ReadyNow(s)
    BY <1>u, <2>1 DEF ReadyNow
  <2> QED BY <2>1, <2>2 DEF QuietOK, Quiet
<1>8. CASE Propagate(s)
  <2>1. UNCHANGED <<phase, finalizer, status, cache>> /\ task[s].pc = "propagate"
    BY <1>8 DEF Propagate
  <2>2. CASE Retry(s) /\ UNCHANGED dirty
    BY <1>u, <1>r, <2>1, <2>2 DEF QuietOK, Quiet
  <2>3. CASE \E q \in task[s].todo :
               /\ task' = [task EXCEPT ![s].todo = @ \ {q}] /\ UNCHANGED queue
               /\ dirty \subseteq dirty'
    <3>1. /\ task'[s].pc = "propagate" /\ task'[s].addr = task[s].addr
          /\ task'[s].face = task[s].face /\ task'[s].ready = task[s].ready
      BY <2>1, <2>3 DEF Task
    <3>2. Snapshot(s)' = Snapshot(s) /\ ReadyNow(s)' = ReadyNow(s)
      BY <1>u, <2>1 DEF ReadyNow
    <3> QED BY <2>1, <2>3, <3>1, <3>2 DEF QuietOK, Quiet
  <2> QED BY <1>8, <2>2, <2>3 DEF Propagate
<1>9. CASE ListHolders(s) \/ Retract(s) \/ Release(s)
  <2>1. phase'[s] # "live"
    <3>1. phase[s] # "live"
      BY <1>9 DEF ListHolders, Retract, Release, TaskInv, TaskOK, Cleaning
    <3> QED BY <1>9, <3>1 DEF ListHolders, Retract, Release, Erase
  <2>2. s \in dirty' \/ (s \notin dirty /\ UNCHANGED <<phase, finalizer, status, cache>>)
    BY <1>9 DEF ListHolders, Retract, Release, Erase
  <2> QED BY <1>u, <2>1, <2>2 DEF QuietOK, Quiet
<1> QED BY <1>1, <1>2, <1>3, <1>4, <1>5, <1>6, <1>7, <1>8, <1>9
        DEF StepOf, TaskStep, ApplyStep, CleanupStep

LEMMA RestartQuiet ==
    ASSUME Restart, NEW r \in Routers
    PROVE  ~Quiet(r)' /\ (cache[r] = Snapshot(r))'
<1>1. cache'[r] = Snapshot(r) /\ UNCHANGED <<phase, finalizer, status>>
  BY DEF Restart, apiVars
<1>2. Snapshot(r)' = Snapshot(r)
  BY <1>1, Zenon DEF Snapshot, Exists, Unknown
<1>3. phase[r] = "live" => r \in queue'
  BY DEF Restart, Exists
<1> QED BY <1>1, <1>2, <1>3 DEF Quiet

LEMMA QuietInit == Init => QuietInv
BY DEF Init, QuietInv, QuietOK, Quiet, Snapshot, Exists

LEMMA QuietStep == Inv /\ QuietInv /\ [Next]_vars => QuietInv'
<1> SUFFICES ASSUME Inv, QuietInv, [Next]_vars, NEW m \in Routers PROVE QuietOK(m)'
    BY DEF QuietInv
<1>0. QuietOK(m) /\ TypeOK
  BY DEF QuietInv, Inv
<1>1. ASSUME NEW s \in Routers, StepOf(s) PROVE QuietOK(m)'
  BY <1>0, <1>1, Others, QuietOthers, QuietOwn
<1>2. CASE Restart
  BY <1>2, RestartQuiet DEF QuietOK
<1>3. CASE UNCHANGED vars
  BY <1>0, <1>3, QuietOthers DEF vars, Frame
<1> QED BY <1>1, <1>2, <1>3 DEF Next, StepOf

\* Two Routers that are done with each other: the later of the two has seen the
\* earlier one, and by telling it has woken it.
Told(r, q) == inner[q][r] = status[r].face

Finished(r, q) ==
    /\ Quiet(r) /\ Up(r)
    /\ task[r].pc = "idle" \/ (task[r].pc = "propagate" /\ q \notin task[r].todo)

PairOK(q, r) ==
    q # r =>
      /\ Finished(r, q) /\ Exists(q) => Told(r, q) \/ inner[r][q] = 0
      /\ Finished(r, q) /\ Finished(q, r) => Told(r, q) \/ Told(q, r)

PairInv == \A q, r \in Routers : PairOK(q, r)

LEMMA PairInit == Init => PairInv
BY DEF Init, PairInv, PairOK, Finished, Quiet, Exists

\* r is done with q because it was, because it has just told q, or because
\* there is no q.
LEMMA DoneBack ==
    ASSUME Inv, QuietInv, NEW s \in Routers, StepOf(s),
           NEW q \in Routers, NEW r \in Routers, q # r, Finished(r, q)'
    PROVE  Finished(r, q) \/ Told(r, q)' \/ ~Exists(q)'
<1> USE DEF Inv, TypeOK, apiVars, ctrlVars
<1>0. QuietOK(r)
  BY DEF QuietInv
<1>1. CASE r # s
  <2>1. Frame(r)
    BY <1>1, Others
  <2> QED BY <2>1 DEF Frame, Finished, Quiet, Up
<1> SUFFICES ASSUME r = s PROVE Finished(r, q) \/ Told(r, q)' \/ ~Exists(q)'
  BY <1>1
<1>d. phase'[r] = "live" /\ r \notin dirty' /\ r \notin queue' /\ status'[r].online
  BY DEF Finished, Quiet, Up
<1>2. CASE PodStep(r) \/ Watch(r) \/ CallFails(r)
  <2>1. PodStep(r) => r \in dirty'
    BY DEF PodStep, CreateRouter, DeleteRouter, PublishFace, GoOnline, Erase
  <2>2. Watch(r) => r \in queue' \/ phase'[r] # "live"
    BY DEF Watch, Exists
  <2>3. CallFails(r) => r \in queue'
    BY DEF CallFails, Retry
  <2> QED BY <1>2, <1>d, <2>1, <2>2, <2>3
<1>3. CASE Forget(r) \/ StartFinalize(r) \/ StartApply(r) \/ StartCleanup(r)
  <2>1. UNCHANGED <<phase, dirty>>
    BY <1>3 DEF Forget, StartFinalize, StartApply, StartCleanup
  <2>2. cache[r].known /\ ~cache[r].deleting
    BY <1>0, <1>d, <2>1, QuietSeen
  <2>3. task'[r].pc \notin {"idle", "propagate"}
    BY <1>3, <2>2 DEF Forget, StartFinalize, StartApply, StartCleanup, Task
  <2> QED BY <2>3 DEF Finished
<1>4. CASE AddFinalizer(r)
  <2>1. finalizer[r] /\ phase[r] = "live" /\ r \notin dirty /\ r \notin queue /\ task[r].pc = "finalize"
    BY <1>4, <1>d DEF AddFinalizer, Done, Retry
  <2> QED BY <1>0, <2>1 DEF QuietOK, Quiet
<1>5. CASE ReportOffline(r) \/ ReportSynced(r)
  <2>1. PICK b \in BOOLEAN :
          /\ PatchConditions(r, b) /\ UNCHANGED phase
          /\ \/ ReportOffline(r) /\ task[r].pc = "offline"
             \/ task[r].pc = "propagate" /\ task[r].todo = {}
    BY <1>5 DEF ReportOffline, ReportSynced
  <2>2. Exists(r)
    BY <1>d, <2>1 DEF Exists
  <2>3. /\ UNCHANGED queue /\ dirty' \in {dirty, dirty \union {r}}
        /\ status' = [status EXCEPT ![r] = [status[r] EXCEPT !.present = TRUE,
                        !.ready = task[r].ready, !.synced = b]]
    BY <2>1, <2>2 DEF PatchConditions, Done
  <2>4. status[r] \in Status
    OBVIOUS
  <2>5. status'[r].online = status[r].online /\ status'[r].face = status[r].face
    BY <2>3, <2>4 DEF Status
  <2>6. Quiet(r) /\ Up(r)
    BY <1>d, <2>1, <2>3, <2>5 DEF Finished, Quiet, Up
  <2>7. task[r].pc # "offline"
    BY <1>0, <2>6 DEF QuietOK, Up
  <2> QED BY <2>1, <2>6, <2>7 DEF Finished
<1>6. CASE ListPeers(r)
  <2>1. /\ UNCHANGED <<phase, status, dirty, queue>> /\ task[r].pc = "list"
        /\ task'[r].todo = IF ~task[r].addr THEN {} ELSE {x \in Routers \ {r} : Exists(x)}
        /\ task'[r].pc = "propagate"
    BY <1>6 DEF ListPeers, Work, Task
  <2>2. Quiet(r) /\ Up(r) /\ q \notin task'[r].todo
    BY <2>1 DEF Finished, Quiet, Up
  <2>3. task[r].addr = status[r].addr
    BY <1>0, <2>1, <2>2 DEF QuietOK
  <2>4. task[r].addr
    BY <2>2, <2>3 DEF Up
  <2>5. ~Exists(q) /\ UNCHANGED phase
    BY <2>1, <2>2, <2>4
  <2> QED BY <2>5 DEF Exists
<1>7. CASE Propagate(r)
  <2>1. PICK p \in task[r].todo :
          /\ UNCHANGED <<phase, status, queue>> /\ dirty \subseteq dirty' /\ task[r].pc = "propagate"
          /\ inner' = [inner EXCEPT ![p][r] = task[r].face]
          /\ task' = [task EXCEPT ![r].todo = @ \ {p}]
    BY <1>7, <1>d DEF Propagate, Retry
  <2>2. task'[r].todo = task[r].todo \ {p} /\ p \in Routers
    BY <2>1 DEF Task
  <2>3. Quiet(r) /\ Up(r)
    BY <2>1 DEF Finished, Quiet, Up
  <2>4. CASE q = p
    <3>1. inner'[q][r] = task[r].face
      BY <2>1, <2>2, <2>4
    <3>2. task[r].face = status[r].face
      BY <1>0, <2>1, <2>3 DEF QuietOK
    <3> QED BY <2>1, <3>1, <3>2 DEF Told
  <2>5. CASE q # p
    <3>1. task'[r].pc = "propagate"
      BY <2>1 DEF Task
    <3> QED BY <2>1, <2>2, <2>3, <2>5, <3>1 DEF Finished
  <2> QED BY <2>4, <2>5
<1>8. CASE ListHolders(r) \/ Retract(r) \/ Release(r)
  <2>1. phase[r] # "live"
    BY <1>8 DEF ListHolders, Retract, Release, TaskInv, TaskOK, Cleaning
  <2>2. phase'[r] # "live"
    BY <1>8, <2>1 DEF ListHolders, Retract, Release, Erase
  <2> QED BY <1>d, <2>2
<1> QED BY <1>2, <1>3, <1>4, <1>5, <1>6, <1>7, <1>8
        DEF StepOf, TaskStep, ApplyStep, CleanupStep

\* What r has told q stays told while r is quiet; and r is woken by what it is
\* told for the first time.
LEMMA ToldStays ==
    ASSUME Inv, QuietInv, NEW s \in Routers, StepOf(s),
           NEW q \in Routers, NEW r \in Routers, q # r, Finished(r, q)'
    PROVE  /\ Finished(r, q) /\ Told(r, q) /\ Exists(q)' => Told(r, q)'
           /\ inner[r][q] = 0 => inner'[r][q] = 0
<1> USE DEF Inv, TypeOK, apiVars, ctrlVars
<1>0. QuietOK(r)
  BY DEF QuietInv
<1>d. phase'[r] = "live" /\ r \notin dirty'
  BY DEF Finished, Quiet
<1>f. status'[r].face = status[r].face
  <2>1. CASE r # s
    BY <2>1, Others DEF Frame
  <2>2. CASE PodStep(s)
    <3>1. s \in dirty'
      BY <2>2 DEF PodStep, CreateRouter, DeleteRouter, PublishFace, GoOnline, Erase
    <3> QED BY <1>d, <2>1, <3>1
  <2>3. CASE ReportOffline(s) \/ ReportSynced(s)
    BY <2>3, ConditionsFrame DEF ReportOffline, ReportSynced
  <2>4. CASE Release(s)
    <3>1. phase'[s] # "live" \/ UNCHANGED status
      BY <2>4 DEF Release, Erase
    <3> QED BY <1>d, <2>1, <3>1
  <2>5. CASE UNCHANGED status
    BY <2>5
  <2> QED BY <2>2, <2>3, <2>4, <2>5 DEF StepOf, TaskStep, ApplyStep, CleanupStep, Watch,
             CallFails, Forget, StartFinalize, AddFinalizer, StartApply, ListPeers,
             Propagate, StartCleanup, ListHolders, Retract
<1>1. CASE Erase(s)
  <2>1. s # r
    BY <1>1, <1>d DEF Erase
  <2>2. ~Exists(s)'
    BY <1>1 DEF Erase, Exists
  <2> QED BY <1>1, <1>f, <2>1, <2>2 DEF Erase, Told
<1>2. CASE Propagate(s)
  <2>1. PICK p \in task[s].todo :
          \/ UNCHANGED inner
          \/ /\ inner' = [inner EXCEPT ![p][s] = task[s].face]
             /\ dirty' = IF inner[p][s] = task[s].face THEN dirty ELSE dirty \union {p}
    BY <1>2 DEF Propagate
  <2>2. p \in Routers /\ p # s
    BY <1>2, <2>1 DEF Task, Propagate, TaskInv, TaskOK
  <2>3. inner[r][q] = 0 => inner'[r][q] = 0
    BY <1>d, <2>1, <2>2
  <2>4. ASSUME Finished(r, q), Told(r, q) PROVE Told(r, q)'
    <3>1. CASE s = r
      <4>1. task[r].pc = "propagate" /\ Quiet(r)
        BY <1>2, <2>4, <3>1 DEF Propagate, Finished
      <4>2. task[r].face = status[r].face
        BY <1>0, <4>1 DEF QuietOK
      <4> QED BY <1>f, <2>1, <2>2, <2>4, <3>1, <4>2 DEF Told
    <3>2. CASE s # r
      BY <1>f, <2>1, <2>2, <2>4, <3>2 DEF Told
    <3> QED BY <3>1, <3>2
  <2> QED BY <2>3, <2>4
<1>3. CASE Retract(s)
  <2>1. PICK p \in task[s].todo : UNCHANGED inner \/ inner' = [inner EXCEPT ![p][s] = 0]
    BY <1>3 DEF Retract
  <2>2. p \in Routers /\ (s = r => ~Finished(r, q))
    BY <1>3, <2>1 DEF Task, Retract, Finished
  <2> QED BY <1>f, <2>1, <2>2 DEF Told
<1>4. CASE UNCHANGED inner
  BY <1>4, <1>f DEF Told
<1> QED BY <1>1, <1>2, <1>3, <1>4 DEF StepOf, PodStep, CreateRouter, DeleteRouter, PublishFace,
        GoOnline, TaskStep, ApplyStep, CleanupStep, Watch, CallFails, Forget, StartFinalize,
        AddFinalizer, StartApply, ReportOffline, ReportSynced, ListPeers, StartCleanup,
        ListHolders, Release

LEMMA PairStep == Inv /\ QuietInv /\ PairInv /\ [Next]_vars => PairInv'
<1> SUFFICES ASSUME Inv, QuietInv, PairInv, [Next]_vars,
                    NEW q \in Routers, NEW r \in Routers, q # r
             PROVE  PairOK(q, r)'
    BY DEF PairInv, PairOK
<1>0. PairOK(q, r)
  BY DEF PairInv
<1>1. ASSUME NEW s \in Routers, StepOf(s) PROVE PairOK(q, r)'
  <2>1. ASSUME Finished(r, q)', Exists(q)' PROVE Told(r, q)' \/ inner'[r][q] = 0
    <3> SUFFICES ASSUME ~Told(r, q)' PROVE inner'[r][q] = 0
      OBVIOUS
    <3>1. Finished(r, q) /\ ~Told(r, q)
      BY <1>1, <2>1, DoneBack, ToldStays
    <3>2. inner[r][q] = 0
      BY <1>0, <3>1 DEF PairOK, Inv, EntryInv, EntryOK
    <3> QED BY <1>1, <2>1, <3>2, ToldStays
  <2>2. ASSUME Finished(r, q)', Finished(q, r)' PROVE (Told(r, q) \/ Told(q, r))'
    <3>1. Exists(q)' /\ Exists(r)'
      BY <2>2 DEF Finished, Quiet, Exists
    <3>2. Told(r, q)' \/ Told(q, r)' \/ (Finished(r, q) /\ Finished(q, r))
      BY <1>1, <2>2, <3>1, DoneBack
    <3>3. Finished(r, q) /\ Finished(q, r) => Told(r, q) \/ Told(q, r)
      BY <1>0 DEF PairOK
    <3> QED BY <1>1, <2>2, <3>1, <3>2, <3>3, ToldStays
  <2> QED BY <2>1, <2>2 DEF PairOK
<1>2. CASE Restart
  BY <1>2, RestartQuiet DEF PairOK, Finished
<1>3. CASE UNCHANGED vars
  BY <1>0, <1>3 DEF vars, PairOK, Finished, Quiet, Up, Exists, Told
<1> QED BY <1>1, <1>2, <1>3 DEF Next, StepOf

LEMMA RestInvariant == Spec => [](Inv /\ QuietInv /\ PairInv)
BY InvInit, InvStep, QuietInit, QuietStep, PairInit, PairStep, PTL DEF Spec

\* However Routers come, go, come online and change face, whatever fails and
\* whenever the controller restarts: once it has nothing left to do, all the
\* Routers that are up hold each other's current face (router.rs 196-260).
THEOREM MeshIsComplete == Spec => []SettledMesh
<1>1. Inv /\ QuietInv /\ PairInv => SettledMesh
  <2> SUFFICES ASSUME Inv, PairInv, \A r \in Routers : Settled(r),
                      NEW q \in Routers, NEW r \in Routers, q # r, Up(q), Up(r)
               PROVE  Told(r, q)
    BY DEF SettledMesh, Told
  <2>1. Finished(r, q) /\ Finished(q, r) /\ Exists(q) /\ Exists(r)
    BY DEF Settled, Up, Finished, Quiet, Exists
  <2>2. PairOK(q, r) /\ PairOK(r, q)
    BY DEF PairInv
  <2>3. status[q].face # 0 /\ status[r].face # 0
    BY DEF Up, Inv, AddrInv, AddrOK
  <2> QED BY <2>1, <2>2, <2>3 DEF PairOK, Told
<1> QED BY <1>1, RestInvariant, PTL

\* And the conditions of each Router tell the truth about the status they sit
\* in (router.rs 97-172, 279-292).
THEOREM ConditionsHold == Spec => []SettledConditions
<1>1. QuietInv => SettledConditions
  BY DEF QuietInv, QuietOK, Quiet, ReadyNow, Settled, Up, SettledConditions
<1> QED BY <1>1, RestInvariant, PTL
=============================================================================
