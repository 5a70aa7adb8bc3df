------------------------ MODULE NetworkControllerProofs ------------------------
(* Theorems about the Network controller, for any number of generations,   *)
(* failures and restarts.                                                  *)
EXTENDS NetworkController, TLAPS

Applying == task.pc \in {"image", "sa", "role", "binding", "ds", "tcp", "ws", "patch"}
Cleaning == task.pc \in {"event", "release"}

\* What the cache may be behind in; and it is behind only with an event to come.
CacheOK ==
    /\ cache.finalizer => finalizer
    /\ cache.deleting => object \in {"deleting", "gone"}
    /\ dirty \/ cache = Snapshot
    /\ object # "gone" /\ cache.known => ds.gen <= cache.spec.gen /\ cache.spec.gen <= spec.gen

\* Once deleted or while the finalizer is at work, nothing will be applied any more.
DoneOK ==
    /\ (object = "gone" /\ finalizer) \/ Cleaning =>
         ~Applying /\ (cache.known => cache.deleting) /\ object \in {"deleting", "gone"}
    /\ object = "absent" => ~finalizer /\ spec = NoSpec /\ ~cache.known

\* The pass has applied what its place says, of a spec no newer than the cached
\* one, and made the conditions that say so.
True1(type) == task.conds[type].status = "True" /\ task.conds[type].observed = task.spec.gen
None1(type) == task.conds[type] = [status |-> "Absent", observed |-> 0, since |-> 0]

PassOK ==
    Applying =>
        /\ finalizer /\ Exists
        /\ cache.known /\ task.spec.gen <= cache.spec.gen
        /\ ds.gen <= task.spec.gen /\ task.spec.gen <= spec.gen
        /\ task.pc \in {"role", "binding"} => "sa" \in rbac
        /\ task.pc = "binding" => "role" \in rbac
        /\ task.pc \in {"ds", "tcp", "ws", "patch"} => rbac = Rbac /\ True1("RBACReady")
        /\ task.pc \in {"tcp", "ws", "patch"} => ds.gen = task.spec.gen /\ True1("DSCreated")
        /\ task.pc \in {"ws", "patch"} => task.spec.faces \intersect {"tcp"} \subseteq services
        /\ task.pc = "patch" => task.spec.faces \subseteq services

\* The conditions are all there or none is, of one generation that was applied.
StatusOK ==
    object # "gone" =>
        /\ ds.gen <= spec.gen
        /\ ds.gen # 0 => rbac = Rbac
        /\ \/ \A t \in Types : status[t].status = "Absent" /\ status[t].observed = 0
           \/ /\ rbac = Rbac
              /\ \A t \in Types : /\ Holds(t) /\ status[t].observed <= ds.gen
                                  /\ status[t].observed = status["Ready"].observed

\* What is applied is the latest spec, or a pass on it is under way or to come.
Applied ==
    /\ ds.gen = spec.gen /\ spec.faces \subseteq services
    /\ \A t \in Types : Holds(t) /\ status[t].observed = spec.gen

PendingOK ==
    object = "live" /\ ~dirty /\ ~queue =>
        \/ task.pc = "idle" /\ Applied
        \/ task.pc = "finalize"
        \/ Applying /\ task.spec = spec

Inv == TypeOK /\ CacheOK /\ DoneOK /\ PassOK /\ StatusOK /\ PendingOK

USE BoundAssumption

-----------------------------------------------------------------------------
(* Type correctness.                                                       *)

LEMMA NoStatusType == NoStatus \in NetworkStatus
BY DEF NoStatus, NoConditions, NetworkStatus, Condition, Status, Gen

LEMMA IdleType == Idle \in Task /\ Unknown \in Cached
BY NoStatusType DEF Idle, Task, PC, Unknown, Cached, NoSpec, NetworkSpec, Gen, Image

LEMMA SnapshotType == TypeOK => Snapshot \in Cached
BY IdleType DEF TypeOK, Snapshot, Cached

\* A condition is set, the others are left as they are.
OnlySet(new, conds, type, gen) ==
    /\ new \in NetworkStatus
    /\ new[type].status = "True" /\ new[type].observed = gen
    /\ \A t \in Types \ {type} : new[t] = conds[t]

LEMMA UpsertOne ==
    ASSUME NEW conds \in NetworkStatus, NEW type \in Types, NEW gen \in Gen, NEW t0 \in {0, 1}
    PROVE  OnlySet(Upsert(conds, type, TRUE, gen, t0), conds, type, gen)
<1> DEFINE c == [status |-> "True", observed |-> gen,
                 since |-> IF conds[type].status = "True" THEN conds[type].since ELSE t0]
           new == Upsert(conds, type, TRUE, gen, t0)
<1>1. c \in Condition(Gen, {0, 1})
  BY DEF NetworkStatus, Condition, Status
<1>2. new = [conds EXCEPT ![type] = c]
  BY DEF Upsert, NetworkStatus
<1>3. c.status = "True" /\ c.observed = gen
  BY DEF c
<1> HIDE DEF c, new
<1>4. new \in NetworkStatus /\ new[type] = c /\ \A t \in Types \ {type} : new[t] = conds[t]
  BY <1>1, <1>2 DEF NetworkStatus
<1>5. OnlySet(new, conds, type, gen)
  BY <1>3, <1>4 DEF OnlySet
<1> QED BY <1>5 DEF new

LEMMA TypeTask ==
    ASSUME TypeOK, End \/ Fail \/ \E pc \in PC : Goto(pc)
    PROVE  task' \in Task /\ queue' \in BOOLEAN
<1>1. CASE End \/ Fail
  BY <1>1, IdleType DEF End, Fail, TypeOK
<1>2. ASSUME NEW pc \in PC, Goto(pc) PROVE task' \in Task /\ queue' \in BOOLEAN
  BY <1>2 DEF Goto, Task, TypeOK
<1> QED BY <1>1, <1>2

\* What a report does to the task.
LEMMA ReportStep ==
    ASSUME TypeOK, NEW pc \in PC, NEW type \in Types, Report(pc, type)
    PROVE  /\ task' \in Task /\ queue' = queue
           /\ task'.pc = pc /\ task'.spec = task.spec
           /\ OnlySet(task'.conds, task.conds, type, task.spec.gen)
<1> DEFINE new == Upsert(task.conds, type, TRUE, task.spec.gen, now)
<1>1. task.conds \in NetworkStatus /\ task.spec.gen \in Gen /\ now \in {0, 1} /\ task \in Task
  BY DEF TypeOK, Task, NetworkSpec
<1>2. OnlySet(new, task.conds, type, task.spec.gen)
  BY <1>1, UpsertOne
<1>3. task' = [task EXCEPT !.pc = pc, !.conds = new] /\ queue' = queue
  BY DEF Report
<1> HIDE DEF new
<1>4. task' = [pc |-> pc, spec |-> task.spec, image |-> task.image, conds |-> new]
  BY <1>1, <1>3 DEF Task
<1>5. new \in NetworkStatus
  BY <1>2 DEF OnlySet
<1> QED BY <1>1, <1>2, <1>3, <1>4, <1>5 DEF Task

LEMMA TypeStep == TypeOK /\ [Next]_vars => TypeOK'
<1> SUFFICES ASSUME TypeOK, [Next]_vars PROVE TypeOK'
    OBVIOUS
<1> USE DEF TypeOK, objVars, ownedVars, runVars
<1>1. CASE UserStep
  <2>1. CASE CreateNetwork
    <3>1. \A f \in SUBSET Faces : [gen |-> 1, faces |-> f] \in NetworkSpec
      BY DEF NetworkSpec, Gen
    <3> QED BY <2>1, <3>1 DEF CreateNetwork
  <2>2. CASE EditNetwork
    <3>1. \A f \in SUBSET Faces : [gen |-> spec.gen + 1, faces |-> f] \in NetworkSpec
      BY <2>2 DEF EditNetwork, NetworkSpec, Gen
    <3> QED BY <2>2, <3>1 DEF EditNetwork
  <2>3. CASE DeleteNetwork
    BY <2>3 DEF DeleteNetwork
  <2> QED BY <1>1, <2>1, <2>2, <2>3 DEF UserStep
<1>2. CASE Tick \/ CollectGarbage
  BY <1>2 DEF Tick, CollectGarbage, NoDs, DaemonSet, Gen, Image
<1>3. CASE Watch \/ Restart
  <2>1. Snapshot \in Cached /\ Exists \in BOOLEAN
    BY SnapshotType DEF Exists
  <2>2. CASE Watch
    BY <2>1, <2>2 DEF Watch
  <2>3. CASE Restart
    <3>1. cache' \in Cached /\ task' \in Task
      BY <2>1, <2>3, IdleType DEF Restart
    <3>2. queue' \in BOOLEAN
      BY <2>1, <2>3, Zenon DEF Restart
    <3>3. dirty' \in BOOLEAN
      BY <2>3 DEF Restart
    <3> QED BY <2>3, <3>1, <3>2, <3>3 DEF Restart
  <2> QED BY <1>3, <2>2, <2>3
<1>4. CASE CallFails
  BY <1>4, TypeTask DEF CallFails
<1>5. CASE Start
  BY <1>5, NoStatusType DEF Start, Task, Cached, PC, Image
<1>6. CASE AddFinalizer
  BY <1>6, TypeTask DEF AddFinalizer
<1>7. CASE GetImage
  <2>1. [task EXCEPT !.pc = "sa"] \in Task /\ [task EXCEPT !.pc = "sa", !.image = "default"] \in Task
    BY DEF Task, PC, Image
  <2> QED BY <1>7, <2>1 DEF GetImage, Goto
<1>8. CASE ApplyRbac
  BY <1>8, TypeTask, ReportStep DEF ApplyRbac, PC, Types, Rbac
<1>9. CASE ApplyDaemonSet
  BY <1>9, ReportStep DEF ApplyDaemonSet, PC, Types, DaemonSet, Task, NetworkSpec
<1>10. CASE ApplyService
  BY <1>10, TypeTask DEF ApplyService, PC, Faces
<1>11. CASE PatchStatus
  <2>1. Upsert(task.conds, "Ready", TRUE, task.spec.gen, now) \in NetworkStatus
    BY UpsertOne DEF OnlySet, Task, NetworkSpec, Types
  <2> QED BY <1>11, <2>1, TypeTask DEF PatchStatus
<1>12. CASE PublishDelete \/ Release
  BY <1>12, TypeTask DEF PublishDelete, Release, PC
<1>13. CASE UNCHANGED vars
  BY <1>13 DEF vars
<1> QED BY <1>1, <1>2, <1>3, <1>4, <1>5, <1>6, <1>7, <1>8, <1>9, <1>10, <1>11, <1>12, <1>13
        DEF Next, TaskStep

-----------------------------------------------------------------------------
(* The invariant.                                                          *)

LEMMA InvInit == Init => Inv
<1> SUFFICES ASSUME Init PROVE Inv
    OBVIOUS
<1>1. TypeOK
  <2>1. NoSpec \in NetworkSpec /\ NoDs \in DaemonSet
    BY DEF NetworkSpec, NoSpec, Gen, NoDs, DaemonSet, Image
  <2>2. cache \in Cached /\ task \in Task /\ status \in NetworkStatus
    BY NoStatusType, IdleType DEF Init
  <2>3. {dirty, queue} \subseteq BOOLEAN /\ rbac \subseteq Rbac /\ services \subseteq Faces
    BY DEF Init
  <2>4. faults \in 0 .. MaxFaults
    BY DEF Init
  <2> QED BY <2>1, <2>2, <2>3, <2>4 DEF Init, TypeOK
<1> QED BY <1>1 DEF Init, Inv, CacheOK, DoneOK, PassOK, StatusOK, PendingOK, Applying, Cleaning,
                    NoStatus, NoConditions, NoDs, NoSpec, Exists, Snapshot, Unknown, Idle

\* The cache and the runtime: events are noted, and the cache follows.
LEMMA InvStep == Inv /\ [Next]_vars => Inv'
<1> SUFFICES ASSUME Inv, [Next]_vars PROVE Inv'
    OBVIOUS
<1>0. TypeOK /\ TypeOK'
  BY TypeStep DEF Inv
<1> USE DEF objVars, ownedVars, runVars, Exists
<1>t. /\ spec \in NetworkSpec /\ ds \in DaemonSet /\ cache \in Cached /\ task \in Task
      /\ cache.spec \in NetworkSpec /\ task.spec \in NetworkSpec
      /\ spec.gen \in Nat /\ ds.gen \in Nat /\ cache.spec.gen \in Nat /\ task.spec.gen \in Nat
      /\ rbac \subseteq Rbac /\ services \subseteq Faces
      /\ spec.faces \subseteq Faces /\ task.spec.faces \subseteq Faces
      /\ object \in {"absent", "live", "deleting", "gone"}
      /\ \A t \in Types : status[t].observed \in Nat
  BY <1>0 DEF TypeOK, Cached, Task, NetworkSpec, DaemonSet, Gen, NetworkStatus, Condition
<1>1. CASE UserStep
  <2>1. UNCHANGED <<rbac, ds, services, cache, queue, task, status>> /\ dirty' = TRUE
    BY <1>1 DEF UserStep, CreateNetwork, EditNetwork, DeleteNetwork
  <2>2. /\ spec.gen <= (spec.gen)' /\ (spec.gen)' \in Nat
        /\ finalizer' = finalizer
        /\ \/ object = "absent" /\ object' = "live"
           \/ object = "live" /\ object' \in {"live", "deleting", "gone"}
        /\ object' = "deleting" => finalizer
        /\ object' = "gone" => ~finalizer
    BY <1>1, <1>t DEF UserStep, CreateNetwork, EditNetwork, DeleteNetwork, Inv, DoneOK, NoSpec
  <2>3. CacheOK'
    BY <2>1, <2>2, <1>t DEF Inv, CacheOK
  <2>4. DoneOK' /\ PassOK'
    BY <2>1, <2>2, <1>t DEF Inv, CacheOK, DoneOK, PassOK, Applying, Cleaning, True1
  <2>5. StatusOK'
    BY <2>1, <2>2, <1>t DEF Inv, StatusOK, Holds
  <2>6. PendingOK'
    BY <2>1 DEF PendingOK
  <2> QED BY <1>0, <2>3, <2>4, <2>5, <2>6 DEF Inv
<1>2. CASE Tick \/ CollectGarbage \/ UNCHANGED vars
  <2>1. UNCHANGED <<objVars, status, runVars>> /\ (UNCHANGED ownedVars \/ object = "gone")
    BY <1>2 DEF Tick, CollectGarbage, vars
  <2>2. CASE UNCHANGED ownedVars
    <3>1. Snapshot' = Snapshot
      BY <2>1, Zenon DEF Snapshot, Unknown, Exists
    <3> QED BY <1>0, <2>1, <2>2, <3>1 DEF Inv, CacheOK, DoneOK, PassOK, StatusOK, PendingOK,
               Applied, Applying, Cleaning, True1, Holds
  <2>3. CASE object = "gone"
    <3>1. Snapshot' = Snapshot
      BY <2>1, Zenon DEF Snapshot, Unknown, Exists
    <3> QED BY <1>0, <2>1, <2>3, <3>1 DEF Inv, CacheOK, DoneOK, PassOK, StatusOK, PendingOK,
               Applying, Cleaning
  <2> QED BY <2>1, <2>2, <2>3
<1>3. CASE Watch \/ Restart
  <2>1. /\ cache' = Snapshot /\ Snapshot' = Snapshot /\ (queue' \/ ~Exists)
        /\ task' = task \/ task' = Idle
        /\ UNCHANGED <<objVars, ownedVars, status>>
    BY <1>3 DEF Watch, Restart, Snapshot, Unknown
  <2>a. /\ cache'.known => Exists
        /\ Exists => cache'.known /\ cache'.spec = spec
        /\ cache'.deleting => object = "deleting"
        /\ object = "deleting" => cache'.deleting
        /\ cache'.finalizer => finalizer
    <3>1. CASE Exists
      <4>1. cache' = [known |-> TRUE, deleting |-> object = "deleting",
                      finalizer |-> finalizer, spec |-> spec]
        BY <2>1, <3>1 DEF Snapshot
      <4> QED BY <3>1, <4>1
    <3>2. CASE ~Exists
      BY <2>1, <3>2 DEF Snapshot, Unknown
    <3> QED BY <3>1, <3>2
  <2>2. CacheOK'
    <3>1. cache' = Snapshot' /\ UNCHANGED <<object, finalizer, ds, spec>>
      BY <2>1
    <3> QED BY <2>a, <3>1, <1>t DEF Inv, CacheOK, StatusOK
  <2>3. DoneOK' /\ PassOK'
    <3>1. DoneOK'
      BY <2>1, <2>a, <1>t DEF Inv, DoneOK, Applying, Cleaning, Idle
    <3>2. CASE ~Applying'
      BY <3>1, <3>2 DEF PassOK
    <3>3. CASE Applying'
      <4>1. task' = task /\ Applying /\ UNCHANGED <<finalizer, object, ds, spec, rbac, services>>
        BY <2>1, <3>3 DEF Applying, Idle
      <4>2. PassOK'
        BY <2>a, <4>1, <1>t DEF Inv, PassOK, True1
      <4> QED BY <3>1, <4>2
    <3> QED BY <3>1, <3>2, <3>3
  <2>4. StatusOK'
    BY <2>1, <1>t DEF Inv, StatusOK, Holds
  <2>5. PendingOK'
    BY <2>1 DEF PendingOK
  <2> QED BY <1>0, <2>2, <2>3, <2>4, <2>5 DEF Inv
<1>4. CASE CallFails
  <2>1. task' = Idle /\ queue' = TRUE /\ UNCHANGED <<objVars, ownedVars, status, cache, dirty>>
    BY <1>4 DEF CallFails, Fail
  <2>2. Snapshot' = Snapshot
    BY <2>1, Zenon DEF Snapshot, Unknown, Exists
  <2> QED BY <1>0, <2>1, <2>2 DEF Inv, CacheOK, DoneOK, PassOK, StatusOK, PendingOK,
               Applying, Cleaning, Holds, Idle
<1>5. CASE Start
  <2>1. /\ UNCHANGED <<objVars, ownedVars, status, cache, dirty>>
        /\ task'.spec = cache.spec /\ queue' = FALSE
        /\ task'.pc \in {"idle", "event", "image", "finalize"}
        /\ task'.pc = "event" => cache.known /\ cache.deleting
        /\ task'.pc = "image" => cache.known /\ ~cache.deleting /\ cache.finalizer
        /\ cache.known /\ ~cache.deleting => task'.pc \in {"image", "finalize"}
    BY <1>5 DEF Start
  <2>2. Snapshot' = Snapshot
    BY <2>1, Zenon DEF Snapshot, Unknown, Exists
  <2>3. CacheOK' /\ StatusOK'
    BY <2>1, <2>2 DEF Inv, CacheOK, StatusOK, Holds
  <2>4. DoneOK' /\ PassOK'
    BY <2>1, <1>t DEF Inv, CacheOK, DoneOK, PassOK, StatusOK, Applying, Cleaning
  <2>5. PendingOK'
    BY <2>1, <1>t DEF Inv, CacheOK, DoneOK, PendingOK, Applying, Snapshot
  <2> QED BY <1>0, <2>3, <2>4, <2>5 DEF Inv
<1>6. CASE AddFinalizer
  <2>1. /\ task' = Idle /\ UNCHANGED <<object, spec, ownedVars, status, cache>>
        /\ \/ finalizer' = TRUE /\ dirty' = TRUE /\ object = "live"
           \/ UNCHANGED <<finalizer, dirty>> /\ queue' = TRUE
    BY <1>6 DEF AddFinalizer, End, Fail
  <2>2. CASE finalizer' = TRUE /\ dirty' = TRUE /\ object = "live"
    BY <1>0, <2>1, <2>2 DEF Inv, CacheOK, DoneOK, PassOK, StatusOK, PendingOK,
               Applying, Cleaning, Holds, Idle
  <2>3. CASE UNCHANGED <<finalizer, dirty>> /\ queue' = TRUE
    <3>1. Snapshot' = Snapshot
      BY <2>1, <2>3, Zenon DEF Snapshot, Unknown, Exists
    <3> QED BY <1>0, <2>1, <2>3, <3>1 DEF Inv, CacheOK, DoneOK, PassOK, StatusOK, PendingOK,
               Applying, Cleaning, Holds, Idle
  <2> QED BY <2>1, <2>2, <2>3
\* The calls of a pass, which change neither the Network nor the runtime.
<1>7. ASSUME GetImage \/ ApplyRbac \/ ApplyDaemonSet \/ ApplyService
      PROVE  Inv'
  <2>1. /\ UNCHANGED <<objVars, status, cache, dirty, queue>>
        /\ task'.spec = task.spec /\ Applying /\ Applying'
    BY <1>0, <1>7, ReportStep DEF GetImage, ApplyRbac, ApplyDaemonSet, ApplyService, Goto, TypeOK,
       Applying, PC, Types, Task
  <2>2. Snapshot' = Snapshot
    BY <2>1, Zenon DEF Snapshot, Unknown, Exists
  <2>3. PassOK' /\ rbac \subseteq rbac' /\ services \subseteq services'
                /\ (ds' = ds \/ ds'.gen = task.spec.gen)
    <3>1. CASE GetImage
      <4>1. task'.pc = "sa" /\ UNCHANGED <<rbac, ds, services>>
        BY <3>1, <1>t DEF GetImage, Goto, Task
      <4> QED BY <2>1, <4>1, <1>t DEF Inv, PassOK
    <3>2. CASE ApplyRbac
      <4>1. /\ rbac' = rbac \union {task.pc} /\ UNCHANGED <<ds, services>>
            /\ \/ task.pc = "sa" /\ task'.pc = "role"
               \/ task.pc = "role" /\ task'.pc = "binding"
               \/ /\ task.pc = "binding" /\ task'.pc = "ds"
                  /\ OnlySet(task'.conds, task.conds, "RBACReady", task.spec.gen)
        BY <1>0, <3>2, <1>t, ReportStep DEF ApplyRbac, Goto, Task, PC, Types
      <4> QED BY <2>1, <4>1, <1>t DEF Inv, PassOK, True1, Rbac, OnlySet
    <3>3. CASE ApplyDaemonSet
      <4>1. /\ task.pc = "ds" /\ task'.pc = "tcp" /\ ds'.gen = task.spec.gen
            /\ UNCHANGED <<rbac, services>>
            /\ OnlySet(task'.conds, task.conds, "DSCreated", task.spec.gen)
        BY <1>0, <3>3, <1>t, ReportStep DEF ApplyDaemonSet, Task, PC, Types
      <4> QED BY <2>1, <4>1, <1>t DEF Inv, PassOK, True1, Rbac, OnlySet, Types
    <3>4. CASE ApplyService
      <4>1. /\ \/ task.pc = "tcp" /\ task'.pc = "ws"
               \/ task.pc = "ws" /\ task'.pc = "patch"
            /\ task'.conds = task.conds
            /\ UNCHANGED <<rbac, ds>>
        <5>1. \/ task.pc = "tcp" /\ Goto("ws")
              \/ task.pc = "ws" /\ Goto("patch")
          BY <3>4 DEF ApplyService
        <5>2. UNCHANGED <<rbac, ds>>
          BY <3>4 DEF ApplyService
        <5> QED BY <5>1, <5>2, <1>t DEF Goto, Task
      <4>2. services' = services \union ({task.pc} \intersect task.spec.faces)
        BY <3>4, Zenon DEF ApplyService
      <4> QED BY <2>1, <4>1, <4>2, <1>t DEF Inv, PassOK, True1, Faces
    <3> QED BY <1>7, <3>1, <3>2, <3>3, <3>4
  <2>4. CacheOK'
    BY <2>1, <2>2, <2>3, <1>t DEF Inv, CacheOK, PassOK
  <2>5. DoneOK'
    BY <2>1 DEF Inv, DoneOK, PassOK, Applying, Cleaning
  <2>6. StatusOK'
    <3>1. ds' # ds => rbac = Rbac
      BY <1>7, <1>t DEF GetImage, ApplyRbac, ApplyDaemonSet, ApplyService, Inv, PassOK, Applying
    <3>2. (ds.gen)' \in Nat /\ ds.gen <= (ds.gen)' /\ (ds.gen)' <= spec.gen
      BY <2>1, <2>3, <1>t DEF Inv, PassOK, StatusOK
    <3>3. rbac = Rbac => rbac' = Rbac
      BY <2>3, <1>0 DEF TypeOK
    <3>4. UNCHANGED <<object, spec, status>> /\ object # "gone"
      BY <2>1 DEF Inv, PassOK
    <3> QED BY <3>1, <3>2, <3>3, <3>4, <1>t DEF Inv, StatusOK, Holds
  <2>7. PendingOK'
    BY <2>1, <1>t DEF Inv, PendingOK, Applying
  <2> QED BY <1>0, <2>3, <2>4, <2>5, <2>6, <2>7 DEF Inv
<1>8. CASE PatchStatus
  <2>1. /\ UNCHANGED <<objVars, ownedVars, cache>> /\ task' = Idle /\ task.pc = "patch"
        /\ \/ UNCHANGED <<status, dirty>> /\ queue' = TRUE
           \/ /\ UNCHANGED queue /\ (dirty => dirty') /\ (status' # status => dirty')
              /\ OnlySet(status', task.conds, "Ready", task.spec.gen)
    <3>1. CASE ~Exists
      BY <1>8, <3>1 DEF PatchStatus, Fail
    <3>2. CASE Exists
      <4>1. OnlySet(Upsert(task.conds, "Ready", TRUE, task.spec.gen, now),
                    task.conds, "Ready", task.spec.gen)
        BY <1>0, UpsertOne DEF TypeOK, Task, NetworkSpec, Types
      <4>2. /\ status' = Upsert(task.conds, "Ready", TRUE, task.spec.gen, now)
            /\ dirty' = (dirty \/ status' # status)
            /\ UNCHANGED <<objVars, ownedVars, cache, queue>> /\ task' = Idle /\ task.pc = "patch"
        BY <1>8, <3>2, Zenon DEF PatchStatus, End
      <4>3. OnlySet(status', task.conds, "Ready", task.spec.gen)
        BY <4>1, <4>2, Zenon
      <4> QED BY <4>2, <4>3
    <3> QED BY <3>1, <3>2
  <2>2. Snapshot' = Snapshot
    BY <2>1, Zenon DEF Snapshot, Unknown, Exists
  <2>3. CacheOK' /\ DoneOK' /\ PassOK'
    BY <2>1, <2>2 DEF Inv, CacheOK, DoneOK, PassOK, Applying, Cleaning, Idle
  <2>4. Applying /\ PassOK
    BY <2>1 DEF Applying, Inv
  <2>5. CASE UNCHANGED <<status, dirty>> /\ queue' = TRUE
    <3>1. StatusOK' /\ PendingOK'
      BY <2>1, <2>5 DEF Inv, StatusOK, PendingOK, Holds
    <3> QED BY <1>0, <2>3, <3>1 DEF Inv
  <2>6. CASE /\ UNCHANGED queue /\ (dirty => dirty') /\ (status' # status => dirty')
             /\ OnlySet(status', task.conds, "Ready", task.spec.gen)
    <3>1. \A t \in Types : status'[t].status = "True" /\ status'[t].observed = task.spec.gen
      BY <2>1, <2>4, <2>6 DEF OnlySet, Types, True1, PassOK
    <3>2. StatusOK'
      BY <2>1, <2>4, <3>1, <1>t DEF Inv, StatusOK, PassOK, Holds, Types
    <3>3. PendingOK'
      BY <2>1, <2>4, <2>6, <3>1, <1>t DEF Inv, PendingOK, PassOK, Applied, Holds, Idle
    <3> QED BY <1>0, <2>3, <3>2, <3>3 DEF Inv
  <2> QED BY <2>1, <2>5, <2>6
<1>9. CASE PublishDelete
  <2>1. /\ UNCHANGED <<objVars, ownedVars, status, cache, dirty, queue>>
        /\ task.pc = "event" /\ task'.pc = "release"
    BY <1>9, <1>t DEF PublishDelete, Goto, Task
  <2>2. Snapshot' = Snapshot
    BY <2>1, Zenon DEF Snapshot, Unknown, Exists
  <2> QED BY <1>0, <2>1, <2>2 DEF Inv, CacheOK, DoneOK, PassOK, StatusOK, PendingOK,
             Applying, Cleaning, Holds
<1>10. CASE Release
  <2>1. /\ UNCHANGED <<finalizer, spec, ownedVars, status, cache>> /\ task' = Idle
        /\ task.pc = "release"
        /\ \/ object = "deleting" /\ object' = "gone" /\ dirty' = TRUE
           \/ UNCHANGED <<object, dirty>> /\ queue' = TRUE
    BY <1>10 DEF Release, End, Fail
  <2>2. CASE object = "deleting" /\ object' = "gone" /\ dirty' = TRUE
    BY <1>0, <2>1, <2>2 DEF Inv, CacheOK, DoneOK, PassOK, StatusOK, PendingOK,
       Applying, Cleaning, Idle
  <2>3. CASE UNCHANGED <<object, dirty>> /\ queue' = TRUE
    <3>1. Snapshot' = Snapshot
      BY <2>1, <2>3, Zenon DEF Snapshot, Unknown, Exists
    <3> QED BY <1>0, <2>1, <2>3, <3>1 DEF Inv, CacheOK, DoneOK, PassOK, StatusOK, PendingOK,
               Applying, Cleaning, Holds, Idle
  <2> QED BY <2>1, <2>2, <2>3
<1> QED BY <1>1, <1>2, <1>3, <1>4, <1>5, <1>6, <1>7, <1>8, <1>9, <1>10 DEF Next, TaskStep

LEMMA Invariance == Spec => []Inv
<1>1. Init => Inv
  BY InvInit
<1>2. Inv /\ [Next]_vars => Inv'
  BY InvStep
<1> QED BY <1>1, <1>2, PTL DEF Spec

-----------------------------------------------------------------------------
(* The theorems.                                                           *)

\* Every variable keeps its type.
THEOREM TypeCorrect == Spec => []TypeOK
<1>1. Inv => TypeOK
  BY DEF Inv
<1> QED BY <1>1, Invariance, PTL

\* No DaemonSet before the rights its pods need, whatever fails on the way.
THEOREM RightsAreFirst == Spec => []RightsFirst
<1>1. Inv => RightsFirst
  BY DEF Inv, StatusOK, RightsFirst, Exists
<1> QED BY <1>1, Invariance, PTL

\* The status never runs ahead of what was applied.
THEOREM StatusBacked == Spec => []ReadyBacked
<1>1. Inv => ReadyBacked
  <2> SUFFICES ASSUME Inv, Exists PROVE ReadyBacked
    BY DEF ReadyBacked
  <2>1. \A t \in Types : status[t].observed \in Nat
    BY DEF Inv, TypeOK, NetworkStatus, Condition, Gen
  <2>2. ds.gen \in Nat /\ spec.gen \in Nat
    BY DEF Inv, TypeOK, DaemonSet, NetworkSpec, Gen
  <2> QED BY <2>1, <2>2 DEF Inv, StatusOK, ReadyBacked, Exists, Holds, Types
<1> QED BY <1>1, Invariance, PTL

\* No edit of the spec is lost.
THEOREM EditsApplied == Spec => []SettledApplied
<1>1. Inv => SettledApplied
  BY DEF Inv, PendingOK, SettledApplied, Settled, Applied, Applying
<1> QED BY <1>1, Invariance, PTL
=============================================================================
