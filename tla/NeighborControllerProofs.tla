------------------------ MODULE NeighborControllerProofs ------------------------
(* Theorems about the Neighbor controller, for any sets of Neighbors,      *)
(* Routers and networks.                                                   *)
EXTENDS NeighborController, FiniteSetTheorems, TLAPS

Adding(n)   == task[n].pc \in {"list", "add"}
Removing(n) == task[n].pc \in {"find", "remove"}

\* No entry will be added for n any more: no task does, and none will start.
Doomed(n) ==
    /\ phase[n] \in {"deleting", "gone"} /\ ~Adding(n)
    /\ cache[n].known => cache[n].deleting

CacheOK(n) ==
    /\ cache[n].finalizer => n \in finalizer
    /\ cache[n].deleting => phase[n] \in {"deleting", "gone"}
    /\ n \in dirty \/ cache[n] = Snapshot(n)

TaskOK(n) ==
    /\ Adding(n) => n \in finalizer /\ Exists(n)
    /\ Removing(n) => Doomed(n)
    /\ phase[n] = "gone" /\ n \in finalizer => Doomed(n)
    /\ n \in finalizer => phase[n] # "absent"

\* What the cache and the task know of n has its network, unless n was moved, and
\* the task visits Routers of that network.
NetworkOK(n) ==
    /\ n \notin moved =>
        /\ cache[n].known => phase[n] # "absent" /\ cache[n].spec.network = spec[n].network
        /\ task[n].pc # "idle" => phase[n] # "absent" /\ task[n].spec.network = spec[n].network
    /\ \A r \in task[n].todo : NetworkOf[r] = task[n].spec.network

\* An entry is on a Router of the network, with a status, and has the finalizer
\* behind it; a cleanup has still to visit all that are left.
EntryOK(n, r) ==
    n \notin moved /\ outer[r][n] # 0 =>
        /\ NetworkOf[r] = spec[n].network
        /\ n \in finalizer /\ Exists(n) /\ router[r] = "ready"
        /\ task[n].pc = "remove" => r \in task[n].todo

\* Nothing of n is to be handled but what its task knows.
Quiet(n)  == phase[n] = "live" /\ n \notin dirty /\ n \notin queue

\* The task works on the latest spec, and has still to visit the Routers with
\* another uri, and those with none if they were there when it was written.
PassOK(n) ==
    Quiet(n) /\ Adding(n) => task[n].spec = spec[n]

UriOK(n, r) ==
    n \notin moved /\ Quiet(n) =>
        \/ outer[r][n] \in {0, spec[n].uri}
        \/ task[n].pc \in {"finalize", "list"}
        \/ task[n].pc = "add" /\ r \in task[n].todo

\* A Router that was there, and still is, has the current uri or is to be visited;
\* one without a status cannot have been, the pass fails at it.
ReachOK(n, r) ==
    r \in there[n] =>
        /\ router[r] # "absent"
        /\ Quiet(n) /\ Present(r) /\ NetworkOf[r] = spec[n].network =>
             \/ router[r] = "ready" /\ outer[r][n] = spec[n].uri
             \/ task[n].pc \in {"finalize", "list"}
             \/ task[n].pc = "add" /\ r \in task[n].todo

NeighborOK(n) ==
    /\ CacheOK(n) /\ TaskOK(n) /\ PassOK(n) /\ NetworkOK(n)
    /\ \A r \in Routers : EntryOK(n, r) /\ UriOK(n, r) /\ ReachOK(n, r)

Inv == TypeOK /\ \A n \in Neighbors : NeighborOK(n)

\* The Neighbors a step is not about see no change.
Same(m) ==
    /\ phase'[m] = phase[m] /\ cache'[m] = cache[m] /\ task'[m] = task[m]
    /\ spec'[m] = spec[m] /\ there'[m] = there[m]
    /\ (m \in finalizer') = (m \in finalizer) /\ (m \in moved') = (m \in moved)
    /\ (m \in dirty') = (m \in dirty)
    /\ (m \in queue') = (m \in queue)
    /\ router' = router
    /\ \A r \in Routers : outer'[r][m] = outer[r][m]

USE BoundAssumption, NetworkAssumption

-----------------------------------------------------------------------------
(* Type correctness.                                                       *)

LEMMA ConstantTypes == NoSpec \in NeighborSpec /\ Idle \in Task /\ Unknown \in Cached
<1>1. NoSpec \in NeighborSpec
  BY DEF NoSpec, NeighborSpec, Uri
<1> QED BY <1>1 DEF Idle, Task, PC, Unknown, Cached

LEMMA SnapshotType ==
    ASSUME TypeOK, NEW n \in Neighbors
    PROVE  Snapshot(n) \in Cached
BY ConstantTypes DEF TypeOK, Snapshot, Cached, Exists

LEMMA AllPresentType == AllPresent \in SUBSET Routers
BY DEF AllPresent

LEMMA TypeInit == Init => TypeOK
<1> SUFFICES ASSUME Init PROVE TypeOK
    OBVIOUS
<1>1. outer \in [Routers -> [Neighbors -> Uri]] /\ faults \in 0 .. MaxFaults
  BY DEF Init, Uri
<1>2. router \in [Routers -> {"absent", "bare", "ready", "gone"}]
  BY DEF Init
<1> QED BY <1>1, <1>2, ConstantTypes DEF Init, TypeOK

\* Setting one entry keeps the type of the map, and every other entry.
LEMMA SetEntry ==
    ASSUME TypeOK, NEW r \in Routers, NEW n \in Neighbors, NEW u \in Uri,
           outer' = [outer EXCEPT ![r][n] = u]
    PROVE  /\ outer' \in [Routers -> [Neighbors -> Uri]]
           /\ outer'[r][n] = u
           /\ \A q \in Routers, m \in Neighbors :
                 q # r \/ m # n => outer'[q][m] = outer[q][m]
BY DEF TypeOK

LEMMA TypeTask ==
    ASSUME TypeOK, NEW n \in Neighbors, End(n) \/ Fail(n)
    PROVE  task' \in [Neighbors -> Task] /\ queue' \subseteq Neighbors
BY ConstantTypes DEF TypeOK, End, Fail

\* A task with its place and its Routers set is one.
LEMMA TaskEdit ==
    ASSUME NEW t \in Task, NEW pc \in PC, NEW S \in SUBSET Routers
    PROVE  [t EXCEPT !.pc = pc, !.todo = S] \in Task
BY DEF Task

LEMMA TypeStep == TypeOK /\ [Next]_vars => TypeOK'
<1> SUFFICES ASSUME TypeOK, [Next]_vars PROVE TypeOK'
    OBVIOUS
<1> USE DEF TypeOK, objVars, rtVars
<1>1. ASSUME NEW n \in Neighbors, UserStep(n) PROVE TypeOK'
  <2>1. ASSUME NEW w \in Networks, CreateNeighbor(n, w) PROVE TypeOK'
    <3>1. [network |-> w, uri |-> 1] \in NeighborSpec
      BY DEF NeighborSpec, Uri
    <3> QED BY <2>1, <3>1, AllPresentType DEF CreateNeighbor
  <2>2. ASSUME NEW w \in Networks, EditNeighbor(n, w) PROVE TypeOK'
    <3>1. [network |-> w, uri |-> spec[n].uri + 1] \in NeighborSpec
      BY <2>2 DEF EditNeighbor, NeighborSpec, Uri
    <3> QED BY <2>2, <3>1, AllPresentType DEF EditNeighbor
  <2>3. CASE DeleteNeighbor(n)
    BY <2>3 DEF DeleteNeighbor
  <2> QED BY <1>1, <2>1, <2>2, <2>3 DEF UserStep
<1>2. ASSUME NEW n \in Neighbors, Watch(n) PROVE TypeOK'
  BY <1>2, SnapshotType DEF Watch
<1>3. ASSUME NEW n \in Neighbors, TaskStep(n) PROVE TypeOK'
  <2>1. CASE Start(n)
    <3>1. cache[n].spec \in NeighborSpec
      BY DEF Cached
    <3>2. \A pc \in PC : [pc |-> pc, todo |-> {}, spec |-> cache[n].spec] \in Task
      BY <3>1 DEF Task
    <3>3. task' \in [Neighbors -> Task]
      BY <2>1, <3>2 DEF Start, Begin, Dequeue, PC
    <3>4. queue' \subseteq Neighbors
      BY <2>1 DEF Start, Begin, Dequeue
    <3> QED BY <2>1, <3>3, <3>4 DEF Start, Begin, Dequeue
  <2>2. CASE AddFinalizer(n)
    BY <2>2, TypeTask DEF AddFinalizer
  <2>3. CASE List(n)
    <3> DEFINE all == Listed(task[n].spec.network)
               pc == IF task[n].pc = "list" THEN "add" ELSE "remove"
    <3>1. all \in SUBSET Routers
      BY DEF Listed
    <3>2. task' = [task EXCEPT ![n].pc = pc, ![n].todo = all]
      BY <2>3 DEF List
    <3>3. pc \in PC
      BY DEF PC
    <3> HIDE DEF all, pc
    <3>4. [task[n] EXCEPT !.pc = pc, !.todo = all] \in Task
      BY <3>1, <3>3, TaskEdit
    <3>5. task' \in [Neighbors -> Task]
      BY <3>2, <3>4
    <3> QED BY <2>3, <3>5 DEF List
  <2>4. CASE Add(n)
    <3>0. task[n] \in Task /\ task[n].spec.uri \in Uri
      BY DEF Task, NeighborSpec
    <3>1. PICK r \in task[n].todo :
             IF router[r] = "ready"
             THEN /\ outer' = [outer EXCEPT ![r][n] = task[n].spec.uri]
                  /\ task' = [task EXCEPT ![n].todo = @ \ {r}]
                  /\ UNCHANGED queue
             ELSE Fail(n) /\ UNCHANGED outer
      BY <2>4, Zenon DEF Add
    <3>2. r \in Routers
      BY <3>0, <3>1 DEF Task
    <3>3. outer' \in [Routers -> [Neighbors -> Uri]]
      BY <3>0, <3>1, <3>2, SetEntry
    <3>4. task' \in [Neighbors -> Task] /\ queue' \subseteq Neighbors
      <4>1. CASE Fail(n)
        BY <4>1, TypeTask
      <4>2. CASE task' = [task EXCEPT ![n].todo = @ \ {r}] /\ UNCHANGED queue
        BY <3>0, <4>2 DEF Task
      <4> QED BY <3>1, <4>1, <4>2
    <3> QED BY <2>4, <3>3, <3>4 DEF Add
  <2>5. CASE Finish(n)
    BY <2>5, TypeTask DEF Finish
  <2>6. CASE Remove(n)
    <3>0. task[n] \in Task /\ 0 \in Uri
      BY DEF Uri
    <3>1. PICK r \in task[n].todo :
             IF router[r] = "ready" /\ outer[r][n] # 0
             THEN /\ outer' = [outer EXCEPT ![r][n] = 0]
                  /\ task' = [task EXCEPT ![n].todo = @ \ {r}]
                  /\ UNCHANGED queue
             ELSE Fail(n) /\ UNCHANGED outer
      BY <2>6, Zenon DEF Remove
    <3>2. r \in Routers
      BY <3>0, <3>1 DEF Task
    <3>3. outer' \in [Routers -> [Neighbors -> Uri]]
      BY <3>0, <3>1, <3>2, SetEntry
    <3>4. task' \in [Neighbors -> Task] /\ queue' \subseteq Neighbors
      <4>1. CASE Fail(n)
        BY <4>1, TypeTask
      <4>2. CASE task' = [task EXCEPT ![n].todo = @ \ {r}] /\ UNCHANGED queue
        BY <3>0, <4>2 DEF Task
      <4> QED BY <3>1, <4>1, <4>2
    <3> QED BY <2>6, <3>3, <3>4 DEF Remove
  <2>7. CASE Release(n)
    BY <2>7, TypeTask DEF Release
  <2> QED BY <1>3, <2>1, <2>2, <2>3, <2>4, <2>5, <2>6, <2>7 DEF TaskStep
<1>4. ASSUME NEW n \in Neighbors, CallFails(n) PROVE TypeOK'
  BY <1>4, TypeTask DEF CallFails
<1>5. ASSUME NEW r \in Routers, RouterStep(r) PROVE TypeOK'
  <2>1. outer' \in [Routers -> [Neighbors -> Uri]]
    <3>1. [m \in Neighbors |-> 0] \in [Neighbors -> Uri]
      BY DEF Uri
    <3>2. outer' = outer \/ outer' = [outer EXCEPT ![r] = [m \in Neighbors |-> 0]]
      BY <1>5 DEF RouterStep
    <3> QED BY <3>1, <3>2
  <2>2. router' \in [Routers -> {"absent", "bare", "ready", "gone"}]
    BY <1>5 DEF RouterStep
  <2> QED BY <1>5, <2>1, <2>2 DEF RouterStep
<1>6. CASE Restart
  BY <1>6, SnapshotType, ConstantTypes DEF Restart
<1>7. CASE UNCHANGED vars
  BY <1>7 DEF vars
<1> QED BY <1>1, <1>2, <1>3, <1>4, <1>5, <1>6, <1>7 DEF Next
-----------------------------------------------------------------------------
(* The invariant.                                                          *)

LEMMA InvInit == Init => Inv
<1> SUFFICES ASSUME Init PROVE Inv
    OBVIOUS
<1>1. TypeOK
  BY TypeInit
<1> QED BY <1>1 DEF Init, Inv, NeighborOK, CacheOK, TaskOK, PassOK, NetworkOK, EntryOK, UriOK,
       ReachOK, Present,
                    Quiet, Doomed, Adding, Removing, Snapshot, Exists, Unknown, Idle

\* A Neighbor the step is not about.
LEMMA SameOK ==
    ASSUME NEW m \in Neighbors, NeighborOK(m), Same(m)
    PROVE  NeighborOK(m)'
<1>1. Snapshot(m)' = Snapshot(m) /\ Exists(m)' = Exists(m)
  <2>1. Exists(m)' = Exists(m) /\ Unknown' = Unknown
    BY DEF Same, Exists, Unknown
  <2> QED BY <2>1, Zenon DEF Same, Snapshot
<1>2. Adding(m)' = Adding(m) /\ Removing(m)' = Removing(m) /\ Doomed(m)' = Doomed(m)
      /\ Quiet(m)' = Quiet(m)
  BY DEF Same, Adding, Removing, Doomed, Quiet
<1>3. CacheOK(m)' /\ TaskOK(m)' /\ PassOK(m)' /\ NetworkOK(m)'
  BY <1>1, <1>2 DEF Same, NeighborOK, CacheOK, TaskOK, PassOK, NetworkOK
<1>4. ASSUME NEW r \in Routers PROVE (EntryOK(m, r) /\ UriOK(m, r) /\ ReachOK(m, r))'
  BY <1>1, <1>2 DEF Same, NeighborOK, EntryOK, UriOK, ReachOK, Present
<1> QED BY <1>3, <1>4 DEF NeighborOK

\* Setting one entry leaves those of other Neighbors alone.
LEMMA OneAtATime ==
    ASSUME TypeOK, NEW n \in Neighbors, NEW m \in Neighbors, m # n,
           UserStep(n) \/ Watch(n) \/ TaskStep(n) \/ CallFails(n)
    PROVE  Same(m)
<1> USE DEF TypeOK, objVars, rtVars, Same, Fail, End
<1>1. CASE UserStep(n)
  BY <1>1 DEF UserStep, CreateNeighbor, EditNeighbor, DeleteNeighbor
<1>2. CASE Watch(n) \/ CallFails(n)
  BY <1>2 DEF Watch, CallFails
<1>3. CASE TaskStep(n)
  <2>1. CASE Start(n) \/ AddFinalizer(n) \/ List(n)
    BY <2>1 DEF Start, AddFinalizer, List, Begin, Dequeue
  <2>2. CASE Finish(n) \/ Release(n)
    BY <2>2 DEF Finish, Release
  <2>3. CASE Add(n)
    BY <2>3 DEF Add
  <2>4. CASE Remove(n)
    BY <2>4 DEF Remove
  <2> QED BY <1>3, <2>1, <2>2, <2>3, <2>4 DEF TaskStep
<1> QED BY <1>1, <1>2, <1>3

\* What the reflector sees.
LEMMA SnapshotFields ==
    ASSUME NEW n \in Neighbors
    PROVE  /\ Snapshot(n).known <=> Exists(n)
           /\ Snapshot(n).deleting => phase[n] = "deleting"
           /\ Snapshot(n).finalizer => n \in finalizer
           /\ Snapshot(n).known => Snapshot(n).spec = spec[n]
           /\ phase[n] = "deleting" => Snapshot(n).deleting
BY DEF Snapshot, Unknown, Exists

\* Users and the runtime.
LEMMA RuntimeOK ==
    ASSUME Inv, NEW n \in Neighbors, UserStep(n) \/ Watch(n) \/ CallFails(n) \/ Restart
    PROVE  NeighborOK(n)'
<1> USE DEF Inv, TypeOK, objVars, rtVars, NeighborOK
<1>1. CASE \E w \in Networks : CreateNeighbor(n, w)
  <2>1. /\ UNCHANGED <<finalizer, moved, rtVars, cache, queue, task>>
        /\ phase[n] = "absent" /\ phase'[n] = "live" /\ n \in dirty'
        /\ \A q \in there'[n] : router[q] # "absent"
    BY <1>1 DEF CreateNeighbor, AllPresent, Present
  <2>2. CacheOK(n)' /\ TaskOK(n)' /\ PassOK(n)' /\ NetworkOK(n)'
    BY <2>1, SnapshotFields DEF CacheOK, TaskOK, PassOK, NetworkOK, Quiet, Doomed, Adding,
           Removing, Exists
  <2>3. ASSUME NEW q \in Routers PROVE (EntryOK(n, q) /\ UriOK(n, q) /\ ReachOK(n, q))'
    BY <2>1 DEF EntryOK, UriOK, ReachOK, Present, CacheOK, TaskOK, PassOK, NetworkOK, Quiet,
           Doomed, Adding, Removing, Exists
  <2> QED BY <2>2, <2>3
<1>2. CASE \E w \in Networks : EditNeighbor(n, w)
  <2>0. PICK w \in Networks : EditNeighbor(n, w)
    BY <1>2
  <2>1. /\ UNCHANGED <<phase, finalizer, rtVars, cache, queue, task>>
        /\ phase[n] = "live" /\ n \in dirty'
        /\ n \in moved => n \in moved'
        /\ n \notin moved' => spec'[n].network = spec[n].network
        /\ \A q \in there'[n] : router[q] # "absent"
    BY <2>0 DEF EditNeighbor, AllPresent, Present
  <2>2. CacheOK(n)' /\ TaskOK(n)' /\ PassOK(n)' /\ NetworkOK(n)'
    BY <2>1 DEF CacheOK, TaskOK, PassOK, NetworkOK, Quiet, Doomed, Adding, Removing, Exists,
           Snapshot, Idle
  <2>3. ASSUME NEW q \in Routers PROVE (EntryOK(n, q) /\ UriOK(n, q) /\ ReachOK(n, q))'
    BY <2>1 DEF EntryOK, UriOK, ReachOK, Present, CacheOK, TaskOK, PassOK, NetworkOK, Quiet,
           Doomed, Adding, Removing, Exists, Idle
  <2> QED BY <2>2, <2>3
<1>3. CASE DeleteNeighbor(n)
  <2>1. /\ UNCHANGED <<finalizer, spec, moved, there, rtVars, cache, queue, task>>
        /\ phase[n] = "live" /\ n \in dirty'
        /\ phase'[n] = IF n \in finalizer THEN "deleting" ELSE "gone"
    BY <1>3 DEF DeleteNeighbor
  <2>2. CacheOK(n)' /\ TaskOK(n)' /\ PassOK(n)' /\ NetworkOK(n)'
    BY <2>1 DEF CacheOK, TaskOK, PassOK, NetworkOK, Quiet, Doomed, Adding, Removing, Exists,
           Snapshot, Idle
  <2>3. ASSUME NEW q \in Routers PROVE (EntryOK(n, q) /\ UriOK(n, q) /\ ReachOK(n, q))'
    BY <2>1 DEF EntryOK, UriOK, ReachOK, Present, CacheOK, TaskOK, PassOK, NetworkOK, Quiet,
           Doomed, Adding, Removing, Exists, Idle
  <2> QED BY <2>2, <2>3
<1>4. CASE Watch(n)
  <2>1. /\ UNCHANGED <<phase, finalizer, spec, moved, there, rtVars, task>>
        /\ cache'[n] = Snapshot(n)
        /\ n \in queue' <=> n \in queue \/ Exists(n)
        /\ n \in dirty
    BY <1>4 DEF Watch
  <2>s. Snapshot(n)' = Snapshot(n)
    BY <2>1, Zenon DEF Snapshot, Unknown, Exists
  <2>2. CacheOK(n)' /\ TaskOK(n)' /\ PassOK(n)' /\ NetworkOK(n)'
    BY <2>1, <2>s, SnapshotFields DEF CacheOK, TaskOK, PassOK, NetworkOK, Quiet, Doomed, Adding,
           Removing, Exists, Idle
  <2>3. ASSUME NEW q \in Routers PROVE (EntryOK(n, q) /\ UriOK(n, q) /\ ReachOK(n, q))'
    BY <2>1 DEF EntryOK, UriOK, ReachOK, Present, CacheOK, TaskOK, PassOK, NetworkOK, Quiet,
           Doomed, Adding, Removing, Exists, Idle
  <2> QED BY <2>2, <2>3
<1>5. CASE CallFails(n)
  <2>1. /\ UNCHANGED <<phase, finalizer, spec, moved, there, rtVars, cache, dirty>>
        /\ task'[n] = Idle /\ n \in queue'
    BY <1>5 DEF CallFails, Fail
  <2>s. Snapshot(n)' = Snapshot(n)
    BY <2>1, Zenon DEF Snapshot, Unknown, Exists
  <2>2. CacheOK(n)' /\ TaskOK(n)' /\ PassOK(n)' /\ NetworkOK(n)'
    BY <2>1, <2>s, SnapshotFields DEF CacheOK, TaskOK, PassOK, NetworkOK, Quiet, Doomed, Adding,
           Removing, Exists, Idle
  <2>3. ASSUME NEW q \in Routers PROVE (EntryOK(n, q) /\ UriOK(n, q) /\ ReachOK(n, q))'
    BY <2>1 DEF EntryOK, UriOK, ReachOK, Present, CacheOK, TaskOK, PassOK, NetworkOK, Quiet,
           Doomed, Adding, Removing, Exists, Idle
  <2> QED BY <2>2, <2>3
<1>6. CASE Restart
  <2>1. /\ UNCHANGED <<phase, finalizer, spec, moved, there, rtVars>>
        /\ cache'[n] = Snapshot(n) /\ task'[n] = Idle
        /\ n \in queue' <=> Exists(n)
        /\ n \notin dirty'
    BY <1>6 DEF Restart
  <2>s. Snapshot(n)' = Snapshot(n)
    BY <2>1, Zenon DEF Snapshot, Unknown, Exists
  <2>2. CacheOK(n)' /\ TaskOK(n)' /\ PassOK(n)' /\ NetworkOK(n)'
    BY <2>1, <2>s, SnapshotFields DEF CacheOK, TaskOK, PassOK, NetworkOK, Quiet, Doomed, Adding,
           Removing, Exists, Idle
  <2>3. ASSUME NEW q \in Routers PROVE (EntryOK(n, q) /\ UriOK(n, q) /\ ReachOK(n, q))'
    BY <2>1 DEF EntryOK, UriOK, ReachOK, Present, CacheOK, TaskOK, PassOK, NetworkOK, Quiet,
           Doomed, Adding, Removing, Exists, Idle
  <2> QED BY <2>2, <2>3
<1> QED BY <1>1, <1>2, <1>3, <1>4, <1>5, <1>6 DEF UserStep

\* Routers come, get a status, and go with their entries.
LEMMA RouterOK ==
    ASSUME Inv, NEW n \in Neighbors, NEW r \in Routers, RouterStep(r)
    PROVE  NeighborOK(n)'
<1> USE DEF Inv, TypeOK, objVars, rtVars, NeighborOK
<1>1. /\ UNCHANGED <<phase, finalizer, spec, moved, there, cache, dirty, queue, task>>
      /\ \A q \in Routers : /\ outer'[q][n] \in {0, outer[q][n]}
                            /\ router'[q] = "ready" => outer'[q][n] = outer[q][n]
                            /\ router[q] # "ready" \/ router'[q] \in {"ready", "gone"}
                            /\ router[q] = "gone" => router'[q] = "gone"
                            /\ router[q] # "absent" => router'[q] # "absent"
                            /\ Present(q)' /\ ~Present(q) => router[q] = "absent"
                            /\ outer'[q][n] # 0 => router'[q] = router[q] \/ router[q] # "ready"
  BY DEF RouterStep, Present
<1>2. Snapshot(n)' = Snapshot(n)
  BY <1>1, Zenon DEF Snapshot, Unknown, Exists
<1>3. CacheOK(n)' /\ TaskOK(n)' /\ PassOK(n)' /\ NetworkOK(n)'
  BY <1>1, <1>2 DEF CacheOK, TaskOK, PassOK, NetworkOK, Quiet, Doomed, Adding, Removing, Exists
<1>4. ASSUME NEW q \in Routers PROVE (EntryOK(n, q) /\ UriOK(n, q) /\ ReachOK(n, q))'
  BY <1>1 DEF EntryOK, UriOK, ReachOK, Present, Quiet, Exists
<1> QED BY <1>3, <1>4

\* The steps of a reconciliation.
LEMMA TaskStepOK ==
    ASSUME Inv, NEW n \in Neighbors, TaskStep(n)
    PROVE  NeighborOK(n)'
<1> USE DEF Inv, TypeOK, objVars, rtVars, NeighborOK
<1>t. cache[n] \in Cached /\ task[n] \in Task /\ cache[n].spec \in NeighborSpec
      /\ task[n].spec \in NeighborSpec /\ spec[n] \in NeighborSpec /\ task[n].todo \subseteq Routers
  BY DEF Cached, Task
<1>l. \A r \in Routers :
          /\ Present(r) /\ NetworkOf[r] = task[n].spec.network => r \in Listed(task[n].spec.network)
          /\ router[r] = "ready" => Present(r)
          /\ r \in Listed(task[n].spec.network) => NetworkOf[r] = task[n].spec.network
  BY DEF Listed, Present
<1>1. CASE Start(n)
  BY <1>1, <1>t DEF Start, Begin, Dequeue, CacheOK, TaskOK, PassOK, NetworkOK, EntryOK, UriOK,
            ReachOK, Present, Quiet, Doomed, Adding, Removing, Snapshot, Exists, Unknown
<1>2. CASE AddFinalizer(n)
  BY <1>2, <1>t DEF AddFinalizer, End, Fail, Idle, CacheOK, TaskOK, PassOK, NetworkOK, EntryOK,
         UriOK,
            ReachOK, Present, Quiet, Doomed, Adding, Removing, Snapshot, Exists
<1>3. CASE List(n)
  <2>1. /\ UNCHANGED <<phase, finalizer, spec, moved, there, router, outer, cache, dirty, queue>>
        /\ \/ task[n].pc = "list" /\ task'[n].pc = "add"
           \/ task[n].pc = "find" /\ task'[n].pc = "remove"
        /\ task'[n].spec = task[n].spec
        /\ task'[n].todo = Listed(task[n].spec.network)
    BY <1>3, <1>t DEF List, Task
  <2>2. Snapshot(n)' = Snapshot(n)
    BY <2>1, Zenon DEF Snapshot, Unknown, Exists
  <2>3. CacheOK(n)' /\ TaskOK(n)' /\ PassOK(n)' /\ NetworkOK(n)'
    BY <1>l, <2>1, <2>2 DEF CacheOK, TaskOK, PassOK, NetworkOK, Quiet, Doomed, Adding, Removing,
           Exists, Listed
  <2>4. ASSUME NEW q \in Routers PROVE (EntryOK(n, q) /\ UriOK(n, q) /\ ReachOK(n, q))'
    BY <1>l, <2>1 DEF EntryOK, UriOK, ReachOK, Present, TaskOK, PassOK, NetworkOK, Adding, Quiet,
           Exists
  <2> QED BY <2>3, <2>4
<1>4. CASE Add(n)
  <2>1. PICK r \in task[n].todo :
           IF router[r] = "ready"
           THEN /\ outer' = [outer EXCEPT ![r][n] = task[n].spec.uri]
                /\ task' = [task EXCEPT ![n].todo = @ \ {r}]
                /\ UNCHANGED queue
           ELSE Fail(n) /\ UNCHANGED outer
    BY <1>4, Zenon DEF Add
  <2>2. /\ UNCHANGED <<phase, finalizer, spec, moved, there, router, cache, dirty>>
        /\ task[n].pc = "add" /\ r \in Routers /\ task[n].spec.uri \in Uri
    BY <1>4, <1>t DEF Add, NeighborSpec
  <2>3. Snapshot(n)' = Snapshot(n)
    BY <2>2, Zenon DEF Snapshot, Unknown, Exists
  <2>4. CASE Fail(n) /\ UNCHANGED outer
    BY <2>2, <2>3, <2>4 DEF Fail, Idle, CacheOK, TaskOK, PassOK, NetworkOK, EntryOK, UriOK,
            ReachOK, Present, Quiet, Doomed, Adding, Removing, Exists
  <2>5. CASE /\ outer' = [outer EXCEPT ![r][n] = task[n].spec.uri]
             /\ task' = [task EXCEPT ![n].todo = @ \ {r}]
             /\ UNCHANGED queue /\ router[r] = "ready"
    <3>1. /\ outer'[r][n] = task[n].spec.uri
          /\ \A q \in Routers : q # r => outer'[q][n] = outer[q][n]
      BY <2>2, <2>5, SetEntry
    <3>2. /\ task'[n].pc = "add" /\ task'[n].spec = task[n].spec
          /\ task'[n].todo = task[n].todo \ {r}
      BY <1>t, <2>2, <2>5 DEF Task
    <3>3. CacheOK(n)' /\ TaskOK(n)' /\ PassOK(n)' /\ NetworkOK(n)'
      BY <2>2, <2>3, <2>5, <3>2 DEF CacheOK, TaskOK, PassOK, NetworkOK, Quiet, Doomed, Adding,
             Removing, Exists
    <3>4. ASSUME NEW q \in Routers PROVE (EntryOK(n, q) /\ UriOK(n, q) /\ ReachOK(n, q))'
      BY <2>2, <2>5, <3>1, <3>2 DEF EntryOK, UriOK, ReachOK, Present, TaskOK, PassOK, NetworkOK,
             Adding, Quiet, Exists
    <3> QED BY <3>3, <3>4
  <2> QED BY <2>1, <2>4, <2>5
<1>5. CASE Finish(n)
  <2>1. /\ UNCHANGED <<phase, finalizer, spec, moved, there, router, outer, cache, dirty, queue>>
        /\ task[n].pc = "add" /\ task[n].todo = {} /\ task'[n] = Idle
    BY <1>5 DEF Finish, End
  <2>2. Snapshot(n)' = Snapshot(n)
    BY <2>1, Zenon DEF Snapshot, Unknown, Exists
  <2>3. CacheOK(n)' /\ TaskOK(n)' /\ PassOK(n)' /\ NetworkOK(n)'
    BY <2>1, <2>2 DEF Idle, CacheOK, TaskOK, PassOK, NetworkOK, Quiet, Doomed, Adding, Removing,
           Exists
  <2>4. ASSUME NEW q \in Routers PROVE (EntryOK(n, q) /\ UriOK(n, q) /\ ReachOK(n, q))'
    BY <2>1 DEF Idle, EntryOK, UriOK, ReachOK, Present, Quiet, Exists
  <2> QED BY <2>3, <2>4
<1>6. CASE Remove(n)
  <2>1. PICK r \in task[n].todo :
           IF router[r] = "ready" /\ outer[r][n] # 0
           THEN /\ outer' = [outer EXCEPT ![r][n] = 0]
                /\ task' = [task EXCEPT ![n].todo = @ \ {r}]
                /\ UNCHANGED queue
           ELSE Fail(n) /\ UNCHANGED outer
    BY <1>6, Zenon DEF Remove
  <2>2. /\ UNCHANGED <<phase, finalizer, spec, moved, there, router, cache, dirty>>
        /\ task[n].pc = "remove" /\ r \in Routers /\ 0 \in Uri
    BY <1>6, <1>t DEF Remove, Uri
  <2>3. Snapshot(n)' = Snapshot(n)
    BY <2>2, Zenon DEF Snapshot, Unknown, Exists
  <2>4. CASE Fail(n) /\ UNCHANGED outer
    BY <2>2, <2>3, <2>4 DEF Fail, Idle, CacheOK, TaskOK, PassOK, NetworkOK, EntryOK, UriOK,
            ReachOK, Present, Quiet, Doomed, Adding, Removing, Exists
  <2>5. CASE /\ outer' = [outer EXCEPT ![r][n] = 0]
             /\ task' = [task EXCEPT ![n].todo = @ \ {r}]
             /\ UNCHANGED queue
    <3>1. /\ outer'[r][n] = 0
          /\ \A q \in Routers : q # r => outer'[q][n] = outer[q][n]
      BY <2>2, <2>5, SetEntry
    <3>2. /\ task'[n].pc = "remove" /\ task'[n].todo = task[n].todo \ {r}
      BY <1>t, <2>2, <2>5 DEF Task
    <3>3. CacheOK(n)' /\ TaskOK(n)' /\ PassOK(n)' /\ NetworkOK(n)'
      BY <2>2, <2>3, <2>5, <3>2 DEF CacheOK, TaskOK, PassOK, NetworkOK, Quiet, Doomed, Adding,
             Removing, Exists
    <3>4. ASSUME NEW q \in Routers PROVE (EntryOK(n, q) /\ UriOK(n, q) /\ ReachOK(n, q))'
      BY <2>2, <2>5, <3>1, <3>2 DEF EntryOK, UriOK, ReachOK, Present, TaskOK, Removing, Doomed,
             Quiet, Exists
    <3> QED BY <3>3, <3>4
  <2> QED BY <2>1, <2>4, <2>5
<1>7. CASE Release(n)
  <2>1. /\ UNCHANGED <<finalizer, spec, moved, there, rtVars, cache>>
        /\ task[n].pc = "remove" /\ task[n].todo = {} /\ task'[n] = Idle
        /\ \/ phase[n] = "deleting" /\ phase'[n] = "gone" /\ n \in dirty' /\ UNCHANGED queue
           \/ UNCHANGED <<phase, dirty>> /\ n \in queue'
    BY <1>7, <1>t DEF Release, End, Fail
  <2>2. CacheOK(n)' /\ TaskOK(n)' /\ PassOK(n)' /\ NetworkOK(n)'
    BY <2>1 DEF CacheOK, TaskOK, PassOK, NetworkOK, Quiet, Doomed, Adding, Removing, Exists,
           Snapshot, Unknown, Idle
  <2>3. ~Quiet(n)'
    BY <2>1 DEF Quiet
  <2>4. ASSUME NEW q \in Routers PROVE (EntryOK(n, q) /\ UriOK(n, q) /\ ReachOK(n, q))'
    <3>1. EntryOK(n, q)'
      BY <2>1 DEF EntryOK, Exists, Idle
    <3>2. UriOK(n, q)'
      BY <2>3 DEF UriOK
    <3>3. ReachOK(n, q)'
      BY <2>1, <2>3 DEF ReachOK
    <3> QED BY <3>1, <3>2, <3>3
  <2> QED BY <2>2, <2>4
<1> QED BY <1>1, <1>2, <1>3, <1>4, <1>5, <1>6, <1>7 DEF TaskStep

LEMMA InvStep == Inv /\ [Next]_vars => Inv'
<1> SUFFICES ASSUME Inv, [Next]_vars PROVE Inv'
    OBVIOUS
<1>1. TypeOK'
  BY TypeStep DEF Inv
<1>2. ASSUME NEW m \in Neighbors PROVE NeighborOK(m)'
  <2>1. ASSUME NEW n \in Neighbors, UserStep(n) \/ Watch(n) \/ TaskStep(n) \/ CallFails(n)
        PROVE  NeighborOK(m)'
    <3>1. CASE m = n
      BY <2>1, <3>1, RuntimeOK, TaskStepOK
    <3>2. CASE m # n
      BY <2>1, <3>2, OneAtATime, SameOK DEF Inv
    <3> QED BY <3>1, <3>2
  <2>2. CASE Restart
    BY <2>2, RuntimeOK
  <2>3. ASSUME NEW r \in Routers, RouterStep(r) PROVE NeighborOK(m)'
    BY <2>3, RouterOK
  <2>4. CASE UNCHANGED vars
    <3>1. Same(m)
      BY <2>4 DEF vars, objVars, rtVars, Same
    <3> QED BY <3>1, SameOK DEF Inv
  <2> QED BY <2>1, <2>2, <2>3, <2>4 DEF Next
<1> QED BY <1>1, <1>2 DEF Inv

LEMMA Invariance == Spec => []Inv
<1>1. Init => Inv
  BY InvInit
<1>2. Inv /\ [Next]_vars => Inv'
  BY InvStep
<1> QED BY <1>1, <1>2, PTL DEF Spec

-----------------------------------------------------------------------------
(* The theorems.                                                           *)

\* Every variable keeps its type.
THEOREM TypeCorrect == Spec => []TypeOK
<1>1. Init => TypeOK
  BY TypeInit
<1>2. TypeOK /\ [Next]_vars => TypeOK'
  BY TypeStep
<1> QED BY <1>1, <1>2, PTL DEF Spec

\* No Router keeps the uri of a Neighbor that is gone, unless it was moved from one
\* network to another (neighbor.rs 91-127).
THEOREM NoGhosts == Spec => []NoGhostOuter
<1>1. Inv => NoGhostOuter
  BY DEF Inv, NeighborOK, EntryOK, NoGhostOuter
<1> QED BY <1>1, Invariance, PTL

\* No edit of a uri is lost, unless the Neighbor was moved (neighbor.rs 52-89).
THEOREM UrisCurrent == Spec => []SettledUri
<1>1. Inv => SettledUri
  BY DEF Inv, NeighborOK, UriOK, Quiet, Settled, SettledUri
<1> QED BY <1>1, Invariance, PTL

\* No Router that was there when the Neighbor was made or last edited is left out,
\* also after a move (neighbor.rs 60-87).
THEOREM EarlyReached == Spec => []EarlyReach
<1>1. Inv => EarlyReach
  <2> SUFFICES ASSUME Inv, NEW n \in Neighbors, Settled(n), phase[n] = "live", NEW r \in there[n],
                      router[r] = "ready", NetworkOf[r] = spec[n].network
               PROVE  outer[r][n] = spec[n].uri
    BY DEF EarlyReach
  <2>1. r \in Routers
    BY DEF Inv, TypeOK
  <2> QED BY <2>1 DEF Inv, NeighborOK, ReachOK, Present, Quiet, Settled
<1> QED BY <1>1, Invariance, PTL
=============================================================================
