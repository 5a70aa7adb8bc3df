-------------------------- MODULE RouterController --------------------------
(***************************************************************************)
(* The Router controller (src/src/router_controller): it keeps the         *)
(* innerNeighbors map of every Router of one network up to date, so that   *)
(* each online Router is known, under its own name and with its current    *)
(* inner face, to all the others.                                          *)
(*                                                                         *)
(* The API server's objects, the controller's cache of them, its work      *)
(* queue and one reconciliation task per Router are the state.  A task     *)
(* reads the cached object when it starts and calls the API server several *)
(* times; everything else may run between two of those calls, and any of   *)
(* them may fail.                                                          *)
(***************************************************************************)
EXTENDS Naturals, FiniteSets

CONSTANTS
    Routers,    \* the names that Routers of the network may take
    MaxFace,    \* how often a Router may publish its inner face
    MaxFaults   \* how many failed API calls, restarts and missing addresses there are

ASSUME MaxFaceAssumption == MaxFace \in Nat
ASSUME MaxFaultsAssumption == MaxFaults \in Nat

VARIABLES
    phase,      \* life of the API object: absent, live, deleting or gone
    finalizer,  \* has the object this controller's finalizer?
    status,     \* status of the object, innerNeighbors apart
    inner,      \* inner[q][r]: face of r in innerNeighbors of q, 0 when absent
    cache,      \* the object as the controller's reflector last saw it
    dirty,      \* Routers whose object changed since then
    queue,      \* Routers waiting to be reconciled
    task,       \* the reconciliation of each Router that is under way
    faults      \* failures so far

apiVars  == <<phase, finalizer, status, inner>>
ctrlVars == <<cache, queue, task>>
vars     == <<phase, finalizer, status, inner, cache, dirty, queue, task, faults>>

Face  == 0 .. MaxFace     \* 0 stands for no face
Phase == {"absent", "live", "deleting", "gone"}

\* RouterStatus, without the neighbor maps; `ready' and `synced' are the
\* conditions Ready and NeighborsSynced, `present' is false until the
\* first write to the status subresource.  `face' numbers what was published
\* as innerFace, which is null unless `addr'.
Status == [present : BOOLEAN, initialized : BOOLEAN, online : BOOLEAN,
           addr : BOOLEAN, face : Face, ready : BOOLEAN, synced : BOOLEAN]

NoStatus == [present |-> FALSE, initialized |-> FALSE, online |-> FALSE,
             addr |-> FALSE, face |-> 0, ready |-> FALSE, synced |-> FALSE]

Cached == [known : BOOLEAN, deleting : BOOLEAN, finalizer : BOOLEAN,
           initialized : BOOLEAN, online : BOOLEAN, addr : BOOLEAN, face : Face]

Unknown == [known |-> FALSE, deleting |-> FALSE, finalizer |-> FALSE,
            initialized |-> FALSE, online |-> FALSE, addr |-> FALSE, face |-> 0]

\* idle; finalize: adding the finalizer; offline: about to patch the
\* conditions of an offline Router; list, propagate: announcing the face;
\* retract, clean: withdrawing it.
PC   == {"idle", "finalize", "offline", "list", "propagate", "retract", "clean"}
Task == [pc : PC, todo : SUBSET Routers, addr : BOOLEAN, face : Face, ready : BOOLEAN]
Idle == [pc |-> "idle", todo |-> {}, addr |-> FALSE, face |-> 0, ready |-> FALSE]

Exists(r) == phase[r] \in {"live", "deleting"}

\* What the watch reports of r now.
Snapshot(r) ==
    IF Exists(r)
    THEN [known |-> TRUE, deleting |-> phase[r] = "deleting",
          finalizer |-> finalizer[r], initialized |-> status[r].initialized,
          online |-> status[r].online, addr |-> status[r].addr, face |-> status[r].face]
    ELSE Unknown

TypeOK ==
    /\ phase \in [Routers -> Phase]
    /\ finalizer \in [Routers -> BOOLEAN]
    /\ status \in [Routers -> Status]
    /\ inner \in [Routers -> [Routers -> Face]]
    /\ cache \in [Routers -> Cached]
    /\ dirty \subseteq Routers
    /\ queue \subseteq Routers
    /\ task \in [Routers -> Task]
    /\ faults \in 0 .. MaxFaults

Init ==
    /\ phase = [r \in Routers |-> "absent"]
    /\ finalizer = [r \in Routers |-> FALSE]
    /\ status = [r \in Routers |-> NoStatus]
    /\ inner = [q \in Routers |-> [r \in Routers |-> 0]]
    /\ cache = [r \in Routers |-> Unknown]
    /\ dirty = {}
    /\ queue = {}
    /\ task = [r \in Routers |-> Idle]
    /\ faults = 0

-----------------------------------------------------------------------------
(* The pod controller and the router pod, which act on the API objects.    *)

\* pod_apply creates the Router of a new pod; pod names are not used twice.
CreateRouter(r) ==
    /\ phase[r] = "absent"
    /\ phase' = [phase EXCEPT ![r] = "live"]
    /\ dirty' = dirty \union {r}
    /\ UNCHANGED <<finalizer, status, inner, ctrlVars, faults>>

\* The object of r leaves the API server, its status with it.
Erase(r) ==
    /\ phase' = [phase EXCEPT ![r] = "gone"]
    /\ status' = [status EXCEPT ![r] = NoStatus]
    /\ inner' = [inner EXCEPT ![r] = [q \in Routers |-> 0]]
    /\ dirty' = dirty \union {r}

\* pod_cleanup deletes the Router: it stays, marked, while a finalizer is on.
DeleteRouter(r) ==
    /\ phase[r] = "live"
    /\ \/ /\ finalizer[r]
          /\ phase' = [phase EXCEPT ![r] = "deleting"]
          /\ dirty' = dirty \union {r}
          /\ UNCHANGED <<status, inner>>
       \/ /\ ~finalizer[r]
          /\ Erase(r)
    /\ UNCHANGED <<finalizer, ctrlVars, faults>>

\* The init container publishes the inner face; a pod that comes back with
\* another address publishes the next one, null when it has none.
PublishFace(r) ==
    /\ Exists(r)
    /\ status[r].face < MaxFace
    /\ \E a \in BOOLEAN :
         /\ status' = [status EXCEPT ![r].present = TRUE,
                                     ![r].initialized = TRUE,
                                     ![r].addr = a,
                                     ![r].face = @ + 1]
         /\ IF a THEN UNCHANGED faults ELSE faults < MaxFaults /\ faults' = faults + 1
    /\ dirty' = dirty \union {r}
    /\ UNCHANGED <<phase, finalizer, inner, ctrlVars>>

\* The sidecar, started after the init container, replaces status.online.
GoOnline(r) ==
    /\ Exists(r)
    /\ status[r].present /\ status[r].initialized /\ ~status[r].online
    /\ status' = [status EXCEPT ![r].online = TRUE]
    /\ dirty' = dirty \union {r}
    /\ UNCHANGED <<phase, finalizer, inner, ctrlVars, faults>>

-----------------------------------------------------------------------------
(* The controller runtime: watch, queue, restart.                          *)

\* Mutation: the controller is woken by changes of the object but not of its status.
Watch_SpecOnly(r) ==
    /\ r \in dirty
    /\ cache' = [cache EXCEPT ![r] = Snapshot(r)]
    /\ queue' = IF Exists(r) /\ (~cache[r].known \/ cache[r].finalizer # finalizer[r])
                THEN queue \union {r} ELSE queue
    /\ dirty' = dirty \ {r}
    /\ UNCHANGED <<apiVars, task, faults>>

\* The reflector takes in the latest version of r and queues r, unless the
\* object is gone.
Watch(r) ==
    /\ r \in dirty
    /\ cache' = [cache EXCEPT ![r] = Snapshot(r)]
    /\ queue' = IF Exists(r) THEN queue \union {r} ELSE queue
    /\ dirty' = dirty \ {r}
    /\ UNCHANGED <<apiVars, task, faults>>

\* The process ends and starts again: it lists and reconciles everything.
Restart ==
    /\ faults < MaxFaults
    /\ faults' = faults + 1
    /\ cache' = [r \in Routers |-> Snapshot(r)]
    /\ queue' = {r \in Routers : Exists(r)}
    /\ dirty' = {}
    /\ task' = [r \in Routers |-> Idle]
    /\ UNCHANGED apiVars

\* Taking r from the queue: a Router has at most one task.
Dequeue(r) ==
    /\ r \in queue
    /\ task[r].pc = "idle"
    /\ queue' = queue \ {r}

\* A task that has listed the Routers it will patch.
Work(r, pc, todo) ==
    task' = [task EXCEPT ![r] = [@ EXCEPT !.pc = pc, !.todo = todo]]

\* A task that ends, well or with an error and a retry.
Done(r)  == task' = [task EXCEPT ![r] = Idle] /\ UNCHANGED queue
Retry_Never(r) == Done(r)                                       \* mutation
Retry_Parked(r) == task' = [task EXCEPT ![r].pc = "error"] /\ UNCHANGED queue \* mutation
Retry(r) == task' = [task EXCEPT ![r] = Idle] /\ queue' = queue \union {r}

\* An API call of the task fails: the error policy queues r again.
CallFails(r) ==
    /\ task[r].pc # "idle"
    /\ faults < MaxFaults
    /\ faults' = faults + 1
    /\ Retry(r)
    /\ UNCHANGED <<apiVars, cache, dirty>>

-----------------------------------------------------------------------------
(* Router::reconcile, on the cached object.                                *)

\* The store no longer holds r.
Forget(r) ==
    /\ Dequeue(r)
    /\ ~cache[r].known
    /\ UNCHANGED <<apiVars, cache, dirty, task, faults>>

\* finalizer() first adds the finalizer and waits for the change to be seen.
StartFinalize(r) ==
    /\ Dequeue(r)
    /\ cache[r].known /\ ~cache[r].deleting /\ ~cache[r].finalizer
    /\ task' = [task EXCEPT ![r].pc = "finalize"]
    /\ UNCHANGED <<apiVars, cache, dirty, faults>>

\* The API server takes no new finalizer on an object that is going away.
AddFinalizer(r) ==
    /\ task[r].pc = "finalize"
    /\ IF phase[r] = "live"
       THEN /\ finalizer' = [finalizer EXCEPT ![r] = TRUE]
            /\ dirty' = IF finalizer[r] THEN dirty ELSE dirty \union {r}
            /\ Done(r)
       ELSE Retry(r) /\ UNCHANGED <<finalizer, dirty>>
    /\ UNCHANGED <<phase, status, inner, cache, faults>>

\* The conditions are computed from the cached status, once, at the start.
StartApply(r) ==
    /\ Dequeue(r)
    /\ cache[r].known /\ ~cache[r].deleting /\ cache[r].finalizer
    /\ task' = [task EXCEPT ![r] =
         [pc    |-> IF cache[r].online THEN "list" ELSE "offline",
          todo  |-> {},
          addr  |-> cache[r].addr,
          face  |-> cache[r].face,
          ready |-> cache[r].initialized /\ cache[r].online /\ cache[r].addr]]
    /\ UNCHANGED <<apiVars, cache, dirty, faults>>

\* Merge-patch of the conditions of r itself.  Their time stamps are fresh,
\* so the patch may count as a change even when nothing else is new.
PatchConditions(r, isSynced) ==
    IF Exists(r)
    THEN /\ status' = [status EXCEPT ![r].present = TRUE,
                                     ![r].ready = task[r].ready,
                                     ![r].synced = isSynced]
         /\ dirty' \in {dirty, dirty \union {r}}
         /\ dirty' = dirty => status' = status \/ r \in dirty
         /\ Done(r)
    ELSE Retry(r) /\ UNCHANGED <<status, dirty>>

ReportOffline(r) ==
    /\ task[r].pc = "offline"
    /\ PatchConditions(r, FALSE)
    /\ UNCHANGED <<phase, finalizer, inner, cache, faults>>

\* Lists the other Routers of the network; without a face none is patched.
ListPeers(r) ==
    /\ task[r].pc = "list"
    /\ Work(r, "propagate",
            IF ~task[r].addr THEN {} ELSE {q \in Routers \ {r} : Exists(q)})
    /\ UNCHANGED <<apiVars, cache, dirty, queue, faults>>

\* Mutation: the task also enters, in the map of r, the cached face of q.
Propagate_BothWays(r) ==
    /\ task[r].pc = "propagate"
    /\ \E q \in task[r].todo :
         IF Exists(q) /\ status[q].present
         THEN /\ inner' = [inner EXCEPT ![q][r] = task[r].face, ![r][q] = cache[q].face]
              /\ dirty' = dirty \union {q, r}
              /\ task' = [task EXCEPT ![r].todo = @ \ {q}]
              /\ UNCHANGED queue
         ELSE Retry(r) /\ UNCHANGED <<inner, dirty>>
    /\ UNCHANGED <<phase, finalizer, status, cache, faults>>

\* JSON-patch `add' of status/innerNeighbors/r at one listed Router: an
\* error, and the end of the task, when q is gone or has no status yet.
Propagate(r) ==
    /\ task[r].pc = "propagate"
    /\ \E q \in task[r].todo :
         IF Exists(q) /\ status[q].present
         THEN /\ inner' = [inner EXCEPT ![q][r] = task[r].face]
              /\ dirty' = IF inner[q][r] = task[r].face THEN dirty ELSE dirty \union {q}
              /\ task' = [task EXCEPT ![r].todo = @ \ {q}]
              /\ UNCHANGED queue
         ELSE Retry(r) /\ UNCHANGED <<inner, dirty>>
    /\ UNCHANGED <<phase, finalizer, status, cache, faults>>

\* All peers patched: publish the event, mark the neighbors synced.
ReportSynced(r) ==
    /\ task[r].pc = "propagate"
    /\ task[r].todo = {}
    /\ PatchConditions(r, TRUE)
    /\ UNCHANGED <<phase, finalizer, inner, cache, faults>>

-----------------------------------------------------------------------------
(* Router::cleanup.                                                        *)

StartCleanup(r) ==
    /\ Dequeue(r)
    /\ cache[r].known /\ cache[r].deleting /\ cache[r].finalizer
    /\ task' = [task EXCEPT ![r].pc = "retract"]
    /\ UNCHANGED <<apiVars, cache, dirty, faults>>

\* Lists the network; only Routers whose listed map has r are patched.
ListHolders(r) ==
    /\ task[r].pc = "retract"
    /\ Work(r, "clean", {q \in Routers \ {r} : Exists(q) /\ inner[q][r] # 0})
    /\ UNCHANGED <<apiVars, cache, dirty, queue, faults>>

\* JSON-patch `remove': an error when the Router or the entry is gone.
Retract(r) ==
    /\ task[r].pc = "clean"
    /\ \E q \in task[r].todo :
         IF Exists(q) /\ inner[q][r] # 0
         THEN /\ inner' = [inner EXCEPT ![q][r] = 0]
              /\ dirty' = dirty \union {q}
              /\ task' = [task EXCEPT ![r].todo = @ \ {q}]
              /\ UNCHANGED queue
         ELSE Retry(r) /\ UNCHANGED <<inner, dirty>>
    /\ UNCHANGED <<phase, finalizer, status, cache, faults>>

\* Mutation: the finalizer goes before every holder has been patched.
Release_Early(r) ==
    /\ task[r].pc = "clean"
    /\ phase[r] = "deleting"
    /\ Erase(r) /\ Done(r)
    /\ UNCHANGED <<finalizer, cache, faults>>

\* cleanup returned Ok: finalizer() removes the finalizer and the API server
\* the object.
Release(r) ==
    /\ task[r].pc = "clean"
    /\ task[r].todo = {}
    /\ IF phase[r] = "deleting"
       THEN Erase(r) /\ Done(r)
       ELSE Retry(r) /\ UNCHANGED <<phase, status, inner, dirty>>
    /\ UNCHANGED <<finalizer, cache, faults>>

-----------------------------------------------------------------------------
PodStep(r) == CreateRouter(r) \/ DeleteRouter(r) \/ PublishFace(r) \/ GoOnline(r)

ApplyStep(r) ==
    \/ StartFinalize(r) \/ AddFinalizer(r) \/ StartApply(r) \/ ReportOffline(r)
    \/ ListPeers(r) \/ Propagate(r) \/ ReportSynced(r)

CleanupStep(r) == StartCleanup(r) \/ ListHolders(r) \/ Retract(r) \/ Release(r)

TaskStep(r) == Forget(r) \/ ApplyStep(r) \/ CleanupStep(r)

Next ==
    \/ \E r \in Routers : PodStep(r) \/ Watch(r) \/ TaskStep(r) \/ CallFails(r)
    \/ Restart

\* The watch delivers and the tokio runtime polls every task; nothing is
\* assumed of the pods, of failures or of restarts.
Fairness == \A r \in Routers : WF_vars(Watch(r)) /\ WF_vars(TaskStep(r))

Spec == Init /\ [][Next]_vars /\ Fairness

-----------------------------------------------------------------------------
(* Properties.                                                             *)

\* No Router keeps an innerNeighbors entry for a Router whose object has left
\* the API server: cleanup withdraws them all before the finalizer goes
\* (router.rs 296-372), whatever was created, announced or failed meanwhile.
NoGhostNeighbor ==
    \A q, r \in Routers : inner[q][r] # 0 => Exists(q) /\ Exists(r)

\* A face in a neighbor map was never replaced by an older face of the same
\* Router, although each task announces a face it read before listing
\* (router.rs 98, 196-247).
FaceNeverRegresses ==
    [][\A q, r \in Routers :
          inner[q][r] # 0 /\ inner'[q][r] # 0 => inner'[q][r] >= inner[q][r]]_vars

\* Seen without cache, queue and tasks, the controller does what RouterMesh
\* says: only faces of present Routers are announced, and the finalizer goes
\* only when no Router holds the name any more (router.rs 96-372).
Mesh == INSTANCE RouterMesh WITH face <- [r \in Routers |-> status[r].face]

ImplementsMesh == Mesh!MeshSpec

\* Up: the Router is there, online, and has a face.
Up(r) == phase[r] = "live" /\ status[r].online /\ status[r].addr

\* Nothing is left to do for r.
Settled(r) == r \notin dirty /\ r \notin queue /\ task[r].pc = "idle"

\* No update is lost: when the controller has nothing left to do, every two
\* Routers that are up hold each other's current face (router.rs 196-260).
SettledMesh ==
    (\A r \in Routers : Settled(r)) =>
        \A q, r \in Routers : q # r /\ Up(q) /\ Up(r) => inner[q][r] = status[r].face

\* And the conditions Ready and NeighborsSynced, although computed from a
\* cached status and written several calls later, tell the truth about the
\* status they sit in (router.rs 97-172, 279-292).
SettledConditions ==
    \A r \in Routers :
        Settled(r) /\ phase[r] = "live" =>
            /\ status[r].ready = (status[r].initialized /\ Up(r))
            /\ status[r].synced = status[r].online

\* Without the controller ever being idle, the mesh still forms.
MeshConverges ==
    <>[](\A q, r \in Routers : q # r /\ Up(q) /\ Up(r) => inner[q][r] = status[r].face)

\* Deleting a Router ends: its finalizer does not stay behind.
DeletionCompletes ==
    \A r \in Routers : phase[r] = "deleting" ~> phase[r] = "gone"
=============================================================================
