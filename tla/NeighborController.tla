------------------------- MODULE NeighborController -------------------------
(***************************************************************************)
(* The Neighbor controller (src/src/neighbor_controller): it writes the    *)
(* URI of every Neighbor of a network into the outerNeighbors map of the   *)
(* Routers of that network.  Unlike the Router controller it is not woken  *)
(* by Routers, and its cleanup removes an entry from every Router listed.  *)
(***************************************************************************)
EXTENDS Naturals, FiniteSets

CONSTANTS
    Neighbors,   \* names of Neighbor objects
    Routers,     \* names of Router objects
    Networks,    \* the Network objects of the namespace
    NetworkOf,   \* the network label of each Router
    MaxUri,      \* how many successive specs a Neighbor may have
    MaxFaults    \* failed API calls and restarts

ASSUME NetworkAssumption == Networks # {} /\ NetworkOf \in [Routers -> Networks]
ASSUME BoundAssumption == MaxUri \in Nat \ {0} /\ MaxFaults \in Nat

VARIABLES
    phase,      \* life of each Neighbor: absent, live, deleting, gone
    finalizer,  \* the Neighbors with this controller's finalizer
    spec,       \* network and uri of each Neighbor; its uris are numbered
    router,     \* each Router: absent, bare (no status yet), ready, gone
    outer,      \* outer[r][n]: uri of n in outerNeighbors of r, 0 for none
    cache,      \* each Neighbor as the reflector last saw it
    dirty, queue, task, faults,
    moved,      \* history: the Neighbors whose network was edited
    there       \* history: the Routers there when each spec was last written

objVars == <<phase, finalizer, spec, moved, there>>
rtVars  == <<router, outer>>
vars    == <<objVars, rtVars, cache, dirty, queue, task, faults>>

Uri   == 0 .. MaxUri
NeighborSpec == [network : Networks, uri : Uri]

Cached == [known : BOOLEAN, deleting : BOOLEAN, finalizer : BOOLEAN, spec : NeighborSpec]

\* idle; finalize: adding the finalizer; list, add: reconcile; find, remove:
\* cleanup.  `spec' is the spec the task started from.
PC   == {"idle", "finalize", "list", "add", "find", "remove"}
Task == [pc : PC, todo : SUBSET Routers, spec : NeighborSpec]

NoSpec  == [network |-> CHOOSE w \in Networks : TRUE, uri |-> 0]
Idle    == [pc |-> "idle", todo |-> {}, spec |-> NoSpec]
Unknown == [known |-> FALSE, deleting |-> FALSE, finalizer |-> FALSE, spec |-> NoSpec]

Exists(n)  == phase[n] \in {"live", "deleting"}
Present(r) == router[r] \in {"bare", "ready"}
AllPresent == {r \in Routers : Present(r)}
Listed(w)  == {r \in Routers : NetworkOf[r] = w /\ Present(r)}

Snapshot(n) ==
    IF Exists(n)
    THEN [known |-> TRUE, deleting |-> phase[n] = "deleting",
          finalizer |-> n \in finalizer, spec |-> spec[n]]
    ELSE Unknown

TypeOK ==
    /\ phase \in [Neighbors -> {"absent", "live", "deleting", "gone"}]
    /\ finalizer \subseteq Neighbors /\ moved \subseteq Neighbors
    /\ spec \in [Neighbors -> NeighborSpec]
    /\ there \in [Neighbors -> SUBSET Routers]
    /\ router \in [Routers -> {"absent", "bare", "ready", "gone"}]
    /\ outer \in [Routers -> [Neighbors -> Uri]]
    /\ cache \in [Neighbors -> Cached]
    /\ dirty \subseteq Neighbors /\ queue \subseteq Neighbors
    /\ task \in [Neighbors -> Task]
    /\ faults \in 0 .. MaxFaults

Init ==
    /\ phase = [n \in Neighbors |-> "absent"]
    /\ finalizer = {} /\ moved = {}
    /\ spec = [n \in Neighbors |-> NoSpec] /\ there = [n \in Neighbors |-> {}]
    /\ router = [r \in Routers |-> "absent"]
    /\ outer = [r \in Routers |-> [n \in Neighbors |-> 0]]
    /\ cache = [n \in Neighbors |-> Unknown]
    /\ dirty = {} /\ queue = {}
    /\ task = [n \in Neighbors |-> Idle]
    /\ faults = 0

-----------------------------------------------------------------------------
(* Users, and the rest of the operator.                                    *)

CreateNeighbor(n, w) ==
    /\ phase[n] = "absent"
    /\ phase' = [phase EXCEPT ![n] = "live"]
    /\ spec' = [spec EXCEPT ![n] = [network |-> w, uri |-> 1]]
    /\ there' = [there EXCEPT ![n] = AllPresent]
    /\ dirty' = dirty \union {n}
    /\ UNCHANGED <<finalizer, moved, rtVars, cache, queue, task, faults>>

\* The user applies another spec: a new uri, perhaps another network.
EditNeighbor(n, w) ==
    /\ phase[n] = "live" /\ spec[n].uri < MaxUri
    /\ spec' = [spec EXCEPT ![n] = [network |-> w, uri |-> @.uri + 1]]
    /\ there' = [there EXCEPT ![n] = AllPresent]
    /\ moved' = moved \union {m \in {n} : spec[m].network # w}
    /\ dirty' = dirty \union {n}
    /\ UNCHANGED <<phase, finalizer, rtVars, cache, queue, task, faults>>

\* Deletion waits for the finalizer, when there is one.
DeleteNeighbor(n) ==
    /\ phase[n] = "live"
    /\ phase' = [phase EXCEPT ![n] = IF n \in finalizer THEN "deleting" ELSE "gone"]
    /\ dirty' = dirty \union {n}
    /\ UNCHANGED <<finalizer, spec, moved, there, rtVars, cache, queue, task, faults>>

\* A Router is created without a status, gets one, is gone one day.
RouterStep(r) ==
    /\ \/ router[r] = "absent" /\ router' = [router EXCEPT ![r] = "bare"] /\ UNCHANGED outer
       \/ router[r] = "bare" /\ router' = [router EXCEPT ![r] = "ready"] /\ UNCHANGED outer
       \/ /\ Present(r)
          /\ router' = [router EXCEPT ![r] = "gone"]
          /\ outer' = [outer EXCEPT ![r] = [n \in Neighbors |-> 0]]
    /\ UNCHANGED <<objVars, cache, dirty, queue, task, faults>>

-----------------------------------------------------------------------------
(* The controller runtime.                                                 *)

\* Mutant: the pass takes the event that came while it ran for its own.
Watch_Absorb(n) ==
    /\ n \in dirty
    /\ cache' = [cache EXCEPT ![n] = Snapshot(n)]
    /\ queue' = IF Exists(n) /\ task[n].pc = "idle" THEN queue \union {n} ELSE queue
    /\ dirty' = dirty \ {n}
    /\ UNCHANGED <<objVars, rtVars, task, faults>>

Watch(n) ==
    /\ n \in dirty
    /\ cache' = [cache EXCEPT ![n] = Snapshot(n)]
    /\ queue' = IF Exists(n) THEN queue \union {n} ELSE queue
    /\ dirty' = dirty \ {n}
    /\ UNCHANGED <<objVars, rtVars, task, faults>>

Restart ==
    /\ faults < MaxFaults
    /\ faults' = faults + 1
    /\ cache' = [n \in Neighbors |-> Snapshot(n)]
    /\ queue' = {n \in Neighbors : Exists(n)}
    /\ dirty' = {}
    /\ task' = [n \in Neighbors |-> Idle]
    /\ UNCHANGED <<objVars, rtVars>>

Dequeue(n) ==
    /\ n \in queue /\ task[n].pc = "idle"
    /\ queue' = queue \ {n}

End(n)  == task' = [task EXCEPT ![n] = Idle] /\ UNCHANGED queue

\* Mutant: the error policy forgets the task it is to requeue.
Fail_Parked(n) ==
    task' = [task EXCEPT ![n].pc = "error"] /\ queue' = queue \union {n}

\* neighbor_error_policy: back in the queue (its delay is left out).
Fail(n) == task' = [task EXCEPT ![n] = Idle] /\ queue' = queue \union {n}

Begin(n, pc) ==
    task' = [task EXCEPT ![n] = [pc |-> pc, todo |-> {}, spec |-> cache[n].spec]]

CallFails(n) ==
    /\ task[n].pc # "idle"
    /\ faults < MaxFaults
    /\ faults' = faults + 1
    /\ Fail(n)
    /\ UNCHANGED <<objVars, rtVars, cache, dirty>>

-----------------------------------------------------------------------------
(* reconcile_neighbor: finalizer, reconcile or cleanup.                    *)

Start(n) ==
    /\ Dequeue(n)
    /\ IF ~cache[n].known THEN UNCHANGED task
       ELSE Begin(n, IF cache[n].deleting THEN "find"
                     ELSE IF cache[n].finalizer THEN "list" ELSE "finalize")
    /\ UNCHANGED <<objVars, rtVars, cache, dirty, faults>>

AddFinalizer(n) ==
    /\ task[n].pc = "finalize"
    /\ IF phase[n] = "live"
       THEN /\ finalizer' = finalizer \union {n}
            /\ dirty' = dirty \union {n}
            /\ End(n)
       ELSE Fail(n) /\ UNCHANGED <<finalizer, dirty>>
    /\ UNCHANGED <<phase, spec, moved, there, rtVars, cache, faults>>

\* Both list the Routers that carry the network label of the spec they read.
List(n) ==
    /\ task[n].pc \in {"list", "find"}
    /\ task' = [task EXCEPT ![n].pc = IF @ = "list" THEN "add" ELSE "remove",
                            ![n].todo = Listed(task[n].spec.network)]
    /\ UNCHANGED <<objVars, rtVars, cache, dirty, queue, faults>>

\* Mutant: the loop returns after its first patch.
Add_FirstOnly(n) ==
    /\ task[n].pc = "add"
    /\ \E r \in task[n].todo :
         IF router[r] = "ready"
         THEN /\ outer' = [outer EXCEPT ![r][n] = task[n].spec.uri]
              /\ task' = [task EXCEPT ![n].todo = {}]
              /\ UNCHANGED queue
         ELSE Fail(n) /\ UNCHANGED outer
    /\ UNCHANGED <<objVars, router, cache, dirty, faults>>

\* JSON-patch `add': an error when the Router is gone or has no status yet.
Add(n) ==
    /\ task[n].pc = "add"
    /\ \E r \in task[n].todo :
         IF router[r] = "ready"
         THEN /\ outer' = [outer EXCEPT ![r][n] = task[n].spec.uri]
              /\ task' = [task EXCEPT ![n].todo = @ \ {r}]
              /\ UNCHANGED queue
         ELSE Fail(n) /\ UNCHANGED outer
    /\ UNCHANGED <<objVars, router, cache, dirty, faults>>

Finish(n) ==
    /\ task[n].pc = "add" /\ task[n].todo = {}
    /\ End(n)
    /\ UNCHANGED <<objVars, rtVars, cache, dirty, faults>>

\* Mutant: the first error ends the loop, and the cleanup goes on.
Remove_GiveUp(n) ==
    /\ task[n].pc = "remove"
    /\ \E r \in task[n].todo :
         IF router[r] = "ready" /\ outer[r][n] # 0
         THEN /\ outer' = [outer EXCEPT ![r][n] = 0]
              /\ task' = [task EXCEPT ![n].todo = @ \ {r}]
         ELSE task' = [task EXCEPT ![n].todo = {}] /\ UNCHANGED outer
    /\ UNCHANGED <<objVars, router, cache, dirty, queue, faults>>

\* JSON-patch `remove' on every Router listed: an error when it has no entry.
Remove(n) ==
    /\ task[n].pc = "remove"
    /\ \E r \in task[n].todo :
         IF router[r] = "ready" /\ outer[r][n] # 0
         THEN /\ outer' = [outer EXCEPT ![r][n] = 0]
              /\ task' = [task EXCEPT ![n].todo = @ \ {r}]
              /\ UNCHANGED queue
         ELSE Fail(n) /\ UNCHANGED outer
    /\ UNCHANGED <<objVars, router, cache, dirty, faults>>

Release(n) ==
    /\ task[n].pc = "remove" /\ task[n].todo = {}
    /\ IF phase[n] = "deleting"
       THEN /\ phase' = [phase EXCEPT ![n] = "gone"]
            /\ dirty' = dirty \union {n}
            /\ End(n)
       ELSE Fail(n) /\ UNCHANGED <<phase, dirty>>
    /\ UNCHANGED <<finalizer, spec, moved, there, rtVars, cache, faults>>

-----------------------------------------------------------------------------
TaskStep(n) ==
    \/ Start(n) \/ AddFinalizer(n) \/ List(n) \/ Add(n) \/ Finish(n)
    \/ Remove(n) \/ Release(n)

UserStep(n) ==
    \/ \E w \in Networks : CreateNeighbor(n, w) \/ EditNeighbor(n, w)
    \/ DeleteNeighbor(n)

Next ==
    \/ \E n \in Neighbors : UserStep(n) \/ Watch(n) \/ TaskStep(n) \/ CallFails(n)
    \/ \E r \in Routers : RouterStep(r)
    \/ Restart

\* The controller keeps running, and every Router that is created gets its
\* status in the end (from its own controller).
Fairness ==
    /\ \A n \in Neighbors : WF_vars(Watch(n)) /\ WF_vars(TaskStep(n))
    /\ \A r \in Routers : WF_vars(router[r] = "bare" /\ RouterStep(r))

Spec == Init /\ [][Next]_vars /\ Fairness

-----------------------------------------------------------------------------
(* Properties.                                                             *)

\* No Router keeps the uri of a Neighbor that is gone: the finalizer waits for
\* every Router that could hold it, also after failures half-way through and
\* whatever Routers come and go (neighbor.rs 91-127).  One that moved from one
\* network to another is excepted here and below: see SettledNetwork.
NoGhostOuter ==
    \A r \in Routers, n \in Neighbors \ moved : outer[r][n] # 0 => Exists(n)

Settled(n) == n \notin dirty /\ n \notin queue /\ task[n].pc = "idle"

\* An entry is the current uri once the controller is through with the Neighbor:
\* no edit is lost to a pass that was under way (neighbor.rs 52-89).
SettledUri ==
    \A n \in Neighbors \ moved : Settled(n) /\ phase[n] = "live" =>
        \A r \in Routers : outer[r][n] \in {0, spec[n].uri}

\* spec.network names `the local Network CR this neighbor applies to'
\* (neighbor.rs 39): when the controller is through, each Router of the network
\* that has a status holds the uri.
SettledReach ==
    \A n \in Neighbors : Settled(n) /\ phase[n] = "live" =>
        \A r \in Routers :
            router[r] = "ready" /\ NetworkOf[r] = spec[n].network =>
                outer[r][n] = spec[n].uri

\* The same of the Routers that were there when the Neighbor was made or last
\* edited, also of those that had no status yet: no restart, edit, move or half-done
\* pass leaves one of them out (neighbor.rs 60-87).
EarlyReach ==
    \A n \in Neighbors : Settled(n) /\ phase[n] = "live" =>
        \A r \in there[n] :
            router[r] = "ready" /\ NetworkOf[r] = spec[n].network =>
                outer[r][n] = spec[n].uri

\* Likewise no Router of another network does.
SettledNetwork ==
    \A n \in Neighbors : Settled(n) /\ phase[n] = "live" =>
        \A r \in Routers : outer[r][n] # 0 => NetworkOf[r] = spec[n].network

\* `Remove only if present' (neighbor.rs 98): deleting a Neighbor ends.
DeletionCompletes ==
    \A n \in Neighbors : phase[n] = "deleting" ~> phase[n] = "gone"
=============================================================================
