------------------------------ MODULE Sidecar -------------------------------
(***************************************************************************)
(* The sidecar of a router pod (src/src/bin/pod_sidecar.rs): it watches    *)
(* its Router and keeps the links of ndnd, the forwarder in the container  *)
(* next to it, in step with the neighbors in the Router's status.          *)
(***************************************************************************)
EXTENDS Naturals, Sequences

CONSTANTS
    Entries,     \* keys of innerNeighbors and outerNeighbors
    Uris,        \* the faces they may map to
    None,        \* no entry
    MaxChanges,  \* changes of the Router's status
    MaxSidecar,  \* crashes of the sidecar (or ends of its watch)
    MaxNdnd      \* crashes of ndnd

ASSUME NoneAssumption == None \notin Uris
ASSUME BoundAssumption == {MaxChanges, MaxSidecar, MaxNdnd} \subseteq Nat

VARIABLES
    status,     \* the uri of each neighbor entry of the Router
    events,     \* neighbor sets the watch has yet to deliver, oldest first
    pc,         \* offline: starting; watch: waiting; links: running commands
    neighbors,  \* the sidecar's `neighbors': the set it handled last
    new,        \* the set it is handling
    added,      \* the uris of it still to link-create
    removed,    \* the uris still to link-destroy
    ndnd,       \* does ndnd listen on its socket?
    links,      \* the links ndnd has
    missed,     \* has ndnd missed or lost a link of this life of the sidecar?
    changes, sidecarCrashes, ndndCrashes

loopVars == <<pc, neighbors, new, added, removed>>
counters == <<changes, sidecarCrashes, ndndCrashes>>
vars     == <<status, events, loopVars, ndnd, links, missed, counters>>

TypeOK ==
    /\ status \in [Entries -> Uris \union {None}]
    /\ events \in Seq(SUBSET Uris)
    /\ pc \in {"offline", "watch", "links"}
    /\ {neighbors, new, added, removed, links} \subseteq SUBSET Uris
    /\ {ndnd, missed} \subseteq BOOLEAN
    /\ changes \in 0 .. MaxChanges
    /\ sidecarCrashes \in 0 .. MaxSidecar
    /\ ndndCrashes \in 0 .. MaxNdnd

\* merge_neighbor_uris: entries with the same uri are one link.
Merged(s) == {s[e] : e \in Entries} \ {None}

\* diff_uris
Added(old, latest)   == latest \ old
Removed(old, latest) == old \ latest

\* The two containers of the pod start together.
Init ==
    /\ status = [e \in Entries |-> None]
    /\ events = << >>
    /\ pc = "offline"
    /\ neighbors = {} /\ new = {} /\ added = {} /\ removed = {}
    /\ ndnd = FALSE /\ links = {} /\ missed = FALSE
    /\ changes = 0 /\ sidecarCrashes = 0 /\ ndndCrashes = 0

-----------------------------------------------------------------------------
(* The operator, and the containers.                                       *)

\* The Router and Neighbor controllers add, replace or remove an entry.
ChangeStatus(e, u) ==
    /\ changes < MaxChanges /\ u # status[e]
    /\ changes' = changes + 1
    /\ status' = [status EXCEPT ![e] = u]
    /\ events' = IF pc = "offline" THEN events ELSE Append(events, Merged(status'))
    /\ UNCHANGED <<loopVars, ndnd, links, missed, sidecarCrashes, ndndCrashes>>

NdndStart ==
    /\ ~ndnd
    /\ ndnd' = TRUE
    /\ UNCHANGED <<status, events, loopVars, links, missed, counters>>

NdndCrash ==
    /\ ndnd /\ ndndCrashes < MaxNdnd
    /\ ndndCrashes' = ndndCrashes + 1
    /\ ndnd' = FALSE /\ links' = {} /\ missed' = TRUE
    /\ UNCHANGED <<status, events, loopVars, changes, sidecarCrashes>>

\* A panic, or an error of the watch, which ends main; ndnd goes on.
SidecarCrash ==
    /\ sidecarCrashes < MaxSidecar
    /\ sidecarCrashes' = sidecarCrashes + 1
    /\ pc' = "offline" /\ events' = << >>
    /\ neighbors' = {} /\ new' = {} /\ added' = {} /\ removed' = {}
    /\ UNCHANGED <<status, ndnd, links, missed, changes, ndndCrashes>>

-----------------------------------------------------------------------------
(* main of the sidecar.                                                    *)

\* status.online = true; then the watch begins with the Router as it is, and
\* every link is created again.
GoOnline ==
    /\ pc = "offline"
    /\ pc' = "watch"
    /\ events' = <<Merged(status)>>
    /\ missed' = FALSE
    /\ UNCHANGED <<status, neighbors, new, added, removed, ndnd, links, counters>>

Receive ==
    /\ pc = "watch" /\ events # << >>
    /\ pc' = "links"
    /\ new' = Head(events) /\ events' = Tail(events)
    /\ added' = Added(neighbors, new')
    /\ removed' = Removed(neighbors, new')
    /\ UNCHANGED <<status, neighbors, ndnd, links, missed, counters>>

\* Mutant: the remembered set is updated by the first command.
CreateLink_Remember(u) ==
    /\ pc = "links" /\ u \in added
    /\ pc' = "watch" /\ neighbors' = new
    /\ added' = {}
    /\ links' = IF ndnd THEN links \union {u} ELSE links
    /\ missed' = (missed \/ ~ndnd)
    /\ UNCHANGED <<status, events, new, removed, ndnd, counters>>

\* The exit status of the command is not looked at: without ndnd it does nothing.
CreateLink(u) ==
    /\ pc = "links" /\ u \in added
    /\ added' = added \ {u}
    /\ links' = IF ndnd THEN links \union {u} ELSE links
    /\ missed' = (missed \/ ~ndnd)
    /\ UNCHANGED <<status, events, pc, neighbors, new, removed, ndnd, counters>>

DestroyLink(u) ==
    /\ pc = "links" /\ added = {} /\ u \in removed
    /\ removed' = removed \ {u}
    /\ links' = IF ndnd THEN links \ {u} ELSE links
    /\ missed' = (missed \/ ~ndnd)
    /\ UNCHANGED <<status, events, pc, neighbors, new, added, ndnd, counters>>

\* Mutant: the loop ends without going back to the watch.
Remember_Stop ==
    /\ pc = "links" /\ added = {} /\ removed = {}
    /\ pc' = "done"
    /\ neighbors' = new
    /\ UNCHANGED <<status, events, new, added, removed, ndnd, links, missed, counters>>

Remember ==
    /\ pc = "links" /\ added = {} /\ removed = {}
    /\ pc' = "watch"
    /\ neighbors' = new
    /\ UNCHANGED <<status, events, new, added, removed, ndnd, links, missed, counters>>

-----------------------------------------------------------------------------
Command == \E u \in Uris : CreateLink(u) \/ DestroyLink(u)
Loop    == GoOnline \/ Receive \/ Command \/ Remember

Next ==
    \/ \E e \in Entries, u \in Uris \union {None} : ChangeStatus(e, u)
    \/ Loop
    \/ NdndStart \/ NdndCrash \/ SidecarCrash

\* Kubernetes restarts both containers, and the sidecar keeps running.
Fairness == WF_vars(Loop) /\ WF_vars(NdndStart)

Spec == Init /\ [][Next]_vars /\ Fairness

-----------------------------------------------------------------------------
(* Properties.                                                             *)

Settled == pc = "watch" /\ events = << >>

\* When every event is handled ndnd has a link to every neighbor of the status:
\* also when the sidecar restarted half-way through its commands, and when two
\* entries share a uri and one of them goes (pod_sidecar.rs 57-91).  That
\* presumes that ndnd ran every command: see LinksAlways.
LinksComplete == Settled /\ ~missed => Merged(status) \subseteq links

\* The links are complete in the end, and stay so (pod_sidecar.rs 57-91).
LinksConverge == <>[](missed \/ Merged(status) \subseteq links)

\* ... and ndnd has a link to nobody else, unless the sidecar has restarted and
\* forgotten what it created: `link-destroy <URL> when it changes' (57-91).
NoStaleLink == Settled /\ sidecarCrashes = 0 => links \subseteq Merged(status)

\* The two without their provisos, as the comment in pod_sidecar.rs 57 reads.
LinksAlways == Settled => Merged(status) \subseteq links
StaleNever  == Settled => links \subseteq Merged(status)
=============================================================================
