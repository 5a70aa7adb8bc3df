------------------------------ MODULE RouterPod ------------------------------
(***************************************************************************)
(* The router pods of one node, one after the other: the DaemonSet makes   *)
(* them, pod-sync (PodSync) gives each its Router and Certificate, and the *)
(* init container (src/src/bin/pod_init.rs) waits for both, writes the     *)
(* files of the forwarder and publishes the inner face in the Router's     *)
(* status.  Only then does the sidecar start and report the Router online. *)
(*                                                                         *)
(* The files are in directories of the node that belong to the Network,    *)
(* so a pod finds those of the pod before it.                              *)
(***************************************************************************)
EXTENDS PodSync

CONSTANTS
    None,      \* no pod, or one of before
    Family     \* spec.ipFamily: IPv4 or IPv6; MaxFaults bounds crashes of the pods, too

Families == {"IPv4", "IPv6"}

ASSUME NodeAssumption == None \notin Pods /\ Family \in Families

VARIABLES
    template,   \* has the DaemonSet been made for a Network with an issuer?
    secure,     \* the pods made from such a template: NDN_INSECURE is false
    anchor,     \* is the trust anchor's certificate valid?
    valid,      \* the pods whose Certificate is issued: both Secrets are there
    box,        \* what the containers of each pod are doing
    files,      \* which pod wrote the configuration, the key, the certificate
    addrs,      \* the families in which the node has an address
    face,       \* status of the pod's Router: no for not initialized
    online      \* the pods whose Router is online

nodeVars == <<template, secure, anchor, box, files, addrs>>
rtVars   == <<valid, face, online>>
allVars  == <<vars, nodeVars, rtVars>>

\* The steps of main in pod_init.rs; run: the other containers have started.
Waiting == {"anchors", "router", "cert"}
Writing == {"load", "keyFile", "certFile", "publish"}
Box     == {"none", "run", "ended"} \union Waiting \union Writing

PodTypeOK ==
    /\ TypeOK
    /\ {template, anchor} \subseteq BOOLEAN
    /\ {secure, valid, online} \subseteq SUBSET Pods
    /\ box \in [Pods -> Box]
    /\ files \in [{"config", "key", "cert"} -> Pods \union {None}]
    /\ addrs \subseteq Families
    /\ face \in [Pods -> {"no", "none"} \union Families]

PodInit ==
    /\ Init
    /\ template \in BOOLEAN
    /\ anchor = FALSE /\ addrs \in SUBSET Families
    /\ secure = {} /\ valid = {} /\ online = {}
    /\ box = [p \in Pods |-> "none"]
    /\ files = [f \in {"config", "key", "cert"} |-> None]
    /\ face = [p \in Pods |-> "no"]

-----------------------------------------------------------------------------
(* pod-sync, and what goes with the objects it deletes: the Secrets of a   *)
(* Certificate, the status of a Router.                                    *)

Along ==
    /\ valid' = valid \intersect cert'
    /\ face' = [p \in Pods |-> IF router'[p] = "none" THEN "no" ELSE face[p]]
    /\ online' = {p \in online : router'[p] # "none"}
    /\ UNCHANGED nodeVars

SyncStep ==
    \/ \E p \in Pods :
         \/ SchedulePod(p) /\ Along
         \/ RouterGone(p) /\ Along
         \/ Watch(p) /\ Along
         \/ TaskStep(p) /\ Along
         \/ CallFails(p) /\ Along
    \/ EditIssuer /\ Along
    \/ Restart /\ Along

\* The Certificate controller issues a Certificate, or the trust anchor's.
Issue ==
    /\ \/ \E p \in cert \ valid : valid' = valid \union {p} /\ UNCHANGED anchor
       \/ ~anchor /\ anchor' = TRUE /\ UNCHANGED valid
    /\ UNCHANGED <<vars, template, secure, box, files, addrs, face, online>>

-----------------------------------------------------------------------------
(* The Network controller's DaemonSet.                                     *)

\* The Network controller applies the DaemonSet after an edit of the issuer.
RollOut ==
    /\ template # issuer
    /\ template' = issuer
    /\ UNCHANGED <<vars, secure, anchor, box, files, addrs, rtVars>>

Stopped(p) == box[p] \in {"none", "ended"}

\* One pod per node: the next is made when the containers of the last have
\* ended, even while the finalizer still holds its object.
Place(p) ==
    /\ \A q \in Pods \ {p} : phase[q] # "live" /\ Stopped(q)
    /\ CreatePod(p)
    /\ secure' = IF template THEN secure \union {p} ELSE secure
    /\ UNCHANGED <<template, anchor, box, files, addrs, rtVars>>

\* The rolling update, or somebody else, deletes a pod.
Evict(p) ==
    /\ DeletePod(p)
    /\ UNCHANGED <<nodeVars, rtVars>>

Outdated(p) == (p \in secure) # template

\* The kubelet ends the containers of a deleted pod.
Kill(p) ==
    /\ phase[p] \in {"deleting", "gone"} /\ ~Stopped(p)
    /\ box' = [box EXCEPT ![p] = "ended"]
    /\ UNCHANGED <<vars, template, secure, anchor, files, addrs, rtVars>>

-----------------------------------------------------------------------------
(* The init container.                                                     *)

\* The next step of the container, which pod-sync does not see.
Step(p, step) ==
    /\ box' = [box EXCEPT ![p] = step]
    /\ UNCHANGED <<podVars, netVars, objVars, runVars, lost, edits>>

\* A container starts or ends, and the status of the pod tells.
Becomes(p, step) ==
    /\ box' = [box EXCEPT ![p] = step]
    /\ dirty' = IF Exists(p) THEN dirty \union {p} ELSE dirty
    /\ UNCHANGED <<podVars, netVars, objVars, cache, queue, task, lost, edits>>

Fault == faults < MaxFaults /\ faults' = faults + 1

\* An error ends the container; the kubelet starts it again from the beginning.
Restarts(p) == Becomes(p, "anchors")

StartInit(p) ==
    /\ phase[p] = "live" /\ p \in scheduled /\ box[p] = "none"
    /\ Restarts(p)
    /\ UNCHANGED <<faults, template, secure, anchor, files, addrs, rtVars>>

\* What the container waits for is there; afterwards it writes the
\* configuration, then the Router is awaited, then the Certificate.
Seen(p) ==
    CASE box[p] = "anchors" -> anchor
      [] box[p] = "router"  -> router[p] # "none"
      [] OTHER              -> p \in valid

\* Mutant: a Certificate is awaited without an issuer, too.
After_Cert(p) ==
    CASE box[p] = "anchors" -> "router"
      [] box[p] = "router"  -> "cert"
      [] OTHER              -> "load"

After(p) ==
    CASE box[p] = "anchors" -> "router"
      [] box[p] = "router"  -> IF p \in secure THEN "cert" ELSE "publish"
      [] OTHER              -> "load"

Configured(p) ==
    files' = IF box[p] = "anchors" THEN [files EXCEPT !["config"] = p] ELSE files

Wait(p) ==
    /\ box[p] \in Waiting /\ Seen(p)
    /\ Step(p, After(p)) /\ Configured(p)
    /\ UNCHANGED <<faults, template, secure, anchor, addrs, rtVars>>

\* After 3 s (12 s for the Certificate) the container gives up.
TimeOut(p) ==
    /\ box[p] \in Waiting /\ ~Seen(p)
    /\ Restarts(p)
    /\ UNCHANGED <<faults, template, secure, anchor, files, addrs, rtVars>>

\* A watch that fails also ends the wait, and its error is dropped (let _ = ...)
\* where Router and Certificate are awaited.
WaitFails(p) ==
    /\ box[p] \in {"router", "cert"}
    /\ Fault
    /\ Step(p, After(p))
    /\ UNCHANGED <<template, secure, anchor, files, addrs, rtVars>>

\* Mutant: without its Secrets the forwarder starts with what it finds.
LoadSecrets_Lenient(p) ==
    /\ box[p] = "load"
    /\ IF p \in valid THEN Step(p, "keyFile") ELSE Step(p, "publish")
    /\ UNCHANGED <<faults, template, secure, anchor, files, addrs, rtVars>>

\* The names of the Secrets are in the status, then the Secrets are read.
LoadSecrets(p) ==
    /\ box[p] = "load"
    /\ IF p \in valid THEN Step(p, "keyFile") ELSE Restarts(p)
    /\ UNCHANGED <<faults, template, secure, anchor, files, addrs, rtVars>>

\* ndn.key; then ndn.cert, signer.cert and the trust anchors.
WriteFile(p) ==
    /\ \/ box[p] = "keyFile" /\ Step(p, "certFile") /\ files' = [files EXCEPT !["key"] = p]
       \/ box[p] = "certFile" /\ Step(p, "publish") /\ files' = [files EXCEPT !["cert"] = p]
    /\ UNCHANGED <<faults, template, secure, anchor, addrs, rtVars>>

\* The preferred family, or the other when the node has no such address.
ChosenFaces == IF Family \in addrs THEN {Family} ELSE addrs

\* Mutant: a face that is there is left alone.
Publish_Once(p) ==
    /\ box[p] = "publish"
    /\ \/ /\ router[p] # "none" /\ Becomes(p, "run")
          /\ face' = [face EXCEPT ![p] =
                        IF @ # "no" THEN @
                        ELSE IF ChosenFaces = {} THEN "none"
                        ELSE CHOOSE f \in ChosenFaces : TRUE]
       \/ router[p] = "none" /\ Restarts(p) /\ UNCHANGED face
    /\ UNCHANGED <<faults, template, secure, anchor, files, addrs, valid, online>>

\* Mutant: the result of the patch is dropped, as those of the waits are.
Publish_Dropped(p) ==
    /\ box[p] = "publish"
    /\ Becomes(p, "run")
    /\ face' = IF router[p] = "none" THEN face
               ELSE [face EXCEPT ![p] = IF ChosenFaces = {} THEN "none"
                                        ELSE CHOOSE f \in ChosenFaces : TRUE]
    /\ UNCHANGED <<faults, template, secure, anchor, files, addrs, valid, online>>

\* Merge-patch of innerFace (null without an address) and initialized.
Publish(p) ==
    /\ box[p] = "publish"
    /\ \/ /\ router[p] # "none" /\ Becomes(p, "run")
          /\ face' = [face EXCEPT ![p] = IF ChosenFaces = {} THEN "none"
                                         ELSE CHOOSE f \in ChosenFaces : TRUE]
       \/ router[p] = "none" /\ Restarts(p) /\ UNCHANGED face
    /\ UNCHANGED <<faults, template, secure, anchor, files, addrs, valid, online>>

\* The sidecar's first act; it ends, and is restarted, when the Router is gone.
GoOnline(p) ==
    /\ box[p] = "run" /\ router[p] # "none" /\ p \notin online
    /\ online' = online \union {p}
    /\ UNCHANGED <<vars, nodeVars, valid, face>>

\* An API call fails, the container is killed, or the node reboots, maybe with
\* other addresses: in each case the pod begins with its init container again.
Crash(p) ==
    /\ box[p] \in Waiting \union Writing \union {"run"}
    /\ Fault
    /\ IF box[p] = "run" THEN addrs' \in SUBSET Families ELSE UNCHANGED addrs
    /\ Restarts(p)
    /\ UNCHANGED <<template, secure, anchor, files, rtVars>>

-----------------------------------------------------------------------------
InitStep(p) ==
    \/ StartInit(p) \/ Wait(p) \/ TimeOut(p) \/ LoadSecrets(p) \/ WriteFile(p) \/ Publish(p)
    \/ GoOnline(p)

NodeStep(p) ==
    \/ Place(p) \/ Evict(p) \/ Kill(p)
    \/ InitStep(p) \/ WaitFails(p) \/ Crash(p)

PodNext == SyncStep \/ Issue \/ RollOut \/ \E p \in Pods : NodeStep(p)

\* pod-sync as in PodSync; the scheduler, the kubelet, the DaemonSet controller
\* and the other two controllers do their work; nobody need delete or crash.
PodFairness ==
    /\ WF_allVars(Issue) /\ WF_allVars(RollOut)
    /\ \A p \in Pods :
          /\ WF_allVars(SchedulePod(p) /\ Along)
          /\ WF_allVars(Watch(p) /\ Along) /\ WF_allVars(TaskStep(p) /\ Along)
          /\ WF_allVars(InitStep(p)) /\ WF_allVars(Kill(p))
          /\ WF_allVars(Outdated(p) /\ Evict(p))

PodSpec == PodInit /\ [][PodNext]_allVars /\ PodFairness

-----------------------------------------------------------------------------
(* Properties.                                                             *)

\* The forwarder of a pod never runs on files of the pod before it, which it
\* finds in the same directories of the node, nor on its own half-written ones,
\* whatever timed out, crashed or was dropped on the way (pod_init.rs 330-412,
\* daemonset.rs 206-231).
FilesOwn ==
    \A p \in Pods :
        box[p] = "run" => /\ files["config"] = p
                          /\ p \in secure => files["key"] = p /\ files["cert"] = p

\* While it runs, its Router is initialized with a face the node has: the
\* preferred family when there is one, another only instead of none, and after
\* a reboot the new one.  The Router controller's environment relies on it when
\* it takes an online Router to have been initialized (pod_init.rs 414-470,
\* pod_sidecar.rs 39-55).
FacePublished ==
    \A p \in Pods :
        /\ box[p] = "run" /\ router[p] # "none" =>
             face[p] = IF addrs = {} THEN "none" ELSE IF Family \in addrs THEN Family
                       ELSE CHOOSE f \in addrs : TRUE
        /\ p \in online => face[p] # "no"

\* What pods and pod-sync do to the Routers is what the Router controller takes
\* them to do (RouterLife): no Router is made a second time, none is online before
\* it is initialized, and what its status says goes only with the object, whatever
\* was deleted, restarted or rebooted on either side (pod_sync.rs 22-119,
\* pod_init.rs 424-476, pod_sidecar.rs 39-55).
LifeOf(p) == IF router[p] # "none" THEN router[p] ELSE IF Doomed(p) THEN "gone" ELSE "absent"

Life == INSTANCE RouterLife WITH
    Routers     <- Pods,
    life        <- [p \in Pods |-> LifeOf(p)],
    initialized <- {p \in Pods : face[p] # "no"},
    faced       <- {p \in Pods : face[p] \in Families}

ImplementsLife == Life!LifeSpec

\* A pod that stays gets its Router online, although its waits time out, the
\* issuer is edited back and forth and only events of the pod itself, such as the
\* restarts of its init container, wake pod-sync (pod_init.rs 355-412).
InitCompletes ==
    \A p \in Pods : phase[p] = "live" ~> p \in online \/ phase[p] # "live"
=============================================================================
