# ndn-operator in TLA+

A model of the Kubernetes operator in `src/`: what its controllers, and the
helper programs in its router pods, do to the objects they share; checked with
TLC on small instances, and its invariants proved with TLAPS for every
instance. Source paths below are relative to `src/src/` unless they begin
with `src/`.

## The system

The operator is one process (`main.rs`) that runs six controllers on the same
Kubernetes API server. Each is built by `controller_scaffold!`
(`macros/controller.rs`) on kube-rs: a reflector mirrors the objects of one
kind in a cache, each change queues its object, one task per object reconciles
it (at most one at a time), an error requeues the object after a delay, and a
finalizer keeps a deleted object until `cleanup` has succeeded. Controllers
never call each other. They communicate through objects: one writes a field,
another is woken by the change or reads it later.

| Component | State it keeps | Operations | What has to be right |
| --- | --- | --- | --- |
| Network controller (`network_controller/`) | DaemonSet, RBAC objects, Services, the Network's status | apply the owned objects, report the status, clean up | router pods have their rights before they run; the status is not ahead of what was applied; no edit is lost |
| Pod-sync controller (`pod_controller/`) | Router and Certificate of each router pod, a finalizer on the pod | `pod_apply`, `pod_cleanup` | every scheduled pod gets its Router; nothing outlives the pod; references resolve |
| Router controller (`router_controller/`) | `innerNeighbors` and conditions of each Router | announce the face of an online Router to all others, withdraw it on deletion | every pair of live Routers knows the current face of the other; nobody knows a Router that is gone |
| Neighbor controller (`neighbor_controller/`) | `outerNeighbors` of each Router | write the uri of a Neighbor to the Routers of its network, remove it | all Routers have the current uri; nobody keeps that of a deleted Neighbor; deletion ends |
| Certificate controller (`cert_controller/`) | key Secret, certificate Secret, status | create the key, have the certificate signed, validate, renew; let go what is deleted | the status is backed by the Secrets; signed by the named issuer; everything is issued in the end and renewed in time |
| ExternalCertificate controller (`ext_cert_controller/`) | status | report what a Secret holds | the status tells what the Secret holds |
| Init container (`bin/pod_init.rs`) | the Router's face and `initialized`, files in directories of the node | wait for anchors, Router and Certificate, write files, publish the face | no forwarder runs on files of another pod; the right face is published before the pod goes online; pods that stay get online |
| Sidecar (`bin/pod_sidecar.rs`) | links of the forwarder, `online` | follow the Router's status with `link-create` and `link-destroy` | links are those of the status |
| Injector (`bin/injector.rs`) | none; the manifest it patched may come back | read Network and credentials, patch pods at admission | an admitted pod has what its annotations ask for, once, in the right container |
| Conditions (`conditions.rs`) | the conditions of a status | upsert | the transition time moves with the status only |
| Helpers, crypto, events, telemetry | none | library functions | |

How they meet: Network controller -> DaemonSet -> pods (Kubernetes) -> pod-sync
-> Router and Certificate -> init container (face) and sidecar (online) ->
Router controller -> `innerNeighbors` of the other Routers -> their sidecars ->
links. Neighbor controller -> `outerNeighbors` -> the same sidecars. Certificate
and ExternalCertificate status -> issuing of other Certificates -> the init
container's key files. Deletion runs the same way backwards, each step held by
a finalizer or done by the garbage collector.

What is hard, and hardly tested: a pass reads its object from a cache and makes
several calls, between which the object, its peers and the process itself may
change; every call may fail, after others have succeeded; nothing but the
controller's own kind of object (and a timer) wakes it; patches fail in their own
way (JSON-patch `add` under a status that is not there, `remove` of an entry that is not
there, POST of a name that is taken); the sidecar starts before the program it
commands. `PROJECT.json` lists these hazards, each at its line.

## The modules

| Module | Models | Runs |
| --- | --- | --- |
| `RouterController` | Router controller, with the life of Routers and what their pods publish | RouterController, RouterLive |
| `RouterMesh` | what the Router controller promises, without cache, queue and tasks | as property `ImplementsMesh` |
| `RouterLife` | the life of a Router, as the Router controller takes it: creation, publications, deletion | as property `ImplementsLife` of RouterPod |
| `CertController` | Certificate controller, a clock, imported issuers, the garbage collector | CertChain, CertIssued, CertExpiry |
| `CertTrust` | what a reader of a Certificate's status may rely on, without cache, queue and passes | as property `ImplementsTrust` of CertIssued |
| `ExtCertController` | ExternalCertificate controller, Secrets, a clock | ExtCert |
| `NeighborController` | Neighbor controller, with Routers that come and go | Neighbor, NeighborStuck |
| `PodSync` | pod-sync controller, with the life of pods | inside RouterPod |
| `RouterPod` | the pods of a node, one after the other: PodSync composed with the DaemonSet's roll-out, kubelet, init container and going online | RouterPod |
| `Sidecar` | sidecar and ndnd | Sidecar |
| `NetworkController` | Network controller, the garbage collector | Network |
| `Conditions` | the upsert of conditions, as an operator | used by NetworkController |
| `Injector` | the admission webhook, with manifests that are submitted again | Injector |
| `<module>Proofs` | theorems and proofs about it; all but RouterMesh, RouterLife, CertTrust and Conditions have one, that of PodSync is `RouterPodProofs` | tlapm |

`MC<module>` extends a module where its run needs more than constants: symmetry, maps
between model values, initial states. `RouterPod` EXTENDS `PodSync`: each action of
PodSync is taken together with `Along`, which says what goes with the objects
it deletes, and `RouterPodProofs` shows that every step of the composition is
one of PodSync or leaves it alone, so that PodSync's theorems carry over.

### State and actions

The controllers share one shape. Of the **API server** a module keeps the fields
the code reads or writes: the life of the object (`absent`, `live`, `deleting`,
`gone`), its finalizer, its spec as far as the properties tell specs apart, its
status. Of the **runtime** it keeps `cache` (the object as last seen), `dirty`
(a watch event is on its way), `queue`, and `task`: the pass under way, with a
program counter, the values it has read, and the Routers it still has to patch.

* `Watch` delivers the latest version, replacing any that were skipped: watch
  events for one object are coalesced. The interval between a change and its
  `Watch` is where reads are stale.
* `Start...` takes an object from the queue and reads the cache once, as
  `reconcile(self: Arc<Self>)` does. One action follows per API call, in the order
  of the code, and after each of them everything else may run.
* `CallFails` is any API call of the pass that returns an error; the error policy
  requeues. Delays of requeues are left out where nothing but their end matters;
  in `CertController`, which sleeps until a date, they are timers.
* `Restart` ends the process at any point: tasks, cache and queue are lost and the
  initial list queues all objects.
* A pass that finds its object gone, or a patch that the API server refuses for
  a reason in the state, fails by the guard of that very action.
* kube's `finalizer()` is modelled as it behaves: without finalizer the first pass
  only adds it; with one, `Apply` or `Cleanup`; removal is guarded by a test and
  fails when the object is no longer there.

Three choices are more general than the code. Loops over a list take its members in
any order. A patch that writes fresh timestamps (second resolution) may or may
not count as a change of the object (`PatchConditions`). Names are not reused,
which holds for pods of a DaemonSet; a Neighbor or Certificate created again under
its old name is not modelled.

By module:

* **RouterController.** `inner[q][r]` is the face of `r` in the map of `q`; faces are
  numbered by publication, and `addr` tells whether the last one held an address or
  was null (`innerFace` of a pod without one in the family of the mesh), in which case
  the peers are left with what they have. `CreateRouter`, `DeleteRouter`, `PublishFace`
  and `GoOnline` are pod-sync, the init container and the sidecar, with the guards of
  `Create`, `Forgo` and `Delete`, `Publish`, `GoOnline` of RouterLife, which the pods
  are shown to keep to. `StartApply`,
  `ListPeers`, `Propagate`, `ReportSynced`, `ReportOffline` are `reconcile`
  (`router.rs` 96-293), `StartCleanup`, `ListHolders`, `Retract`, `Release`
  are `cleanup` (296-372).
* **CertController.** A key Secret is there or not; a certificate is who signed it,
  until when, and the end of the signer's certificate bundled with it.
  `StartKey`/`CreateKey`, `StartIssue`/`ResolveIssuer`/`Sign`,
  `StartValidate`, `PatchStatus` are the branches of `reconcile` and its
  `create_key`, `create_cert`, `validate_cert`; finalizer and garbage collection
  frame them. `Tick` advances the clock at any moment, also within a pass. The
  issuer, of a supported kind or not, is chosen when the object is created. An
  issuer without a status is an error and goes to the error policy, one whose status
  has no key or certificate yet ends the pass with a retry after 5 s
  (`HasStatus`, `IssuerReady`); `external` tells these apart for imported ones, and
  an import stays what it was first. The comment at
  `reconcile.rs` 34-35 says that the watcher suppresses changes of the status only;
  the configuration it means (`cert_controller/main.rs` 22, `any_semantic`) only lets lists
  be served from a cache, so that each status patch that changes something wakes
  the controller, in the model as in the code.
* **ExtCertController.** A Secret has a readable key or not, and a certificate
  told by its end. `stale` is a history variable: Secrets edited since they were
  last read. As the status is made from the one before, it could mix two
  Secrets: `keyIn` and `certIn` are the Secrets that its fields were taken from.
* **NeighborController.** Specs of a Neighbor are numbered by edit; Routers go
  from no object to no status, to a status, to gone. Two history variables: `moved`,
  the Neighbors whose network was edited, and `there`, per Neighbor the Routers that
  were there when it was made or last edited.
* **PodSync.** Router and Certificate are present or not; `certRef` is
  `spec.cert` of the Router. The two deletions drop their error in the code
  (`let _ =`); `lost` remembers the pods it happened to. `unseen` is a history
  variable: the pods whose controller has not read the Network since its issuer was
  last edited, which wakes nobody (`EditIssuer`). `PodChanges` is the
  kubelet writing the pod's status, which wakes the controller.
* **RouterPod.** `box` is where the containers of a pod are: `anchors`, `router`,
  `cert` are the waits of `pod_init.rs` (`Wait`, `TimeOut`, `WaitFails`), `load`,
  `keyFile`, `certFile`, `publish` its reads and writes, `run` the other containers.
  `files` tells which pod wrote the configuration, the key and the certificate
  last; a pod has `secure` if its template was made for a Network with an
  issuer. A container that ends in error begins again from the start, and that
  is an event of the pod (`Becomes`). `Issue`, `RollOut`, `Place`, `Evict`, `Kill`
  stand for the other controllers, the DaemonSet and the kubelet.
* **Sidecar.** One process with a queue of watch events and a set of commands still to
  run; ndnd, in the container beside it, listens or not. Commands sent while it
  does not listen are lost without notice; `missed` remembers that since the
  sidecar's last start.
* **NetworkController.** Owned objects are told by the generation of the spec that
  made them; time is the parity of the second, enough to tell whether a timestamp
  moved. Conditions are records with status, generation and transition time,
  made by `Upsert` of `Conditions`.
* **Injector.** A request goes through `GetNetwork`, one `Resolve` per credential and
  `Respond`, and `Change` may edit a Network or a credential between any two. A
  manifest is three lists of named things (volumes; mounts and variables per
  container), each remembering where it comes from; the order of a list is left out,
  and that no name is in it twice is part of what is checked (`WellFormed`). `seen` is a history
  variable: what was valid at some time since the submission; `targets`, the
  containers that were ever selected.

## What the runs show

Ten passing runs and two violations; each property has a mutant, a plausible bug
in one mapped definition that TLC finds with that property.

| Run | Instance | Shows |
| --- | --- | --- |
| RouterController | 2 Routers, 2 publications each, 1 fault or missing address, symmetry; 1.2 M states | `NoGhostNeighbor`, `SettledMesh`, `SettledConditions`, and that every step is one of RouterMesh (from which `FaceNeverRegresses` follows) |
| RouterLive | 2 Routers, 1 publication each with an address, 1 fault | `MeshConverges`: the mesh forms; `DeletionCompletes` |
| CertChain | root and leaf, an external issuer that root may name, an unsupported one that the leaf may name, a clock up to 4 with certificates valid for 2, 1 fault; 0.9 M states | `StatusBacked`, `SleepsOnlyWhenIssued` |
| CertIssued | the same without the unsupported issuer, one deletion, a clock up to 2, no fault; 0.25 M states | `EveryCertIssued`: in any order of creation, certificates are issued, and renewed once a pass has marked them, for chains whose issuers are there to stay; and that every step is one of CertTrust |
| ExtCert | 2 Secrets, 1 edit of the spec, 1 of a Secret, 1 fault | `SettledImport`, `LateSecretImported` |
| Neighbor | 1 Neighbor, 2 networks, 3 Routers, 2 edits, of the uri or the network, 2 faults; 1.7 M states | `NoGhostOuter`, `SettledUri`, `EarlyReach` |
| RouterPod | 1 pod on a node that starts with both address families, 1 edit of the issuer, 1 fault (crash, failed call, reboot, restart) or lost deletion; 0.2 M states | `SettledPod`, `NoOrphanRouter`, `RefResolves`, `FilesOwn`, `FacePublished`, `DeletionCompletes`, `InitCompletes`, and that every step is one of RouterLife |
| Sidecar | 2 entries, 2 uris, 3 changes, 2 crashes on either side | `LinksComplete`, `NoStaleLink`, `LinksConverge` |
| Network | 2 generations with any set of faces, 2 faults | `RightsFirst`, `ReadyBacked`, `SettledApplied`, `DeletionCompletes` |
| Injector | 2 containers, 2 Networks, 2 credentials, annotations of every kind, 2 submissions, 1 change | `AsRequested` |
| CertExpiry | 1 self-signed Certificate | violates `ExpiryNoticed` |
| NeighborStuck | 1 Neighbor, 2 Routers | violates `DeletionCompletes` |

Three larger instances are kept beside them, for invariants only: RouterGrow (3
Routers, two of them meshed already, 1 fault; 2.1 M states) on
`MCRouterController`, PodSync (2 pods, 1 edit, 1 fault, 1 lost deletion; 2.8 M states) on
`PodSync`, RouterPods (2 pods, one after the other, symmetry, no fault; 3.9 M states)
on `MCRouterPod`. All three pass.

"Settled" properties speak of states in which the controller has nothing left to
do for an object: no event on its way, nothing queued, no pass. They are how an
edit lost between a cache read and a patch shows up.

**Bounds.** `MaxFaults` counts failed calls and restarts together, in
RouterController also the publications without an address. One fault at any
point of any pass, followed by a clean retry, already meets every half-done
state, since a pass has no memory of the one before; Network is
run with two, to have a failure during the repair. Two values of a face,
uri, generation are enough to tell new from old; two Routers enough for
every pair property of RouterController (all its invariants quantify over pairs),
and RouterGrow adds the case that a pass has two peers and fails between them.
RouterGrow starts in the quiet state that a run of `Spec` reaches when its two
Routers have been created (with MaxFace = 1); the proofs need no such start. Clocks run
over the whole life of a certificate and past its renewal in CertChain; its last tick
waits until all is settled (the action constraint `Dusk`; without it the run passes
too, with 4.5 M states). In RouterPod a lost deletion and a fault exclude each other
(`OneMishap`). In Sidecar three changes let an entry come, change and go; two entries let two
share a uri. In RouterPod the files a pod finds at first are somebody else's
(`None`), so one pod already meets the files of the pod before it; RouterPods and
the proofs have more pods. The Injector's second submission is that of a manifest
patched before. All configurations say `CHECK_DEADLOCK FALSE`: with the bounds used up and
all objects settled or gone, nothing is left to do.

**Provisos.** Some properties state what holds in the presence of a known flaw, so
that the rest of the behaviour stays checked; without the proviso they fail (last
section): `SettledImport` presumes that the Secret was not edited since it was
read, `LinksComplete` and `LinksConverge` that ndnd missed no command,
`NoStaleLink` that the sidecar has not restarted, `NoOrphanRouter` and
`RefResolves` exclude the pods with a lost deletion, `SettledPod` leaves the
certificate open for a pod that is `unseen`, `EarlyReach` excludes the Routers that
came after the Neighbor was made or last edited. `Confined` in `AsRequested` exempts the containers that
were selected in an earlier submission. `NoGhostOuter` and `SettledUri` exclude the
Neighbors that were moved to another network (`moved`), `EarlyReach` does not.
CertIssued has no fault.

**Fairness.** Weak fairness of `Watch` and of the steps of each object's task:
the reflector re-lists when its connection breaks and the tokio runtime polls
every ready task, so that an event on its way is delivered and a pass that can
go on does. Errors are retried for ever. Nothing is assumed about users, pods, failures or
restarts, which are bounded instead. In RouterPod the steps of the init container,
the scheduler, the kubelet's `Kill` and the roll-out that replaces an outdated pod are fair,
and the Certificate controller issues what it is asked for (`Issue`); crashes and
failed watches are not. A time-out is a step like a success and may be taken whenever
what is awaited is not there yet. The clock ticks fairly in the certificate
modules, timers fire when due (`Wake`), the garbage collector and the restart of
containers are Kubernetes' (`CollectGarbage`, `NdndStart`), and the Neighbor module
assumes that a Router created gets its status, which its own controller and pod
see to.

## What is proved

Every invariant of the passing runs is a theorem of its
specification, for any sets of objects and any bounds in Nat, besides the named
assumptions of the modules:

| Module | Theorems | States |
| --- | --- | --- |
| `RouterControllerProofs` | `TypeCorrect`, `NoGhosts`, `MeshIsComplete`, `ConditionsHold` | `TypeOK`, `NoGhostNeighbor`, `SettledMesh`, `SettledConditions` |
| | `FacesInOrder`, `Refinement` | `FaceNeverRegresses`; `ImplementsMesh`: the controller implements RouterMesh |
| `CertControllerProofs` | `TypeCorrect`, `StatusIsBacked`, `SleepsIssued` | `TypeOK`, `StatusBacked`, `SleepsOnlyWhenIssued` |
| | `TrustIsKept` | `ImplementsTrust`: the controller implements CertTrust |
| `ExtCertControllerProofs` | `TypeCorrect`, `ImportsSettle` | `TypeOK`, `SettledImport` |
| `NeighborControllerProofs` | `TypeCorrect`, `NoGhosts`, `UrisCurrent`, `EarlyReached` | `TypeOK`, `NoGhostOuter`, `SettledUri`, `EarlyReach`, in any number of networks |
| `RouterPodProofs` | `TypeCorrect`, `RoutersMade`, `RoutersGo`, `RefsResolve` | `TypeOK`, `SettledPod`, `NoOrphanRouter`, `RefResolves`, for pod-sync alone |
| | `PodTypeCorrect`, `SyncInComposition`, `OwnFiles`, `RightFace` | `PodTypeOK`; pod-sync's three invariants in the composition; `FilesOwn`, `FacePublished` |
| | `LivesAsAssumed` | `ImplementsLife`: the pods of a node implement RouterLife |
| `NetworkControllerProofs` | `TypeCorrect`, `RightsAreFirst`, `StatusBacked`, `EditsApplied` | `TypeOK`, `RightsFirst`, `ReadyBacked`, `SettledApplied` |
| `SidecarProofs` | `TypeCorrect`, `LinksAreComplete`, `NoLinkIsStale` | `TypeOK`, `LinksComplete`, `NoStaleLink` |
| `InjectorProofs` | `TypeCorrect`, `Admitted` | `TypeOK`, `AsRequested` |

That a certificate is signed by the issuer of its spec is `SignedByIssuer`, and is
neither run nor proved: an issuer in another namespace breaks it (CertCross).

The invariants the runs check are seldom inductive. The strengthenings share three ideas:

* **The cache lags, but only with an event on its way** (`CacheOK` in every
  module): it equals the object unless the object is dirty, and it never shows a
  finalizer or a deletion that has not happened. Hence a pass that starts on a clean cache
  works on the latest object.
* **Doomed** (Neighbor, PodSync; `DoneOK` in Network): once an object is being
  deleted, no pass applies it and the cache shows the deletion, so no pass will.
  That is what makes a cleanup final, whatever is interrupted.
* **Quiet**: "settled" is strengthened to "no event, nothing queued, but maybe a
  pass": then the pass works on the latest spec and what remains wrong is in the part
  of its list that it has not patched yet. A failed call makes the object queued,
  so it needs no case of its own.

*RouterController.* `NoGhostNeighbor` rests on `Inv`: `CacheOK(r)`;
`TaskOK(r)`: an applying task works on an object that exists with its
finalizer, and announces a face no older than any it announced before, a
cleaning task on one whose deletion the cache knows too; `EntryOK(q, r)`: an entry
names a Router that exists with its finalizer, by a face the cache has seen, and,
while the cleanup of `r` patches, is one it has listed. `SettledMesh` needs more:
a pass of `r` that ran before `q` was online does not tell `q`, and nothing in `q` makes
`r` run again but what `q` writes into it. `QuietInv` and `PairInv` say why the
pair is complete all the same: of two Routers that have both gone through, the later one saw
the earlier one in its list, told it, and by telling it changed its status, which woke
it. The two are inductive only together with `Inv`.

*CertController.* The status in the object, the one in the cache and the one a pass
is about to write are all backed by the Secrets (`BackedOK`), as a pass writes
Secrets before status and reads its status at its start. The refinement of CertTrust needs that a pass takes nothing back,
although it writes the whole status from one that may be older than that of the pass
before. Key and certificate stay stored as long as the object is there, so a pass
that found them missing in an old status would have to make them: the key is a
conflict, and a certificate made again is announced like the first. What remains is
the pass that ends with the status as it was, because the issuer is not ready.
`TrustOK` excludes it for a certificate that is stored: its issuer was ready when it
was signed, and stays so for as long as it is there (`Vouched`), by the same
argument for that issuer. The end is the exception that CertTrust
grants (`Tell`): a pass whose cache has only caught up with an earlier issue validates that
one, and `valid_until` falls back to its end until the next pass.

*NetworkController.* `PassOK` says what a pass has applied when it has come to each
step, `StatusOK` that conditions are all absent or all of one generation no newer than
the DaemonSet's; with both, a true condition is never ahead of the objects, also
after a failure between any two calls.

*Sidecar.* `Latest`, the neighbors it will have when it is through with all queued
events, always equals the status (`ToldOK`); `PassOK` and `LinksOK` account for each
link by the commands already sent.

*RouterPod.* Every step is a step of PodSync or one that it does not notice
(`Quiet`), so its invariant carries over; `OneActive` (one pod of the node at a
time has containers) and `FilesOK` (what is in the files at each step of
the init container) give `FilesOwn`; that a Router deleted under a running pod does not
come back (`Doomed`) gives `FacePublished`. The refinement of RouterLife maps a
Router that is not there to `gone` if its pod is doomed and to `absent` if not. That a doomed
pod stays so is what makes a Router come once; that nothing can be published
or go online without a Router is the other half (`FaceOK`).

*Injector.* `AsRequested` speaks of an admitted pod only; what makes it true is
true of any manifest at any time: it is well formed, and no container holds a
credential without having been selected (`WellFormed`, `Confined`). `Reviewed` adds
that what a review has found so far was valid since the submission, Secret by
Secret in the order of the references; `Respond` puts that into the manifest, and as
nothing but the next submission changes request and manifest, an admitted pod keeps it.

Only model-checked: liveness, which the prover's backends do not reach under
fairness (nor ENABLED).

## Where code and comments part

Two runs show the code disagreeing with its own comments, and further
configurations are kept for the others: they check the property named, on the
same modules, and TLC ends with the counterexample.

| Configuration | Property | What happens |
| --- | --- | --- |
| CertExpiry (a run) | `ExpiryNoticed` | `cert_controller/reconcile.rs:67`: an expired certificate not yet marked for renewal makes the time left negative, an error before `validate_cert` is reached; `valid` stays true (`types.rs:110`: "currently valid (not expired)") |
| NeighborStuck (a run) | `DeletionCompletes` | `neighbor_controller/neighbor.rs:99`: `remove` is sent to each Router listed and fails where there is no entry (`:98`: "Remove only if present") |
| CertLapse | `NeverLapses` | `reconcile.rs:70`: the next look is at `valid_until`, never inside the renewal window (`types.rs:35`) |
| CertKeyLost | `KeyAnnounced` | `reconcile.rs:394`: a key Secret whose announcement failed is POSTed again, a conflict for ever (`types.rs:67`) |
| CertSigner | `OwnSigner` | `reconcile.rs:314`: a self-signed renewal bundles the certificate stored before it as that of the signer (`:317`) |
| CertCross | `SignedByIssuer` | `reconcile.rs:288`: Secrets of an issuer in another namespace are looked up in the own one (`types.rs:55`) |
| NeighborLate | `SettledReach` | `neighbor.rs:60`: a Router created after the pass is not told (`:39`) |
| NeighborMoved | `SettledNetwork` | `neighbor.rs:56`: Routers of the network named before keep the entry (`:39`) |
| PodOrphan | `RouterGoes` | `pod_controller/pod_sync.rs:95`: a failed delete is dropped, the finalizer released (`:74`) |
| SidecarStale | `StaleNever` | `bin/pod_sidecar.rs:60`: links created in an earlier life are not destroyed (`:57`) |
| SidecarRace | `LinksAlways` | `pod_sidecar.rs:78`: the exit status is not looked at; a `link-create` before ndnd listens is lost (`:57`) |
| ExtCertStale | `ImportCurrent` | `ext_cert_controller/reconcile.rs:104`: an edited Secret is not noticed (`cert_controller/types.rs:147`) |
| ExtCertExpiry | `ExpiryNoticed` | same line: nor is the end of its certificate (`types.rs:110`) |
| ExtCertReady | `ReadyHasKey` | `:151`: Ready without a key (`types.rs:150`: "key and cert are present") |
| NetworkFaces | `SettledFaces` | `network_controller/network.rs:359`: the Service of a face taken out stays (`:94`) |
| NetworkImage | `OwnImage` | `network.rs:294`: a failed look-up of the own image rolls out the default image (`:87`) |
| InjectorCopied | `OnlyTarget` | `bin/injector.rs:449`: the manifest of an admitted pod, submitted again for another container, keeps the mounts of the first (`src/README.md:85`: "the only container receiving credential mounts") |
| NetworkConditions | `TransitionTimeKept` | `network.rs:323`: conditions are built from none, so each pass moves the transition time (`conditions.rs:58`), which wakes the next pass |

## What is not modelled

* Edits of a Certificate's `spec.issuer`: the code looks at it only when it signs, so the
  certificate stays with the old signer until it is renewed. Intervals below the renewal
  window, where every pass issues anew, are in the model and the proofs but in no run.
* Two operators during a rolling update of the operator itself (one replica, no leader
  election: `src/charts/ndn-operator/templates/controller-deployment.yaml`); each model
  has one instance of its controller.
* The whole mesh of pods at once: RouterController takes pods as what they publish
  (the life RouterPod is proved to implement, RouterLife, with `FacePublished`) and Sidecar takes the Router's status as given; a product of the
  three is beyond TLC at two pods with a fault.
* The text of the forwarder's configuration and the commands it is started with;
  in the injector, the TLS set-up, the decoding of the admission review and a mount
  of the user's that has the path of one of ours.
* Crypto (an external program), flags, HTTP and telemetry (`main.rs`: no state but
  which controllers run), CRD generation, charts: pure functions, I/O or data.
* Lists served from the API server's watch cache (`any_semantic`) older than the
  last write: lists are taken as current.

## Plan

The order in which the project was built: RouterController with RouterMesh and its
proofs; the other controllers; RouterPod on PodSync, Conditions and Injector; the
proofs of every invariant. What would come next: two instances of the Router controller on
one set of objects, as in a rolling update; the issue of a Certificate whose issuer is
edited; an abstract specification for PodSync (one Router per pod, one Certificate
while the Network has an issuer) with a refinement like that of RouterMesh.

## Running

    tlc -workers 2 -config RouterController.cfg MCRouterController.tla
    tlapm RouterControllerProofs.tla
    tlc -workers 2 -config CertLapse.cfg MCCertController.tla     # a counterexample of the table above
