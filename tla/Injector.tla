------------------------------ MODULE Injector -------------------------------
(***************************************************************************)
(* The admission webhook (src/src/bin/injector.rs).  A pod that names a    *)
(* Network in its annotations is given the socket of the Network's         *)
(* forwarder, and one of its containers the credentials that it names.     *)
(* Network and credentials are read one by one, while they change.         *)
(*                                                                         *)
(* A manifest may be submitted again, with other annotations: after a      *)
(* refusal, or as a copy of a pod that was admitted, patch and all.        *)
(***************************************************************************)
EXTENDS Naturals, Sequences

CONSTANTS
    Containers,   \* of the pod
    Networks,
    Creds,        \* Certificates and ExternalCertificates, and ...
    Malformed,    \* ... an annotation that is not a reference to one
    None,         \* an annotation left out; no such object
    Requests,     \* annotations that are tried
    MaxSubmits,   \* pods submitted
    MaxChanges    \* changes of Networks and credentials

Uses == {"signing", "anchors", "chain"}

\* The references are resolved in this order.
Earlier == [signing |-> {}, anchors |-> {"signing"}, chain |-> {"signing", "anchors"}]

\* net is a name with its namespace, container a name that may be in no pod.  No
\* list is empty: an empty annotation is a list of one empty item.
References  == Seq(Creds \union {Malformed}) \ {<<>>}
Annotations ==
    [net : Networks \union {None}, container : STRING \union {None},
     signing : Creds \union {Malformed, None},
     anchors : References \union {None}, chain : References \union {None}]

ASSUME InjectorAssumption ==
    /\ Malformed \notin Creds /\ None \notin Creds \union Networks \union {Malformed}
    /\ Containers \subseteq STRING /\ Requests \subseteq Annotations
    /\ MaxSubmits \in Nat /\ MaxChanges \in Nat

VARIABLES
    prefix,      \* spec.prefix of each Network, None when there is no Network
    cred,        \* each credential
    manifest,    \* the pod as it is submitted, or was admitted last
    request,     \* its annotations
    pc,          \* idle, review, resolve
    found,       \* the prefix, and the Secrets resolved so far for each use
    outcome,     \* none, skipped, denied, admitted
    \* History: what was valid at some time since the submission, and the
    \* containers that were ever given credentials.
    seen, targets,
    submits, changes

reviewVars == <<request, pc, found>>
worldVars  == <<prefix, cred>>
vars == <<worldVars, manifest, reviewVars, outcome, seen, targets, submits, changes>>

\* The Secret named in the status of c; its name changes with spec.secretName.
Secret     == Creds \X (0 .. 1)
Credential ==
    [state : {"absent", "noStatus", "notReady", "ready"}, key : BOOLEAN, secret : 0 .. 1]
Prefix     == 0 .. 1

SecretOf(c) == <<c, cred[c].secret>>

NoRequest == [net |-> None, container |-> None, signing |-> None,
              anchors |-> None, chain |-> None]
Nothing   == [prefix |-> None, signing |-> <<>>, anchors |-> <<>>, chain |-> <<>>]

\* Three lists of named things, whose order is left out.  The second part tells
\* where a volume or a value comes from: None for the user.
Manifest(volumes, mounts, env) == [volumes |-> volumes, mounts |-> mounts, env |-> env]
Thing(name, from)              == <<name, from>>

\* The user's own volume, mounts and variables, one of them with our name.
PlainPod ==
    Manifest({Thing("own", None)},
             [c \in Containers |-> {Thing("own", None)}],
             [c \in Containers |-> {Thing("prefix", None), Thing("own", None)}])

Volumes   == {"own", "socket"} \union Uses
Variables == {"own", "transport"} \union Uses

TypeOK ==
    /\ prefix \in [Networks -> Prefix \union {None}]
    /\ cred \in [Creds -> Credential]
    /\ \A v \in manifest.volumes : v \in Volumes \X ({None} \union Networks \union Seq(Secret))
    /\ \A c \in Containers :
          /\ manifest.mounts[c] \subseteq Volumes \X ({None, "socket"} \union Uses)
          /\ \A e \in manifest.env[c] :
                e \in Variables \X ({None, "socket"} \union Uses) \/ e \in {"prefix"} \X (Prefix \union {None})
    /\ request \in Annotations
    /\ pc \in {"idle", "review", "resolve"}
    /\ found \in [prefix : Prefix \union {None}, signing : Seq(Secret),
                  anchors : Seq(Secret), chain : Seq(Secret)]
    /\ outcome \in {"none", "skipped", "denied", "admitted"}
    /\ seen \subseteq (Secret \X BOOLEAN) \union (Networks \X Prefix)
    /\ targets \subseteq Containers
    /\ submits \in 0 .. MaxSubmits /\ changes \in 0 .. MaxChanges

Init ==
    /\ prefix \in [Networks -> {0, None}]
    /\ cred \in [Creds -> {s \in Credential : s.secret = 0}]
    /\ manifest = PlainPod
    /\ request = NoRequest /\ pc = "idle" /\ found = Nothing
    /\ outcome = "none" /\ seen = {} /\ targets = {}
    /\ submits = 0 /\ changes = 0

-----------------------------------------------------------------------------
(* Networks and credentials, and who submits pods.                         *)

Valid(networks, creds) ==
    {<<n, networks[n]>> : n \in {m \in Networks : networks[m] # None}}
    \union {<<<<c, creds[c].secret>>, creds[c].key>> : c \in {d \in Creds : creds[d].state = "ready"}}

Change ==
    /\ pc # "idle" /\ changes < MaxChanges /\ changes' = changes + 1
    /\ \/ \E n \in Networks, x \in Prefix \union {None} :
             prefix' = [prefix EXCEPT ![n] = x] /\ UNCHANGED cred
       \/ \E c \in Creds, s \in Credential :
             cred' = [cred EXCEPT ![c] = s] /\ UNCHANGED prefix
    /\ seen' = seen \union Valid(prefix', cred')
    /\ UNCHANGED <<manifest, reviewVars, outcome, targets, submits>>

Submit ==
    /\ pc = "idle" /\ submits < MaxSubmits /\ submits' = submits + 1
    /\ request' \in Requests
    /\ pc' = "review" /\ found' = Nothing /\ outcome' = "none"
    /\ seen' = Valid(prefix, cred)
    /\ UNCHANGED <<worldVars, manifest, targets, changes>>

-----------------------------------------------------------------------------
(* mutate_handler and mutate.                                              *)

Answer(o) == pc' = "idle" /\ outcome' = o

\* A pod that names no Network.
Skip ==
    /\ pc = "review" /\ request.net = None
    /\ Answer("skipped")
    /\ UNCHANGED <<worldVars, manifest, request, found, seen, targets, submits, changes>>

List(annotation) == IF annotation = None THEN <<>> ELSE annotation

\* The references in the annotations, for each use.
Asked(r) == [signing |-> IF r.signing = None THEN <<>> ELSE <<r.signing>>,
             anchors |-> List(r.anchors), chain |-> List(r.chain)]

AsksAny(r) == \E u \in Uses : Asked(r)[u] # <<>>

\* parse_credential_request: a container is named and every reference is one.
WellPut(r) ==
    AsksAny(r) => /\ r.container # None
                  /\ \A u \in Uses : \A i \in DOMAIN Asked(r)[u] : Asked(r)[u][i] \in Creds

GetNetwork ==
    /\ pc = "review" /\ request.net # None
    /\ IF prefix[request.net] # None /\ WellPut(request)
       THEN /\ found' = [found EXCEPT !.prefix = prefix[request.net]]
            /\ pc' = "resolve"
            /\ UNCHANGED outcome
       ELSE Answer("denied") /\ UNCHANGED found
    /\ UNCHANGED <<worldVars, manifest, request, seen, targets, submits, changes>>

Resolved(u) == Len(found[u]) = Len(Asked(request)[u])

\* resolve_certificate, validate_resolved_certificate: the next reference.  A
\* signing credential must have its key, too.
Resolve(u) ==
    /\ pc = "resolve" /\ ~Resolved(u) /\ \A w \in Earlier[u] : Resolved(w)
    /\ LET c  == Asked(request)[u][Len(found[u]) + 1]
           ok == cred[c].state = "ready" /\ (u = "signing" => cred[c].key)
       IN  IF ok
           THEN /\ found' = [found EXCEPT ![u] = Append(@, SecretOf(c))]
                /\ UNCHANGED <<pc, outcome>>
           ELSE Answer("denied") /\ UNCHANGED found
    /\ UNCHANGED <<worldVars, manifest, request, seen, targets, submits, changes>>

\* A call fails, or the API server has waited for 5 s.
Fail ==
    /\ pc # "idle" /\ request.net # None
    /\ Answer("denied")
    /\ UNCHANGED <<worldVars, manifest, request, found, seen, targets, submits, changes>>

-----------------------------------------------------------------------------
(* build_patch.                                                            *)

\* Mutant: a thing that is there already is left as it is.
Upsert_Absent(list, things) ==
    list \union {x \in things : \A y \in list : y[1] # x[1]}

\* upsert_volume, upsert_volume_mount, upsert_env, for things of different names.
Upsert(list, things) ==
    {y \in list : \A x \in things : y[1] # x[1]} \union things

Found == {u \in Uses : found[u] # <<>>}

\* Mutant: the name of the Network for its prefix.
NewEnv_Name == {Thing("transport", "socket"), Thing("prefix", request.net)}

NewEnv == {Thing("transport", "socket"), Thing("prefix", found.prefix)}

NewVolumes == {Thing("socket", request.net)} \union {Thing(u, found[u]) : u \in Found}
NewMounts  == {Thing("socket", "socket")}
CredThings == {Thing(u, u) : u \in Found}

\* Mutant: every container is given the credentials.
IsTarget_Any(c) == AsksAny(request)

IsTarget(c) == AsksAny(request) /\ c = request.container

Given(c) == IF IsTarget(c) THEN CredThings ELSE {}

Patched ==
    Manifest(Upsert(manifest.volumes, NewVolumes),
             [c \in Containers |-> Upsert(manifest.mounts[c], NewMounts \union Given(c))],
             [c \in Containers |-> Upsert(manifest.env[c], NewEnv \union Given(c))])

Respond ==
    /\ pc = "resolve" /\ \A u \in Uses : Resolved(u)
    /\ IF AsksAny(request) => request.container \in Containers
       THEN /\ manifest' = Patched
            /\ targets' = targets \union {c \in Containers : AsksAny(request) /\ c = request.container}
            /\ Answer("admitted")
       ELSE Answer("denied") /\ UNCHANGED <<manifest, targets>>
    /\ UNCHANGED <<worldVars, request, found, seen, submits, changes>>

Next ==
    \/ Change \/ Submit \/ Skip \/ GetNetwork \/ Fail \/ Respond
    \/ \E u \in Uses : Resolve(u)

Spec == Init /\ [][Next]_vars

-----------------------------------------------------------------------------
(* Properties.                                                             *)

Has(list, name) == \E t \in list : t[1] = name
Unique(list)    == \A s, t \in list : s[1] = t[1] => s = t

\* What the API server demands of a pod: names are unique, mounts have volumes.
\* And the user's own things are kept.
WellFormed ==
    /\ Unique(manifest.volumes)
    /\ \A c \in Containers :
          /\ Unique(manifest.mounts[c]) /\ Unique(manifest.env[c])
          /\ \A m \in manifest.mounts[c] : Has(manifest.volumes, m[1])
          /\ Thing("own", None) \in manifest.mounts[c] \intersect manifest.env[c]

\* The socket and the prefix are those of the Network named now, as it was at
\* some time since the submission, in every container.
NetworkOfNow ==
    /\ Thing("socket", request.net) \in manifest.volumes
    /\ \A c \in Containers :
          /\ Has(manifest.mounts[c], "socket")
          /\ \E x \in Prefix : /\ <<request.net, x>> \in seen
                               /\ Thing("prefix", x) \in manifest.env[c]

\* s was the Secret of c, which was ready, with its key when it signs, at some
\* time since the submission.
WasValid(u, c, s) == /\ s[1] = c
                     /\ \E k \in BOOLEAN : <<s, k>> \in seen /\ (u = "signing" => k)

\* The Secrets are those of the credentials named now, one for each reference in
\* its place.
CredentialsOfNow ==
    \A u \in Uses :
        LET asked == Asked(request)[u]
        IN  asked # <<>> =>
              /\ \E v \in manifest.volumes :
                    /\ v[1] = u /\ Len(v[2]) = Len(asked)
                    /\ \A i \in DOMAIN asked : WasValid(u, asked[i], v[2][i])
              /\ Has(manifest.mounts[request.container], u)

\* A container that was never selected holds no credential.
Confined ==
    \A c \in Containers \ targets, u \in Uses : ~Has(manifest.mounts[c], u)

\* An admitted pod has what its annotations ask for, whatever its manifest had
\* from an earlier admission and whatever changed between two reads
\* (injector.rs 130-155, 264-345, 395-495).
AsRequested ==
    outcome = "admitted" => WellFormed /\ NetworkOfNow /\ CredentialsOfNow /\ Confined

\* README.md 85, `the only container receiving credential mounts': also for the
\* copy of an admitted pod that selects another container.
OnlyTarget ==
    outcome = "admitted" =>
        \A c \in Containers, u \in Uses :
            Has(manifest.mounts[c], u) => c = request.container
=============================================================================
