--------------------------- MODULE CertController ---------------------------
(***************************************************************************)
(* The Certificate controller (src/src/cert_controller): for every         *)
(* Certificate object it creates a key Secret, has the certificate signed  *)
(* by its issuer into a second Secret, and is to renew it in time.         *)
(*                                                                         *)
(* A reconciliation reads the cached status, calls the API server several  *)
(* times and ends with one patch of the whole status.  The clock counts    *)
(* coarse units; the retries after 5 s and 5 min are shorter than one.     *)
(* A finalizer is put on and taken off, its cleanup only tells; the two    *)
(* Secrets have the object as owner, and the garbage collector takes them. *)
(***************************************************************************)
EXTENDS Naturals, FiniteSets

CONSTANTS
    Certs,        \* the Certificate objects
    Externals,    \* the ExternalCertificate objects
    Issuers,      \* Issuers[c]: what spec.issuer of c may name
    Namespace,    \* namespace of each of them
    Name,         \* name of each of them within its namespace
    Interval,     \* spec.renewInterval: how long a certificate is valid
    RenewBefore,  \* spec.renewBefore: the renewal window before it ends
    Unsupported,  \* an issuer of a kind the code does not know
    MaxTime,      \* bound on the clock
    MaxDeletes,   \* bound on deletions by users
    MaxFaults     \* bound on failed calls and restarts

Signers == Certs \union Externals

ASSUME IssuersAssumption ==
    /\ Issuers \in [Certs -> SUBSET (Signers \union {Unsupported})]
    /\ Unsupported \notin Signers /\ Certs \intersect Externals = {}
ASSUME TimeAssumption ==
    /\ Interval \in Nat \ {0} /\ MaxTime \in Nat \ {0}
    /\ RenewBefore \in Nat /\ MaxDeletes \in Nat /\ MaxFaults \in Nat

VARIABLES
    now,         \* the clock
    phase,       \* life of each Certificate: absent, live, deleting, gone
    finalizer,   \* the Certificates with this controller's finalizer
    issuer,      \* spec.issuer of each: a Certificate, or an external one
    external,    \* per external issuer: none (no status yet), status (one without
                 \* a key), key, or full (key and certificate)
    keySecret,   \* Certificates whose Secret <name>-key is there
    certSecret,  \* contents of the Secret <name>-cert, per Certificate
    status,      \* status of each Certificate object
    cache,       \* each Certificate as the reflector last saw it
    dirty,       \* Certificates changed since then
    queue,       \* Certificates waiting to be reconciled
    timer,       \* when a sleeping Certificate is due again, 0 for never
    task,        \* the reconciliation under way of each Certificate
    deletes, faults

secretVars == <<external, keySecret, certSecret>>
objVars    == <<phase, finalizer, issuer>>
watchVars  == <<cache, dirty>>
counters   == <<deletes, faults>>
vars == <<now, objVars, secretVars, status, watchVars, queue, timer, task, counters>>

Time == 0 .. (MaxTime + Interval)

\* CertificateStatus; `until' is cert.validUntil, 0 before the first issue.
Status == [keyExists : BOOLEAN, certExists : BOOLEAN, needsRenewal : BOOLEAN,
           valid : BOOLEAN, until : Time]

NoStatus == [keyExists |-> FALSE, certExists |-> FALSE, needsRenewal |-> FALSE,
             valid |-> FALSE, until |-> 0]

Cached  == [known : BOOLEAN, deleting : BOOLEAN, finalizer : BOOLEAN, status : Status]
Unknown == [known |-> FALSE, deleting |-> FALSE, finalizer |-> FALSE, status |-> NoStatus]

Exists(c) == phase[c] \in {"live", "deleting"}

Snapshot(c) ==
    IF Exists(c) THEN [known |-> TRUE, deleting |-> phase[c] = "deleting",
                       finalizer |-> c \in finalizer, status |-> status[c]]
    ELSE Unknown

\* A certificate: whose key signed it, until when, and the end of the signer's
\* certificate that is bundled with it.  `until' 0: no Secret yet; an imported
\* signer has no end that matters.
Issued   == [by : Signers, until : Time, signer : Time]
Unissued(c) == [by |-> c, until |-> 0, signer |-> 0]

\* finalize, release: the finalizer; key: creating the key Secret; issuer:
\* resolving the issuer; sign: reading the Secrets, signing, writing the Secret;
\* patch: writing `next' to the status, then sleeping until `wake' (0: the
\* short retry).
PC   == {"idle", "finalize", "release", "key", "issuer", "sign", "patch"}
Task == [pc : PC, next : Status, wake : Time]
Idle == [pc |-> "idle", next |-> NoStatus, wake |-> 0]

TypeOK ==
    /\ now \in 0 .. MaxTime
    /\ phase \in [Certs -> {"absent", "live", "deleting", "gone"}]
    /\ finalizer \subseteq Certs
    /\ issuer \in [Certs -> Signers \union {Unsupported}]
    /\ external \in [Externals -> {"none", "status", "key", "full"}]
    /\ keySecret \subseteq Certs
    /\ certSecret \in [Certs -> Issued]
    /\ status \in [Certs -> Status] /\ cache \in [Certs -> Cached]
    /\ dirty \subseteq Certs /\ queue \subseteq Certs
    /\ timer \in [Certs -> Time]
    /\ task \in [Certs -> Task]
    /\ deletes \in 0 .. MaxDeletes /\ faults \in 0 .. MaxFaults

Init ==
    /\ now = 1
    /\ phase = [c \in Certs |-> "absent"] /\ finalizer = {} /\ dirty = {} /\ queue = {}
    /\ issuer = [c \in Certs |-> c]
    /\ external = [e \in Externals |-> "none"]
    /\ keySecret = {}
    /\ certSecret = [c \in Certs |-> Unissued(c)]
    /\ status = [c \in Certs |-> NoStatus] /\ cache = [c \in Certs |-> Unknown]
    /\ timer = [c \in Certs |-> 0]
    /\ task = [c \in Certs |-> Idle]
    /\ deletes = 0 /\ faults = 0

-----------------------------------------------------------------------------
(* Users, the clock, the controller runtime.                               *)

\* A user, or pod_apply, creates the object; no issuer need be there yet.
CreateCert(c) ==
    /\ phase[c] = "absent"
    /\ phase' = [phase EXCEPT ![c] = "live"]
    /\ \E i \in Issuers[c] : issuer' = [issuer EXCEPT ![c] = i]
    /\ dirty' = dirty \union {c}
    /\ UNCHANGED <<now, finalizer, secretVars, status, cache, queue, timer, task, counters>>

\* Deletion waits for the finalizer, when there is one.
DeleteCert(c) ==
    /\ phase[c] = "live"
    /\ deletes < MaxDeletes /\ deletes' = deletes + 1
    /\ phase' = [phase EXCEPT ![c] = IF c \in finalizer THEN "deleting" ELSE "gone"]
    /\ dirty' = dirty \union {c}
    /\ UNCHANGED <<now, finalizer, issuer, secretVars, status, cache, queue, timer, task, faults>>

CollectGarbage(c) ==
    /\ phase[c] = "gone"
    /\ \/ c \in keySecret /\ keySecret' = keySecret \ {c} /\ UNCHANGED certSecret
       \/ /\ certSecret[c].until # 0
          /\ certSecret' = [certSecret EXCEPT ![c] = Unissued(c)] /\ UNCHANGED keySecret
    /\ UNCHANGED <<now, objVars, external, status, watchVars, queue, timer, task, counters>>

\* The ExternalCertificate controller reports what its Secret holds.
ImportExternal(e) ==
    /\ external[e] = "none"
    /\ \E held \in {"status", "key", "full"} : external' = [external EXCEPT ![e] = held]
    /\ UNCHANGED <<now, objVars, keySecret, certSecret, status, watchVars, queue, timer,
                   task, counters>>

Tick ==
    /\ now < MaxTime
    /\ now' = now + 1
    /\ UNCHANGED <<objVars, secretVars, status, watchVars, queue, timer, task, counters>>

Watch(c) ==
    /\ c \in dirty
    /\ cache' = [cache EXCEPT ![c] = Snapshot(c)]
    /\ dirty' = dirty \ {c}
    /\ queue' = IF Exists(c) THEN queue \union {c} ELSE queue
    /\ UNCHANGED <<now, objVars, secretVars, status, timer, task, counters>>

\* The requeue time is reached: measured from the end of a reconciliation, it
\* lies strictly after the instant the reconciliation asked for.
Wake(c) ==
    /\ timer[c] # 0 /\ now > timer[c]
    /\ timer' = [timer EXCEPT ![c] = 0]
    /\ queue' = queue \union {c}
    /\ UNCHANGED <<now, objVars, secretVars, status, watchVars, task, counters>>

\* The process ends and starts again.
Restart ==
    /\ faults < MaxFaults
    /\ faults' = faults + 1
    /\ cache' = [c \in Certs |-> Snapshot(c)]
    /\ dirty' = {}
    /\ queue' = {c \in Certs : Exists(c)}
    /\ timer' = [c \in Certs |-> 0]
    /\ task' = [c \in Certs |-> Idle]
    /\ UNCHANGED <<now, objVars, secretVars, status, deletes>>

\* An error ends the task; the error policy retries it.
Fail(c) ==
    /\ task' = [task EXCEPT ![c] = Idle]
    /\ queue' = queue \union {c}

\* Some API call of the task fails.
CallFails(c) ==
    /\ task[c].pc # "idle"
    /\ faults < MaxFaults
    /\ faults' = faults + 1
    /\ Fail(c)
    /\ UNCHANGED <<now, objVars, secretVars, status, watchVars, timer, deletes>>

Goto(c, pc, next, wake) ==
    task' = [task EXCEPT ![c] = [pc |-> pc, next |-> next, wake |-> wake]]

-----------------------------------------------------------------------------
(* Certificate::reconcile.                                                 *)

\* validate_cert, on a status whose certificate is there.
Validated(s) ==
    [s EXCEPT !.valid = s.until > now,
              !.needsRenewal = s.until <= now + RenewBefore]

\* Taking c from the queue also takes its pending timer with it.
Dequeue(c) ==
    /\ c \in queue
    /\ task[c].pc = "idle"
    /\ timer' = [timer EXCEPT ![c] = 0]

\* The finalizer is there, and reconcile runs on the cached status.
Apply(c) == Dequeue(c) /\ cache[c].known /\ cache[c].finalizer /\ ~cache[c].deleting

\* Only the finalizer to add or, cleanup being done, to remove; or nothing.
StartOther(c) ==
    /\ Dequeue(c)
    /\ ~(cache[c].known /\ cache[c].finalizer /\ ~cache[c].deleting)
    /\ Goto(c, IF ~cache[c].known THEN "idle"
               ELSE IF cache[c].finalizer THEN "release"
               ELSE IF cache[c].deleting THEN "idle" ELSE "finalize", NoStatus, 0)
    /\ queue' = queue \ {c}
    /\ UNCHANGED <<now, objVars, secretVars, status, watchVars, counters>>

AddFinalizer(c) ==
    /\ task[c].pc = "finalize"
    /\ IF phase[c] = "live"
       THEN /\ finalizer' = finalizer \union {c} /\ dirty' = dirty \union {c}
            /\ task' = [task EXCEPT ![c] = Idle] /\ UNCHANGED queue
       ELSE Fail(c) /\ UNCHANGED <<finalizer, dirty>>
    /\ UNCHANGED <<now, phase, issuer, secretVars, status, cache, timer, counters>>

Release(c) ==
    /\ task[c].pc = "release"
    /\ IF phase[c] = "deleting"
       THEN /\ phase' = [phase EXCEPT ![c] = "gone"] /\ dirty' = dirty \union {c}
            /\ task' = [task EXCEPT ![c] = Idle] /\ UNCHANGED queue
       ELSE Fail(c) /\ UNCHANGED <<phase, dirty>>
    /\ UNCHANGED <<now, finalizer, issuer, secretVars, status, cache, timer, counters>>

\* Mutation: the status says that the key exists before the Secret is created.
StartKey_StatusFirst(c) ==
    /\ Apply(c)
    /\ ~cache[c].status.keyExists
    /\ Goto(c, "patch", [cache[c].status EXCEPT !.keyExists = TRUE], 0)
    /\ queue' = queue \ {c}
    /\ UNCHANGED <<now, objVars, secretVars, status, watchVars, counters>>

StartKey(c) ==
    /\ Apply(c)
    /\ ~cache[c].status.keyExists
    /\ Goto(c, "key", cache[c].status, 0)
    /\ queue' = queue \ {c}
    /\ UNCHANGED <<now, objVars, secretVars, status, watchVars, counters>>

StartIssue(c) ==
    /\ Apply(c)
    /\ cache[c].status.keyExists
    /\ ~cache[c].status.certExists \/ cache[c].status.needsRenewal
    /\ Goto(c, "issuer", cache[c].status, 0)
    /\ queue' = queue \ {c}
    /\ UNCHANGED <<now, objVars, secretVars, status, watchVars, counters>>

\* A certificate nobody has marked for renewal: the time left is converted to
\* an unsigned duration first, an error once the certificate has expired.
StartValidate(c) ==
    /\ Apply(c)
    /\ cache[c].status.keyExists /\ cache[c].status.certExists /\ ~cache[c].status.needsRenewal
    /\ IF cache[c].status.until < now
       THEN UNCHANGED <<task, queue>>
       ELSE /\ Goto(c, "patch", Validated(cache[c].status), cache[c].status.until)
            /\ queue' = queue \ {c}
    /\ UNCHANGED <<now, objVars, secretVars, status, watchVars, counters>>

\* create_key POSTs the Secret: a conflict when it is already there.
CreateKey(c) ==
    /\ task[c].pc = "key"
    /\ IF c \in keySecret
       THEN Fail(c) /\ UNCHANGED keySecret
       ELSE /\ keySecret' = keySecret \union {c}
            /\ Goto(c, "patch", [task[c].next EXCEPT !.keyExists = TRUE], 0)
            /\ UNCHANGED queue
    /\ UNCHANGED <<now, objVars, external, certSecret, status, watchVars, timer, counters>>

\* The issuer that create_cert resolves: does it have a key, a certificate?
HasKey(i)  == IF i \in Certs THEN status[i].keyExists ELSE external[i] \in {"key", "full"}
HasCert(i) == IF i \in Certs THEN status[i].certExists ELSE external[i] = "full"

\* Mutation: readiness is that of the key.
IssuerReady_KeyOnly(c) == HasKey(issuer[c])

\* An external issuer passes as ready without a certificate.
IssuerReady(c) ==
    LET i == issuer[c] IN HasKey(i) /\ (i = c \/ i \in Externals \/ HasCert(i))

\* An issuer that is there, of a known kind, and has a status by now: the first
\* status of a Certificate tells that its key is there.
HasStatus(i) ==
    IF i \in Certs THEN Exists(i) /\ status[i] # NoStatus
    ELSE i \in Externals /\ external[i] # "none"

\* Without such an issuer the pass fails; with one that is not ready it ends with
\* the status as it was, and c is looked at again in 5 s.
ResolveIssuer(c) ==
    /\ task[c].pc = "issuer"
    /\ IF ~HasStatus(issuer[c])
       THEN Fail(c)
       ELSE /\ Goto(c, IF IssuerReady(c) THEN "sign" ELSE "patch", task[c].next, 0)
            /\ UNCHANGED queue
    /\ UNCHANGED <<now, objVars, secretVars, status, watchVars, timer, counters>>

\* Whose Secrets the names found in the issuer's status lead to: they are
\* looked up in the namespace of c, whatever namespace the issuer is in.
SignerSeen(c) ==
    {d \in Signers : Namespace[d] = Namespace[c] /\ Name[d] = Name[issuer[c]]}

KeyThere(d)  == IF d \in Certs THEN d \in keySecret ELSE external[d] \in {"key", "full"}
CertThere(d) == IF d \in Certs THEN certSecret[d].until # 0 ELSE external[d] = "full"

\* The signer's certificate as it is stored now, for a self-signed renewal the
\* one about to be replaced; the new one itself when there is none yet.
SignerEnd(c, d) ==
    IF d \notin Certs THEN 0
    ELSE IF issuer[c] = c /\ ~HasCert(c) THEN now + Interval ELSE certSecret[d].until

\* Mutation: the interval is added to the end once more.
Sign_Twice(c) ==
    /\ task[c].pc = "sign"
    /\ certSecret' = [certSecret EXCEPT ![c] = 
                      [by |-> issuer[c], until |-> now + 2 * Interval, signer |-> 0]]
    /\ Goto(c, "patch", [task[c].next EXCEPT !.certExists = TRUE, !.until = now + 2 * Interval], 0)
    /\ UNCHANGED <<now, objVars, external, keySecret, status, watchVars, queue, timer, counters>>

\* Mutation: the mark is kept, and the next pass renews again.
Sign_KeepsMark(c) ==
    /\ task[c].pc = "sign"
    /\ certSecret' = [certSecret EXCEPT ![c] =
                        [by |-> issuer[c], until |-> now + Interval, signer |-> 0]]
    /\ Goto(c, "patch", [task[c].next EXCEPT !.certExists = TRUE, !.until = now + Interval], 0)
    /\ UNCHANGED <<now, objVars, external, keySecret, status, watchVars, queue, timer, counters>>

\* Reads the signer's key, the own key and the signer's certificate, signs,
\* and applies the Secret.
Sign(c) ==
    /\ task[c].pc = "sign"
    /\ \/ \E d \in SignerSeen(c) :
            /\ KeyThere(d) /\ c \in keySecret
            /\ issuer[c] = c \/ CertThere(d)
            /\ certSecret' = [certSecret EXCEPT ![c] = 
                                [by |-> d, until |-> now + Interval, signer |-> SignerEnd(c, d)]]
            /\ Goto(c, "patch",
                    [task[c].next EXCEPT !.certExists = TRUE, !.valid = TRUE,
                         !.needsRenewal = FALSE, !.until = now + Interval], 0)
            /\ UNCHANGED queue
       \/ /\ \A d \in SignerSeen(c) :
               ~(KeyThere(d) /\ c \in keySecret /\ (issuer[c] = c \/ CertThere(d)))
          /\ Fail(c) /\ UNCHANGED certSecret
    /\ UNCHANGED <<now, objVars, external, keySecret, status, watchVars, timer, counters>>

\* Mutation: the pass ends with await_change instead of the 5 s requeue.
PatchStatus_NoRetry(c) ==
    /\ task[c].pc = "patch"
    /\ status' = [status EXCEPT ![c] = task[c].next]
    /\ dirty' = IF status[c] = task[c].next THEN dirty ELSE dirty \union {c}
    /\ timer' = [timer EXCEPT ![c] = task[c].wake]
    /\ task' = [task EXCEPT ![c] = Idle]
    /\ UNCHANGED <<now, objVars, secretVars, cache, queue, counters>>

\* Merge-patch of the whole status, then the requeue that was decided on.
PatchStatus(c) ==
    /\ task[c].pc = "patch"
    /\ IF Exists(c)
       THEN /\ status' = [status EXCEPT ![c] = task[c].next]
            /\ dirty' = IF status[c] = task[c].next THEN dirty ELSE dirty \union {c}
            /\ timer' = [timer EXCEPT ![c] = task[c].wake]
            /\ queue' = IF task[c].wake = 0 THEN queue \union {c} ELSE queue
            /\ task' = [task EXCEPT ![c] = Idle]
       ELSE Fail(c) /\ UNCHANGED <<status, dirty, timer>>
    /\ UNCHANGED <<now, objVars, secretVars, cache, counters>>

-----------------------------------------------------------------------------
TaskStep(c) ==
    \/ StartOther(c) \/ AddFinalizer(c) \/ Release(c)
    \/ StartKey(c) \/ StartIssue(c) \/ StartValidate(c) \/ CreateKey(c)
    \/ ResolveIssuer(c) \/ Sign(c) \/ PatchStatus(c)

Next ==
    \/ \E c \in Certs :
          \/ CreateCert(c) \/ DeleteCert(c) \/ CollectGarbage(c)
          \/ Watch(c) \/ Wake(c) \/ TaskStep(c) \/ CallFails(c)
    \/ \E e \in Externals : ImportExternal(e)
    \/ Tick \/ Restart

\* The runtime keeps watching, waking and polling, and time goes on; nothing is
\* assumed of users, of failures or of restarts.
Fairness ==
    /\ WF_vars(Tick)
    /\ \A c \in Certs : WF_vars(Watch(c)) /\ WF_vars(Wake(c)) /\ WF_vars(TaskStep(c))

Spec == Init /\ [][Next]_vars /\ Fairness

-----------------------------------------------------------------------------
(* Properties.                                                             *)

\* The status never promises more than the Secrets hold: patched last and from
\* values computed earlier, it may lag behind them but never names a key or a
\* certificate that is not there, nor a later end than the stored certificate's
\* (reconcile.rs 90-95, 324-361, 381-421).
StatusBacked ==
    \A c \in Certs : Exists(c) =>
        /\ status[c].keyExists => c \in keySecret
        /\ status[c].certExists =>
             certSecret[c].until # 0 /\ status[c].until <= certSecret[c].until

\* A stored certificate is signed with the key of the issuer that the spec
\* names.  The code does not keep this: the issuer may be in another namespace
\* (types.rs 55-57), and the Secrets that its status names are read in the
\* Certificate's own (reconcile.rs 283-310), as CertCross.cfg shows.
SignedByIssuer ==
    \A c \in Certs : certSecret[c].until # 0 => certSecret[c].by = issuer[c]

Settled(c) == c \notin dirty /\ c \notin queue /\ task[c].pc = "idle"

\* A Certificate sleeps only when it is issued, a wake-up is set for the end
\* that its status tells, and no renewal is outstanding: an issuer that comes
\* late, a lost patch, a stale cache or a restart never leaves it asleep before
\* (reconcile.rs 48-87).
SleepsOnlyWhenIssued ==
    \A c \in Certs :
        phase[c] = "live" /\ Settled(c) =>
            /\ status[c].keyExists /\ status[c].certExists /\ ~status[c].needsRenewal
            /\ timer[c] = status[c].until

\* The chain of c is in place: its issuer is self-signed, or imported in full.
Rooted(c) ==
    LET i == issuer[c]
    IN  \/ i \in Certs /\ phase[i] = "live" /\ issuer[i] = i
        \/ i \in Externals /\ external[i] = "full"

\* Whatever the order in which Certificates and issuers appear, each Certificate
\* gets issued, by the 5 s and 5 min retries (reconcile.rs 34-36, 189-212); and a
\* renewal that was called for gets done: the pass that marks the Certificate asks
\* to be woken only when the certificate ends, so the event of its own status
\* patch has to bring the next, and the last has to take the mark away again
\* (reconcile.rs 62-71, 324-380).
EveryCertIssued ==
    \A c \in Certs :
        LET Wanted == phase[c] = "live" /\ Rooted(c)
            Fresh  == status[c].certExists /\ ~status[c].needsRenewal
        IN  Wanted ~> Fresh \/ ~Wanted

\* status.cert.valid `indicates whether the certificate is currently valid (not
\* expired)' (types.rs 110): an expired certificate does not stay valid there.
ExpiryNoticed ==
    \A c \in Certs :
        Exists(c) /\ status[c].valid /\ now > status[c].until
            ~> ~status[c].valid \/ now <= status[c].until \/ ~Exists(c)

\* status.key_exists `indicates whether the key exists' (types.rs 67): a key
\* Secret that was created is eventually seen.
KeyAnnounced ==
    \A c \in Certs : c \in keySecret ~> status[c].keyExists \/ ~Exists(c)

\* spec.renew_before is when the certificate is renewed before it expires
\* (types.rs 35-37): a certificate once issued does not run out.
NeverLapses ==
    \A c \in Certs : phase[c] = "live" /\ status[c].certExists => now <= status[c].until

\* A certificate signed with its own key is bundled as its own signer
\* (reconcile.rs 317): the signer's certificate beside it never ends before it.
OwnSigner ==
    \A c \in Certs :
        certSecret[c].until # 0 /\ certSecret[c].by = c => certSecret[c].signer = certSecret[c].until

\* Other Certificates see these of c.
LifeOf(c) == IF Exists(c) THEN "live" ELSE phase[c]
ToldOf(c) ==
    LET s == IF Exists(c) THEN status[c] ELSE NoStatus
    IN  [key |-> s.keyExists, cert |-> s.certExists, until |-> s.until]

Trust == INSTANCE CertTrust WITH
    Named    <- Signers \union {Unsupported},
    life     <- [c \in Certs |-> LifeOf(c)],
    imported <- {e \in Externals : external[e] \in {"key", "full"}},
    key      <- keySecret,
    end      <- [c \in Certs |-> certSecret[c].until],
    told     <- [c \in Certs |-> ToldOf(c)]

\* What the status tells is stored and is never taken back, although each pass
\* writes the whole status, computed from a cached one that may be older than
\* the pass before; and a certificate is only ever signed after its issuer has
\* been told to be ready (reconcile.rs 90-156, 189-212, 283-421).
ImplementsTrust == Trust!TrustSpec
=============================================================================
