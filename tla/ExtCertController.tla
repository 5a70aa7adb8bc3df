-------------------------- MODULE ExtCertController -------------------------
(***************************************************************************)
(* The ExternalCertificate controller (src/src/ext_cert_controller): it    *)
(* reports in the object's status what the Secret named by the spec holds. *)
(* Nothing wakes it but the object itself: not the Secret, not the clock.  *)
(***************************************************************************)
EXTENDS Naturals, FiniteSets

CONSTANTS
    Secrets,     \* names of Secrets a user imports
    MaxTime,     \* bound on the clock
    MaxEdits,    \* edits of spec.secretName
    MaxRewrites, \* edits of Secrets that exist
    MaxFaults    \* failed API calls and restarts

ASSUME BoundAssumption ==
    /\ MaxTime \in Nat /\ MaxTime >= 2 /\ Secrets # {}
    /\ MaxEdits \in Nat /\ MaxRewrites \in Nat /\ MaxFaults \in Nat

VARIABLES
    now,      \* the clock
    content,  \* what each Secret holds, or Missing
    stale,    \* Secrets edited since the controller last read them
    object,   \* absent, live, deleting, gone
    finalizer,
    spec,     \* spec.secretName
    status,   \* the status of the object
    cache,    \* the object as the reflector last saw it
    dirty, queue,
    task,     \* the reconciliation under way
    edits, rewrites, faults

objVars == <<object, finalizer, spec, status>>
vars    == <<now, content, stale, objVars, cache, dirty, queue, task, edits, rewrites, faults>>

\* The entries ndn.key and ndn.cert: absent or unreadable, or a key; a
\* certificate is told by the time it is valid until.
Time    == 0 .. MaxTime
Content == [there : BOOLEAN, key : BOOLEAN, cert : Time]    \* cert 0: none
Missing == [there |-> FALSE, key |-> FALSE, cert |-> 0]

\* ExternalCertificateStatus, `ready' being the condition of that name; keyIn and
\* certIn are the Secrets that key.secret and cert.secret name, if any.
Status   == [keyExists : BOOLEAN, keyIn : SUBSET Secrets, certExists : BOOLEAN,
             certIn : SUBSET Secrets, valid : BOOLEAN, until : Time, ready : BOOLEAN]
NoStatus == [keyExists |-> FALSE, keyIn |-> {}, certExists |-> FALSE, certIn |-> {},
             valid |-> FALSE, until |-> 0, ready |-> FALSE]

Cached  == [known : BOOLEAN, deleting : BOOLEAN, finalizer : BOOLEAN,
            spec : Secrets, status : Status]
PC      == {"idle", "finalize", "get", "patch", "release"}
Task    == [pc : PC, from : Cached, next : Status]

Snapshot == [known |-> object \in {"live", "deleting"}, deleting |-> object = "deleting",
             finalizer |-> finalizer, spec |-> spec, status |-> status]
NoObject == [known |-> FALSE, deleting |-> FALSE, finalizer |-> FALSE,
             spec |-> CHOOSE s \in Secrets : TRUE, status |-> NoStatus]
Idle     == [pc |-> "idle", from |-> NoObject, next |-> NoStatus]

TypeOK ==
    /\ now \in Time /\ content \in [Secrets -> Content] /\ stale \subseteq Secrets
    /\ object \in {"absent", "live", "deleting", "gone"} /\ finalizer \in BOOLEAN
    /\ spec \in Secrets /\ status \in Status
    /\ cache \in Cached /\ {dirty, queue} \subseteq BOOLEAN
    /\ task \in Task
    /\ edits \in 0 .. MaxEdits /\ rewrites \in 0 .. MaxRewrites /\ faults \in 0 .. MaxFaults

Init ==
    /\ now = 1
    /\ content = [s \in Secrets |-> Missing] /\ stale = {}
    /\ object = "absent" /\ finalizer = FALSE
    /\ spec \in Secrets /\ status = NoStatus
    /\ cache = Snapshot
    /\ dirty = FALSE /\ queue = FALSE
    /\ task = Idle
    /\ edits = 0 /\ rewrites = 0 /\ faults = 0

-----------------------------------------------------------------------------
(* Users and the clock.                                                    *)

CreateObject ==
    /\ object = "absent"
    /\ object' = "live" /\ dirty' = TRUE
    /\ UNCHANGED <<now, content, stale, finalizer, spec, status, cache, queue, task, edits, rewrites, faults>>

\* The Secret appears, with a key, a certificate or both.
CreateSecret(s) ==
    /\ ~content[s].there
    /\ \E k \in BOOLEAN, c \in {0, 2} :
         content' = [content EXCEPT ![s] = [there |-> TRUE, key |-> k, cert |-> c]]
    /\ UNCHANGED <<now, stale, objVars, cache, dirty, queue, task, edits, rewrites, faults>>

\* Later the other half is added.
EditSecret(s) ==
    /\ rewrites < MaxRewrites
    /\ content[s].there /\ content[s].cert = 0
    /\ content' = [content EXCEPT ![s].cert = MaxTime]
    /\ stale' = stale \union {s}
    /\ rewrites' = rewrites + 1
    /\ UNCHANGED <<now, objVars, cache, dirty, queue, task, edits, faults>>

EditSpec(s) ==
    /\ edits < MaxEdits
    /\ object = "live" /\ s # spec
    /\ spec' = s /\ dirty' = TRUE
    /\ edits' = edits + 1
    /\ UNCHANGED <<now, content, stale, object, finalizer, status, cache, queue, task, rewrites, faults>>

DeleteObject ==
    /\ object = "live"
    /\ object' = IF finalizer THEN "deleting" ELSE "gone"
    /\ dirty' = TRUE
    /\ UNCHANGED <<now, content, stale, finalizer, spec, status, cache, queue, task, edits, rewrites, faults>>

Tick ==
    /\ now < MaxTime
    /\ now' = now + 1
    /\ UNCHANGED <<content, stale, objVars, cache, dirty, queue, task, edits, rewrites, faults>>

-----------------------------------------------------------------------------
(* The controller runtime.                                                 *)

Watch ==
    /\ dirty
    /\ cache' = Snapshot
    /\ queue' = (queue \/ object \in {"live", "deleting"})
    /\ dirty' = FALSE
    /\ UNCHANGED <<now, content, stale, objVars, task, edits, rewrites, faults>>

Restart ==
    /\ faults < MaxFaults
    /\ faults' = faults + 1
    /\ cache' = Snapshot
    /\ queue' = (object \in {"live", "deleting"}) /\ dirty' = FALSE
    /\ task' = Idle
    /\ UNCHANGED <<now, content, stale, objVars, edits, rewrites>>

\* Mutant: an error leaves the object to its next change.
Fail_Await == task' = Idle /\ UNCHANGED queue

\* Mutant: the failed task is kept aside until its delay is over.
Fail_Parked == task' = [task EXCEPT !.pc = "delayed"] /\ UNCHANGED queue

\* external_certificate_error_policy: back in the queue (its delay is left out).
Fail == task' = Idle /\ queue' = TRUE

End  == task' = Idle /\ UNCHANGED queue

CallFails ==
    /\ task.pc # "idle"
    /\ faults < MaxFaults
    /\ faults' = faults + 1
    /\ Fail
    /\ UNCHANGED <<now, content, stale, objVars, cache, dirty, edits, rewrites>>

-----------------------------------------------------------------------------
(* reconcile_external_cert: finalizer, reconcile or cleanup.               *)

Start ==
    /\ queue /\ task.pc = "idle"
    /\ queue' = FALSE
    /\ LET pc == IF cache.deleting THEN (IF cache.finalizer THEN "release" ELSE "idle")
                 ELSE IF cache.finalizer THEN "get" ELSE "finalize"
       IN  task' = [pc |-> IF cache.known THEN pc ELSE "idle",
                    from |-> cache, next |-> NoStatus]
    /\ UNCHANGED <<now, content, stale, objVars, cache, dirty, edits, rewrites, faults>>

AddFinalizer ==
    /\ task.pc = "finalize"
    /\ IF object = "live"
       THEN finalizer' = TRUE /\ dirty' = TRUE /\ End
       ELSE Fail /\ UNCHANGED <<finalizer, dirty>>
    /\ UNCHANGED <<now, content, stale, object, spec, status, cache, edits, rewrites, faults>>

\* Mutant: the name of a Secret is filled in where there is none.
Imported_Once(old, s) ==
    LET c     == content[s]
        valid == c.cert > now
    IN  [keyExists |-> c.key, keyIn |-> IF c.key /\ old.keyIn = {} THEN {s} ELSE old.keyIn,
         certExists |-> c.cert # 0, certIn |-> IF c.cert # 0 THEN {s} ELSE old.certIn,
         valid |-> valid, until |-> IF c.cert # 0 THEN c.cert ELSE old.until,
         ready |-> c.cert # 0 /\ valid]

\* The new status, from the old one and Secret s: what a key or a certificate that
\* is not there leaves unsaid keeps its old value.  Ready asks for no key.
Imported(old, s) ==
    LET c     == content[s]
        valid == c.cert > now
    IN  [keyExists |-> c.key, keyIn |-> IF c.key THEN {s} ELSE old.keyIn,
         certExists |-> c.cert # 0, certIn |-> IF c.cert # 0 THEN {s} ELSE old.certIn,
         valid |-> valid, until |-> IF c.cert # 0 THEN c.cert ELSE old.until,
         ready |-> c.cert # 0 /\ valid]

\* A Secret that is missing is an error, and tried again.
GetSecret ==
    /\ task.pc = "get"
    /\ LET s == task.from.spec
       IN  IF content[s].there
           THEN /\ task' = [task EXCEPT !.pc = "patch", !.next = Imported(task.from.status, s)]
                /\ stale' = stale \ {s}
                /\ UNCHANGED queue
           ELSE Fail /\ UNCHANGED stale
    /\ UNCHANGED <<now, content, objVars, cache, dirty, edits, rewrites, faults>>

\* Then nothing but a change of the object wakes the controller again.
PatchStatus ==
    /\ task.pc = "patch"
    /\ IF object \in {"live", "deleting"}
       THEN /\ status' = task.next
            /\ dirty' = (dirty \/ status # task.next)
            /\ End
       ELSE Fail /\ UNCHANGED <<status, dirty>>
    /\ UNCHANGED <<now, content, stale, object, finalizer, spec, cache, edits, rewrites, faults>>

\* cleanup does nothing: the finalizer goes, and the object with it.
Release ==
    /\ task.pc = "release"
    /\ IF object = "deleting"
       THEN object' = "gone" /\ dirty' = TRUE /\ End
       ELSE Fail /\ UNCHANGED <<object, dirty>>
    /\ UNCHANGED <<now, content, stale, finalizer, spec, status, cache, edits, rewrites, faults>>

-----------------------------------------------------------------------------
TaskStep == Start \/ AddFinalizer \/ GetSecret \/ PatchStatus \/ Release

UserStep ==
    \/ CreateObject \/ DeleteObject
    \/ \E s \in Secrets : CreateSecret(s) \/ EditSecret(s) \/ EditSpec(s)

Next == UserStep \/ Tick \/ Watch \/ TaskStep \/ CallFails \/ Restart

Fairness == WF_vars(Tick) /\ WF_vars(Watch) /\ WF_vars(TaskStep)

Spec == Init /\ [][Next]_vars /\ Fairness

-----------------------------------------------------------------------------
(* Properties.                                                             *)

Settled == ~dirty /\ ~queue /\ task.pc = "idle"

\* key_exists and cert_exists `indicate whether the key (the cert) exists in the
\* referenced Secret' (types.rs 145-148): so they do when the controller is
\* through, whichever Secret the spec was changed to meanwhile and however late
\* it came (ext_cert_controller/reconcile.rs 25-105), and what they announce is in
\* the Secret of the spec, with its end, although the new status is made from the
\* one before.  That presumes that the Secret is not edited after it was read: see
\* ImportCurrent.
SettledImport ==
    object = "live" /\ Settled /\ spec \notin stale =>
        /\ status.keyExists = content[spec].key
        /\ status.certExists = (content[spec].cert # 0)
        /\ status.keyExists => status.keyIn = {spec}
        /\ status.certExists => status.certIn = {spec} /\ status.until = content[spec].cert

\* The same without the proviso, as those comments read.
ImportCurrent ==
    object = "live" /\ Settled =>
        /\ status.keyExists = content[spec].key
        /\ status.certExists = (content[spec].cert # 0)

\* status.cert.valid `indicates whether the certificate is currently valid (not
\* expired)' (types.rs 110): an expired certificate does not stay valid there.
ExpiryNoticed ==
    status.valid /\ now > status.until ~> ~status.valid \/ now <= status.until

\* `Ready: key and cert are present and cert is valid' (types.rs 150).
ReadyHasKey == status.ready => status.keyExists

\* A Secret that appears after the ExternalCertificate is imported all the same
\* (reconcile.rs 33-36 with the error policy).
LateSecretImported ==
    \A s \in Secrets :
        object = "live" /\ spec = s /\ content[s].cert # 0 ~>
            status.certExists \/ object # "live" \/ spec # s \/ s \in stale
=============================================================================
