------------------------- MODULE CertControllerProofs -------------------------
(* Theorems about the Certificate controller, for any Certificates and     *)
(* issuers, and any number of deletions, failures and restarts.            *)
EXTENDS CertController, FiniteSetTheorems, TLAPS

\* What the cache may be behind in; and it is behind only with an event to come.
CacheOK(c) ==
    /\ cache[c].deleting => phase[c] \in {"deleting", "gone"}
    /\ cache[c].known => phase[c] # "absent"
    /\ c \in dirty \/ cache[c] = Snapshot(c)

\* A status that promises no more than the Secrets hold.
Backed(c, s) ==
    /\ s.keyExists => c \in keySecret
    /\ s.certExists => certSecret[c].until # 0 /\ s.until <= certSecret[c].until

\* The one in the object, the one in the cache, the one that is about to be written.
BackedOK(c) ==
    /\ certSecret[c].until <= now + Interval
    /\ phase[c] # "gone" =>
         Backed(c, status[c]) /\ Backed(c, cache[c].status) /\ Backed(c, task[c].next)

\* Nothing of c is to be handled but what its task knows.
Quiet(c) == phase[c] = "live" /\ c \notin dirty /\ c \notin queue

Asleep(c) ==
    /\ status[c].keyExists /\ status[c].certExists /\ ~status[c].needsRenewal
    /\ timer[c] = status[c].until

\* A pass that ends without a change goes to sleep only from a status that lets it.
SleepOK(c) ==
    /\ task[c].pc = "release" => phase[c] \in {"deleting", "gone"}
    /\ Quiet(c) =>
         /\ task[c].pc = "idle" => Asleep(c)
         /\ task[c].pc = "patch" /\ task[c].wake # 0 =>
              /\ task[c].next.keyExists /\ task[c].next.certExists
              /\ task[c].wake = task[c].next.until /\ ~status[c].needsRenewal

CertOK(c) == CacheOK(c) /\ BackedOK(c) /\ SleepOK(c)

Inv == TypeOK /\ \A c \in Certs : CertOK(c)

\* The Certificates a step is not about see no change, but time going on.
Same(m) ==
    /\ phase'[m] = phase[m] /\ status'[m] = status[m] /\ cache'[m] = cache[m]
    /\ task'[m] = task[m] /\ timer'[m] = timer[m] /\ issuer'[m] = issuer[m]
    /\ certSecret'[m] = certSecret[m]
    /\ (m \in finalizer') = (m \in finalizer)
    /\ (m \in keySecret') = (m \in keySecret)
    /\ (m \in dirty') = (m \in dirty)
    /\ (m \in queue') = (m \in queue)
    /\ now <= now'

USE TimeAssumption

-----------------------------------------------------------------------------
(* Type correctness.                                                       *)

LEMMA ConstantTypes ==
    /\ NoStatus \in Status /\ Unknown \in Cached /\ Idle \in Task /\ 0 \in Time
    /\ \A c \in Certs : Unissued(c) \in Issued
<1>1. NoStatus \in Status /\ 0 \in Time
  BY DEF NoStatus, Status, Time
<1> QED BY <1>1 DEF Unknown, Cached, Idle, Task, PC, Unissued, Issued, Signers

LEMMA SnapshotType ==
    ASSUME TypeOK, NEW c \in Certs
    PROVE  Snapshot(c) \in Cached
<1>1. CASE Exists(c)
  <2>1. (phase[c] = "deleting") \in BOOLEAN /\ (c \in finalizer) \in BOOLEAN /\ status[c] \in Status
    BY DEF TypeOK
  <2> QED BY <1>1, <2>1, Zenon DEF Snapshot, Cached
<1>2. CASE ~Exists(c)
  BY <1>2, ConstantTypes, Zenon DEF Snapshot
<1> QED BY <1>1, <1>2

LEMMA TypeInit == Init => TypeOK
<1> SUFFICES ASSUME Init PROVE TypeOK
    OBVIOUS
<1>1. now \in 0 .. MaxTime /\ deletes \in 0 .. MaxDeletes /\ faults \in 0 .. MaxFaults
  BY DEF Init
<1>2. issuer \in [Certs -> Signers \union {Unsupported}] /\ certSecret \in [Certs -> Issued]
  BY ConstantTypes DEF Init, Signers
<1>3. /\ phase \in [Certs -> {"absent", "live", "deleting", "gone"}]
      /\ external \in [Externals -> {"none", "status", "key", "full"}]
  BY DEF Init
<1>4. /\ status \in [Certs -> Status] /\ cache \in [Certs -> Cached]
      /\ timer \in [Certs -> Time] /\ task \in [Certs -> Task]
  BY ConstantTypes DEF Init
<1> QED BY <1>1, <1>2, <1>3, <1>4 DEF Init, TypeOK

LEMMA TypeFail ==
    ASSUME TypeOK, NEW c \in Certs, Fail(c)
    PROVE  task' \in [Certs -> Task] /\ queue' \subseteq Certs
BY ConstantTypes DEF TypeOK, Fail

LEMMA TypeGoto ==
    ASSUME TypeOK, NEW c \in Certs, NEW pc \in PC, NEW next \in Status, NEW wake \in Time,
           Goto(c, pc, next, wake)
    PROVE  /\ task' \in [Certs -> Task]
           /\ task'[c] = [pc |-> pc, next |-> next, wake |-> wake]
<1>1. [pc |-> pc, next |-> next, wake |-> wake] \in Task
  BY DEF Task
<1> QED BY <1>1 DEF TypeOK, Goto

LEMMA GotoStep ==
    ASSUME task \in [Certs -> Task], NEW c \in Certs, NEW pc, NEW next, NEW wake,
           Goto(c, pc, next, wake)
    PROVE  task'[c].pc = pc /\ task'[c].next = next /\ task'[c].wake = wake
BY DEF Goto

LEMMA ValidatedType ==
    ASSUME TypeOK, NEW s \in Status
    PROVE  /\ Validated(s) \in Status
           /\ Validated(s).keyExists = s.keyExists /\ Validated(s).certExists = s.certExists
           /\ Validated(s).until = s.until
<1> DEFINE v == s.until > now
           n == s.until <= now + RenewBefore
<1>1. v \in BOOLEAN /\ n \in BOOLEAN
  OBVIOUS
<1>2. Validated(s) = [s EXCEPT !.valid = v, !.needsRenewal = n]
  BY DEF Validated
<1> HIDE DEF v, n
<1> QED BY <1>1, <1>2 DEF Status

\* Signing writes a certificate that ends after the interval, and a status says so.
Signed(c) ==
    /\ UNCHANGED queue /\ c \in keySecret
    /\ certSecret' \in [Certs -> Issued]
    /\ certSecret'[c].until = now + Interval /\ now + Interval # 0
    /\ \A m \in Certs \ {c} : certSecret'[m] = certSecret[m]
    /\ \E next \in Status :
          /\ Goto(c, "patch", next, 0)
          /\ next.keyExists = task[c].next.keyExists /\ next.certExists
          /\ next.until = now + Interval

LEMMA SignStep ==
    ASSUME TypeOK, NEW c \in Certs, Sign(c)
    PROVE  (Fail(c) /\ UNCHANGED certSecret) \/ Signed(c)
<1>1. CASE Fail(c) /\ UNCHANGED certSecret
  BY <1>1
<1>2. ASSUME NEW d \in SignerSeen(c), c \in keySecret,
             certSecret' = [certSecret EXCEPT ![c] =
                [by |-> d, until |-> now + Interval, signer |-> SignerEnd(c, d)]],
             Goto(c, "patch",
                    [task[c].next EXCEPT !.certExists = TRUE, !.valid = TRUE,
                         !.needsRenewal = FALSE, !.until = now + Interval], 0),
             UNCHANGED queue
      PROVE  Signed(c)
  <2>1. now + Interval \in Time /\ now + Interval # 0 /\ d \in Signers
    BY <1>2 DEF TypeOK, Time, SignerSeen
  <2>2. SignerEnd(c, d) \in Time
    <3>1. d \in Certs => certSecret[d].until \in Time
      BY DEF TypeOK, Issued
    <3> QED BY <2>1, <3>1, ConstantTypes DEF SignerEnd
  <2> DEFINE new == [by |-> d, until |-> now + Interval, signer |-> SignerEnd(c, d)]
             next == [task[c].next EXCEPT !.certExists = TRUE, !.valid = TRUE,
                         !.needsRenewal = FALSE, !.until = now + Interval]
  <2>3. new \in Issued /\ new.until = now + Interval
    BY <2>1, <2>2 DEF Issued
  <2>4. next \in Status /\ next.certExists /\ next.until = now + Interval
        /\ next.keyExists = task[c].next.keyExists
    <3>1. task[c].next \in Status
      BY DEF TypeOK, Task
    <3> DEFINE s == task[c].next
               e == now + Interval
               t == [s EXCEPT !.certExists = TRUE, !.valid = TRUE, !.needsRenewal = FALSE, !.until = e]
    <3>2. s \in Status /\ e \in Time
      BY <2>1, <3>1
    <3> HIDE DEF s, e
    <3>3. t.keyExists = s.keyExists /\ t.certExists = TRUE /\ t.until = e
      BY <3>2 DEF Status
    <3>4. t \in Status
      BY <3>2 DEF Status
    <3> QED BY <3>3, <3>4 DEF s, e
  <2> HIDE DEF new, next
  <2>5. /\ certSecret' \in [Certs -> Issued] /\ certSecret'[c] = new
        /\ \A m \in Certs \ {c} : certSecret'[m] = certSecret[m]
    BY <1>2, <2>3 DEF TypeOK, new
  <2>6. Goto(c, "patch", next, 0)
    BY <1>2 DEF next
  <2> QED BY <1>2, <2>1, <2>3, <2>4, <2>5, <2>6 DEF Signed
<1> QED BY <1>1, <1>2, Zenon DEF Sign
LEMMA TypeStep == TypeOK /\ [Next]_vars => TypeOK'
<1> SUFFICES ASSUME TypeOK, [Next]_vars PROVE TypeOK'
    OBVIOUS
<1> USE DEF TypeOK, objVars, secretVars, watchVars, counters
<1>1. ASSUME NEW c \in Certs, CreateCert(c) PROVE TypeOK'
  <2>1. Issuers[c] \subseteq Signers \union {Unsupported}
    BY IssuersAssumption
  <2>2. issuer' \in [Certs -> Signers \union {Unsupported}]
    BY <1>1, <2>1 DEF CreateCert
  <2> QED BY <1>1, <2>2 DEF CreateCert
<1>2. ASSUME NEW c \in Certs, DeleteCert(c) PROVE TypeOK'
  BY <1>2 DEF DeleteCert
<1>3. ASSUME NEW c \in Certs, CollectGarbage(c) PROVE TypeOK'
  BY <1>3, ConstantTypes DEF CollectGarbage
<1>4. ASSUME NEW c \in Certs, Watch(c) \/ Wake(c) PROVE TypeOK'
  BY <1>4, SnapshotType, ConstantTypes DEF Watch, Wake
<1>5. ASSUME NEW c \in Certs, CallFails(c) PROVE TypeOK'
  BY <1>5, TypeFail DEF CallFails
<1>6. ASSUME NEW c \in Certs, TaskStep(c) PROVE TypeOK'
  <2>0. /\ task[c] \in Task /\ task[c].next \in Status /\ task[c].wake \in Time
        /\ cache[c] \in Cached /\ cache[c].status \in Status /\ cache[c].status.until \in Time
    BY DEF Task, Cached, Status
  <2>d. Dequeue(c) => timer' \in [Certs -> Time]
    BY ConstantTypes DEF Dequeue
  <2>1. CASE StartOther(c)
    <3>1. \E pc \in PC : Goto(c, pc, NoStatus, 0)
      BY <2>1 DEF StartOther, PC
    <3>2. task' \in [Certs -> Task]
      BY <3>1, TypeGoto, ConstantTypes
    <3> QED BY <2>1, <2>d, <3>2 DEF StartOther
  <2>2. CASE StartKey(c) \/ StartIssue(c)
    <3>1. Goto(c, "key", cache[c].status, 0) \/ Goto(c, "issuer", cache[c].status, 0)
      BY <2>2 DEF StartKey, StartIssue
    <3>2. task' \in [Certs -> Task]
      BY <2>0, <3>1, TypeGoto, ConstantTypes DEF PC
    <3> QED BY <2>2, <2>d, <3>2 DEF StartKey, StartIssue, Apply
  <2>3. CASE StartValidate(c)
    <3>1. UNCHANGED task \/ Goto(c, "patch", Validated(cache[c].status), cache[c].status.until)
      BY <2>3 DEF StartValidate
    <3>2. task' \in [Certs -> Task]
      BY <2>0, <3>1, TypeGoto, ValidatedType DEF PC
    <3> QED BY <2>3, <2>d, <3>2 DEF StartValidate, Apply
  <2>4. CASE AddFinalizer(c) \/ Release(c)
    BY <2>4, TypeFail, ConstantTypes DEF AddFinalizer, Release
  <2>5. CASE CreateKey(c)
    <3>1. [task[c].next EXCEPT !.keyExists = TRUE] \in Status
      BY <2>0 DEF Status
    <3>2. task' \in [Certs -> Task] /\ queue' \subseteq Certs
      BY <2>5, <3>1, TypeFail, TypeGoto, ConstantTypes DEF CreateKey, PC
    <3> QED BY <2>5, <3>2 DEF CreateKey
  <2>6. CASE ResolveIssuer(c)
    <3>1. (\E pc \in PC : Goto(c, pc, task[c].next, 0) /\ UNCHANGED queue) \/ Fail(c)
      BY <2>6 DEF ResolveIssuer, PC
    <3>2. task' \in [Certs -> Task] /\ queue' \subseteq Certs
      BY <2>0, <3>1, TypeFail, TypeGoto, ConstantTypes
    <3> QED BY <2>6, <3>2 DEF ResolveIssuer
  <2>7. CASE Sign(c)
    <3>1. CASE Fail(c) /\ UNCHANGED certSecret
      BY <2>7, <3>1, TypeFail DEF Sign
    <3>2. CASE Signed(c)
      <4>1. task' \in [Certs -> Task]
        BY <3>2, TypeGoto, ConstantTypes DEF Signed, PC
      <4> QED BY <2>7, <3>2, <4>1 DEF Sign, Signed
    <3> QED BY <2>7, <3>1, <3>2, SignStep
  <2>8. CASE PatchStatus(c)
    BY <2>0, <2>8, TypeFail, ConstantTypes DEF PatchStatus
  <2> QED BY <1>6, <2>1, <2>2, <2>3, <2>4, <2>5, <2>6, <2>7, <2>8 DEF TaskStep
<1>7. ASSUME NEW e \in Externals, ImportExternal(e) PROVE TypeOK'
  BY <1>7 DEF ImportExternal
<1>8. CASE Tick
  BY <1>8 DEF Tick
<1>9. CASE Restart
  BY <1>9, SnapshotType, ConstantTypes DEF Restart
<1>10. CASE UNCHANGED vars
  BY <1>10 DEF vars
<1> QED BY <1>1, <1>2, <1>3, <1>4, <1>5, <1>6, <1>7, <1>8, <1>9, <1>10 DEF Next
-----------------------------------------------------------------------------
(* The invariant.                                                          *)

LEMMA InvInit == Init => Inv
<1> SUFFICES ASSUME Init PROVE Inv
    OBVIOUS
<1>1. TypeOK
  BY TypeInit
<1>2. ASSUME NEW c \in Certs PROVE CertOK(c)
  BY DEF Init, CertOK, CacheOK, BackedOK, Backed, SleepOK, Quiet, Snapshot, Exists,
         Unknown, Idle, NoStatus, Unissued
<1> QED BY <1>1, <1>2 DEF Inv

\* A Certificate the step is not about.
LEMMA SameOK ==
    ASSUME TypeOK, TypeOK', NEW m \in Certs, CertOK(m), Same(m)
    PROVE  CertOK(m)'
<1>1. Snapshot(m)' = Snapshot(m)
  <2>1. Exists(m)' = Exists(m) /\ Unknown' = Unknown
    BY DEF Same, Exists, Unknown, NoStatus
  <2> QED BY <2>1, Zenon DEF Same, Snapshot
<1>2. CacheOK(m)'
  BY <1>1 DEF Same, CertOK, CacheOK
<1>3. BackedOK(m)'
  <2>1. now \in Nat /\ now' \in Nat /\ certSecret[m].until \in Nat
    BY DEF TypeOK, Issued, Time
  <2> QED BY <2>1 DEF Same, CertOK, BackedOK, Backed
<1>4. SleepOK(m)'
  BY DEF Same, CertOK, SleepOK, Quiet, Asleep
<1> QED BY <1>2, <1>3, <1>4 DEF CertOK

\* A step of c is about no other Certificate.
LEMMA OneAtATime ==
    ASSUME TypeOK, NEW c \in Certs, NEW m \in Certs, m # c,
           \/ CreateCert(c) \/ DeleteCert(c) \/ CollectGarbage(c)
           \/ Watch(c) \/ Wake(c) \/ TaskStep(c) \/ CallFails(c)
    PROVE  Same(m)
<1> USE DEF TypeOK, objVars, secretVars, watchVars, counters, Same, Fail, Goto
<1>1. CASE CreateCert(c) \/ DeleteCert(c) \/ CollectGarbage(c)
  BY <1>1 DEF CreateCert, DeleteCert, CollectGarbage
<1>2. CASE Watch(c) \/ Wake(c) \/ CallFails(c)
  BY <1>2 DEF Watch, Wake, CallFails
<1>3. CASE TaskStep(c)
  <2>1. CASE StartOther(c) \/ AddFinalizer(c) \/ Release(c)
    BY <2>1 DEF StartOther, AddFinalizer, Release, Dequeue
  <2>2. CASE StartKey(c) \/ StartIssue(c) \/ StartValidate(c)
    BY <2>2 DEF StartKey, StartIssue, StartValidate, Apply, Dequeue
  <2>3. CASE CreateKey(c)
    BY <2>3 DEF CreateKey
  <2>4. CASE ResolveIssuer(c)
    BY <2>4 DEF ResolveIssuer
  <2>5. CASE Sign(c)
    <3>1. UNCHANGED <<now, phase, finalizer, issuer, keySecret, status, cache, dirty, timer>>
      BY <2>5 DEF Sign
    <3>2. task'[m] = task[m] /\ certSecret'[m] = certSecret[m] /\ (m \in queue') = (m \in queue)
      <4>1. CASE Fail(c) /\ UNCHANGED certSecret
        BY <4>1
      <4>2. CASE Signed(c)
        BY <4>2 DEF Signed
      <4> QED BY <2>5, <4>1, <4>2, SignStep
    <3> QED BY <3>1, <3>2
  <2>6. CASE PatchStatus(c)
    BY <2>6 DEF PatchStatus
  <2> QED BY <1>3, <2>1, <2>2, <2>3, <2>4, <2>5, <2>6 DEF TaskStep
<1> QED BY <1>1, <1>2, <1>3

\* Users and the runtime.
LEMMA RuntimeOK ==
    ASSUME Inv, NEW c \in Certs,
           \/ CreateCert(c) \/ DeleteCert(c) \/ CollectGarbage(c)
           \/ Watch(c) \/ Wake(c) \/ CallFails(c) \/ Restart
    PROVE  CertOK(c)'
<1> USE DEF Inv, TypeOK, objVars, secretVars, watchVars, counters, CertOK
<1>t. now \in Nat /\ certSecret[c] \in Issued /\ certSecret[c].until \in Nat
  BY DEF Issued, Time
<1>0. /\ UNCHANGED now
      /\ phase[c] = "gone" => phase'[c] = "gone"
      /\ phase'[c] # "gone" => (c \in keySecret') = (c \in keySecret) /\ certSecret'[c] = certSecret[c]
      /\ certSecret'[c].until <= certSecret[c].until /\ certSecret'[c].until \in Nat
  BY <1>t DEF CreateCert, DeleteCert, CollectGarbage, Watch, Wake, CallFails, Restart, Unissued
<1>1. UNCHANGED status
  BY DEF CreateCert, DeleteCert, CollectGarbage, Watch, Wake, CallFails, Restart
<1>2. cache'[c] = cache[c] \/ (cache'[c] = Snapshot(c) /\ Snapshot(c)' = Snapshot(c))
  <2>1. CASE Watch(c) \/ Restart
    <3>1. cache'[c] = Snapshot(c) /\ UNCHANGED <<objVars, status>>
      BY <2>1 DEF Watch, Restart
    <3>2. Snapshot(c)' = Snapshot(c)
      BY <3>1, Zenon DEF Snapshot, Exists, Unknown, NoStatus
    <3> QED BY <3>1, <3>2
  <2>2. CASE CreateCert(c) \/ DeleteCert(c) \/ CollectGarbage(c) \/ Wake(c) \/ CallFails(c)
    BY <2>2 DEF CreateCert, DeleteCert, CollectGarbage, Wake, CallFails
  <2> QED BY <2>1, <2>2
<1>3. task'[c] = task[c] \/ task'[c] = Idle
  BY DEF CreateCert, DeleteCert, CollectGarbage, Watch, Wake, CallFails, Restart, Fail
<1>4. Snapshot(c).status = status[c] \/ Snapshot(c).status = NoStatus
  BY DEF Snapshot, Unknown
<1>5. BackedOK(c)'
  <2>1. \A s : phase'[c] # "gone" /\ Backed(c, s) => Backed(c, s)'
    BY <1>0 DEF Backed
  <2>2. Backed(c, NoStatus)
    BY DEF Backed, NoStatus
  <2>3. (certSecret[c].until <= now + Interval)'
    BY <1>0, <1>t DEF BackedOK
  <2>4. ASSUME phase'[c] # "gone"
        PROVE  Backed(c, status'[c]) /\ Backed(c, cache'[c].status) /\ Backed(c, task'[c].next)
    BY <2>2, <2>4, <1>0, <1>1, <1>2, <1>3, <1>4 DEF BackedOK, Idle
  <2> QED BY <2>1, <2>3, <2>4 DEF BackedOK
<1>6. CacheOK(c)'
  <2>1. CASE CreateCert(c) \/ DeleteCert(c)
    BY <2>1 DEF CreateCert, DeleteCert, CacheOK
  <2>2. CASE CollectGarbage(c) \/ Wake(c) \/ CallFails(c)
    <3>1. UNCHANGED <<phase, finalizer, status, cache, dirty>>
      BY <2>2 DEF CollectGarbage, Wake, CallFails
    <3>2. Snapshot(c)' = Snapshot(c)
      BY <3>1, Zenon DEF Snapshot, Exists, Unknown, NoStatus
    <3> QED BY <3>1, <3>2 DEF CacheOK
  <2>3. CASE Watch(c) \/ Restart
    <3>1. cache'[c] = Snapshot(c) /\ UNCHANGED <<objVars, status>>
      BY <2>3 DEF Watch, Restart
    <3>2. Snapshot(c)' = Snapshot(c)
      BY <3>1, Zenon DEF Snapshot, Exists, Unknown, NoStatus
    <3>3. /\ Snapshot(c).deleting => phase[c] = "deleting"
          /\ Snapshot(c).known => phase[c] # "absent"
      BY DEF Snapshot, Exists, Unknown
    <3> QED BY <3>1, <3>2, <3>3 DEF CacheOK
  <2> QED BY <2>1, <2>2, <2>3
<1>7. SleepOK(c)'
  <2>1. CASE CreateCert(c) \/ DeleteCert(c)
    BY <2>1 DEF CreateCert, DeleteCert, SleepOK, Quiet
  <2>2. CASE CollectGarbage(c)
    BY <2>2 DEF CollectGarbage, SleepOK, Quiet
  <2>3. CASE Wake(c)
    BY <2>3 DEF Wake, SleepOK, Quiet
  <2>4. CASE CallFails(c)
    BY <2>4 DEF CallFails, Fail, Idle, SleepOK, Quiet
  <2>5. CASE Watch(c) \/ Restart
    BY <2>5 DEF Watch, Restart, Idle, Exists, SleepOK, Quiet
  <2> QED BY <2>1, <2>2, <2>3, <2>4, <2>5
<1> QED BY <1>5, <1>6, <1>7

\* The steps of a reconciliation.
LEMMA TaskStepOK ==
    ASSUME Inv, NEW c \in Certs, TaskStep(c)
    PROVE  CertOK(c)'
<1> USE DEF Inv, TypeOK, objVars, secretVars, watchVars, counters, CertOK
<1>t. /\ now \in Nat /\ certSecret[c] \in Issued /\ certSecret[c].until \in Nat
      /\ task[c] \in Task /\ task[c].next \in Status /\ task[c].wake \in Time
      /\ cache[c] \in Cached /\ cache[c].status \in Status /\ cache[c].status.until \in Time
      /\ status[c] \in Status /\ Interval \in Nat
  BY DEF Issued, Time, Task, Cached, Status
<1>p. Backed(c, NoStatus)
  BY DEF Backed, NoStatus
<1>s. UNCHANGED <<objVars, status>> => Snapshot(c)' = Snapshot(c)
  <2> SUFFICES ASSUME UNCHANGED <<objVars, status>> PROVE Snapshot(c)' = Snapshot(c)
    OBVIOUS
  <2>1. UNCHANGED <<phase, finalizer, status>>
    OBVIOUS
  <2> QED BY <2>1, Zenon DEF Snapshot, Exists, Unknown, NoStatus
<1>q. ASSUME Quiet(c) PROVE cache[c].known /\ ~cache[c].deleting /\ cache[c].status = status[c]
  BY <1>q DEF Quiet, CacheOK, Snapshot, Exists
\* The steps that take the Certificate from the queue.
<1>1. CASE StartOther(c)
  <2>1. UNCHANGED <<now, objVars, secretVars, status, watchVars>> /\ c \notin queue'
    BY <1>1 DEF StartOther
  <2>2. PICK pc \in PC : /\ Goto(c, pc, NoStatus, 0) /\ pc # "patch"
                         /\ pc = "release" => cache[c].known /\ cache[c].finalizer
                                              /\ cache[c].deleting
                         /\ cache[c].known /\ ~cache[c].deleting => pc # "idle"
    BY <1>1 DEF StartOther, PC
  <2>3. task'[c].pc = pc /\ task'[c].next = NoStatus
    BY <2>2, GotoStep
  <2>4. CacheOK(c)' /\ BackedOK(c)'
    BY <1>p, <1>s, <2>1, <2>3 DEF CacheOK, BackedOK, Backed
  <2>5. SleepOK(c)'
    <3>1. Quiet(c)' => cache[c].known /\ ~cache[c].deleting
      BY <2>1 DEF Quiet, CacheOK, Snapshot, Exists
    <3> QED BY <2>1, <2>2, <2>3, <3>1 DEF SleepOK, CacheOK
  <2> QED BY <2>4, <2>5
<1>2. CASE StartKey(c) \/ StartIssue(c)
  <2>1. /\ UNCHANGED <<now, objVars, secretVars, status, watchVars>>
        /\ Goto(c, "key", cache[c].status, 0) \/ Goto(c, "issuer", cache[c].status, 0)
    BY <1>2 DEF StartKey, StartIssue
  <2>2. task'[c].pc \in {"key", "issuer"} /\ task'[c].next = cache[c].status
    BY <2>1, GotoStep
  <2> QED BY <1>s, <2>1, <2>2 DEF CacheOK, BackedOK, Backed, SleepOK
<1>3. CASE StartValidate(c)
  <2>1. UNCHANGED <<now, objVars, secretVars, status, watchVars>>
    BY <1>3 DEF StartValidate
  <2>2. CASE UNCHANGED <<task, queue>>
    <3>1. c \in queue'
      BY <1>3, <2>2 DEF StartValidate, Apply, Dequeue
    <3> QED BY <1>s, <2>1, <2>2, <3>1 DEF CacheOK, BackedOK, Backed, SleepOK, Quiet
  <2>3. CASE Goto(c, "patch", Validated(cache[c].status), cache[c].status.until)
    <3>1. /\ task'[c].pc = "patch" /\ task'[c].next = Validated(cache[c].status)
          /\ task'[c].wake = cache[c].status.until
      BY <2>3, GotoStep
    <3>2. /\ cache[c].status.keyExists /\ cache[c].status.certExists
          /\ ~cache[c].status.needsRenewal
      BY <1>3 DEF StartValidate
    <3>3. CacheOK(c)' /\ BackedOK(c)'
      BY <1>s, <1>t, <2>1, <3>1, ValidatedType DEF CacheOK, BackedOK, Backed
    <3>4. SleepOK(c)'
      <4>1. Quiet(c)' => cache[c].status = status[c]
        BY <2>1 DEF Quiet, CacheOK, Snapshot, Exists
      <4> QED BY <1>t, <2>1, <3>1, <3>2, <4>1, ValidatedType DEF SleepOK
    <3> QED BY <3>3, <3>4
  <2> QED BY <1>3, <2>2, <2>3 DEF StartValidate
\* The finalizer.
<1>4. CASE AddFinalizer(c)
  <2>1. /\ UNCHANGED <<now, phase, issuer, secretVars, status, cache>> /\ task'[c] = Idle
        /\ \/ c \in dirty'
           \/ UNCHANGED <<finalizer, dirty>> /\ c \in queue'
    BY <1>4 DEF AddFinalizer, Fail
  <2>2. c \in dirty' \/ Snapshot(c)' = Snapshot(c)
    BY <1>s, <2>1
  <2> QED BY <1>p, <2>1, <2>2 DEF Idle, CacheOK, BackedOK, Backed, SleepOK, Quiet
<1>5. CASE Release(c)
  <2>1. /\ UNCHANGED <<now, finalizer, issuer, secretVars, status, cache>> /\ task'[c] = Idle
        /\ \/ c \in dirty' /\ phase[c] = "deleting" /\ phase'[c] = "gone"
           \/ UNCHANGED <<phase, dirty>> /\ c \in queue'
    BY <1>5 DEF Release, Fail
  <2>2. c \in dirty' \/ Snapshot(c)' = Snapshot(c)
    BY <1>s, <2>1
  <2> QED BY <1>p, <2>1, <2>2 DEF Idle, CacheOK, BackedOK, Backed, SleepOK, Quiet
\* Creating the key, resolving the issuer, signing.
<1>6. CASE CreateKey(c)
  <2>1. UNCHANGED <<now, objVars, certSecret, status, watchVars>>
    BY <1>6 DEF CreateKey
  <2>2. CASE Fail(c) /\ UNCHANGED keySecret
    BY <1>p, <1>s, <2>1, <2>2 DEF Fail, Idle, CacheOK, BackedOK, Backed, SleepOK, Quiet
  <2>3. CASE /\ keySecret' = keySecret \union {c}
             /\ Goto(c, "patch", [task[c].next EXCEPT !.keyExists = TRUE], 0)
    <3> DEFINE next == [task[c].next EXCEPT !.keyExists = TRUE]
    <3>1. /\ next \in Status /\ next.certExists = task[c].next.certExists
          /\ next.until = task[c].next.until
      BY <1>t DEF Status
    <3> HIDE DEF next
    <3>2. Goto(c, "patch", next, 0)
      BY <2>3 DEF next
    <3>3. task'[c].pc = "patch" /\ task'[c].next = next /\ task'[c].wake = 0
      BY <3>2, GotoStep
    <3> QED BY <1>s, <2>1, <2>3, <3>1, <3>3 DEF CacheOK, BackedOK, Backed, SleepOK
  <2> QED BY <1>6, <2>2, <2>3 DEF CreateKey
<1>7. CASE ResolveIssuer(c)
  <2>1. UNCHANGED <<now, objVars, secretVars, status, watchVars>>
    BY <1>7 DEF ResolveIssuer
  <2>2. CASE Fail(c)
    BY <1>p, <1>s, <2>1, <2>2 DEF Fail, Idle, CacheOK, BackedOK, Backed, SleepOK, Quiet
  <2>3. CASE \E pc \in {"sign", "patch"} : Goto(c, pc, task[c].next, 0)
    <3>1. task'[c].pc \in {"sign", "patch"} /\ task'[c].next = task[c].next /\ task'[c].wake = 0
      BY <2>3, GotoStep
    <3> QED BY <1>s, <2>1, <3>1 DEF CacheOK, BackedOK, Backed, SleepOK
  <2> QED BY <1>7, <2>2, <2>3 DEF ResolveIssuer
<1>8. CASE Sign(c)
  <2>1. UNCHANGED <<now, objVars, keySecret, status, watchVars>>
    BY <1>8 DEF Sign
  <2>2. CASE Fail(c) /\ UNCHANGED certSecret
    BY <1>p, <1>s, <2>1, <2>2 DEF Fail, Idle, CacheOK, BackedOK, Backed, SleepOK, Quiet
  <2>3. CASE Signed(c)
    <3>1. PICK next \in Status :
             /\ Goto(c, "patch", next, 0)
             /\ next.keyExists = task[c].next.keyExists /\ next.certExists
             /\ next.until = now + Interval
      BY <2>3 DEF Signed
    <3>2. task'[c].pc = "patch" /\ task'[c].next = next /\ task'[c].wake = 0
      BY <3>1, GotoStep
    <3>3. /\ certSecret'[c].until = now + Interval /\ now + Interval # 0
          /\ certSecret[c].until <= now + Interval
      BY <2>3 DEF Signed, BackedOK
    <3>4. CacheOK(c)' /\ SleepOK(c)'
      BY <1>s, <2>1, <3>2 DEF CacheOK, SleepOK
    <3>5. \A s \in Status : Backed(c, s) => Backed(c, s)'
      <4> SUFFICES ASSUME NEW s \in Status, Backed(c, s) PROVE Backed(c, s)'
        OBVIOUS
      <4>1. s.until \in Nat
        BY DEF Status, Time
      <4> QED BY <1>t, <2>1, <3>3, <4>1 DEF Backed
    <3>6. phase[c] # "gone" => Backed(c, next)'
      BY <1>t, <2>1, <2>3, <3>1, <3>3 DEF Backed, Signed
    <3>7. BackedOK(c)'
      <4>1. (certSecret[c].until <= now + Interval)'
        BY <1>t, <2>1, <3>3
      <4>2. phase[c] # "gone" => Backed(c, status[c])' /\ Backed(c, cache[c].status)'
        BY <1>t, <2>1, <3>5 DEF BackedOK
      <4> QED BY <2>1, <3>2, <3>6, <4>1, <4>2 DEF BackedOK, Backed
    <3> QED BY <3>4, <3>7
  <2> QED BY <1>8, <2>2, <2>3, SignStep
\* Writing the status, and going to sleep.
<1>9. CASE PatchStatus(c)
  <2>1. UNCHANGED <<now, objVars, secretVars, cache>> /\ task'[c] = Idle /\ task[c].pc = "patch"
    BY <1>9 DEF PatchStatus, Fail
  <2>2. CASE Fail(c) /\ UNCHANGED <<status, dirty, timer>>
    BY <1>p, <1>s, <2>1, <2>2 DEF Fail, Idle, CacheOK, BackedOK, Backed, SleepOK, Quiet
  <2>3. CASE /\ status'[c] = task[c].next /\ timer'[c] = task[c].wake
             /\ dirty' = IF status[c] = task[c].next THEN dirty ELSE dirty \union {c}
             /\ queue' = IF task[c].wake = 0 THEN queue \union {c} ELSE queue
    <3>1. c \in dirty' \/ Snapshot(c)' = Snapshot(c)
      <4>1. c \in dirty' \/ status'[c] = status[c]
        BY <2>3
      <4> QED BY <2>1, <4>1, Zenon DEF Snapshot, Exists, Unknown, NoStatus
    <3>2. CacheOK(c)'
      BY <2>1, <2>3, <3>1 DEF CacheOK
    <3>3. BackedOK(c)'
      BY <1>p, <2>1, <2>3 DEF Idle, BackedOK, Backed
    <3>4. SleepOK(c)'
      BY <1>t, <2>1, <2>3 DEF Idle, SleepOK, Quiet, Asleep
    <3> QED BY <3>2, <3>3, <3>4
  <2>4. Exists(c) =>
             /\ status'[c] = task[c].next /\ timer'[c] = task[c].wake
             /\ dirty' = IF status[c] = task[c].next THEN dirty ELSE dirty \union {c}
             /\ queue' = IF task[c].wake = 0 THEN queue \union {c} ELSE queue
    BY <1>9 DEF PatchStatus
  <2>5. ~Exists(c) => Fail(c) /\ UNCHANGED <<status, dirty, timer>>
    BY <1>9 DEF PatchStatus
  <2> QED BY <2>2, <2>3, <2>4, <2>5
<1> QED BY <1>1, <1>2, <1>3, <1>4, <1>5, <1>6, <1>7, <1>8, <1>9 DEF TaskStep

LEMMA InvStep == Inv /\ [Next]_vars => Inv'
<1> SUFFICES ASSUME Inv, [Next]_vars PROVE Inv'
    OBVIOUS
<1>0. TypeOK /\ TypeOK'
  BY TypeStep DEF Inv
<1> SUFFICES ASSUME NEW m \in Certs PROVE CertOK(m)'
  BY <1>0 DEF Inv
<1>m. CertOK(m)
  BY DEF Inv
<1>1. ASSUME NEW c \in Certs,
             \/ CreateCert(c) \/ DeleteCert(c) \/ CollectGarbage(c)
             \/ Watch(c) \/ Wake(c) \/ TaskStep(c) \/ CallFails(c)
      PROVE  CertOK(m)'
  <2>1. CASE m = c
    BY <1>1, <2>1, RuntimeOK, TaskStepOK
  <2>2. CASE m # c
    BY <1>0, <1>1, <1>m, <2>2, OneAtATime, SameOK
  <2> QED BY <2>1, <2>2
<1>2. CASE Restart
  BY <1>2, RuntimeOK
<1>3. CASE (\E e \in Externals : ImportExternal(e)) \/ Tick \/ UNCHANGED vars
  <2>1. now \in Nat
    BY <1>0 DEF TypeOK
  <2>2. Same(m)
    BY <1>3, <2>1 DEF ImportExternal, Tick, vars, objVars, secretVars, watchVars, Same
  <2> QED BY <1>0, <1>m, <2>2, SameOK
<1> QED BY <1>1, <1>2, <1>3 DEF Next

LEMMA Invariance == Spec => []Inv
<1> QED BY InvInit, InvStep, PTL DEF Spec

\* The controller's state stays well-formed.
THEOREM TypeCorrect == Spec => []TypeOK
<1>1. Inv => TypeOK
  BY DEF Inv
<1> QED BY <1>1, Invariance, PTL

\* A status promises no more than the Secrets hold: as long as its object is
\* there nobody takes its Secrets away, and a certificate is only ever replaced
\* by one that ends later (reconcile.rs 90-95, 324-361, 381-421).
THEOREM StatusIsBacked == Spec => []StatusBacked
<1>1. Inv => StatusBacked
  BY DEF Inv, CertOK, BackedOK, Backed, StatusBacked, Exists
<1> QED BY <1>1, Invariance, PTL

\* A Certificate sleeps only when it is issued and has a wake-up for its end
\* (reconcile.rs 48-87).
THEOREM SleepsIssued == Spec => []SleepsOnlyWhenIssued
<1>1. Inv => SleepsOnlyWhenIssued
  BY DEF Inv, CertOK, SleepOK, Quiet, Asleep, Settled, SleepsOnlyWhenIssued
<1> QED BY <1>1, Invariance, PTL

-----------------------------------------------------------------------------
(* What is told: the controller implements CertTrust.                      *)

\* The issuer of c has been told to be ready, or is gone since.
Vouched(c) ==
    /\ issuer[c] \in Signers
    /\ issuer[c] \in Externals => external[issuer[c]] \in {"key", "full"}
    /\ issuer[c] \in Certs /\ phase[issuer[c]] # "gone" =>
         /\ Exists(issuer[c]) /\ status[issuer[c]].keyExists
         /\ issuer[c] = c \/ status[issuer[c]].certExists

\* A pass that read an old status writes nothing less than what is told already:
\* it would have to find the issuer of a certificate that is stored not ready.
TrustOK(c) ==
    /\ phase[c] = "absent" =>
         certSecret[c].until = 0 /\ status[c] = NoStatus /\ task[c].pc = "idle"
    /\ status[c].certExists => status[c].keyExists
    /\ cache[c].status.certExists => cache[c].status.keyExists
    /\ task[c].next.certExists => task[c].next.keyExists
    /\ task[c].pc \in {"issuer", "sign"} => task[c].next.keyExists
    /\ task[c].pc = "patch" /\ phase[c] # "gone" =>
         /\ status[c].keyExists => task[c].next.keyExists
         /\ status[c].certExists => task[c].next.certExists
    /\ certSecret[c].until # 0 \/ task[c].pc = "sign" => Vouched(c)

TInv == \A c \in Certs : TrustOK(c)

\* No step takes back what is told of a Certificate that stays, nor an import.
Kept(i) ==
    phase'[i] # "gone" =>
        /\ phase[i] # "gone" /\ (Exists(i) => Exists(i)')
        /\ status[i].keyExists => status'[i].keyExists
        /\ status[i].certExists => status'[i].certExists

Imported == \A e \in Externals : external[e] \in {"key", "full"} => external'[e] \in {"key", "full"}

LEMMA TrustInit == Init => TInv
BY DEF Init, TInv, TrustOK, Unissued, Idle, NoStatus, Unknown

LEMMA SameKept ==
    ASSUME NEW m \in Certs, Same(m)
    PROVE  Kept(m)
BY DEF Same, Kept, Exists

LEMMA KeptStep == Inv /\ TInv /\ [Next]_vars => Imported /\ \A m \in Certs : Kept(m)
<1> SUFFICES ASSUME Inv, TInv, [Next]_vars PROVE Imported /\ \A m \in Certs : Kept(m)
    OBVIOUS
<1>t. TypeOK
  BY DEF Inv
<1>1. ASSUME NEW c \in Certs,
             \/ CreateCert(c) \/ DeleteCert(c) \/ CollectGarbage(c)
             \/ Watch(c) \/ Wake(c) \/ CallFails(c) \/ TaskStep(c)
      PROVE  UNCHANGED external /\ Kept(c)
  <2> USE DEF objVars, secretVars, watchVars, counters
  <2>1. CASE CreateCert(c) \/ DeleteCert(c)
    BY <1>t, <2>1 DEF CreateCert, DeleteCert, Kept, Exists, TypeOK
  <2>2. CASE CollectGarbage(c) \/ Watch(c) \/ Wake(c) \/ CallFails(c)
    BY <2>2 DEF CollectGarbage, Watch, Wake, CallFails, Kept, Exists
  <2>3. CASE TaskStep(c)
    <3>1. CASE StartOther(c) \/ StartKey(c) \/ StartIssue(c) \/ StartValidate(c)
      BY <3>1 DEF StartOther, StartKey, StartIssue, StartValidate, Kept, Exists
    <3>2. CASE AddFinalizer(c) \/ CreateKey(c) \/ ResolveIssuer(c) \/ Sign(c)
      BY <3>2 DEF AddFinalizer, CreateKey, ResolveIssuer, Sign, Kept, Exists
    <3>3. CASE Release(c)
      BY <1>t, <3>3 DEF Release, Kept, Exists, TypeOK
    <3>4. CASE PatchStatus(c)
      <4>1. UNCHANGED <<phase, external>> /\ task[c].pc = "patch"
        BY <3>4 DEF PatchStatus
      <4>2. UNCHANGED status \/ status'[c] = task[c].next
        BY <1>t, <3>4 DEF PatchStatus, TypeOK
      <4> QED BY <4>1, <4>2 DEF TInv, TrustOK, Kept, Exists
    <3> QED BY <2>3, <3>1, <3>2, <3>3, <3>4 DEF TaskStep
  <2> QED BY <1>1, <2>1, <2>2, <2>3
<1>2. ASSUME NEW c \in Certs,
             \/ CreateCert(c) \/ DeleteCert(c) \/ CollectGarbage(c)
             \/ Watch(c) \/ Wake(c) \/ CallFails(c) \/ TaskStep(c)
      PROVE  Imported /\ \A m \in Certs : Kept(m)
  BY <1>t, <1>1, <1>2, OneAtATime, SameKept DEF Imported
<1>3. CASE Tick \/ Restart \/ UNCHANGED vars
  <2>1. UNCHANGED <<phase, status, external>>
    BY <1>3 DEF Tick, Restart, vars, objVars, secretVars
  <2> QED BY <2>1 DEF Imported, Kept, Exists
<1>4. ASSUME NEW e \in Externals, ImportExternal(e)
      PROVE  Imported /\ \A m \in Certs : Kept(m)
  <2>1. UNCHANGED <<phase, status>>
    BY <1>4 DEF ImportExternal, objVars
  <2>2. external[e] = "none" /\ \A x \in Externals \ {e} : external'[x] = external[x]
    BY <1>t, <1>4 DEF ImportExternal, TypeOK
  <2>3. Imported
    BY <2>2 DEF Imported
  <2> QED BY <2>1, <2>3 DEF Kept, Exists
<1> QED BY <1>2, <1>3, <1>4 DEF Next

LEMMA VouchedKept ==
    ASSUME NEW c \in Certs, Vouched(c), issuer'[c] = issuer[c], Imported,
           \A i \in Certs : Kept(i)
    PROVE  Vouched(c)'
BY DEF Vouched, Imported, Kept

\* A Certificate the step is not about.
LEMMA SameTrust ==
    ASSUME NEW m \in Certs, TrustOK(m), Same(m), Imported, \A i \in Certs : Kept(i)
    PROVE  TrustOK(m)'
<1>1. Vouched(m) => Vouched(m)'
  BY VouchedKept DEF Same
<1> QED BY <1>1 DEF Same, TrustOK

LEMMA TrustStep == Inv /\ Inv' /\ TInv /\ [Next]_vars => TInv'
<1> SUFFICES ASSUME Inv, Inv', TInv, [Next]_vars, NEW m \in Certs PROVE TrustOK(m)'
  BY DEF TInv
<1>k. Imported /\ \A i \in Certs : Kept(i)
  BY KeptStep
<1>m. TrustOK(m) /\ TypeOK /\ TypeOK' /\ CacheOK(m) /\ BackedOK(m) /\ now \in Nat
  BY DEF Inv, TInv, CertOK, TypeOK
<1>v. issuer'[m] = issuer[m] /\ Vouched(m) => Vouched(m)'
  BY <1>k, VouchedKept
<1>t. /\ task[m] \in Task /\ task[m].next \in Status
      /\ cache[m] \in Cached /\ cache[m].status \in Status /\ status[m] \in Status
  BY <1>m DEF TypeOK, Task, Cached
<1> USE DEF objVars, secretVars, watchVars, counters
<1>1. ASSUME NEW c \in Certs,
             \/ CreateCert(c) \/ DeleteCert(c) \/ CollectGarbage(c)
             \/ Watch(c) \/ Wake(c) \/ TaskStep(c) \/ CallFails(c)
      PROVE  TrustOK(m)'
  <2>1. CASE m # c
    BY <1>1, <1>k, <1>m, <2>1, OneAtATime, SameTrust
  <2> SUFFICES ASSUME m = c PROVE TrustOK(c)'
    BY <2>1
  <2>2. CASE CreateCert(c)
    BY <1>m, <2>2 DEF CreateCert, TrustOK, TypeOK
  <2>3. CASE DeleteCert(c)
    BY <1>m, <1>v, <2>3 DEF DeleteCert, TrustOK, TypeOK
  <2>4. CASE CollectGarbage(c)
    <3>1. UNCHANGED <<phase, issuer, status, cache, task>> /\ phase[c] = "gone"
      BY <2>4 DEF CollectGarbage
    <3>2. certSecret'[c] = certSecret[c] \/ certSecret'[c].until = 0
      BY <1>m, <2>4 DEF CollectGarbage, Unissued, TypeOK
    <3> QED BY <1>m, <1>v, <3>1, <3>2 DEF TrustOK
  <2>5. CASE Watch(c)
    <3>1. UNCHANGED <<phase, issuer, certSecret, status, task>> /\ cache'[c] = Snapshot(c)
      BY <1>m, <2>5 DEF Watch, TypeOK
    <3>2. Snapshot(c).status = status[c] \/ Snapshot(c).status = NoStatus
      BY DEF Snapshot, Unknown
    <3> QED BY <1>m, <1>v, <3>1, <3>2 DEF TrustOK, NoStatus
  <2>6. CASE Wake(c)
    BY <1>m, <1>v, <2>6 DEF Wake, TrustOK
  <2>7. CASE CallFails(c)
    BY <1>m, <1>v, <2>7 DEF CallFails, Fail, Idle, NoStatus, TrustOK, TypeOK
  <2>8. CASE StartOther(c)
    <3>1. PICK pc \in {"idle", "finalize", "release"} :
             Goto(c, pc, NoStatus, 0) /\ (~cache[c].known => pc = "idle")
      BY <2>8 DEF StartOther
    <3>2. task'[c].pc = pc /\ task'[c].next = NoStatus
      BY <1>m, <3>1, GotoStep DEF TypeOK
    <3>3. UNCHANGED <<phase, issuer, certSecret, status, cache>>
      BY <2>8 DEF StartOther
    <3> QED BY <1>m, <1>v, <3>1, <3>2, <3>3 DEF TrustOK, CacheOK, NoStatus
  <2>9. CASE StartKey(c) \/ StartIssue(c)
    <3>1. UNCHANGED <<phase, issuer, certSecret, status, cache>> /\ cache[c].known
      BY <2>9 DEF StartKey, StartIssue, Apply
    <3>2. \/ Goto(c, "key", cache[c].status, 0)
          \/ Goto(c, "issuer", cache[c].status, 0) /\ cache[c].status.keyExists
      BY <2>9 DEF StartKey, StartIssue
    <3>3. /\ task'[c].next = cache[c].status
          /\ task'[c].pc \in {"key", "issuer"}
          /\ task'[c].pc = "issuer" => cache[c].status.keyExists
      <4>1. CASE Goto(c, "key", cache[c].status, 0)
        BY <1>m, <4>1, GotoStep DEF TypeOK
      <4>2. CASE Goto(c, "issuer", cache[c].status, 0) /\ cache[c].status.keyExists
        BY <1>m, <4>2, GotoStep DEF TypeOK
      <4> QED BY <3>2, <4>1, <4>2
    <3> QED BY <1>m, <1>v, <3>1, <3>3 DEF TrustOK, CacheOK
  <2>10. CASE StartValidate(c)
    <3>1. /\ UNCHANGED <<phase, issuer, certSecret, status, cache>> /\ cache[c].known
          /\ cache[c].status.keyExists /\ cache[c].status.certExists
      BY <2>10 DEF StartValidate, Apply
    <3>2. UNCHANGED task \/ Goto(c, "patch", Validated(cache[c].status), cache[c].status.until)
      BY <2>10 DEF StartValidate
    <3>3. \/ task'[c] = task[c]
          \/ task'[c].pc = "patch" /\ task'[c].next.keyExists /\ task'[c].next.certExists
      BY <1>m, <1>t, <3>1, <3>2, GotoStep, ValidatedType DEF TypeOK
    <3> QED BY <1>m, <1>v, <3>1, <3>3 DEF TrustOK, CacheOK
  <2>11. CASE AddFinalizer(c) \/ Release(c)
    <3>1. /\ UNCHANGED <<issuer, certSecret, status, cache>> /\ task'[c] = Idle
          /\ phase'[c] = phase[c] \/ phase'[c] = "gone"
      BY <1>m, <2>11 DEF AddFinalizer, Release, Fail, TypeOK
    <3>2. task[c].pc # "idle"
      BY <2>11 DEF AddFinalizer, Release
    <3> QED BY <1>m, <1>v, <3>1, <3>2 DEF TrustOK, Idle, NoStatus
  <2>12. CASE CreateKey(c)
    <3>1. UNCHANGED <<phase, issuer, certSecret, status, cache>> /\ task[c].pc = "key"
      BY <2>12 DEF CreateKey
    <3>2. CASE Fail(c)
      BY <1>m, <1>v, <3>1, <3>2 DEF Fail, Idle, NoStatus, TrustOK, TypeOK
    <3>3. CASE c \notin keySecret /\ Goto(c, "patch", [task[c].next EXCEPT !.keyExists = TRUE], 0)
      <4>1. task'[c].pc = "patch" /\ task'[c].next.keyExists
        BY <1>m, <1>t, <3>3, GotoStep DEF TypeOK, Status
      <4>2. phase[c] # "gone" => ~status[c].keyExists /\ ~status[c].certExists
        BY <1>m, <3>3 DEF BackedOK, Backed, TrustOK
      <4> QED BY <1>m, <1>v, <3>1, <4>1, <4>2 DEF TrustOK
    <3> QED BY <2>12, <3>2, <3>3 DEF CreateKey
  <2>13. CASE ResolveIssuer(c)
    <3>1. UNCHANGED <<phase, issuer, certSecret, status, cache>> /\ task[c].pc = "issuer"
      BY <2>13 DEF ResolveIssuer
    <3>2. CASE Fail(c)
      BY <1>m, <1>v, <3>1, <3>2 DEF Fail, Idle, NoStatus, TrustOK, TypeOK
    <3>3. CASE /\ HasStatus(issuer[c])
               /\ Goto(c, IF IssuerReady(c) THEN "sign" ELSE "patch", task[c].next, 0)
      <4>1. /\ task'[c].pc = IF IssuerReady(c) THEN "sign" ELSE "patch"
            /\ task'[c].next = task[c].next
        BY <1>m, <3>3, GotoStep DEF TypeOK
      <4>2. issuer[c] \in Signers
        BY <3>3 DEF HasStatus, Signers
      <4>3. IssuerReady(c) => Vouched(c)
        BY <3>3, <4>2, IssuersAssumption DEF HasStatus, IssuerReady, HasKey, HasCert, Vouched, Signers
      <4>4. Vouched(c) => IssuerReady(c)
        BY <3>3, <4>2, IssuersAssumption DEF IssuerReady, HasKey, HasCert, Vouched, Signers, Exists, HasStatus
      <4>5. ~IssuerReady(c) /\ phase[c] # "gone" => ~status[c].certExists
        BY <1>m, <4>4 DEF TrustOK, BackedOK, Backed
      <4> QED BY <1>m, <1>v, <3>1, <4>1, <4>3, <4>5 DEF TrustOK
    <3> QED BY <2>13, <3>2, <3>3 DEF ResolveIssuer
  <2>14. CASE Sign(c)
    <3>1. UNCHANGED <<phase, issuer, status, cache>> /\ task[c].pc = "sign"
      BY <2>14 DEF Sign
    <3>2. CASE Fail(c) /\ UNCHANGED certSecret
      BY <1>m, <1>v, <3>1, <3>2 DEF Fail, Idle, NoStatus, TrustOK, TypeOK
    <3>3. CASE Signed(c)
      <4>1. task'[c].pc = "patch" /\ task'[c].next.keyExists /\ task'[c].next.certExists
        BY <1>m, <3>1, <3>3, GotoStep DEF Signed, TrustOK, TypeOK
      <4> QED BY <1>m, <1>v, <3>1, <4>1 DEF TrustOK
    <3> QED BY <1>m, <2>14, <3>2, <3>3, SignStep
  <2>15. CASE PatchStatus(c)
    <3>1. UNCHANGED <<phase, issuer, certSecret, cache>> /\ task[c].pc = "patch" /\ task'[c] = Idle
      BY <1>m, <2>15 DEF PatchStatus, Fail, TypeOK
    <3>2. status'[c] = status[c] \/ status'[c] = task[c].next
      BY <1>m, <2>15 DEF PatchStatus, TypeOK
    <3> QED BY <1>m, <1>v, <3>1, <3>2 DEF TrustOK, Idle, NoStatus
  <2> QED BY <1>1, <2>2, <2>3, <2>4, <2>5, <2>6, <2>7, <2>8, <2>9, <2>10, <2>11, <2>12, <2>13,
             <2>14, <2>15 DEF TaskStep
<1>2. CASE Restart
  <2>1. /\ UNCHANGED <<phase, issuer, certSecret, status>>
        /\ cache'[m] = Snapshot(m) /\ task'[m] = Idle
    BY <1>2 DEF Restart
  <2>2. Snapshot(m).status = status[m] \/ Snapshot(m).status = NoStatus
    BY DEF Snapshot, Unknown
  <2> QED BY <1>m, <1>v, <2>1, <2>2 DEF TrustOK, Idle, NoStatus
<1>3. CASE (\E e \in Externals : ImportExternal(e)) \/ Tick \/ UNCHANGED vars
  <2>1. Same(m)
    BY <1>3, <1>m DEF ImportExternal, Tick, vars, Same
  <2> QED BY <1>k, <1>m, <2>1, SameTrust
<1> QED BY <1>1, <1>2, <1>3 DEF Next

\* The abstract state, Certificate by Certificate.
LEMMA TrustMapsInit == Init => Trust!TrustInit
BY DEF Init, Trust!TrustInit, Trust!Nothing, LifeOf, ToldOf, Exists, NoStatus, Unissued

SameTold(m) ==
    /\ LifeOf(m)' = LifeOf(m) /\ ToldOf(m)' = ToldOf(m)
    /\ certSecret'[m].until = certSecret[m].until

LEMMA MapsSame ==
    ASSUME \A m \in Certs : SameTold(m), UNCHANGED <<issuer, external, keySecret>>
    PROVE  UNCHANGED Trust!trustVars
<1>1. /\ UNCHANGED [c \in Certs |-> LifeOf(c)] /\ UNCHANGED [c \in Certs |-> ToldOf(c)]
      /\ UNCHANGED [c \in Certs |-> certSecret[c].until]
  BY Zenon DEF SameTold
<1>2. UNCHANGED {e \in Externals : external[e] \in {"key", "full"}}
  OBVIOUS
<1> QED BY <1>1, <1>2 DEF Trust!trustVars, Trust!specVars, Trust!storedVars

LEMMA MapsOne ==
    ASSUME NEW c \in Certs, \A m \in Certs \ {c} : SameTold(m)
    PROVE  /\ [m \in Certs |-> LifeOf(m)]' = [[m \in Certs |-> LifeOf(m)] EXCEPT ![c] = LifeOf(c)']
           /\ [m \in Certs |-> ToldOf(m)]' = [[m \in Certs |-> ToldOf(m)] EXCEPT ![c] = ToldOf(c)']
           /\ [m \in Certs |-> certSecret[m].until]' =
                 [[m \in Certs |-> certSecret[m].until] EXCEPT ![c] = certSecret'[c].until]
BY DEF SameTold

LEMMA TellsSame ==
    ASSUME NEW m \in Certs, Same(m)
    PROVE  SameTold(m)
BY DEF Same, SameTold, LifeOf, ToldOf, Exists, NoStatus

\* Each step is one of CertTrust, or changes nothing there.
LEMMA TrustMaps ==
    ASSUME Inv, TInv, NEW c \in Certs,
           \/ CreateCert(c) \/ DeleteCert(c) \/ CollectGarbage(c)
           \/ Watch(c) \/ Wake(c) \/ TaskStep(c) \/ CallFails(c)
    PROVE  Trust!TrustNext \/ UNCHANGED Trust!trustVars
<1>t. TypeOK /\ TrustOK(c) /\ CacheOK(c) /\ BackedOK(c) /\ now \in Nat
  BY DEF Inv, TInv, CertOK, TypeOK
<1>o. \A m \in Certs \ {c} : SameTold(m)
  BY <1>t, OneAtATime, TellsSame
<1>s. SameTold(c) /\ UNCHANGED <<issuer, external, keySecret>> => UNCHANGED Trust!trustVars
  BY <1>o, MapsSame
<1>w. UNCHANGED <<phase, status, certSecret>> => SameTold(c)
  BY DEF SameTold, LifeOf, ToldOf, Exists, NoStatus
<1> USE DEF objVars, secretVars, watchVars, counters, Trust!specVars, Trust!storedVars
<1>1. CASE CreateCert(c)
  <2>1. /\ phase[c] = "absent" /\ phase'[c] = "live"
        /\ UNCHANGED <<external, keySecret, certSecret, status>>
        /\ \E i \in Issuers[c] : issuer' = [issuer EXCEPT ![c] = i]
    BY <1>t, <1>1 DEF CreateCert, TypeOK
  <2>2. LifeOf(c) = "absent" /\ LifeOf(c)' = "live"
    BY <2>1 DEF LifeOf, Exists
  <2>3. ToldOf(c) = ToldOf(c)'
    BY <1>t, <2>1 DEF ToldOf, Exists, TrustOK, NoStatus
  <2>4. Trust!Create(c)
    <3>1. /\ UNCHANGED [m \in Certs |-> ToldOf(m)]
          /\ UNCHANGED [m \in Certs |-> certSecret[m].until]
      BY <1>o, <2>1, <2>3 DEF SameTold
    <3>2. \E i \in Signers \union {Unsupported} : issuer' = [issuer EXCEPT ![c] = i]
      BY <2>1, IssuersAssumption
    <3> QED BY <1>o, <2>1, <2>2, <3>1, <3>2, MapsOne DEF Trust!Create
  <2> QED BY <2>4 DEF Trust!TrustNext
\* An object leaves the API server.
<1>2. CASE /\ Exists(c) /\ phase'[c] = "gone"
           /\ UNCHANGED <<issuer, external, keySecret, certSecret>>
  <2>1. LifeOf(c) = "live" /\ LifeOf(c)' = "gone" /\ ToldOf(c)' = Trust!Nothing
    BY <1>2 DEF LifeOf, ToldOf, Exists, NoStatus, Trust!Nothing
  <2>2. UNCHANGED [m \in Certs |-> certSecret[m].until]
    BY <1>2
  <2>3. Trust!Remove(c)
    BY <1>o, <1>2, <2>1, <2>2, MapsOne DEF Trust!Remove
  <2> QED BY <2>3 DEF Trust!TrustNext
<1>3. CASE DeleteCert(c)
  <2>1. /\ UNCHANGED <<issuer, external, keySecret, certSecret, status>> /\ phase[c] = "live"
        /\ phase'[c] \in {"deleting", "gone"}
    BY <1>t, <1>3 DEF DeleteCert, TypeOK
  <2>2. CASE phase'[c] = "gone"
    BY <1>2, <2>1, <2>2 DEF Exists
  <2>3. CASE phase'[c] = "deleting"
    BY <1>s, <2>1, <2>3 DEF SameTold, LifeOf, ToldOf, Exists, NoStatus
  <2> QED BY <2>1, <2>2, <2>3
<1>4. CASE CollectGarbage(c)
  <2>1. UNCHANGED <<phase, issuer, external, status>> /\ phase[c] = "gone"
    BY <1>4 DEF CollectGarbage
  <2>2. LifeOf(c) = "gone" /\ LifeOf(c)' = LifeOf(c) /\ ToldOf(c)' = ToldOf(c)
    BY <2>1 DEF LifeOf, ToldOf, Exists, NoStatus
  <2>3. /\ UNCHANGED [m \in Certs |-> LifeOf(m)] /\ UNCHANGED [m \in Certs |-> ToldOf(m)]
    BY <1>o, <2>2 DEF SameTold
  <2>4. \/ keySecret' = keySecret \ {c} /\ UNCHANGED certSecret
        \/ certSecret'[c].until = 0 /\ UNCHANGED keySecret
    BY <1>t, <1>4 DEF CollectGarbage, Unissued, TypeOK
  <2>5. Trust!Collect(c)
    <3>1. CASE keySecret' = keySecret \ {c} /\ UNCHANGED certSecret
      BY <2>1, <2>2, <2>3, <3>1 DEF Trust!Collect
    <3>2. CASE certSecret'[c].until = 0 /\ UNCHANGED keySecret
      <4>1. [m \in Certs |-> certSecret[m].until]' =
               [[m \in Certs |-> certSecret[m].until] EXCEPT ![c] = 0]
        BY <1>o, <3>2, MapsOne
      <4> QED BY <2>1, <2>2, <2>3, <3>2, <4>1 DEF Trust!Collect
    <3> QED BY <2>4, <3>1, <3>2
  <2> QED BY <2>5 DEF Trust!TrustNext
\* Steps that nobody else sees.
<1>5. CASE UNCHANGED <<phase, status, issuer, external, keySecret, certSecret>>
  BY <1>s, <1>w, <1>5
<1>6. CASE Watch(c) \/ Wake(c) \/ CallFails(c)
  BY <1>5, <1>6 DEF Watch, Wake, CallFails
<1>7. CASE StartOther(c) \/ StartKey(c) \/ StartIssue(c) \/ StartValidate(c) \/ AddFinalizer(c)
           \/ ResolveIssuer(c)
  BY <1>5, <1>7 DEF StartOther, StartKey, StartIssue, StartValidate, AddFinalizer, ResolveIssuer
<1>8. CASE Release(c)
  <2>1. UNCHANGED <<issuer, external, keySecret, certSecret, status>>
    BY <1>8 DEF Release
  <2>2. UNCHANGED phase \/ (phase[c] = "deleting" /\ phase'[c] = "gone")
    BY <1>t, <1>8 DEF Release, TypeOK
  <2> QED BY <1>2, <1>5, <2>1, <2>2 DEF Exists
\* The steps that store.
<1>9. CASE CreateKey(c)
  <2>1. UNCHANGED <<phase, status, issuer, external, certSecret>> /\ task[c].pc = "key"
    BY <1>9 DEF CreateKey
  <2>2. CASE c \notin keySecret /\ keySecret' = keySecret \union {c}
    <3>1. LifeOf(c) # "absent"
      BY <1>t, <2>1 DEF TrustOK, LifeOf, Exists
    <3>2. /\ UNCHANGED [m \in Certs |-> LifeOf(m)] /\ UNCHANGED [m \in Certs |-> ToldOf(m)]
          /\ UNCHANGED [m \in Certs |-> certSecret[m].until]
      BY <1>o, <1>w, <2>1 DEF SameTold
    <3>3. Trust!MakeKey(c)
      BY <2>1, <2>2, <3>1, <3>2 DEF Trust!MakeKey
    <3> QED BY <3>3 DEF Trust!TrustNext
  <2> QED BY <1>5, <1>9, <2>1, <2>2 DEF CreateKey
<1>10. CASE Sign(c)
  <2>1. UNCHANGED <<phase, status, issuer, external, keySecret>> /\ task[c].pc = "sign"
    BY <1>10 DEF Sign
  <2>2. CASE Signed(c)
    <3>1. LifeOf(c) # "absent"
      BY <1>t, <2>1 DEF TrustOK, LifeOf, Exists
    <3>2. LifeOf(c)' = LifeOf(c) /\ ToldOf(c)' = ToldOf(c)
      BY <2>1 DEF LifeOf, ToldOf, Exists, NoStatus
    <3>3. /\ UNCHANGED [m \in Certs |-> LifeOf(m)] /\ UNCHANGED [m \in Certs |-> ToldOf(m)]
      BY <1>o, <3>2 DEF SameTold
    <3>4. [m \in Certs |-> certSecret[m].until]' =
             [[m \in Certs |-> certSecret[m].until] EXCEPT ![c] = certSecret'[c].until]
      BY <1>o, MapsOne
    <3>5. c \in keySecret /\ certSecret'[c].until # 0 /\ certSecret'[c].until >= certSecret[c].until
      BY <1>t, <2>2 DEF Signed, BackedOK, TypeOK, Issued, Time
    <3>6. Trust!IssuerTold(c)
      BY <1>t, <2>1 DEF TrustOK, Vouched, Trust!IssuerTold, Signers, LifeOf, ToldOf, Exists
    <3>7. Trust!Sign(c)
      BY <2>1, <3>1, <3>3, <3>4, <3>5, <3>6 DEF Trust!Sign
    <3> QED BY <3>7 DEF Trust!TrustNext
  <2> QED BY <1>5, <1>10, <1>t, <2>1, <2>2, SignStep
\* The step that tells.
<1>11. CASE PatchStatus(c)
  <2>1. UNCHANGED <<phase, issuer, external, keySecret, certSecret>> /\ task[c].pc = "patch"
    BY <1>11 DEF PatchStatus
  <2>2. CASE Exists(c) /\ status'[c] = task[c].next
    <3>1. LifeOf(c) = "live" /\ LifeOf(c)' = "live"
      BY <2>1, <2>2 DEF LifeOf, Exists
    <3>2. /\ ToldOf(c) = [key |-> status[c].keyExists, cert |-> status[c].certExists,
                          until |-> status[c].until]
          /\ ToldOf(c)' = [key |-> task[c].next.keyExists, cert |-> task[c].next.certExists,
                           until |-> task[c].next.until]
      BY <2>1, <2>2 DEF ToldOf, Exists
    <3>3. /\ ToldOf(c).key => ToldOf(c)'.key
          /\ ToldOf(c).cert => ToldOf(c)'.cert
          /\ ToldOf(c)'.key => c \in keySecret
          /\ ToldOf(c)'.cert => certSecret[c].until # 0 /\ ToldOf(c)'.until <= certSecret[c].until
      BY <1>t, <2>1, <2>2, <3>2 DEF TrustOK, BackedOK, Backed, Exists
    <3>4. UNCHANGED [m \in Certs |-> LifeOf(m)]
      BY <1>o, <3>1 DEF SameTold
    <3>5. Trust!Tell(c)
      BY <1>o, <2>1, <3>1, <3>3, <3>4, MapsOne DEF Trust!Tell
    <3> QED BY <3>5 DEF Trust!TrustNext
  <2>3. UNCHANGED status \/ (Exists(c) /\ status'[c] = task[c].next)
    BY <1>t, <1>11 DEF PatchStatus, TypeOK
  <2> QED BY <1>5, <2>1, <2>2, <2>3
<1> QED BY <1>1, <1>3, <1>4, <1>6, <1>7, <1>8, <1>9, <1>10, <1>11 DEF TaskStep

\* What other Certificates and the pods read in a status is stored and stays true
\* as long as the object is there, however old the cache a pass worked on, and
\* nobody is signed for before the issuer was told to be ready: of any
\* Certificates, issuers, failures and restarts (reconcile.rs 90-156, 189-212,
\* 283-421).
THEOREM TrustIsKept == Spec => ImplementsTrust
<1>1. Inv /\ Inv' /\ TInv /\ [Next]_vars => TInv'
  BY TrustStep
<1>2. Inv /\ TInv /\ [Next]_vars => [Trust!TrustNext]_(Trust!trustVars)
  <2> SUFFICES ASSUME Inv, TInv, [Next]_vars
               PROVE  Trust!TrustNext \/ UNCHANGED Trust!trustVars
    OBVIOUS
  <2>1. ASSUME NEW e \in Externals, ImportExternal(e)
        PROVE  Trust!TrustNext \/ UNCHANGED Trust!trustVars
    <3>1. UNCHANGED <<phase, status, issuer, keySecret, certSecret>>
      BY <2>1 DEF ImportExternal, objVars
    <3> DEFINE ready == {x \in Externals : external[x] \in {"key", "full"}}
    <3>2. ready' = ready \/ ready' = ready \union {e}
      BY <2>1 DEF ImportExternal, Inv, TypeOK
    <3>3. /\ UNCHANGED [m \in Certs |-> LifeOf(m)] /\ UNCHANGED [m \in Certs |-> ToldOf(m)]
          /\ UNCHANGED [m \in Certs |-> certSecret[m].until]
      BY <3>1 DEF LifeOf, ToldOf, Exists, NoStatus
    <3>4. CASE ready' = ready
      BY <3>1, <3>3, <3>4 DEF Trust!trustVars, Trust!specVars, Trust!storedVars
    <3>5. CASE ready' = ready \union {e}
      <4>1. Trust!Import(e)
        BY <3>1, <3>3, <3>5 DEF Trust!Import, Trust!storedVars
      <4> QED BY <4>1 DEF Trust!TrustNext
    <3> QED BY <3>2, <3>4, <3>5
  <2>2. CASE Tick \/ Restart \/ UNCHANGED vars
    <3>1. UNCHANGED <<phase, status, issuer, external, keySecret, certSecret>>
      BY <2>2 DEF Tick, Restart, vars, objVars, secretVars
    <3>2. \A m \in Certs : SameTold(m)
      BY <3>1 DEF SameTold, LifeOf, ToldOf, Exists, NoStatus
    <3> QED BY <3>1, <3>2, MapsSame
  <2> QED BY <2>1, <2>2, TrustMaps DEF Next
<1> QED BY <1>1, <1>2, TrustInit, TrustMapsInit, Invariance, PTL
        DEF Spec, ImplementsTrust, Trust!TrustSpec
=============================================================================
