------------------------ MODULE ExtCertControllerProofs ------------------------
(* Theorems about the ExternalCertificate controller, for any Secrets and  *)
(* any number of edits, failures and restarts.                             *)
EXTENDS ExtCertController, TLAPS

\* What the cache may be behind in; and it is behind only with an event to come.
CacheOK ==
    /\ cache.deleting => object \in {"deleting", "gone"}
    /\ dirty \/ cache = Snapshot

\* Does a status tell what the Secret of the spec holds, and is that there?
Tells(s) ==
    /\ content[spec].there
    /\ s.keyExists = content[spec].key
    /\ s.certExists = (content[spec].cert # 0)
    /\ s.keyExists => s.keyIn = {spec}
    /\ s.certExists => s.certIn = {spec} /\ s.until = content[spec].cert

\* Nothing is to be handled but what the task knows.
Quiet == object = "live" /\ ~dirty /\ ~queue

\* The task is about the Secret of the latest spec; what it has read, or has
\* written, is what that Secret holds, unless it was edited since.
PassOK ==
    Quiet =>
        /\ task.pc # "release"
        /\ task.pc \in {"get", "patch"} => task.from.spec = spec
        /\ spec \notin stale =>
             /\ task.pc = "idle" => Tells(status)
             /\ task.pc = "patch" => Tells(task.next)

ReleaseOK == task.pc = "release" => object \in {"deleting", "gone"}

Inv == TypeOK /\ CacheOK /\ PassOK /\ ReleaseOK

USE BoundAssumption

-----------------------------------------------------------------------------
(* Type correctness.                                                       *)

LEMMA ConstantTypes ==
    NoStatus \in Status /\ Idle \in Task /\ Missing \in Content
<1>1. NoStatus \in Status /\ Missing \in Content
  BY DEF NoStatus, Status, Missing, Content, Time
<1>2. NoObject \in Cached
  BY <1>1 DEF NoObject, Cached
<1> QED BY <1>1, <1>2 DEF Idle, Task, PC

LEMMA SnapshotType ==
    ASSUME finalizer \in BOOLEAN, spec \in Secrets, status \in Status
    PROVE  Snapshot \in Cached
<1>1. (object \in {"live", "deleting"}) \in BOOLEAN /\ (object = "deleting") \in BOOLEAN
  OBVIOUS
<1> QED BY <1>1, Zenon DEF Snapshot, Cached

\* What a snapshot says.
LEMMA SnapshotSays ==
    /\ Snapshot.deleting => object = "deleting"
    /\ object = "live" => Snapshot.known /\ ~Snapshot.deleting
    /\ Snapshot.spec = spec
BY DEF Snapshot

LEMMA TypeInit == Init => TypeOK
<1> SUFFICES ASSUME Init PROVE TypeOK
    OBVIOUS
<1>1. now \in Time /\ content \in [Secrets -> Content] /\ stale \subseteq Secrets
  BY ConstantTypes DEF Init, Time
<1>2. cache \in Cached
  BY ConstantTypes, SnapshotType, Zenon DEF Init
<1>3. dirty \in BOOLEAN /\ queue \in BOOLEAN /\ finalizer \in BOOLEAN
  BY Zenon DEF Init
<1>4. edits \in 0 .. MaxEdits /\ rewrites \in 0 .. MaxRewrites /\ faults \in 0 .. MaxFaults
  BY DEF Init
<1> QED BY <1>1, <1>2, <1>3, <1>4, ConstantTypes DEF Init, TypeOK

LEMMA TypeTask ==
    ASSUME TypeOK, End \/ Fail
    PROVE  task' \in Task /\ queue' \in BOOLEAN
BY ConstantTypes DEF TypeOK, End, Fail

\* A Secret that was read becomes a status.
LEMMA ImportedType ==
    ASSUME TypeOK, NEW old \in Status, NEW s \in Secrets
    PROVE  Imported(old, s) \in Status
<1> DEFINE c == content[s]
<1>1. /\ now \in Nat /\ c.cert \in Time /\ c.cert \in Nat /\ c.key \in BOOLEAN
      /\ old.until \in Time /\ old.keyIn \subseteq Secrets /\ old.certIn \subseteq Secrets
  BY DEF TypeOK, Content, Status, Time
<1> DEFINE v == c.cert > now
           n == c.cert # 0
           u == IF c.cert # 0 THEN c.cert ELSE old.until
           y == c.cert # 0 /\ c.cert > now
           k == IF c.key THEN {s} ELSE old.keyIn
           h == IF c.cert # 0 THEN {s} ELSE old.certIn
<1>2. v \in BOOLEAN /\ n \in BOOLEAN /\ y \in BOOLEAN /\ u \in Time
  BY <1>1
<1>3. k \in SUBSET Secrets /\ h \in SUBSET Secrets
  BY <1>1
<1>4. Imported(old, s) = [keyExists |-> c.key, keyIn |-> k, certExists |-> n, certIn |-> h,
                          valid |-> v, until |-> u, ready |-> y]
  BY DEF Imported
<1> HIDE DEF v, n, u, y, k, h
<1> QED BY <1>1, <1>2, <1>3, <1>4 DEF Status

\* A Secret that is created holds a key or not, a certificate or not.
LEMMA SecretType ==
    ASSUME NEW k \in BOOLEAN, NEW c \in {0, 2}
    PROVE  [there |-> TRUE, key |-> k, cert |-> c] \in Content
BY DEF Content, Time

LEMMA TypeStep == TypeOK /\ [Next]_vars => TypeOK'
<1> SUFFICES ASSUME TypeOK, [Next]_vars PROVE TypeOK'
    OBVIOUS
<1> USE DEF TypeOK, objVars
<1>1. CASE CreateObject \/ DeleteObject
  BY <1>1 DEF CreateObject, DeleteObject
<1>2. ASSUME NEW s \in Secrets, CreateSecret(s) PROVE TypeOK'
  <2>1. PICK k \in BOOLEAN, c \in {0, 2} :
           content' = [content EXCEPT ![s] = [there |-> TRUE, key |-> k, cert |-> c]]
    BY <1>2 DEF CreateSecret
  <2>2. [there |-> TRUE, key |-> k, cert |-> c] \in Content
    BY <2>1, SecretType
  <2>3. content' \in [Secrets -> Content]
    BY <2>1, <2>2
  <2> QED BY <1>2, <2>3 DEF CreateSecret
<1>3. ASSUME NEW s \in Secrets, EditSecret(s) \/ EditSpec(s) PROVE TypeOK'
  <2>1. CASE EditSecret(s)
    <3>1. [content[s] EXCEPT !.cert = MaxTime] \in Content
      BY DEF Content, Time
    <3>2. content' \in [Secrets -> Content] /\ stale' \subseteq Secrets
      BY <2>1, <3>1 DEF EditSecret
    <3> QED BY <2>1, <3>2 DEF EditSecret
  <2>2. CASE EditSpec(s)
    BY <2>2 DEF EditSpec
  <2> QED BY <1>3, <2>1, <2>2
<1>4. CASE Tick
  BY <1>4 DEF Tick, Time
<1>5. CASE Watch \/ Restart
  <2>1. cache' \in Cached /\ task' \in Task
    BY <1>5, SnapshotType, ConstantTypes DEF Watch, Restart
  <2>2. dirty' \in BOOLEAN /\ queue' \in BOOLEAN
    <3>1. (object \in {"live", "deleting"}) \in BOOLEAN /\ (queue \/ object \in {"live", "deleting"}) \in BOOLEAN
      OBVIOUS
    <3>2. CASE Watch
      BY <3>1, <3>2, Zenon DEF Watch
    <3>3. CASE Restart
      BY <3>1, <3>3, Zenon DEF Restart
    <3> QED BY <1>5, <3>2, <3>3
  <2>3. faults' \in 0 .. MaxFaults
    BY <1>5 DEF Watch, Restart
  <2>4. UNCHANGED <<now, content, stale, objVars, edits, rewrites>>
    BY <1>5 DEF Watch, Restart
  <2> QED BY <2>1, <2>2, <2>3, <2>4
<1>6. CASE CallFails
  BY <1>6, TypeTask DEF CallFails
<1>7. CASE Start
  BY <1>7, ConstantTypes DEF Start, Task, PC
<1>8. CASE AddFinalizer
  BY <1>8, TypeTask DEF AddFinalizer
<1>9. CASE GetSecret
  <2>1. task.from.spec \in Secrets /\ task.from.status \in Status
    BY DEF Task, Cached
  <2> DEFINE s == Imported(task.from.status, task.from.spec)
  <2>2. s \in Status
    BY <2>1, ImportedType
  <2>3. \/ /\ task' = [task EXCEPT !.pc = "patch", !.next = s] /\ UNCHANGED queue
           /\ stale' = stale \ {task.from.spec}
        \/ Fail /\ UNCHANGED stale
    BY <1>9 DEF GetSecret
  <2> HIDE DEF s
  <2>4. task' \in Task /\ queue' \in BOOLEAN /\ stale' \subseteq Secrets
    <3>1. [task EXCEPT !.pc = "patch", !.next = s] \in Task
      BY <2>2 DEF Task, PC
    <3> QED BY <2>3, <3>1, TypeTask
  <2> QED BY <1>9, <2>4 DEF GetSecret
<1>10. CASE PatchStatus
  BY <1>10, TypeTask DEF PatchStatus, Task
<1>11. CASE Release
  BY <1>11, TypeTask DEF Release
<1>12. CASE UNCHANGED vars
  BY <1>12 DEF vars
<1> QED BY <1>1, <1>2, <1>3, <1>4, <1>5, <1>6, <1>7, <1>8, <1>9, <1>10, <1>11, <1>12
        DEF Next, UserStep, TaskStep

-----------------------------------------------------------------------------
(* The invariant.                                                          *)

LEMMA InvInit == Init => Inv
BY TypeInit, SnapshotSays DEF Init, Inv, CacheOK, PassOK, ReleaseOK, Quiet, Idle

LEMMA InvStep == Inv /\ [Next]_vars => Inv'
<1> SUFFICES ASSUME Inv, [Next]_vars PROVE Inv'
    OBVIOUS
<1>0. TypeOK /\ TypeOK'
  BY TypeStep DEF Inv
<1> USE DEF Inv, objVars, CacheOK, PassOK, ReleaseOK, Quiet
<1>s. UNCHANGED objVars => Snapshot' = Snapshot
  <2> SUFFICES ASSUME UNCHANGED objVars PROVE Snapshot' = Snapshot
    OBVIOUS
  <2>1. UNCHANGED <<object, finalizer, spec, status>>
    OBVIOUS
  <2> QED BY <2>1, Zenon DEF Snapshot
<1>1. CASE CreateObject \/ DeleteObject
  BY <1>0, <1>1 DEF CreateObject, DeleteObject, TypeOK
\* A Secret that appears is that of no pass that is over, or has read it.
<1>2. ASSUME NEW s \in Secrets, CreateSecret(s) PROVE Inv'
  <2>1. content[s].there = FALSE /\ \A t \in Secrets \ {s} : content'[t] = content[t]
    BY <1>0, <1>2 DEF CreateSecret, TypeOK, Content
  <2>2. UNCHANGED <<stale, object, finalizer, spec, status, cache, dirty, queue, task>>
    BY <1>2 DEF CreateSecret
  <2>3. spec \in Secrets
    BY <1>0 DEF TypeOK
  <2>4. Snapshot' = Snapshot
    BY <1>s, <2>2
  <2> QED BY <1>0, <2>1, <2>2, <2>3, <2>4 DEF Tells
<1>3. ASSUME NEW s \in Secrets, EditSecret(s) PROVE Inv'
  <2>1. \A t \in Secrets \ {s} : content'[t] = content[t]
    BY <1>0, <1>3 DEF EditSecret, TypeOK
  <2>2. /\ UNCHANGED <<object, finalizer, spec, status, cache, dirty, queue, task>>
        /\ stale' = stale \union {s}
    BY <1>3 DEF EditSecret
  <2>3. spec \in Secrets
    BY <1>0 DEF TypeOK
  <2>4. Snapshot' = Snapshot
    BY <1>s, <2>2
  <2> QED BY <1>0, <2>1, <2>2, <2>3, <2>4 DEF Tells
<1>4. ASSUME NEW s \in Secrets, EditSpec(s) PROVE Inv'
  BY <1>0, <1>4 DEF EditSpec
<1>5. CASE Tick \/ UNCHANGED vars
  <2>1. UNCHANGED <<content, stale, objVars, cache, dirty, queue, task>>
    BY <1>5 DEF Tick, vars
  <2>2. Snapshot' = Snapshot
    BY <1>s, <2>1
  <2> QED BY <1>0, <2>1, <2>2 DEF Tells
<1>6. CASE Watch \/ Restart
  <2>1. /\ UNCHANGED <<content, stale, objVars>> /\ cache' = Snapshot
        /\ task' = task \/ task' = Idle
        /\ object \in {"live", "deleting"} => queue'
    BY <1>6 DEF Watch, Restart
  <2>2. Snapshot' = Snapshot
    BY <1>s, <2>1
  <2> QED BY <1>0, <2>1, <2>2, SnapshotSays DEF Idle
<1>7. CASE CallFails
  <2>1. UNCHANGED <<objVars, cache, dirty>> /\ task' = Idle /\ queue' = TRUE
    BY <1>7 DEF CallFails, Fail
  <2>2. Snapshot' = Snapshot
    BY <1>s, <2>1
  <2> QED BY <1>0, <2>1, <2>2 DEF Idle
<1>8. CASE Start
  <2>1. /\ UNCHANGED <<content, stale, object, finalizer, spec, status, cache, dirty>>
        /\ task'.from = cache
        /\ task'.pc \in {"idle", "release", "get", "finalize"}
        /\ task'.pc = "release" => cache.deleting
        /\ cache.known /\ ~cache.deleting => task'.pc \in {"get", "finalize"}
    BY <1>8 DEF Start
  <2>2. Snapshot' = Snapshot
    BY <1>s, <2>1
  <2> QED BY <1>0, <2>1, <2>2, SnapshotSays DEF Tells
<1>9. CASE AddFinalizer
  <2>1. /\ UNCHANGED <<object, spec, status, cache>> /\ task' = Idle
        /\ dirty' = TRUE \/ (UNCHANGED <<finalizer, dirty>> /\ queue' = TRUE)
    BY <1>9 DEF AddFinalizer, End, Fail
  <2>2. dirty' = TRUE \/ Snapshot' = Snapshot
    BY <1>s, <2>1
  <2> QED BY <1>0, <2>1, <2>2 DEF Idle
<1>10. CASE GetSecret
  <2> DEFINE s == Imported(task.from.status, task.from.spec)
  <2>1. \/ Fail /\ UNCHANGED stale
        \/ /\ content[task.from.spec].there
           /\ task' = [task EXCEPT !.pc = "patch", !.next = s] /\ UNCHANGED queue
    BY <1>10 DEF GetSecret
  <2>2. /\ UNCHANGED <<content, object, finalizer, spec, status, cache, dirty>> /\ task.pc = "get"
    BY <1>10 DEF GetSecret
  <2>s. Snapshot' = Snapshot
    BY <1>s, <2>2
  <2>3. CASE Fail
    BY <1>0, <2>2, <2>3, <2>s DEF Fail, Idle
  <2>4. CASE /\ content[task.from.spec].there
             /\ task' = [task EXCEPT !.pc = "patch", !.next = s] /\ UNCHANGED queue
    <3>1. /\ s.keyExists = content[task.from.spec].key
          /\ s.certExists = (content[task.from.spec].cert # 0)
          /\ s.keyExists => s.keyIn = {task.from.spec}
          /\ s.certExists => /\ s.certIn = {task.from.spec}
                             /\ s.until = content[task.from.spec].cert
      BY DEF Imported
    <3> HIDE DEF s
    <3>2. task'.pc = "patch" /\ task'.next = s /\ task'.from = task.from
      BY <1>0, <2>4 DEF TypeOK, Task
    <3>3. Quiet' => Quiet /\ task.from.spec = spec
      BY <2>2, <2>4
    <3>4. Quiet' => Tells(task.next)'
      <4> SUFFICES ASSUME Quiet' PROVE Tells(task.next)'
        OBVIOUS
      <4>1. task.from.spec = spec /\ UNCHANGED <<content, spec>>
        BY <2>2, <3>3
      <4>2. Tells(s)
        BY <2>4, <3>1, <4>1, Zenon DEF Tells
      <4> QED BY <3>2, <4>1, <4>2 DEF Tells
    <3> QED BY <1>0, <2>2, <2>s, <2>4, <3>2, <3>3, <3>4
  <2> QED BY <2>1, <2>3, <2>4
<1>11. CASE PatchStatus
  <2>1. UNCHANGED <<content, stale, object, finalizer, spec, cache>> /\ task' = Idle /\ task.pc = "patch"
    BY <1>11 DEF PatchStatus, End, Fail
  <2>2. CASE Fail /\ UNCHANGED <<status, dirty>>
    <3>1. Snapshot' = Snapshot
      BY <1>s, <2>1, <2>2
    <3> QED BY <1>0, <2>1, <2>2, <3>1 DEF Fail, Idle
  <2>3. CASE status' = task.next /\ dirty' = (dirty \/ status # task.next) /\ End
    <3>1. CASE dirty'
      BY <1>0, <2>1, <3>1 DEF Idle
    <3>2. CASE ~dirty'
      <4>1. UNCHANGED <<status, dirty, queue>> /\ task.next = status /\ ~dirty
        <5>1. ~dirty /\ task.next = status /\ status' = task.next /\ End
          BY <2>3, <3>2, Zenon
        <5>2. dirty' = dirty
          BY <1>0, <3>2, <5>1, Zenon DEF TypeOK
        <5> QED BY <5>1, <5>2 DEF End
      <4>2. Snapshot' = Snapshot
        BY <1>s, <2>1, <4>1
      <4>3. Tells(status)' = Tells(task.next)
        BY <2>1, <4>1 DEF Tells
      <4> QED BY <1>0, <2>1, <4>1, <4>2, <4>3 DEF Idle
    <3> QED BY <3>1, <3>2
  <2> QED BY <1>11, <2>2, <2>3 DEF PatchStatus
<1>12. CASE Release
  <2>1. /\ UNCHANGED <<finalizer, spec, status, cache>> /\ task' = Idle
        /\ \/ dirty' = TRUE /\ object = "deleting" /\ object' = "gone"
           \/ UNCHANGED <<object, dirty>> /\ queue' = TRUE
    BY <1>12 DEF Release, End, Fail
  <2>2. dirty' = TRUE \/ Snapshot' = Snapshot
    BY <1>s, <2>1
  <2> QED BY <1>0, <2>1, <2>2 DEF Idle
<1> QED BY <1>1, <1>2, <1>3, <1>4, <1>5, <1>6, <1>7, <1>8, <1>9, <1>10, <1>11, <1>12
        DEF Next, UserStep, TaskStep

LEMMA Invariance == Spec => []Inv
<1>1. Init => Inv
  BY InvInit
<1>2. Inv /\ [Next]_vars => Inv'
  BY InvStep
<1> QED BY <1>1, <1>2, PTL DEF Spec

-----------------------------------------------------------------------------
(* The theorems.                                                           *)

\* Every variable keeps its type.
THEOREM TypeCorrect == Spec => []TypeOK
<1>1. Inv => TypeOK
  BY DEF Inv
<1> QED BY <1>1, Invariance, PTL

\* The status tells what the Secret of the latest spec held when it was read last.
THEOREM ImportsSettle == Spec => []SettledImport
<1>1. Inv => SettledImport
  BY DEF Inv, PassOK, Quiet, Tells, Settled, SettledImport
<1> QED BY <1>1, Invariance, PTL
=============================================================================
