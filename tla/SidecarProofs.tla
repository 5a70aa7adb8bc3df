----------------------------- MODULE SidecarProofs -----------------------------
(* Theorems about the sidecar, for any entries and uris, and any number of *)
(* changes and crashes.                                                    *)
EXTENDS Sidecar, SequenceTheorems, TLAPS

\* The neighbors that the sidecar will have handled after all it was told.
Latest ==
    IF events # << >> THEN events[Len(events)]
    ELSE IF pc = "links" THEN new ELSE neighbors

\* Nothing is lost on the way from the status to the sidecar.
ToldOK ==
    /\ pc # "offline" => Latest = Merged(status)
    /\ pc = "offline" => neighbors = {} /\ events = << >>

\* How far a pass has come: what it created stays, what is left to destroy is new
\* to none.
PassOK ==
    pc = "links" => added \subseteq new /\ removed \intersect new = {}

\* Which links ndnd has, and which it may have.
LinksOK ==
    /\ ~ndnd => links = {}
    /\ ~missed /\ pc = "watch" => neighbors \subseteq links
    /\ ~missed /\ pc = "links" => new \ added \subseteq links
    /\ sidecarCrashes = 0 /\ pc # "links" => links \subseteq neighbors
    /\ sidecarCrashes = 0 /\ pc = "links" => links \subseteq new \union removed

Inv == TypeOK /\ ToldOK /\ PassOK /\ LinksOK

USE BoundAssumption, NoneAssumption

-----------------------------------------------------------------------------
LEMMA MergedType ==
    ASSUME NEW s \in [Entries -> Uris \union {None}]
    PROVE  Merged(s) \subseteq Uris
BY DEF Merged

LEMMA TypeInit == Init => TypeOK
<1> SUFFICES ASSUME Init PROVE TypeOK
    OBVIOUS
<1>1. events \in Seq(SUBSET Uris)
  BY DEF Init
<1>2. status \in [Entries -> Uris \union {None}]
  BY DEF Init
<1>3. {neighbors, new, added, removed, links} \subseteq SUBSET Uris
  BY DEF Init
<1>4. {ndnd, missed} \subseteq BOOLEAN
  BY DEF Init
<1>5. changes \in 0 .. MaxChanges /\ sidecarCrashes \in 0 .. MaxSidecar /\ ndndCrashes \in 0 .. MaxNdnd
  BY DEF Init
<1> QED BY <1>1, <1>2, <1>3, <1>4, <1>5 DEF Init, TypeOK

LEMMA TypeStep == TypeOK /\ [Next]_vars => TypeOK'
<1> SUFFICES ASSUME TypeOK, [Next]_vars PROVE TypeOK'
    OBVIOUS
<1> USE DEF TypeOK, loopVars, counters
<1>1. ASSUME NEW e \in Entries, NEW u \in Uris \union {None}, ChangeStatus(e, u) PROVE TypeOK'
  <2>1. status' \in [Entries -> Uris \union {None}] /\ changes' \in 0 .. MaxChanges
    BY <1>1 DEF ChangeStatus
  <2>2. Merged(status') \in SUBSET Uris
    BY <2>1, MergedType
  <2>3. events' \in Seq(SUBSET Uris)
    <3> DEFINE m == Merged(status')
    <3> HIDE DEF m
    <3>1. events' = events \/ events' = Append(events, m)
      BY <1>1 DEF ChangeStatus, m
    <3>2. m \in SUBSET Uris
      BY <2>2 DEF m
    <3> QED BY <3>1, <3>2
  <2> QED BY <1>1, <2>1, <2>3 DEF ChangeStatus
<1>2. CASE GoOnline
  <2>1. Merged(status) \in SUBSET Uris
    BY MergedType
  <2>2. events' \in Seq(SUBSET Uris)
    BY <1>2, <2>1 DEF GoOnline
  <2> QED BY <1>2, <2>2 DEF GoOnline
<1>3. CASE Receive
  <2>1. new' \in SUBSET Uris /\ events' \in Seq(SUBSET Uris)
    BY <1>3 DEF Receive
  <2> QED BY <1>3, <2>1 DEF Receive, Added, Removed
<1>4. ASSUME NEW u \in Uris, CreateLink(u) \/ DestroyLink(u) PROVE TypeOK'
  BY <1>4 DEF CreateLink, DestroyLink
<1>5. CASE Remember
  BY <1>5 DEF Remember
<1>6. CASE NdndStart \/ NdndCrash
  <2>1. ndnd' \in BOOLEAN /\ missed' \in BOOLEAN /\ ndndCrashes' \in 0 .. MaxNdnd
    <3>1. CASE NdndStart
      BY <3>1 DEF NdndStart
    <3>2. CASE NdndCrash
      <4>1. MaxNdnd \in Nat
        BY BoundAssumption
      <4>2. ndndCrashes' \in 0 .. MaxNdnd
        BY <3>2, <4>1 DEF NdndCrash
      <4>3. ndnd' \in BOOLEAN /\ missed' \in BOOLEAN
        BY <3>2, Zenon DEF NdndCrash
      <4> QED BY <4>2, <4>3
    <3> QED BY <1>6, <3>1, <3>2
  <2>2. links' \in SUBSET Uris
    <3>1. CASE NdndStart
      BY <3>1 DEF NdndStart
    <3>2. CASE NdndCrash
      BY <3>2 DEF NdndCrash
    <3> QED BY <1>6, <3>1, <3>2
  <2>3. UNCHANGED <<status, events, pc, neighbors, new, added, removed, changes, sidecarCrashes>>
    <3>1. CASE NdndStart
      BY <3>1 DEF NdndStart
    <3>2. CASE NdndCrash
      BY <3>2 DEF NdndCrash
    <3> QED BY <1>6, <3>1, <3>2
  <2> QED BY <2>1, <2>2, <2>3
<1>7. CASE SidecarCrash
  <2>1. events' \in Seq(SUBSET Uris)
    BY <1>7 DEF SidecarCrash
  <2> QED BY <1>7, <2>1 DEF SidecarCrash
<1>8. CASE UNCHANGED vars
  BY <1>8 DEF vars
<1> QED BY <1>1, <1>2, <1>3, <1>4, <1>5, <1>6, <1>7, <1>8 DEF Next, Loop, Command

-----------------------------------------------------------------------------
(* The invariant.                                                          *)

LEMMA InvInit == Init => Inv
BY TypeInit DEF Init, Inv, ToldOK, PassOK, LinksOK

\* A change of the status reaches the queue of the watch.
LEMMA ChangeOK ==
    ASSUME Inv, NEW e \in Entries, NEW u \in Uris \union {None}, ChangeStatus(e, u)
    PROVE  ToldOK' /\ PassOK' /\ LinksOK'
<1> DEFINE m == Merged(status')
<1>1. /\ UNCHANGED <<pc, neighbors, new, added, removed, ndnd, links, missed, sidecarCrashes>>
      /\ events' = IF pc = "offline" THEN events ELSE Append(events, m)
  BY DEF ChangeStatus, loopVars
<1>2. events \in Seq(SUBSET Uris)
  BY DEF Inv, TypeOK
<1>3. ToldOK'
  <2>1. CASE pc = "offline"
    BY <1>1, <2>1 DEF Inv, ToldOK
  <2>2. CASE pc # "offline"
    <3> HIDE DEF m
    <3>1. events' # << >> /\ events'[Len(events')] = m
      BY <1>1, <1>2, <2>2
    <3> QED BY <1>1, <2>2, <3>1 DEF ToldOK, Latest, m
  <2> QED BY <2>1, <2>2
<1> QED BY <1>1, <1>3 DEF Inv, PassOK, LinksOK

\* The loop of the sidecar.
LEMMA LoopOK ==
    ASSUME Inv, Loop
    PROVE  ToldOK' /\ PassOK' /\ LinksOK'
<1>t. events \in Seq(SUBSET Uris) /\ pc \in {"offline", "watch", "links"}
  BY DEF Inv, TypeOK
<1>1. CASE GoOnline
  <2> DEFINE m == Merged(status)
  <2>1. /\ events' = <<m>> /\ pc' = "watch" /\ pc = "offline" /\ missed' = FALSE
        /\ UNCHANGED <<status, neighbors, new, added, removed, ndnd, links, sidecarCrashes>>
    BY <1>1 DEF GoOnline, counters
  <2>2. ToldOK'
    <3>1. m' = m
      BY <2>1 DEF Merged
    <3> HIDE DEF m
    <3>2. events' # << >> /\ events'[Len(events')] = m
      BY <2>1
    <3> QED BY <2>1, <3>1, <3>2 DEF ToldOK, Latest, m
  <2> QED BY <2>1, <2>2 DEF Inv, ToldOK, PassOK, LinksOK
<1>2. CASE Receive
  <2>1. /\ pc = "watch" /\ pc' = "links" /\ events # << >>
        /\ new' = Head(events) /\ events' = Tail(events)
        /\ added' = new' \ neighbors /\ removed' = neighbors \ new'
        /\ UNCHANGED <<status, neighbors, ndnd, links, missed, sidecarCrashes>>
    BY <1>2 DEF Receive, Added, Removed, counters
  <2>2. Latest' = Latest
    <3>1. CASE Len(events) = 1
      <4>1. events' = << >> /\ new' = events[Len(events)]
        BY <1>t, <2>1, <3>1
      <4> QED BY <2>1, <4>1 DEF Latest
    <3>2. CASE Len(events) # 1
      <4>1. events' # << >> /\ events'[Len(events')] = events[Len(events)]
        <5>1. Len(events) \in Nat /\ Len(events) > 1
          <6>1. Len(events) \in Nat \ {0}
            BY <1>t, <2>1, EmptySeq
          <6> DEFINE n == Len(events)
          <6>2. n \in Nat \ {0} /\ n # 1
            BY <3>2, <6>1
          <6> HIDE DEF n
          <6>3. n \in Nat /\ n > 1
            BY <6>2
          <6> QED BY <6>3 DEF n
        <5>2. Len(events') = Len(events) - 1
          BY <1>t, <2>1, <5>1
        <5>3. events'[Len(events')] = events[Len(events') + 1]
          BY <1>t, <2>1, <5>1, <5>2
        <5> QED BY <5>1, <5>2, <5>3
      <4> QED BY <2>1, <4>1 DEF Latest
    <3> QED BY <3>1, <3>2
  <2>3. ToldOK'
    BY <2>1, <2>2 DEF Inv, ToldOK, Merged
  <2> QED BY <2>1, <2>3 DEF Inv, PassOK, LinksOK
<1>3. CASE Command \/ Remember
  <2>1. /\ UNCHANGED <<status, events, new, sidecarCrashes, ndnd>> /\ pc = "links"
        /\ pc' = "links" \/ (pc' = "watch" /\ neighbors' = new)
    BY <1>3 DEF Command, CreateLink, DestroyLink, Remember, counters
  <2>2. ToldOK'
    BY <2>1 DEF Inv, ToldOK, Latest, Merged
  <2>3. PassOK' /\ LinksOK'
    <3>1. ASSUME NEW u \in Uris, CreateLink(u) PROVE PassOK' /\ LinksOK'
      BY <3>1 DEF CreateLink, Inv, PassOK, LinksOK, counters
    <3>2. ASSUME NEW u \in Uris, DestroyLink(u) PROVE PassOK' /\ LinksOK'
      BY <3>2 DEF DestroyLink, Inv, PassOK, LinksOK, counters
    <3>3. CASE Remember
      BY <3>3 DEF Remember, Inv, PassOK, LinksOK, counters
    <3> QED BY <1>3, <3>1, <3>2, <3>3 DEF Command
  <2> QED BY <2>2, <2>3
<1> QED BY <1>1, <1>2, <1>3 DEF Loop

\* Containers that start and crash.
LEMMA ContainerOK ==
    ASSUME Inv, NdndStart \/ NdndCrash \/ SidecarCrash
    PROVE  ToldOK' /\ PassOK' /\ LinksOK'
<1>1. CASE NdndStart \/ NdndCrash
  BY <1>1 DEF NdndStart, NdndCrash, loopVars, counters, Inv, ToldOK, Latest, Merged, PassOK, LinksOK
<1>2. CASE SidecarCrash
  <2>1. sidecarCrashes' # 0
    BY <1>2 DEF SidecarCrash, Inv, TypeOK
  <2> QED BY <1>2, <2>1 DEF SidecarCrash, Inv, ToldOK, PassOK, LinksOK
<1> QED BY <1>1, <1>2

LEMMA InvStep == Inv /\ [Next]_vars => Inv'
<1> SUFFICES ASSUME Inv, [Next]_vars PROVE Inv'
    OBVIOUS
<1>1. TypeOK'
  BY TypeStep DEF Inv
<1>2. CASE UNCHANGED vars
  BY <1>1, <1>2 DEF vars, loopVars, counters, Inv, ToldOK, Latest, Merged, PassOK, LinksOK
<1> QED BY <1>1, <1>2, ChangeOK, LoopOK, ContainerOK DEF Next, Inv

LEMMA Invariance == Spec => []Inv
<1>1. Init => Inv
  BY InvInit
<1>2. Inv /\ [Next]_vars => Inv'
  BY InvStep
<1> QED BY <1>1, <1>2, PTL DEF Spec

-----------------------------------------------------------------------------
(* The theorems.                                                           *)

\* Every variable keeps its type.
THEOREM TypeCorrect == Spec => []TypeOK
<1>1. Inv => TypeOK
  BY DEF Inv
<1> QED BY <1>1, Invariance, PTL

\* With every event handled and no command lost, every neighbor has its link.
THEOREM LinksAreComplete == Spec => []LinksComplete
<1>1. Inv => LinksComplete
  BY DEF Inv, ToldOK, Latest, LinksOK, LinksComplete, Settled
<1> QED BY <1>1, Invariance, PTL

\* Without a restart of the sidecar nobody else has one.
THEOREM NoLinkIsStale == Spec => []NoStaleLink
<1>1. Inv => NoStaleLink
  BY DEF Inv, ToldOK, Latest, LinksOK, NoStaleLink, Settled
<1> QED BY <1>1, Invariance, PTL
=============================================================================
