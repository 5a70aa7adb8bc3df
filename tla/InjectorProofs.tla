--------------------------- MODULE InjectorProofs ---------------------------
(* Proofs about the admission webhook (Injector). *)
EXTENDS Injector, TLAPS

\* A list of references for each use.
LEMMA AskedType ==
    ASSUME NEW r \in Annotations
    PROVE  \A u \in Uses : Asked(r)[u] \in Seq(Creds \union {Malformed})
<1>1. r.signing # None => r.signing \in Creds \union {Malformed}
    BY DEF Annotations
<1>2. List(r.anchors) \in Seq(Creds \union {Malformed}) /\ List(r.chain) \in Seq(Creds \union {Malformed})
    BY DEF Annotations, References, List
<1>3. (IF r.signing = None THEN <<>> ELSE <<r.signing>>) \in Seq(Creds \union {Malformed})
  <2>1. CASE r.signing = None
    BY <2>1
  <2>2. CASE r.signing # None
    <3>1. <<r.signing>> \in Seq(Creds \union {Malformed})
        BY <1>1, <2>2
    <3> QED BY <2>2, <3>1
  <2> QED BY <2>1, <2>2
<1>4. /\ Asked(r)["signing"] \in Seq(Creds \union {Malformed})
      /\ Asked(r)["anchors"] \in Seq(Creds \union {Malformed})
      /\ Asked(r)["chain"] \in Seq(Creds \union {Malformed})
    BY <1>2, <1>3 DEF Asked
<1> QED BY <1>4 DEF Uses

\* What is found and what is valid have their types.
LEMMA SecretType ==
    ASSUME cred \in [Creds -> Credential], NEW c \in Creds
    PROVE  SecretOf(c) \in Secret
BY DEF Credential, SecretOf, Secret

LEMMA ValidType ==
    ASSUME NEW p \in [Networks -> Prefix \union {None}], NEW k \in [Creds -> Credential]
    PROVE  Valid(p, k) \subseteq (Secret \X BOOLEAN) \union (Networks \X Prefix)
BY DEF Valid, Credential, Secret

-----------------------------------------------------------------------------
(* The inductive invariant.                                                *)

\* What a review has read so far was valid at some time since the submission, and
\* is what the annotations name, in their order.
Reviewed ==
    /\ pc # "idle" => outcome = "none" /\ Valid(prefix, cred) \subseteq seen
    /\ pc = "review" => found = Nothing
    /\ pc = "resolve" =>
          /\ request.net # None /\ WellPut(request)
          /\ found.prefix \in Prefix /\ <<request.net, found.prefix>> \in seen
          /\ \A u \in Uses :
                /\ Len(found[u]) <= Len(Asked(request)[u])
                /\ \A i \in DOMAIN found[u] : WasValid(u, Asked(request)[u][i], found[u][i])

IInv ==
    /\ TypeOK
    /\ Reviewed
    /\ WellFormed
    /\ Confined
    /\ outcome = "admitted" => NetworkOfNow /\ CredentialsOfNow

\* The next reference is one of those asked for, and to a credential.
LEMMA NextReference ==
    ASSUME TypeOK, Reviewed, NEW u \in Uses, Resolve(u)
    PROVE  /\ found[u] \in Seq(Secret) /\ Asked(request)[u] \in Seq(Creds \union {Malformed})
           /\ Len(found[u]) + 1 \in 1 .. Len(Asked(request)[u])
           /\ Asked(request)[u][Len(found[u]) + 1] \in Creds
<1>1. found[u] \in Seq(Secret)
    BY DEF TypeOK, Uses
<1>2. Asked(request)[u] \in Seq(Creds \union {Malformed})
    BY AskedType DEF TypeOK
<1>3. Len(found[u]) + 1 \in 1 .. Len(Asked(request)[u])
    BY <1>1, <1>2 DEF Reviewed, Resolve, Resolved
<1>4. Asked(request)[u] # <<>>
    BY <1>3
<1>5. WellPut(request) /\ AsksAny(request)
    BY <1>4 DEF Reviewed, Resolve, AsksAny
<1>6. \A i \in DOMAIN Asked(request)[u] : Asked(request)[u][i] \in Creds
    BY <1>5 DEF WellPut
<1> QED BY <1>1, <1>2, <1>3, <1>6

-----------------------------------------------------------------------------
(* Types.                                                                  *)

ManifestOK ==
    /\ \A v \in manifest.volumes : v \in Volumes \X ({None} \union Networks \union Seq(Secret))
    /\ \A c \in Containers :
          /\ manifest.mounts[c] \subseteq Volumes \X ({None, "socket"} \union Uses)
          /\ \A e \in manifest.env[c] :
                e \in Variables \X ({None, "socket"} \union Uses) \/ e \in {"prefix"} \X (Prefix \union {None})

LEMMA PatchedType ==
    ASSUME TypeOK, manifest' = Patched
    PROVE  ManifestOK'
<1>1. request.net \in Networks \union {None} /\ found.prefix \in Prefix \union {None}
      /\ \A u \in Uses : found[u] \in Seq(Secret)
    BY DEF TypeOK, Annotations, Uses
<1>2. /\ manifest'.volumes = Upsert(manifest.volumes, NewVolumes)
      /\ \A c \in Containers :
            /\ manifest'.mounts[c] = Upsert(manifest.mounts[c], NewMounts \union Given(c))
            /\ manifest'.env[c] = Upsert(manifest.env[c], NewEnv \union Given(c))
    BY DEF Patched, Manifest
<1>3. \A v \in NewVolumes : v \in Volumes \X ({None} \union Networks \union Seq(Secret))
    BY <1>1 DEF NewVolumes, Thing, Volumes, Found
<1>4. \A c \in Containers : Given(c) \subseteq Uses \X Uses
    BY DEF Given, CredThings, Thing, Found
<1>5. NewMounts \subseteq Volumes \X {"socket"}
    BY DEF NewMounts, Thing, Volumes
<1>6. \A e \in NewEnv : e \in Variables \X {"socket"} \/ e \in {"prefix"} \X (Prefix \union {None})
    BY <1>1 DEF NewEnv, Thing, Variables
<1> QED BY <1>2, <1>3, <1>4, <1>5, <1>6 DEF ManifestOK, TypeOK, Upsert, Volumes, Variables

LEMMA TypeStep == TypeOK /\ Reviewed /\ [Next]_vars => TypeOK'
<1> SUFFICES ASSUME TypeOK, Reviewed, [Next]_vars PROVE TypeOK'
    OBVIOUS
<1> USE InjectorAssumption
<1>1. CASE UNCHANGED vars
    BY <1>1 DEF vars, worldVars, reviewVars, TypeOK
<1>2. CASE Change
  <2>1. prefix' \in [Networks -> Prefix \union {None}] /\ cred' \in [Creds -> Credential]
    BY <1>2 DEF Change, TypeOK
  <2>2. seen' \subseteq (Secret \X BOOLEAN) \union (Networks \X Prefix)
    BY <1>2, <2>1, ValidType DEF Change, TypeOK
  <2>3. changes' \in 0 .. MaxChanges
    BY <1>2 DEF Change, TypeOK
  <2> QED BY <1>2, <2>1, <2>2, <2>3 DEF Change, TypeOK, reviewVars
<1>3. CASE Submit
  <2>1. seen' \subseteq (Secret \X BOOLEAN) \union (Networks \X Prefix)
    BY <1>3, ValidType DEF Submit, TypeOK
  <2>2. submits' \in 0 .. MaxSubmits /\ request' \in Annotations
    BY <1>3 DEF Submit, TypeOK
  <2>3. found' \in [prefix : Prefix \union {None}, signing : Seq(Secret),
                    anchors : Seq(Secret), chain : Seq(Secret)]
    BY <1>3 DEF Submit, Nothing
  <2> QED BY <1>3, <2>1, <2>2, <2>3 DEF Submit, TypeOK, worldVars
<1>4. CASE Skip
    BY <1>4 DEF Skip, Answer, TypeOK, worldVars
<1>5. CASE GetNetwork
  <2>1. found' \in [prefix : Prefix \union {None}, signing : Seq(Secret),
                    anchors : Seq(Secret), chain : Seq(Secret)]
    BY <1>5 DEF GetNetwork, TypeOK, Annotations
  <2> QED BY <1>5, <2>1 DEF GetNetwork, Answer, TypeOK, worldVars
<1>6. CASE Fail
    BY <1>6 DEF Fail, Answer, TypeOK, worldVars
<1>7. CASE Respond
  <2>1. ManifestOK'
    <3>1. ManifestOK
        BY DEF TypeOK, ManifestOK
    <3>2. CASE manifest' = manifest
        BY <3>1, <3>2 DEF ManifestOK
    <3>3. CASE manifest' = Patched
        BY <3>3, PatchedType
    <3> QED BY <1>7, <3>2, <3>3 DEF Respond
  <2>2. targets' \subseteq Containers
    BY <1>7 DEF Respond, TypeOK
  <2> QED BY <1>7, <2>1, <2>2 DEF Respond, Answer, TypeOK, ManifestOK, worldVars
<1>8. ASSUME NEW u \in Uses, Resolve(u) PROVE TypeOK'
  <2>1. found' \in [prefix : Prefix \union {None}, signing : Seq(Secret),
                    anchors : Seq(Secret), chain : Seq(Secret)]
    <3> DEFINE c == Asked(request)[u][Len(found[u]) + 1]
    <3>1. SecretOf(c) \in Secret /\ found[u] \in Seq(Secret)
        BY <1>8, NextReference, SecretType DEF TypeOK
    <3>2. found' = found \/ found' = [found EXCEPT ![u] = Append(@, SecretOf(c))]
        BY <1>8 DEF Resolve
    <3>3. Append(found[u], SecretOf(c)) \in Seq(Secret)
        BY <3>1
    <3> QED BY <3>2, <3>3 DEF TypeOK, Uses
  <2> QED BY <1>8, <2>1 DEF Resolve, Answer, TypeOK, worldVars
<1> QED BY <1>1, <1>2, <1>3, <1>4, <1>5, <1>6, <1>7, <1>8 DEF Next

-----------------------------------------------------------------------------
(* What a review reads.                                                    *)

LEMMA WasValidStays ==
    ASSUME NEW u, NEW c, NEW s, WasValid(u, c, s), seen \subseteq seen'
    PROVE  WasValid(u, c, s)'
BY DEF WasValid

\* A credential that is ready now is among those seen.
LEMMA ReadyIsSeen ==
    ASSUME TypeOK, Valid(prefix, cred) \subseteq seen,
           NEW u \in Uses, NEW c \in Creds, cred[c].state = "ready", u = "signing" => cred[c].key
    PROVE  WasValid(u, c, SecretOf(c))
<1>1. <<SecretOf(c), cred[c].key>> \in seen
    BY DEF Valid, SecretOf
<1>2. cred[c].key \in BOOLEAN
    BY DEF TypeOK, Credential
<1> QED BY <1>1, <1>2 DEF WasValid, SecretOf

LEMMA ReviewedStep == TypeOK /\ Reviewed /\ [Next]_vars => Reviewed'
<1> SUFFICES ASSUME TypeOK, Reviewed, [Next]_vars PROVE Reviewed'
    OBVIOUS
<1>1. CASE UNCHANGED vars
    BY <1>1 DEF vars, worldVars, reviewVars, Reviewed, WasValid
<1>2. CASE Change
  <2>1. UNCHANGED <<pc, request, found, outcome>> /\ seen \subseteq seen' /\ Valid(prefix, cred)' \subseteq seen'
    BY <1>2 DEF Change, reviewVars, Valid
  <2>2. \A u \in Uses : \A i \in DOMAIN found[u] :
            WasValid(u, Asked(request)[u][i], found[u][i]) => WasValid(u, Asked(request)[u][i], found[u][i])'
    BY <2>1 DEF WasValid
  <2> QED BY <2>1, <2>2 DEF Reviewed
<1>3. CASE Submit
    BY <1>3 DEF Submit, Reviewed, worldVars, Valid
<1>4. CASE Skip \/ Fail \/ Respond
    BY <1>4 DEF Skip, Fail, Respond, Answer, Reviewed
<1>5. CASE GetNetwork
  <2>1. CASE pc' = "idle"
    BY <2>1 DEF Reviewed
  <2>2. CASE pc' = "resolve"
    <3>1. /\ prefix[request.net] # None /\ WellPut(request) /\ request.net # None
          /\ found' = [found EXCEPT !.prefix = prefix[request.net]]
          /\ UNCHANGED <<worldVars, request, seen, outcome>> /\ pc = "review"
        BY <1>5, <2>2 DEF GetNetwork, Answer
    <3>2. request.net \in Networks /\ prefix[request.net] \in Prefix
        BY <3>1 DEF TypeOK, Annotations
    <3>3. <<request.net, prefix[request.net]>> \in seen
        BY <3>1, <3>2 DEF Reviewed, Valid
    <3>4. found'.prefix = prefix[request.net] /\ \A u \in Uses : found'[u] = <<>>
        BY <3>1 DEF Reviewed, Nothing, Uses
    <3>5. \A u \in Uses : Asked(request)[u] \in Seq(Creds \union {Malformed})
        BY AskedType DEF TypeOK
    <3> QED BY <2>2, <3>1, <3>2, <3>3, <3>4, <3>5 DEF Reviewed, worldVars, Valid
  <2> QED BY <1>5, <2>1, <2>2 DEF GetNetwork, Answer
<1>6. ASSUME NEW u \in Uses, Resolve(u) PROVE Reviewed'
  <2>1. CASE pc' = "idle"
    BY <2>1 DEF Reviewed
  <2>2. CASE pc' # "idle"
    <3> DEFINE c == Asked(request)[u][Len(found[u]) + 1]
    <3>1. /\ found' = [found EXCEPT ![u] = Append(@, SecretOf(c))] /\ pc = "resolve"
          /\ cred[c].state = "ready" /\ (u = "signing" => cred[c].key)
          /\ UNCHANGED <<worldVars, pc, request, seen, outcome>>
        BY <1>6, <2>2 DEF Resolve, Answer
    <3>2. found'.prefix = found.prefix /\ \A w \in Uses \ {u} : found'[w] = found[w]
        BY <3>1 DEF TypeOK, Uses
    <3>3. found'[u] = Append(found[u], SecretOf(c))
        BY <3>1 DEF TypeOK, Uses
    <3>4. WasValid(u, c, SecretOf(c))
        BY <1>6, <3>1, NextReference, ReadyIsSeen DEF Reviewed
    <3>5. Len(found'[u]) <= Len(Asked(request)[u])
        BY <1>6, <3>3, NextReference
    <3>6. ASSUME NEW i \in DOMAIN found'[u] PROVE WasValid(u, Asked(request)[u][i], found'[u][i])
      <4>1. i \in 1 .. Len(found[u]) + 1
        BY <1>6, <3>3, NextReference
      <4>2. CASE i = Len(found[u]) + 1
        BY <1>6, <3>3, <3>4, <4>2, NextReference
      <4>3. CASE i \in DOMAIN found[u]
        BY <1>6, <3>1, <3>3, <4>3, NextReference DEF Reviewed
      <4> QED BY <1>6, <4>1, <4>2, <4>3, NextReference
    <3>7. \A w \in Uses : /\ Len(found'[w]) <= Len(Asked(request)[w])
                           /\ \A i \in DOMAIN found'[w] : WasValid(w, Asked(request)[w][i], found'[w][i])
        BY <3>1, <3>2, <3>5, <3>6 DEF Reviewed
    <3>8. Valid(prefix, cred)' = Valid(prefix, cred)
        BY <3>1 DEF worldVars, Valid
    <3>9. ASSUME NEW w \in Uses
          PROVE  (/\ Len(found[w]) <= Len(Asked(request)[w])
                  /\ \A i \in DOMAIN found[w] : WasValid(w, Asked(request)[w][i], found[w][i]))'
      <4>1. request' = request /\ seen' = seen
        BY <3>1
      <4>2. Asked(request') = Asked(request)
        BY <4>1
      <4>3. \A c1, s : WasValid(w, c1, s)' <=> WasValid(w, c1, s)
        BY <4>1 DEF WasValid
      <4> QED BY <3>7, <4>2, <4>3
    <3>10. (request.net # None /\ WellPut(request))'
        BY <3>1 DEF Reviewed
    <3>11. outcome' = "none" /\ Valid(prefix, cred)' \subseteq seen'
        BY <3>1, <3>8 DEF Reviewed
    <3>12. (found.prefix \in Prefix /\ <<request.net, found.prefix>> \in seen)'
      <4>1. found.prefix \in Prefix /\ <<request.net, found.prefix>> \in seen
        BY <3>1 DEF Reviewed
      <4>2. found'.prefix = found.prefix /\ request' = request /\ seen' = seen
        BY <3>1, <3>2
      <4> QED BY <4>1, <4>2
    <3> QED BY <3>1, <3>9, <3>10, <3>11, <3>12 DEF Reviewed
  <2> QED BY <2>1, <2>2
<1> QED BY <1>1, <1>2, <1>3, <1>4, <1>5, <1>6 DEF Next

-----------------------------------------------------------------------------
(* What build_patch makes of a manifest.                                   *)

\* Putting things of different names in a list of different names makes one: it
\* holds them and has the names of before.
LEMMA UpsertUnique ==
    ASSUME NEW list, NEW things, Unique(list), Unique(things)
    PROVE  Unique(Upsert(list, things))
BY DEF Unique, Upsert

LEMMA UpsertHas ==
    ASSUME NEW list, NEW things
    PROVE  /\ things \subseteq Upsert(list, things)
           /\ \A n : Has(list, n) \/ Has(things, n) <=> Has(Upsert(list, things), n)
           /\ \A x \in list : ~Has(things, x[1]) => x \in Upsert(list, things)
BY DEF Has, Upsert

\* What is added is named once, and never as the user's own things.
LEMMA NewThings ==
    /\ Unique(NewVolumes)
    /\ \A n : Has(NewVolumes, n) <=> n = "socket" \/ n \in Found
<1>1. NewVolumes = {<<"socket", request.net>>} \union {<<u, found[u]>> : u \in Found}
    BY DEF NewVolumes, Thing
<1>2. "socket" \notin Found
    BY DEF Found, Uses
<1>3. Unique(NewVolumes)
    BY <1>1, <1>2 DEF Unique
<1>4. Has(NewVolumes, "socket")
  <2>1. <<"socket", request.net>> \in NewVolumes
    BY <1>1
  <2> QED BY <2>1 DEF Has
<1>5. ASSUME NEW u \in Found PROVE Has(NewVolumes, u)
  <2>1. <<u, found[u]>> \in NewVolumes
    BY <1>1
  <2> QED BY <2>1 DEF Has
<1>6. \A t \in NewVolumes : t[1] = "socket" \/ t[1] \in Found
    BY <1>1
<1>7. \A n : Has(NewVolumes, n) => n = "socket" \/ n \in Found
    BY <1>6 DEF Has
<1> QED BY <1>3, <1>4, <1>5, <1>7

\* The same of what is added to container c.
NewMountsOf(c) == NewMounts \union Given(c)
NewEnvOf(c)    == NewEnv \union Given(c)

LEMMA NewThingsOf ==
    ASSUME NEW c \in Containers
    PROVE  /\ Unique(NewMountsOf(c)) /\ Unique(NewEnvOf(c)) /\ ~Has(NewEnvOf(c), "own")
           /\ \A n : Has(NewMountsOf(c), n) <=> n = "socket" \/ (IsTarget(c) /\ n \in Found)
<1>1. Given(c) = {<<u, u>> : u \in {w \in Found : IsTarget(c)}}
    BY DEF Given, CredThings, Thing
<1>2. NewMounts = {<<"socket", "socket">>}
    BY DEF NewMounts, Thing
<1>3. NewEnv = {<<"transport", "socket">>, <<"prefix", found.prefix>>}
    BY DEF NewEnv, Thing
<1>4. {"socket", "transport", "prefix", "own"} \intersect Found = {}
    BY DEF Found, Uses
<1>5. Unique(NewMountsOf(c))
    BY <1>1, <1>2, <1>4 DEF Unique, NewMountsOf
<1>6. Unique(NewEnvOf(c))
    BY <1>1, <1>3, <1>4 DEF Unique, NewEnvOf
<1>7. ~Has(NewEnvOf(c), "own")
    BY <1>1, <1>3, <1>4 DEF Has, NewEnvOf
<1>8. Has(NewMountsOf(c), "socket")
  <2>1. <<"socket", "socket">> \in NewMountsOf(c)
    BY <1>2 DEF NewMountsOf
  <2> QED BY <2>1 DEF Has
<1>9. ASSUME NEW u \in Found, IsTarget(c) PROVE Has(NewMountsOf(c), u)
  <2>1. <<u, u>> \in NewMountsOf(c)
    BY <1>1, <1>9 DEF NewMountsOf
  <2> QED BY <2>1 DEF Has
<1>10. \A n : Has(NewMountsOf(c), n) => n = "socket" \/ (IsTarget(c) /\ n \in Found)
    BY <1>1, <1>2 DEF Has, NewMountsOf
<1> QED BY <1>5, <1>6, <1>7, <1>8, <1>9, <1>10

LEMMA PatchedVolumes ==
    ASSUME manifest' = Patched
    PROVE  manifest'.volumes = Upsert(manifest.volumes, NewVolumes)
BY DEF Patched, Manifest

LEMMA PatchedContainer ==
    ASSUME manifest' = Patched, NEW c \in Containers
    PROVE  /\ manifest'.mounts[c] = Upsert(manifest.mounts[c], NewMountsOf(c))
           /\ manifest'.env[c] = Upsert(manifest.env[c], NewEnvOf(c))
BY DEF Patched, Manifest, NewMountsOf, NewEnvOf

LEMMA WellFormedStep == TypeOK /\ WellFormed /\ [Next]_vars => WellFormed'
<1> SUFFICES ASSUME TypeOK, WellFormed, [Next]_vars PROVE WellFormed'
    OBVIOUS
<1>1. CASE manifest' = manifest
    BY <1>1 DEF WellFormed
<1>2. CASE manifest' = Patched
  <2>1. Unique(manifest'.volumes)
    BY <1>2, PatchedVolumes, UpsertUnique, NewThings DEF WellFormed
  <2>2. \A n : Has(manifest'.volumes, n) <=> Has(manifest.volumes, n) \/ n = "socket" \/ n \in Found
    BY <1>2, PatchedVolumes, UpsertHas, NewThings
  <2> SUFFICES ASSUME NEW c \in Containers
               PROVE  /\ Unique(manifest'.mounts[c]) /\ Unique(manifest'.env[c])
                      /\ \A m \in manifest'.mounts[c] : Has(manifest'.volumes, m[1])
                      /\ Thing("own", None) \in manifest'.mounts[c] \intersect manifest'.env[c]
    BY <2>1 DEF WellFormed
  <2>3. /\ Unique(manifest.mounts[c]) /\ Unique(manifest.env[c])
        /\ \A m \in manifest.mounts[c] : Has(manifest.volumes, m[1])
        /\ Thing("own", None) \in manifest.mounts[c] /\ Thing("own", None) \in manifest.env[c]
    BY DEF WellFormed
  <2>4. /\ manifest'.mounts[c] = Upsert(manifest.mounts[c], NewMountsOf(c))
        /\ manifest'.env[c] = Upsert(manifest.env[c], NewEnvOf(c))
    BY <1>2, PatchedContainer
  <2>5. /\ Unique(NewMountsOf(c)) /\ Unique(NewEnvOf(c))
        /\ ~Has(NewMountsOf(c), "own") /\ ~Has(NewEnvOf(c), "own")
        /\ \A n : Has(NewMountsOf(c), n) => n = "socket" \/ n \in Found
    BY NewThingsOf DEF Found, Uses
  <2>6. Unique(manifest'.mounts[c]) /\ Unique(manifest'.env[c])
    BY <2>3, <2>4, <2>5, UpsertUnique
  <2>7. ASSUME NEW m \in manifest'.mounts[c] PROVE Has(manifest'.volumes, m[1])
    <3>1. Has(manifest'.mounts[c], m[1])
        BY DEF Has
    <3>2. Has(manifest.mounts[c], m[1]) \/ Has(NewMountsOf(c), m[1])
        BY <2>4, <3>1, UpsertHas
    <3>3. Has(manifest.mounts[c], m[1]) => Has(manifest.volumes, m[1])
        BY <2>3 DEF Has
    <3> QED BY <2>2, <2>5, <3>2, <3>3
  <2>8. Thing("own", None) \in manifest'.mounts[c] /\ Thing("own", None) \in manifest'.env[c]
    <3>1. Thing("own", None)[1] = "own"
        BY DEF Thing
    <3> QED BY <2>3, <2>4, <2>5, <3>1, UpsertHas
  <2> QED BY <2>6, <2>7, <2>8
<1> QED BY <1>1, <1>2 DEF Next, vars, Change, Submit, Skip, GetNetwork, Fail, Respond, Resolve

LEMMA ConfinedStep == TypeOK /\ Confined /\ [Next]_vars => Confined'
<1> SUFFICES ASSUME TypeOK, Confined, [Next]_vars PROVE Confined'
    OBVIOUS
<1>1. CASE manifest' = manifest /\ targets \subseteq targets'
    BY <1>1 DEF Confined
<1>2. CASE Respond /\ manifest' = Patched
  <2> SUFFICES ASSUME NEW c \in Containers, NEW u \in Uses, Has(manifest'.mounts[c], u)
               PROVE  c \in targets'
    BY DEF Confined
  <2>1. Has(manifest.mounts[c], u) \/ IsTarget(c)
    BY <1>2, PatchedContainer, UpsertHas, NewThingsOf DEF Uses
  <2>2. c \in targets \/ IsTarget(c)
    BY <2>1 DEF Confined
  <2> QED BY <1>2, <2>2 DEF Respond, IsTarget
<1>3. (manifest' = manifest /\ targets' = targets) \/ Respond
    BY DEF Next, vars, Change, Submit, Skip, GetNetwork, Fail, Resolve
<1> QED BY <1>1, <1>2, <1>3 DEF Respond

\* A pod that is admitted has what its annotations ask for.
LEMMA Admission ==
    ASSUME TypeOK, Reviewed, Respond, outcome' = "admitted"
    PROVE  NetworkOfNow' /\ CredentialsOfNow'
<1>1. /\ manifest' = Patched /\ pc = "resolve" /\ \A u \in Uses : Resolved(u)
      /\ AsksAny(request) => request.container \in Containers
      /\ UNCHANGED <<request, seen, found>>
    BY DEF Respond, Answer
<1>2. NetworkOfNow'
  <2>1. Thing("socket", request.net) \in NewVolumes
    BY DEF NewVolumes
  <2>2. Thing("socket", request.net) \in manifest'.volumes
    BY <1>1, <2>1, PatchedVolumes, UpsertHas
  <2>3. ASSUME NEW c \in Containers
        PROVE  Has(manifest'.mounts[c], "socket") /\ Thing("prefix", found.prefix) \in manifest'.env[c]
    <3>1. Has(NewMountsOf(c), "socket")
        BY NewThingsOf
    <3>2. Thing("prefix", found.prefix) \in NewEnvOf(c)
        BY DEF NewEnv, NewEnvOf
    <3>3. /\ manifest'.mounts[c] = Upsert(manifest.mounts[c], NewMountsOf(c))
          /\ manifest'.env[c] = Upsert(manifest.env[c], NewEnvOf(c))
        BY <1>1, PatchedContainer
    <3> QED BY <3>1, <3>2, <3>3, UpsertHas
  <2> QED BY <1>1, <2>2, <2>3 DEF NetworkOfNow, Reviewed
<1>3. CredentialsOfNow'
  <2> SUFFICES ASSUME NEW u \in Uses, Asked(request)[u] # <<>>
               PROVE  /\ \E v \in manifest'.volumes :
                            /\ v[1] = u /\ Len(v[2]) = Len(Asked(request)[u])
                            /\ \A i \in DOMAIN Asked(request)[u] : WasValid(u, Asked(request)[u][i], v[2][i])'
                      /\ Has(manifest'.mounts[request.container], u)
    BY <1>1 DEF CredentialsOfNow
  <2>1. /\ found[u] \in Seq(Secret) /\ Asked(request)[u] \in Seq(Creds \union {Malformed})
        /\ Len(found[u]) = Len(Asked(request)[u])
    BY <1>1, AskedType DEF TypeOK, Uses, Resolved
  <2>2. u \in Found
    BY <2>1 DEF Found
  <2>3. Thing(u, found[u]) \in manifest'.volumes
    BY <1>1, <2>2, PatchedVolumes, UpsertHas DEF NewVolumes
  <2>4. \A i \in DOMAIN Asked(request)[u] : WasValid(u, Asked(request)[u][i], found[u][i])'
    <3>1. \A i \in DOMAIN found[u] : WasValid(u, Asked(request)[u][i], found[u][i])
        BY <1>1 DEF Reviewed
    <3>2. DOMAIN found[u] = DOMAIN Asked(request)[u]
        BY <2>1
    <3> QED BY <1>1, <3>1, <3>2 DEF WasValid
  <2>5. AsksAny(request) /\ request.container \in Containers
    BY <1>1 DEF AsksAny
  <2>6. Has(manifest'.mounts[request.container], u)
    <3>1. Has(NewMountsOf(request.container), u)
        BY <2>2, <2>5, NewThingsOf DEF IsTarget
    <3> QED BY <1>1, <2>5, <3>1, PatchedContainer, UpsertHas
  <2>7. Thing(u, found[u])[1] = u /\ Thing(u, found[u])[2] = found[u]
    BY DEF Thing
  <2> QED BY <1>1, <2>1, <2>3, <2>4, <2>6, <2>7
<1> QED BY <1>2, <1>3

-----------------------------------------------------------------------------
(* The theorems.                                                           *)

LEMMA InitIInv == Init => IInv
<1> SUFFICES ASSUME Init PROVE IInv
    OBVIOUS
<1>1. TypeOK
  <2>1. prefix \in [Networks -> Prefix \union {None}] /\ cred \in [Creds -> Credential]
    BY DEF Init, Prefix
  <2>2. \A v \in manifest.volumes : v \in Volumes \X ({None} \union Networks \union Seq(Secret))
    BY DEF Init, PlainPod, Manifest, Thing, Volumes
  <2>3. ASSUME NEW c \in Containers
        PROVE  /\ manifest.mounts[c] \subseteq Volumes \X ({None, "socket"} \union Uses)
               /\ \A e \in manifest.env[c] :
                     e \in Variables \X ({None, "socket"} \union Uses) \/ e \in {"prefix"} \X (Prefix \union {None})
    BY DEF Init, PlainPod, Manifest, Thing, Volumes, Variables
  <2>4. request \in Annotations
    BY DEF Init, NoRequest, Annotations, InjectorAssumption
  <2>5. found \in [prefix : Prefix \union {None}, signing : Seq(Secret),
                  anchors : Seq(Secret), chain : Seq(Secret)]
    BY DEF Init, Nothing
  <2> QED BY <2>1, <2>2, <2>3, <2>4, <2>5, InjectorAssumption DEF Init, TypeOK
<1>2. Reviewed
    BY DEF Init, Reviewed
<1>3. WellFormed
    BY DEF Init, WellFormed, Unique, Has, PlainPod, Manifest, Thing
<1>4. Confined
    BY DEF Init, Confined, Has, PlainPod, Manifest, Thing, Uses
<1> QED BY <1>1, <1>2, <1>3, <1>4 DEF IInv, Init

LEMMA StepIInv == IInv /\ [Next]_vars => IInv'
<1> SUFFICES ASSUME IInv, [Next]_vars PROVE IInv'
    OBVIOUS
<1>1. TypeOK' /\ Reviewed' /\ WellFormed' /\ Confined'
    BY TypeStep, ReviewedStep, WellFormedStep, ConfinedStep DEF IInv
<1>2. ASSUME outcome' = "admitted" PROVE NetworkOfNow' /\ CredentialsOfNow'
  <2>1. CASE Respond
    BY <1>2, <2>1, Admission DEF IInv
  <2>2. CASE outcome = "admitted" /\ UNCHANGED <<manifest, request, seen>>
    <3>1. NetworkOfNow' <=> NetworkOfNow
        BY <2>2 DEF NetworkOfNow
    <3>2. \A u, c, s : WasValid(u, c, s)' <=> WasValid(u, c, s)
        BY <2>2 DEF WasValid
    <3>3. CredentialsOfNow' <=> CredentialsOfNow
        BY <2>2, <3>2 DEF CredentialsOfNow
    <3> QED BY <2>2, <3>1, <3>3 DEF IInv
  <2>3. outcome = "admitted" => pc = "idle"
    BY DEF IInv, Reviewed
  <2> QED BY <1>2, <2>1, <2>2, <2>3 DEF Next, vars, reviewVars, Change, Submit, Skip, GetNetwork, Fail, Resolve, Answer
<1> QED BY <1>1, <1>2 DEF IInv

LEMMA Inductive == Spec => []IInv
BY InitIInv, StepIInv, PTL DEF Spec

\* The variables of the webhook have their types (injector.rs 186-206).
THEOREM TypeCorrect == Spec => []TypeOK
<1>1. IInv => TypeOK
    BY DEF IInv
<1> QED BY <1>1, Inductive, PTL

\* An admitted pod has what its annotations ask for, whatever its manifest had
\* from an earlier admission and whatever changed between two reads: its names are
\* unique, its socket and prefix are those of the Network, its Secrets those of the
\* credentials in their order, each ready when it was read, and no container
\* that was never selected holds any (injector.rs 130-155, 264-345, 395-495).
THEOREM Admitted == Spec => []AsRequested
<1>1. IInv => AsRequested
    BY DEF IInv, AsRequested
<1> QED BY <1>1, Inductive, PTL
=============================================================================
