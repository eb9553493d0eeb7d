---------------------------- MODULE Inputs_proofs ----------------------------
(***************************************************************************)
(* Two apps of one identity are twins only by a race of two creates, pods  *)
(* hold what their ConfigMaps and Secrets hold, and the children of a      *)
(* stack are apart: for any names, specs, stacks, edits and mishaps.       *)
(*                                                                         *)
(* TwinsRaced says nothing of a create that is still in review, so it is   *)
(* not inductive: it is strengthened by InReview, that a create in review  *)
(* has another identity than every app that its check has seen.            *)
(***************************************************************************)
EXTENDS Inputs, FiniteSetTheorems, WellFoundedInduction, TLAPS

Maybe(S) == {None} \cup {Some(x) : x \in S}
Objects == [spec : Specs, legible : BOOLEAN]
Reviews == [spec : Specs, seen : SUBSET AppNames]

Typed ==
  /\ store \in [AppNames -> Maybe(Objects)]
  /\ review \in [AppNames -> Maybe(Reviews)]

InReview ==
  \A n \in AppNames : \A r \in review[n] :
    /\ store[n] = None
    /\ \A m \in r.seen : m \in Stored /\ Identity(SpecOf(m)) # Identity(r.spec)

IInv == Typed /\ InReview /\ TwinsRaced

-----------------------------------------------------------------------------
(* The optional values that the definitions are written with.              *)

LEMMA GivenSome == ASSUME NEW x PROVE Given(Some(x)) = x
  BY DEF Given, Some

LEMMA GivenOf ==
  ASSUME NEW S, NEW o \in Maybe(S), o # None
  PROVE  Given(o) \in S /\ o = Some(Given(o))
  <1>1. PICK x \in S : o = Some(x)
    BY DEF Maybe
  <1> QED BY <1>1, GivenSome

\* An app that is stored has one spec, and it is one of those that were computed with.
LEMMA StoredObject ==
  ASSUME Typed, NEW n \in Stored
  PROVE  Given(store[n]) \in Objects /\ store[n] = Some(Given(store[n])) /\ SpecOf(n) \in Specs
  <1>1. store[n] \in Maybe(Objects) /\ store[n] # None
    BY DEF Typed, Stored
  <1>2. Given(store[n]) \in Objects /\ store[n] = Some(Given(store[n]))
    BY <1>1, GivenOf
  <1> QED BY <1>2 DEF Objects, SpecOf

\* An update that the webhook lets through keeps the identity.
LEMMA ReplaceKeepsIdentity ==
  ASSUME NEW n, NEW spec, Replace(n, spec)
  PROVE  Identity(spec) = Identity(SpecOf(n))
  <1> DEFINE old == IF Given(store[n]).legible THEN Some(SpecOf(n)) ELSE None
  <1>1. ~IdentityChanged(spec, Some(old))
    BY DEF Replace
  <1>2. old # None /\ \A was \in old : was.app = spec.app /\ was.instance = spec.instance
    BY <1>1 DEF IdentityChanged, Some
  <1>3. SpecOf(n).app = spec.app /\ SpecOf(n).instance = spec.instance
    BY <1>2 DEF Some, None
  <1> QED BY <1>3 DEF Identity

\* A create that passes its check has another identity than all that is stored.
LEMMA CheckedDiffers ==
  ASSUME NEW n, NEW spec, Check(n, spec)
  PROVE  \A m \in Stored : Identity(SpecOf(m)) # Identity(spec)
  <1>1. Existing # None /\ \A other \in Given(Existing) : Identity(other) # Identity(spec)
    BY DEF Check, Duplicate
  <1>2. Existing = Some({SpecOf(m) : m \in Stored})
    BY <1>1 DEF Existing
  <1>3. Given(Existing) = {SpecOf(m) : m \in Stored}
    BY <1>2, GivenSome
  <1> QED BY <1>1, <1>3

-----------------------------------------------------------------------------
(* Each operation on the stored apps and on what is in review.             *)

LEMMA CheckStep ==
  ASSUME IInv, NEW n \in AppNames, NEW spec, Check(n, spec)
  PROVE  IInv'
  <1> DEFINE r == [spec |-> spec, seen |-> Stored]
  <1>1. store' = store /\ raced' = raced /\ review' = [review EXCEPT ![n] = Some(r)]
    BY DEF Check
  <1>2. Stored' = Stored /\ \A m : SpecOf(m)' = SpecOf(m)
    BY <1>1 DEF Stored, SpecOf
  <1>3. Typed'
    <2>1. r \in Reviews
      BY DEF Check, Clean, Reviews, Stored
    <2> QED BY <1>1, <2>1 DEF IInv, Typed, Maybe
  <1>4. InReview'
    <2> SUFFICES ASSUME NEW k \in AppNames, NEW q \in review'[k]
                 PROVE  /\ store[k] = None
                        /\ \A m \in q.seen : m \in Stored /\ Identity(SpecOf(m)) # Identity(q.spec)
      BY <1>1, <1>2 DEF InReview
    <2>1. CASE k = n
      <3>1. q = r
        BY <2>1, <1>1 DEF IInv, Typed, Some
      <3> QED BY <3>1, <2>1, CheckedDiffers DEF Check
    <2>2. CASE k # n
      BY <2>2, <1>1 DEF IInv, Typed, InReview
    <2> QED BY <2>1, <2>2
  <1>5. TwinsRaced'
    BY <1>1, <1>2 DEF IInv, TwinsRaced
  <1> QED BY <1>3, <1>4, <1>5 DEF IInv

\* A step that stores another object under a stored name, of the same identity.
LEMMA KeptIdentity ==
  ASSUME IInv, NEW n \in Stored, NEW o \in Objects,
         Identity(o.spec) = Identity(SpecOf(n)),
         store' = [store EXCEPT ![n] = Some(o)], review' = review, raced' = raced
  PROVE  IInv'
  <1>1. Typed'
    BY DEF IInv, Typed, Maybe, Stored
  <1>2. n \in AppNames /\ store'[n] = Some(o) /\ \A m \in AppNames \ {n} : store'[m] = store[m]
    BY DEF IInv, Typed, Stored
  <1>3. Stored' = Stored
    BY <1>2 DEF Stored, Some, None
  <1>4. \A m \in Stored : Identity(SpecOf(m))' = Identity(SpecOf(m))
    <2> SUFFICES ASSUME NEW m \in Stored
                 PROVE  Identity(SpecOf(m))' = Identity(SpecOf(m))
      OBVIOUS
    <2>1. CASE m = n
      <3>1. SpecOf(m)' = o.spec
        BY <2>1, <1>2, GivenSome DEF SpecOf
      <3>2. Identity(SpecOf(m))' = Identity(o.spec)
        BY <3>1 DEF Identity
      <3> QED BY <3>2, <2>1
    <2>2. CASE m # n
      BY <2>2, <1>2 DEF SpecOf, Stored, Identity
    <2> QED BY <2>1, <2>2
  <1>5. InReview'
    <2> SUFFICES ASSUME NEW k \in AppNames, NEW q \in review[k]
                 PROVE  /\ store'[k] = None
                        /\ \A m \in q.seen :
                             m \in Stored /\ Identity(SpecOf(m)) # Identity(q.spec)
      BY <1>3, <1>4 DEF InReview, Identity
    <2>1. store[k] = None
      BY DEF IInv, InReview
    <2>2. k # n
      BY <2>1 DEF Stored
    <2> QED BY <2>1, <2>2, <1>2 DEF IInv, InReview
  <1>6. TwinsRaced'
    BY <1>3, <1>4 DEF IInv, TwinsRaced, Identity
  <1> QED BY <1>1, <1>5, <1>6 DEF IInv

LEMMA ReplaceStep ==
  ASSUME IInv, NEW n \in AppNames, NEW spec, Replace(n, spec)
  PROVE  IInv'
  <1> DEFINE o == [spec |-> spec, legible |-> TRUE]
  <1>1. n \in Stored /\ o \in Objects
    BY DEF Replace, Stored, Objects, Clean
  <1>2. Identity(o.spec) = Identity(SpecOf(n))
    BY ReplaceKeepsIdentity
  <1>3. store' = [store EXCEPT ![n] = Some(o)] /\ review' = review /\ raced' = raced
    BY DEF Replace
  <1> QED BY <1>1, <1>2, <1>3, KeptIdentity

LEMMA PutStep ==
  ASSUME IInv, NEW n, NEW spec, Put(n, spec)
  PROVE  IInv'
  <1>1. CASE n \in AppNames
    BY <1>1, CheckStep, ReplaceStep DEF Put
  <1>2. CASE n \notin AppNames
    <2>1. store' = store /\ review' = review /\ raced' = raced
      BY <1>2 DEF Put, Check, Replace, IInv, Typed
    <2> QED BY <2>1 DEF IInv, Typed, InReview, TwinsRaced, Stored, SpecOf, Identity
  <1> QED BY <1>1, <1>2

LEMMA StoreStep ==
  ASSUME IInv, NEW n \in AppNames, StoreChecked(n)
  PROVE  IInv'
  <1> DEFINE c == Given(review[n])
             o == [spec |-> c.spec, legible |-> TRUE]
  <1>1. c \in Reviews /\ review[n] = Some(c)
    BY GivenOf DEF StoreChecked, IInv, Typed
  <1>2. store' = [store EXCEPT ![n] = Some(o)] /\ review' = [review EXCEPT ![n] = None]
    BY DEF StoreChecked
  <1>3. raced' = raced \cup {{n, m} : m \in Stored \ c.seen}
    BY DEF StoreChecked
  <1>4. /\ store[n] = None
        /\ \A m \in c.seen : m \in Stored /\ Identity(SpecOf(m)) # Identity(c.spec)
    BY <1>1 DEF IInv, InReview, Some
  <1>5. n \notin Stored /\ Stored' = Stored \cup {n}
    BY <1>4, <1>2 DEF Stored, IInv, Typed, Some, None
  <1>6. Identity(SpecOf(n))' = Identity(c.spec)
    <2>1. store'[n] = Some(o)
      BY <1>2 DEF IInv, Typed
    <2>2. SpecOf(n)' = c.spec
      BY <2>1, GivenSome DEF SpecOf
    <2> QED BY <2>2 DEF Identity
  <1>7. \A m \in Stored : Identity(SpecOf(m))' = Identity(SpecOf(m))
    BY <1>2, <1>5 DEF IInv, Typed, Stored, SpecOf, Identity
  <1>8. Typed'
    <2>1. o \in Objects
      BY <1>1 DEF Reviews, Objects
    <2> QED BY <1>2, <2>1 DEF IInv, Typed, Maybe
  <1>9. InReview'
    <2> SUFFICES ASSUME NEW k \in AppNames, NEW q \in review'[k]
                 PROVE  /\ store'[k] = None
                        /\ \A m \in q.seen :
                             m \in Stored' /\ Identity(SpecOf(m))' # Identity(q.spec)
      BY DEF InReview, Identity
    <2>1. k # n /\ q \in review[k] /\ store'[k] = store[k]
      BY <1>2 DEF IInv, Typed, None
    <2> QED BY <2>1, <1>5, <1>7 DEF IInv, InReview
  <1>10. TwinsRaced'
    <2> SUFFICES ASSUME NEW a \in Stored', NEW b \in Stored', a # b,
                        Identity(SpecOf(a))' = Identity(SpecOf(b))'
                 PROVE  {a, b} \in raced'
      BY DEF TwinsRaced, Identity
    <2>1. CASE a # n /\ b # n
      BY <2>1, <1>3, <1>5, <1>7 DEF IInv, TwinsRaced
    <2>2. \A m \in Stored : Identity(SpecOf(m)) = Identity(c.spec) => {n, m} \in raced'
      BY <1>3, <1>4
    <2>3. CASE a = n
      BY <2>3, <2>2, <1>5, <1>6, <1>7
    <2>4. CASE b = n
      <3>1. {n, a} \in raced'
        BY <2>4, <2>2, <1>5, <1>6, <1>7
      <3>2. {n, a} = {a, b}
        BY <2>4
      <3> QED BY <3>1, <3>2
    <2> QED BY <2>1, <2>3, <2>4
  <1> QED BY <1>8, <1>9, <1>10 DEF IInv

LEMMA DeleteStep ==
  ASSUME IInv, NEW n \in Stored,
         store' = [store EXCEPT ![n] = None],
         review' = [m \in AppNames |-> {[r EXCEPT !.seen = @ \ {n}] : r \in review[m]}],
         raced' = {pair \in raced : n \notin pair}
  PROVE  IInv'
  <1>1. n \in AppNames /\ Stored' = Stored \ {n}
    BY DEF Stored, IInv, Typed
  <1>2. \A m \in Stored \ {n} : Identity(SpecOf(m))' = Identity(SpecOf(m))
    BY DEF IInv, Typed, Stored, SpecOf, Identity
  <1>3. Typed'
    <2>1. store' \in [AppNames -> Maybe(Objects)]
      BY DEF IInv, Typed, Maybe
    <2>2. ASSUME NEW m \in AppNames
          PROVE  {[r EXCEPT !.seen = @ \ {n}] : r \in review[m]} \in Maybe(Reviews)
      <3>1. CASE review[m] = None
        BY <3>1 DEF Maybe, None
      <3>2. CASE review[m] # None
        <4>1. PICK r \in Reviews : review[m] = {r}
          BY <3>2 DEF IInv, Typed, Maybe, Some
        <4>2. [r EXCEPT !.seen = @ \ {n}] \in Reviews
          BY DEF Reviews
        <4>3. {[q EXCEPT !.seen = @ \ {n}] : q \in review[m]} = {[r EXCEPT !.seen = @ \ {n}]}
          BY <4>1
        <4> QED BY <4>2, <4>3 DEF Maybe, Some
      <3> QED BY <3>1, <3>2
    <2> QED BY <2>1, <2>2 DEF Typed
  <1>4. InReview'
    <2> SUFFICES ASSUME NEW k \in AppNames, NEW q \in review'[k]
                 PROVE  /\ store'[k] = None
                        /\ \A m \in q.seen :
                             m \in Stored' /\ Identity(SpecOf(m))' # Identity(q.spec)
      BY DEF InReview, Identity
    <2>1. PICK r \in review[k] : q = [r EXCEPT !.seen = @ \ {n}]
      OBVIOUS
    <2>2. r \in Reviews
      BY DEF IInv, Typed, Maybe, Some, None
    <2>3. q.spec = r.spec /\ q.seen = r.seen \ {n}
      BY <2>1, <2>2 DEF Reviews
    <2>4. store'[k] = None
      BY DEF IInv, InReview, Typed
    <2> QED BY <2>3, <2>4, <1>1, <1>2 DEF IInv, InReview
  <1>5. TwinsRaced'
    <2> SUFFICES ASSUME NEW a \in Stored', NEW b \in Stored', a # b,
                        Identity(SpecOf(a))' = Identity(SpecOf(b))'
                 PROVE  {a, b} \in raced'
      BY DEF TwinsRaced, Identity
    <2>1. {a, b} \in raced
      BY <1>1, <1>2 DEF IInv, TwinsRaced
    <2> QED BY <2>1, <1>1
  <1> QED BY <1>3, <1>4, <1>5 DEF IInv

LEMMA UpgradeStep ==
  ASSUME IInv, Upgrade
  PROVE  IInv'
  <1>1. PICK n \in Stored : store' = [store EXCEPT ![n] = Some([Given(@) EXCEPT !.legible = FALSE])]
    BY DEF Upgrade
  <1> DEFINE o == [Given(store[n]) EXCEPT !.legible = FALSE]
  <1>2. Given(store[n]) \in Objects
    BY StoredObject DEF IInv
  <1>3. o \in Objects /\ o.spec = SpecOf(n)
    BY <1>2 DEF Objects, SpecOf
  <1>4. store' = [store EXCEPT ![n] = Some(o)] /\ review' = review /\ raced' = raced
    BY <1>1 DEF Upgrade, Mishap
  <1> QED BY <1>3, <1>4, KeptIdentity

LEMMA OtherStep ==
  ASSUME IInv, UNCHANGED <<store, review, raced>>
  PROVE  IInv'
  BY DEF IInv, Typed, InReview, TwinsRaced, Stored, SpecOf, Identity

-----------------------------------------------------------------------------

LEMMA IInvNext == ASSUME IInv, [Next]_vars PROVE IInv'
  <1>1. CASE PutApp
    BY <1>1, PutStep DEF PutApp
  <1>2. CASE DeleteApp
    BY <1>2, DeleteStep DEF DeleteApp
  <1>3. CASE PutStack
    BY <1>3, OtherStep DEF PutStack, cluster
  <1>4. CASE NfsPodMoves
    BY <1>4, OtherStep DEF NfsPodMoves, Mishap
  <1>5. CASE Upgrade
    BY <1>5, UpgradeStep
  <1>6. CASE PlanStack
    BY <1>6, OtherStep DEF PlanStack, cluster
  <1>7. CASE ApplyChild
    BY <1>7, PutStep DEF ApplyChild
  <1>8. ASSUME NEW n \in AppNames, StoreChecked(n) PROVE IInv'
    BY <1>8, StoreStep
  <1>9. ASSUME NEW n \in AppNames, ApplyDeployment(n) \/ ApplyRest(n) \/ StartPod(n) PROVE IInv'
    BY <1>9, OtherStep DEF ApplyDeployment, ApplyRest, StartPod
  <1>10. CASE UNCHANGED vars
    BY <1>10, OtherStep DEF vars, cluster
  <1> QED BY <1>1, <1>2, <1>3, <1>4, <1>5, <1>6, <1>7, <1>8, <1>9, <1>10 DEF Next

LEMMA IInvInit == ASSUME Init PROVE IInv
  BY DEF Init, IInv, Typed, InReview, TwinsRaced, Stored, Maybe, None

\* Whatever is created, updated, deleted, planned by a stack or left illegible by an
\* upgrade, two stored apps have one identity only if one was stored while the other was
\* between its check and its storing (webhook.rs validates, the API server stores).
THEOREM TwinsOnlyByRace == Spec => []TwinsRaced
  <1>1. Init => IInv
    BY IInvInit
  <1>2. IInv /\ [Next]_vars => IInv'
    BY IInvNext
  <1>3. IInv => TwinsRaced
    BY DEF IInv
  <1> QED BY <1>1, <1>2, <1>3, PTL DEF Spec

-----------------------------------------------------------------------------
(* A pod holds what its ConfigMaps and Secrets hold.                       *)
(*                                                                         *)
(* The checksum in the template says what is copied, but for the init      *)
(* scripts, which the template tells otherwise; that only specs whose      *)
(* Deployment the API server took are ever built, mounted or run, and that *)
(* a pod is of something built, is kept by every operation (PodInv).       *)

PodTyped ==
  /\ built \in [AppNames -> Maybe(Deployable)] /\ rest \in [AppNames -> Maybe(Deployable)]
  /\ pod \in [AppNames -> Maybe([spec : Deployable, mounted : Deployable])]

PodInv == PodTyped /\ \A n \in AppNames : pod[n] # None => built[n] # None

\* One checksum, one set of copies: but for the init scripts, which are not in it.
LEMMA ChecksumTells ==
  ASSUME NEW a, NEW b, ConfigChecksum(a) = ConfigChecksum(b), InitScript(a) = InitScript(b)
  PROVE  \A object : Content(object, a) = Content(object, b)
  <1>1. /\ AppConfigMap(a) = AppConfigMap(b) /\ Definitions(a) = Definitions(b)
        /\ RsyncScripts(a) = RsyncScripts(b) /\ TarUnpack(a) = TarUnpack(b)
        /\ AuthorizedKeys(a) = AuthorizedKeys(b)
    BY DEF ConfigChecksum
  <1> QED BY <1>1 DEF Content

\* One template, one checksum: no spec without data shares one with a spec that has some.
LEMMA TemplateTells ==
  ASSUME NEW a \in Deployable, NEW b \in Deployable, Template[a] = Template[b]
  PROVE  ConfigChecksum(a) = ConfigChecksum(b)
  <1>1. /\ Template[a] = Deployment(a, ImageOverrides[a.app])
        /\ Template[b] = Deployment(b, ImageOverrides[b.app])
    BY DEF Template, Deployable
  <1>2. ASSUME NEW spec, NEW override
        PROVE  Deployment(spec, override).annotations.checksum = {ConfigChecksum(spec)} \ {NoData}
    BY DEF Deployment, PodAnnotations
  <1>3. {ConfigChecksum(a)} \ {NoData} = {ConfigChecksum(b)} \ {NoData}
    BY <1>1, <1>2
  <1> QED BY <1>3

\* The names in two lists one after the other are those of both.
LEMMA NamesOfBoth ==
  ASSUME NEW S, NEW s \in Seq(S), NEW t \in Seq(S)
  PROVE  s \o t \in Seq(S) /\ Names(s \o t) = Names(s) \cup Names(t)
  <1>1. s \o t \in Seq(S) /\ Len(s \o t) = Len(s) + Len(t)
    OBVIOUS
  <1>2. \A i \in 1 .. Len(s) : (s \o t)[i] = s[i]
    OBVIOUS
  <1>3. \A i \in 1 .. Len(t) : (s \o t)[Len(s) + i] = t[i]
    OBVIOUS
  <1>4. \A i \in 1 .. Len(s) + Len(t) : i \in 1 .. Len(s) \/ i - Len(s) \in 1 .. Len(t)
    OBVIOUS
  <1>5. Names(s \o t) \subseteq Names(s) \cup Names(t)
    <2> SUFFICES ASSUME NEW i \in 1 .. Len(s) + Len(t)
                 PROVE  (s \o t)[i].name \in Names(s) \cup Names(t)
      BY <1>1 DEF Names
    <2>1. CASE i \in 1 .. Len(s)
      BY <2>1, <1>2 DEF Names
    <2>2. CASE i - Len(s) \in 1 .. Len(t)
      <3>1. (s \o t)[Len(s) + (i - Len(s))] = t[i - Len(s)]
        BY <2>2, <1>3
      <3>2. Len(s) + (i - Len(s)) = i
        OBVIOUS
      <3> QED BY <2>2, <3>1, <3>2 DEF Names
    <2> QED BY <2>1, <2>2, <1>4
  <1>6. Names(s) \subseteq Names(s \o t)
    BY <1>1, <1>2 DEF Names
  <1>7. Names(t) \subseteq Names(s \o t)
    <2> SUFFICES ASSUME NEW i \in 1 .. Len(t) PROVE t[i].name \in Names(s \o t)
      BY DEF Names
    <2>1. Len(s) + i \in 1 .. Len(s \o t) /\ (s \o t)[Len(s) + i] = t[i]
      BY <1>1, <1>3
    <2> QED BY <1>1, <2>1 DEF Names
  <1>8. Names(s \o t) = Names(s) \cup Names(t)
    BY <1>5, <1>6, <1>7
  <1> QED BY <1>1, <1>8

\* The variables of an instance are there if it is.
LEMMA InstanceNames ==
  ASSUME NEW instance, NEW key, NEW url,
         NEW S, FromSecret(key, Given(instance).secret) \in S, Env(url, Given(instance).url) \in S
  PROVE  /\ InstanceEnv(instance, key, url) \in Seq(S)
         /\ Names(InstanceEnv(instance, key, url)) = IF instance = None THEN {} ELSE {key, url}
  <1> DEFINE first == FromSecret(key, Given(instance).secret)
             second == Env(url, Given(instance).url)
  <1>1. first.name = key /\ second.name = url
    BY DEF FromSecret, Env
  <1>2. InstanceEnv(instance, key, url) = IF instance # None THEN <<first, second>> ELSE <<>>
    BY DEF InstanceEnv, Optional
  <1> HIDE DEF first, second
  <1>3. <<first, second>> \in Seq(S) /\ <<>> \in Seq(S)
    BY DEF first, second
  <1>4. Names(<<first, second>>) = {key, url} /\ Names(<<>>) = {}
    BY <1>1 DEF Names
  <1> QED BY <1>2, <1>3, <1>4

\* Equal variables of the init container, equal sets of instances.
LEMMA EnvTells ==
  ASSUME NEW a, NEW b, UnpackerrEnv(a) = UnpackerrEnv(b)
  PROVE  \A k \in Unpacked : Instances(a)[k] # None <=> Instances(b)[k] # None
  <1> DEFINE Url == [sonarr |-> "UNPACKERR_SONARR_0_URL", radarr |-> "UNPACKERR_RADARR_0_URL",
                     lidarr |-> "UNPACKERR_LIDARR_0_URL", readarr |-> "UNPACKERR_READARR_0_URL"]
  <1>1. ASSUME NEW spec, NEW k \in Unpacked
        PROVE  Url[k] \in Names(UnpackerrEnv(spec)) <=> Instances(spec)[k] # None
    <2> DEFINE of == Instances(spec)
               key(n, c) == FromSecret(n, Given(of[c]).secret)
               url(n, c) == Env(n, Given(of[c]).url)
               S == {key("UNPACKERR_SONARR_0_APIKEY", "sonarr"), url("UNPACKERR_SONARR_0_URL", "sonarr"),
                     key("UNPACKERR_RADARR_0_APIKEY", "radarr"), url("UNPACKERR_RADARR_0_URL", "radarr"),
                     key("UNPACKERR_LIDARR_0_APIKEY", "lidarr"), url("UNPACKERR_LIDARR_0_URL", "lidarr"),
                     key("UNPACKERR_READARR_0_APIKEY", "readarr"), url("UNPACKERR_READARR_0_URL", "readarr")}
               e1 == InstanceEnv(of["sonarr"], "UNPACKERR_SONARR_0_APIKEY", "UNPACKERR_SONARR_0_URL")
               e2 == InstanceEnv(of["radarr"], "UNPACKERR_RADARR_0_APIKEY", "UNPACKERR_RADARR_0_URL")
               e3 == InstanceEnv(of["lidarr"], "UNPACKERR_LIDARR_0_APIKEY", "UNPACKERR_LIDARR_0_URL")
               e4 == InstanceEnv(of["readarr"], "UNPACKERR_READARR_0_APIKEY", "UNPACKERR_READARR_0_URL")
    <2>1. /\ e1 \in Seq(S)
          /\ Names(e1) = IF of["sonarr"] = None THEN {}
                         ELSE {"UNPACKERR_SONARR_0_APIKEY", "UNPACKERR_SONARR_0_URL"}
      <3>1. /\ FromSecret("UNPACKERR_SONARR_0_APIKEY", Given(of["sonarr"]).secret) \in S
            /\ Env("UNPACKERR_SONARR_0_URL", Given(of["sonarr"]).url) \in S
        OBVIOUS
      <3> HIDE DEF S, of
      <3> QED BY <3>1, InstanceNames
    <2>2. /\ e2 \in Seq(S)
          /\ Names(e2) = IF of["radarr"] = None THEN {}
                         ELSE {"UNPACKERR_RADARR_0_APIKEY", "UNPACKERR_RADARR_0_URL"}
      <3>1. /\ FromSecret("UNPACKERR_RADARR_0_APIKEY", Given(of["radarr"]).secret) \in S
            /\ Env("UNPACKERR_RADARR_0_URL", Given(of["radarr"]).url) \in S
        OBVIOUS
      <3> HIDE DEF S, of
      <3> QED BY <3>1, InstanceNames
    <2>3. /\ e3 \in Seq(S)
          /\ Names(e3) = IF of["lidarr"] = None THEN {}
                         ELSE {"UNPACKERR_LIDARR_0_APIKEY", "UNPACKERR_LIDARR_0_URL"}
      <3>1. /\ FromSecret("UNPACKERR_LIDARR_0_APIKEY", Given(of["lidarr"]).secret) \in S
            /\ Env("UNPACKERR_LIDARR_0_URL", Given(of["lidarr"]).url) \in S
        OBVIOUS
      <3> HIDE DEF S, of
      <3> QED BY <3>1, InstanceNames
    <2>4. /\ e4 \in Seq(S)
          /\ Names(e4) = IF of["readarr"] = None THEN {}
                         ELSE {"UNPACKERR_READARR_0_APIKEY", "UNPACKERR_READARR_0_URL"}
      <3>1. /\ FromSecret("UNPACKERR_READARR_0_APIKEY", Given(of["readarr"]).secret) \in S
            /\ Env("UNPACKERR_READARR_0_URL", Given(of["readarr"]).url) \in S
        OBVIOUS
      <3> HIDE DEF S, of
      <3> QED BY <3>1, InstanceNames
    <2>5. UnpackerrEnv(spec) = e1 \o e2 \o e3 \o e4
      BY DEF UnpackerrEnv
    <2> HIDE DEF e1, e2, e3, e4, S
    <2>6. Names(UnpackerrEnv(spec)) = Names(e1) \cup Names(e2) \cup Names(e3) \cup Names(e4)
      <3>1. e1 \o e2 \in Seq(S) /\ Names(e1 \o e2) = Names(e1) \cup Names(e2)
        BY <2>1, <2>2, NamesOfBoth
      <3> DEFINE e12 == e1 \o e2
                 e123 == e12 \o e3
      <3>2. e12 \in Seq(S) /\ Names(e12) = Names(e1) \cup Names(e2)
        BY <3>1
      <3> HIDE DEF e12
      <3>3. e123 \in Seq(S) /\ Names(e123) = Names(e12) \cup Names(e3)
        BY <3>2, <2>3, NamesOfBoth
      <3> HIDE DEF e123
      <3>4. Names(e123 \o e4) = Names(e123) \cup Names(e4)
        BY <3>3, <2>4, NamesOfBoth
      <3> QED BY <2>5, <3>2, <3>3, <3>4 DEF e12, e123
    <2> QED BY <2>1, <2>2, <2>3, <2>4, <2>6 DEF Unpacked
  <1> QED BY <1>1

\* One template, one init script: the container that runs it has the variables of each
\* instance that it has a block for.
LEMMA InitTells ==
  ASSUME NEW a \in Deployable, NEW b \in Deployable, Template[a] = Template[b]
  PROVE  InitScript(a) = InitScript(b)
  <1>1. /\ Template[a] = Deployment(a, ImageOverrides[a.app])
        /\ Template[b] = Deployment(b, ImageOverrides[b.app])
    BY DEF Template, Deployable
  <1>2. ASSUME NEW spec, NEW override
        PROVE  /\ Deployment(spec, override).main.name = spec.app
               /\ Deployment(spec, override).init = InitContainers(spec) \o SshInitContainers(spec)
    BY DEF Deployment, Container
  <1>3. ASSUME NEW spec, spec.app = "Unpackerr"
        PROVE  (InitContainers(spec) \o SshInitContainers(spec))[1].env = UnpackerrEnv(spec)
    <2> DEFINE mounts == <<ConfigMount, Scripts("unpackerr-init-scripts")>>
               c == Container("unpackerr-init", AsApp(spec), mounts, UnpackerrEnv(spec))
               tar == Container("install-tar-tools", SecurityContext(spec),
                        <<Mount("tar-unpack-scripts", <<"tar-scripts">>)>>, <<>>)
               list == Container("apply-whitelist", SecurityContext(spec),
                         <<ConfigMount, Mount("sabnzbd-scripts", <<"sabnzbd-scripts">>)>>,
                         <<Env("arg", ToString({x.whitelist : x \in Config(spec, "Sabnzbd")}))>>)
               S == {c, tar, list}
    <2>1. /\ ApplySettings(spec) = <<>> /\ BazarrInit(spec) = <<>>
          /\ MigrateOwnership(spec) = <<>> /\ SshInitContainers(spec) = <<>>
      BY <1>3 DEF ApplySettings, BazarrInit, MigrateOwnership, SshInitContainers, Optional
    <2>2. UnpackerrInit(spec) = <<c>>
      BY <1>3 DEF UnpackerrInit, Optional
    <2>3. c.env = UnpackerrEnv(spec)
      BY DEF Container
    <2>4. SabnzbdInit(spec) =
            (IF \E x \in Config(spec, "Sabnzbd") : x.tarUnpack THEN <<tar>> ELSE <<>>)
            \o (IF \E x \in Config(spec, "Sabnzbd") : x.whitelist # <<>> THEN <<list>> ELSE <<>>)
      BY DEF SabnzbdInit, Optional
    <2> HIDE DEF c, tar, list
    <2>5. SabnzbdInit(spec) \in Seq(S)
      BY <2>4
    <2>6. <<c>> \in Seq(S)
      OBVIOUS
    <2>7. InitContainers(spec) \o SshInitContainers(spec)
            = <<>> \o <<>> \o <<c>> \o SabnzbdInit(spec) \o <<>> \o <<>>
      BY <2>1, <2>2 DEF InitContainers
    <2>8. InitContainers(spec) \o SshInitContainers(spec) = <<c>> \o SabnzbdInit(spec)
      BY <2>5, <2>6, <2>7
    <2>9. (<<c>> \o SabnzbdInit(spec))[1] = c
      BY <2>5, <2>6
    <2> QED BY <2>3, <2>8, <2>9
  <1>4. a.app = b.app
    BY <1>1, <1>2
  <1>5. CASE a.app = "Unpackerr"
    <2>1. ASSUME NEW x, NEW override, x.app = "Unpackerr"
          PROVE  Deployment(x, override).init[1].env = UnpackerrEnv(x)
      BY <2>1, <1>2, <1>3
    <2>2. UnpackerrEnv(a) = UnpackerrEnv(b)
      BY <2>1, <1>1, <1>4, <1>5
    <2> QED BY <2>2, <1>4, <1>5, EnvTells DEF InitScript
  <1>6. CASE a.app # "Unpackerr"
    BY <1>4, <1>6 DEF InitScript
  <1> QED BY <1>5, <1>6

\* Two specs of one template have the same contents in all that the template mounts.
LEMMA SameContents ==
  ASSUME NEW a \in Deployable, NEW b \in Deployable, Template[a] = Template[b]
  PROVE  Contents[a] = Contents[b]
  <1>1. \A object : Content(object, a) = Content(object, b)
    BY TemplateTells, InitTells, ChecksumTells
  <1>2. /\ Contents[a] = {<<r.name, Content(r.name, a)>> : r \in References(Template[a])}
        /\ Contents[b] = {<<r.name, Content(r.name, b)>> : r \in References(Template[b])}
    BY DEF Contents
  <1> QED BY <1>1, <1>2

LEMMA PodsHold == ASSUME PodInv PROVE ConfigReaches
  <1> SUFFICES ASSUME NEW n \in AppNames, NEW p \in pod[n],
                      built[n] = rest[n], Template[Given(built[n])] = Template[p.spec]
               PROVE  Contents[p.spec] = Contents[Given(rest[n])]
    BY DEF ConfigReaches
  <1>1. p.spec \in Deployable
    BY DEF PodInv, PodTyped, Maybe, Some, None
  <1>2. built[n] # None /\ built[n] \in Maybe(Deployable)
    BY DEF PodInv, PodTyped, None
  <1>3. Given(built[n]) \in Deployable
    BY <1>2, GivenOf
  <1> QED BY <1>1, <1>3, SameContents

LEMMA PodInvNext == ASSUME PodInv, [Next]_vars PROVE PodInv'
  <1>1. ASSUME UNCHANGED <<built, rest, pod>> PROVE PodInv'
    BY <1>1 DEF PodInv, PodTyped
  <1>2. CASE PutApp
    BY <1>1, <1>2 DEF PutApp, Put, Check, Replace
  <1>3. CASE DeleteApp
    <2>1. PICK n \in Stored : /\ built' = [built EXCEPT ![n] = None]
                              /\ rest' = [rest EXCEPT ![n] = None]
                              /\ pod' = [pod EXCEPT ![n] = None]
      BY <1>3 DEF DeleteApp
    <2> QED BY <2>1 DEF PodInv, PodTyped, Maybe, Stored
  <1>4. CASE PutStack \/ PlanStack
    BY <1>1, <1>4 DEF PutStack, PlanStack, cluster
  <1>5. CASE NfsPodMoves \/ Upgrade
    BY <1>1, <1>5 DEF NfsPodMoves, Upgrade, Mishap
  <1>6. CASE ApplyChild
    BY <1>1, <1>6 DEF ApplyChild, Put, Check, Replace
  <1>7. ASSUME NEW n \in AppNames, StoreChecked(n) PROVE PodInv'
    BY <1>1, <1>7 DEF StoreChecked
  <1>8. ASSUME NEW n \in AppNames, ApplyDeployment(n) PROVE PodInv'
    <2>1. SpecOf(n) \in Deployable /\ built' = [built EXCEPT ![n] = Some(SpecOf(n))]
      BY <1>8 DEF ApplyDeployment
    <2>2. rest' = rest /\ pod' = pod
      BY <1>8 DEF ApplyDeployment
    <2>3. Some(SpecOf(n)) \in Maybe(Deployable) /\ Some(SpecOf(n)) # None
      BY <2>1 DEF Maybe, Some, None
    <2> QED BY <2>1, <2>2, <2>3 DEF PodInv, PodTyped
  <1>9. ASSUME NEW n \in AppNames, ApplyRest(n) PROVE PodInv'
    BY <1>9 DEF ApplyRest, PodInv, PodTyped
  <1>10. ASSUME NEW n \in AppNames, StartPod(n) PROVE PodInv'
    <2>1. PICK spec \in built[n], mounted \in rest[n] :
            pod' = [pod EXCEPT ![n] = Some([spec |-> spec, mounted |-> mounted])]
      BY <1>10 DEF StartPod
    <2>2. built' = built /\ rest' = rest /\ built[n] # None
      BY <1>10, <2>1 DEF StartPod, None
    <2>3. spec \in Deployable /\ mounted \in Deployable
      BY <2>1 DEF PodInv, PodTyped, Maybe, Some, None
    <2>4. Some([spec |-> spec, mounted |-> mounted])
            \in Maybe([spec : Deployable, mounted : Deployable])
      BY <2>3 DEF Maybe
    <2> QED BY <2>1, <2>2, <2>4 DEF PodInv, PodTyped
  <1>11. CASE UNCHANGED vars
    BY <1>1, <1>11 DEF vars, cluster
  <1> QED BY <1>2, <1>3, <1>4, <1>5, <1>6, <1>7, <1>8, <1>9, <1>10, <1>11 DEF Next

\* A pod that is not replaced holds what its ConfigMaps and Secrets hold: everything
\* that the builders mount and copy is told by the template, in its checksum
\* (deployment.rs config_checksum) or, for Unpackerr's init script, in the variables of
\* the container that runs it (build_init_containers), whatever the specs, the names and the order of
\* applies and starts.
THEOREM ChecksumCovers == Spec => []ConfigReaches
  <1>1. Init => PodInv
    BY DEF Init, PodInv, PodTyped, Maybe, None
  <1>2. PodInv /\ [Next]_vars => PodInv'
    BY PodInvNext
  <1>3. PodInv => ConfigReaches
    BY PodsHold
  <1> QED BY <1>1, <1>2, <1>3, PTL DEF Spec

-----------------------------------------------------------------------------
(* Lists of mounts, and how they are merged by name.                       *)

\* A set of natural numbers has a least element.
LEMMA LeastNat ==
  ASSUME NEW T \in SUBSET Nat, T # {}
  PROVE  \E n \in T : \A m \in T : n <= m
  <1>1. PICK n \in T : \A m \in T : ~ (<<m, n>> \in OpToRel(<, Nat))
    BY NatLessThanWellFounded, WFMin
  <1>2. ASSUME NEW m \in T PROVE n <= m
    <2>1. ~ (m < n)
      BY <1>1 DEF OpToRel
    <2> QED BY <2>1
  <1> QED BY <1>2

\* A bounded one has a greatest element.
LEMMA GreatestNat ==
  ASSUME NEW N \in Nat, NEW T \in SUBSET (1 .. N), T # {}
  PROVE  \E n \in T : \A m \in T : m <= n
  <1> DEFINE U == {k \in Nat : \A m \in T : m <= k}
  <1>1. N \in U
    OBVIOUS
  <1>2. PICK n \in U : \A k \in U : n <= k
    BY <1>1, LeastNat
  <1>3. ASSUME n \notin T PROVE FALSE
    <2>1. PICK m \in T : m <= n
      BY <1>2
    <2>2. \A x \in T : x <= n - 1
      BY <1>2, <1>3
    <2>3. n - 1 \in U
      BY <2>1, <2>2
    <2> QED BY <2>3, <1>2
  <1> QED BY <1>2, <1>3

LEMMA FinitePositions ==
  ASSUME NEW N \in Nat, NEW S \in SUBSET (1 .. N)
  PROVE  IsFiniteSet(S) /\ Cardinality(S) \in Nat
  <1>1. IsFiniteSet(1 .. N)
    BY FS_Interval
  <1>2. IsFiniteSet(S)
    BY <1>1, FS_Subset
  <1> QED BY <1>2, FS_CardinalityType

\* The increasing enumerations of a set of positions.
InOrder(S) ==
  {f \in [1 .. Cardinality(S) -> S] : \A a, b \in DOMAIN f : a < b => f[a] < f[b]}

\* There is one: a smallest set without one would still have none without its greatest
\* element, which can be put last.
LEMMA InOrderExists ==
  ASSUME NEW N \in Nat, NEW S \in SUBSET (1 .. N)
  PROVE  InOrder(S) # {}
  <1> DEFINE Bad == {n \in Nat : \E T \in SUBSET (1 .. N) : Cardinality(T) = n /\ InOrder(T) = {}}
  <1>1. \A T \in SUBSET (1 .. N) : IsFiniteSet(T) /\ Cardinality(T) \in Nat
    BY FinitePositions
  <1>2. ASSUME InOrder(S) = {} PROVE FALSE
    <2>1. Bad # {}
      BY <1>1, <1>2
    <2>2. PICK n \in Bad : \A m \in Bad : n <= m
      BY <2>1, LeastNat
    <2>3. PICK T \in SUBSET (1 .. N) : Cardinality(T) = n /\ InOrder(T) = {}
      BY <2>2
    <2>4. CASE T = {}
      <3>1. n = 0
        BY <2>3, <2>4, FS_EmptySet
      <3>2. [i \in 1 .. 0 |-> 0] \in InOrder(T)
        BY <3>1, <2>3, <2>4 DEF InOrder
      <3> QED BY <3>2, <2>3
    <2>5. CASE T # {}
      <3>1. PICK t \in T : \A m \in T : m <= t
        BY <2>5, GreatestNat
      <3> DEFINE R == T \ {t}
      <3>2. IsFiniteSet(T) /\ n \in Nat
        BY <1>1, <2>3
      <3>3. Cardinality(R) = n - 1
        BY <3>2, <2>3, FS_RemoveElement
      <3>4. R \in SUBSET (1 .. N) /\ n - 1 \in Nat
        BY <3>3, <1>1
      <3>5. InOrder(R) # {}
        BY <3>3, <3>4, <2>2
      <3>6. PICK f \in [1 .. n - 1 -> R] : \A a, b \in 1 .. n - 1 : a < b => f[a] < f[b]
        BY <3>3, <3>5 DEF InOrder
      <3> DEFINE g == [i \in 1 .. n |-> IF i = n THEN t ELSE f[i]]
      <3>7. g \in [1 .. n -> T]
        BY <3>4, <3>6
      <3>8. ASSUME NEW a \in 1 .. n, NEW b \in 1 .. n, a < b PROVE g[a] < g[b]
        <4>1. a \in 1 .. n - 1 /\ g[a] = f[a] /\ f[a] \in R
          BY <3>8, <3>4, <3>6
        <4>2. CASE b = n
          <5>1. f[a] \in T /\ f[a] # t /\ f[a] \in 1 .. N /\ t \in 1 .. N
            <6> HIDE DEF g
            <6>1. f[a] \in R
              BY <4>1
            <6> QED BY <6>1
          <5>2. f[a] <= t
            BY <5>1, <3>1
          <5> QED BY <5>1, <5>2, <4>1, <4>2, <3>8
        <4>3. CASE b # n
          BY <4>1, <4>3, <3>8, <3>4, <3>6
        <4> QED BY <4>2, <4>3
      <3>9. g \in InOrder(T)
        BY <3>7, <3>8, <2>3 DEF InOrder
      <3> QED BY <3>9, <2>3
    <2> QED BY <2>4, <2>5
  <1> QED BY <1>2

\* What is kept of a list is in the list (IndexMap: types.rs merge_with, merge_env).
LEMMA ByNameKeeps ==
  ASSUME NEW M, NEW entries \in Seq(M)
  PROVE  ByName(entries) \in Seq(ToSet(entries))
  <1> DEFINE N == Len(entries)
             firsts == {i \in DOMAIN entries : \A j \in 1 .. i - 1 : entries[j].name # entries[i].name}
             order == CHOOSE f \in [1 .. Cardinality(firsts) -> firsts] :
                        \A a, b \in DOMAIN f : a < b => f[a] < f[b]
             named(n) == {i \in DOMAIN entries : entries[i].name = n}
             last(n) == CHOOSE i \in DOMAIN entries :
                          /\ entries[i].name = n
                          /\ \A j \in i + 1 .. Len(entries) : entries[j].name # n
  <1>1. N \in Nat /\ DOMAIN entries = 1 .. N
    OBVIOUS
  <1>2. firsts \in SUBSET (1 .. N)
    BY <1>1
  <1>3. order \in [1 .. Cardinality(firsts) -> firsts]
    <2>1. InOrder(firsts) # {}
      BY <1>1, <1>2, InOrderExists
    <2> QED BY <2>1 DEF InOrder
  <1>4. Cardinality(firsts) \in Nat
    BY <1>1, <1>2, FinitePositions
  <1>5. ASSUME NEW k \in DOMAIN entries PROVE last(entries[k].name) \in DOMAIN entries
    <2> DEFINE n == entries[k].name
    <2>1. named(n) \in SUBSET (1 .. N) /\ named(n) # {}
      BY <1>1
    <2>2. PICK i \in named(n) : \A m \in named(n) : m <= i
      BY <1>1, <2>1, GreatestNat
    <2>3. \A j \in i + 1 .. N : entries[j].name # n
      BY <2>2, <1>1
    <2>4. \E h \in DOMAIN entries :
             /\ entries[h].name = n
             /\ \A j \in h + 1 .. Len(entries) : entries[j].name # n
      BY <2>2, <2>3
    <2> QED BY <2>4
  <1>6. ASSUME NEW k \in 1 .. Cardinality(firsts)
        PROVE  entries[last(entries[order[k]].name)] \in ToSet(entries)
    BY <1>3, <1>5 DEF ToSet
  <1>7. ByName(entries) = [k \in 1 .. Cardinality(firsts) |-> entries[last(entries[order[k]].name)]]
    BY <1>3 DEF ByName
  <1> HIDE DEF firsts, order, last
  <1> QED BY <1>4, <1>6, <1>7

\* Merging two lists of mounts makes no new one.
LEMMA MergeKeeps ==
  ASSUME NEW V, NEW user, NEW base, user.nfs \in Seq(V), base.nfs \in Seq(V)
  PROVE  MergePersistence(user, base).nfs \in Seq(V)
  <1> DEFINE both == base.nfs \o user.nfs
  <1>1. both \in Seq(V)
    OBVIOUS
  <1> HIDE DEF both
  <1>2. ToSet(both) \subseteq V
    BY <1>1 DEF ToSet
  <1>3. ByName(both) \in Seq(ToSet(both))
    BY <1>1, ByNameKeeps
  <1>4. ByName(both) \in Seq(V)
    BY <1>2, <1>3
  <1> QED BY <1>4 DEF MergePersistence, both

-----------------------------------------------------------------------------
(* What becomes of a spec on its way to a child: which fields stay, and    *)
(* which mounts there can be.                                              *)

Shaped(spec) == DOMAIN spec = DOMAIN BlankSpec("")

MountsIn(spec, V) == IsOption(spec.persistence) /\ \A p \in spec.persistence : p.nfs \in Seq(V)

LEMMA FieldsNamed ==
  /\ "app" \in DOMAIN BlankSpec("") /\ "instance" \in DOMAIN BlankSpec("")
  /\ "persistence" \in DOMAIN BlankSpec("")
  BY DEF BlankSpec

LEMMA SomeIsOption == ASSUME NEW x PROVE IsOption(Some(x)) /\ IsOption(None)
  BY GivenSome DEF IsOption

LEMMA OptionHolds ==
  ASSUME NEW o, IsOption(o), o # None
  PROVE  o = Some(Given(o)) /\ Given(o) \in o
  BY DEF IsOption, Some

LEMMA SpecMounts ==
  ASSUME NEW spec, IsSpec(spec), NEW V, Mounts(spec) \subseteq V
  PROVE  Shaped(spec) /\ MountsIn(spec, V)
  <1>1. Shaped(spec)
    BY DEF IsSpec, Shaped
  <1>2. ASSUME NEW p \in spec.persistence PROVE p.nfs \in Seq(V)
    <2>1. ToSet(p.nfs) \subseteq V
      BY DEF Mounts
    <2>2. p.nfs \in Seq(ToSet(p.nfs))
      BY DEF IsSpec
    <2> QED BY <2>1, <2>2
  <1> QED BY <1>1, <1>2 DEF IsSpec, MountsIn

LEMMA MountsInSubset ==
  ASSUME NEW spec, NEW V, MountsIn(spec, V)
  PROVE  Mounts(spec) \subseteq V
  BY DEF MountsIn, Mounts, ToSet

\* The defaults of the stack change neither the app nor the instance, and add their own
\* mounts at most.
LEMMA DefaultsKeep ==
  ASSUME NEW a, NEW d, NEW V, Shaped(a), MountsIn(a, V), MountsIn(d, V)
  PROVE  LET t == ToServarrSpec(a, d)
         IN  /\ Shaped(t) /\ MountsIn(t, V)
             /\ t.app = a.app /\ t.instance = a.instance
  <1> DEFINE t == ToServarrSpec(a, d)
             merged == IF a.persistence = None THEN d.persistence
                       ELSE IF d.persistence = None THEN a.persistence
                       ELSE Some(MergePersistence(Given(a.persistence), Given(d.persistence)))
  <1>1. DOMAIN t = DOMAIN a /\ t.app = a.app /\ t.instance = a.instance
    BY FieldsNamed DEF Shaped, ToServarrSpec
  <1>2. t.persistence = merged
    BY FieldsNamed DEF Shaped, ToServarrSpec
  <1>3. MountsIn(t, V)
    <2>1. CASE a.persistence = None \/ d.persistence = None
      BY <2>1, <1>2 DEF MountsIn
    <2>2. CASE a.persistence # None /\ d.persistence # None
      <3>1. Given(a.persistence).nfs \in Seq(V) /\ Given(d.persistence).nfs \in Seq(V)
        BY <2>2, OptionHolds DEF MountsIn
      <3>2. MergePersistence(Given(a.persistence), Given(d.persistence)).nfs \in Seq(V)
        BY <3>1, MergeKeeps
      <3> QED BY <2>2, <1>2, <3>2, SomeIsOption DEF MountsIn, Some
    <2> QED BY <2>1, <2>2
  <1> QED BY <1>1, <1>3 DEF Shaped

\* The 4K instance is of the same app, is named 4k and has the mounts of the entry or
\* those of its overrides.
LEMMA FourKKeeps ==
  ASSUME NEW entry, NEW V, Shaped(entry.spec), MountsIn(entry.spec, V),
         IsOption(entry.overrides), \A o \in entry.overrides : MountsIn(o, V)
  PROVE  /\ Shaped(FourK(entry)) /\ MountsIn(FourK(entry), V)
         /\ FourK(entry).app = entry.spec.app /\ FourK(entry).instance = Some("4k")
  <1> DEFINE base == [entry.spec EXCEPT !.instance = Some("4k")]
             o == Given(entry.overrides)
  <1>1. /\ DOMAIN base = DOMAIN BlankSpec("")
        /\ base.app = entry.spec.app /\ base.instance = Some("4k")
        /\ base.persistence = entry.spec.persistence
    BY FieldsNamed DEF Shaped
  <1>2. CASE entry.overrides = None
    <2>1. FourK(entry) = base
      BY <1>2 DEF FourK
    <2> QED BY <2>1, <1>1 DEF Shaped, MountsIn
  <1>3. CASE entry.overrides # None
    <2>1. MountsIn(o, V)
      BY <1>3, OptionHolds
    <2> HIDE DEF base, o
    <2>2. FourK(entry) = [f \in DOMAIN base |->
              IF f \in Overridable /\ o[f] # None THEN o[f]
              ELSE IF f = "env" /\ o.env # <<>> THEN ByName(base.env \o o.env)
              ELSE base[f]]
      BY <1>3 DEF FourK, base, o
    <2>3. DOMAIN FourK(entry) = DOMAIN BlankSpec("")
      BY <2>2, <1>1
    <2>4. FourK(entry).app = base.app /\ FourK(entry).instance = base.instance
      BY <2>2, <1>1, FieldsNamed DEF Overridable
    <2>5. FourK(entry).persistence = o.persistence \/ FourK(entry).persistence = base.persistence
      BY <2>2, <1>1, FieldsNamed DEF Overridable
    <2> QED BY <2>1, <2>3, <2>4, <2>5, <1>1 DEF Shaped, MountsIn
  <1> QED BY <1>2, <1>3

\* What the media server is mounted as in a child of an app.
MediaMounts(nfs, app, is4k) ==
  LET media == Mounted(app)
  IN  {Nfs(media[i], Given(ServerAddress(nfs)),
           NfsPath(nfs, nfs.dirs[Served(media[i], app, is4k)]), nfs.dirs[media[i]]) :
         i \in DOMAIN media}

LEMMA MountedIsList == ASSUME NEW app PROVE \E n \in Nat : DOMAIN Mounted(app) = 1 .. n
  <1>1. \/ Mounted(app) \in {<<>>, <<"tv">>, <<"movies">>, <<"music">>}
        \/ Mounted(app) \in {<<"movies", "tv">>, <<"movies", "tv", "music">>}
        \/ Mounted(app) = <<"movies", "tv", "music", "movies-4k", "tv-4k">>
    BY DEF Mounted
  <1>2. ASSUME NEW m, m \in {<<>>, <<"tv">>, <<"movies">>, <<"music">>}
        PROVE  DOMAIN m = 1 .. 0 \/ DOMAIN m = 1 .. 1
    BY <1>2
  <1>3. DOMAIN <<"movies", "tv">> = 1 .. 2 /\ DOMAIN <<"movies", "tv", "music">> = 1 .. 3
    OBVIOUS
  <1>4. DOMAIN <<"movies", "tv", "music", "movies-4k", "tv-4k">> = 1 .. 5
    OBVIOUS
  <1> QED BY <1>1, <1>2, <1>3, <1>4

LEMMA InjectKeeps ==
  ASSUME NEW spec, NEW nfs, NEW is4k, NEW V, Shaped(spec), MountsIn(spec, V)
  PROVE  LET t == InjectNfs(spec, nfs, is4k)
         IN  /\ MountsIn(t, V \cup MediaMounts(nfs, spec.app, is4k))
             /\ t.app = spec.app /\ t.instance = spec.instance
  <1> DEFINE t == InjectNfs(spec, nfs, is4k)
             W == V \cup MediaMounts(nfs, spec.app, is4k)
             media == Mounted(spec.app)
             list == [i \in DOMAIN media |->
                        Nfs(media[i], Given(ServerAddress(nfs)),
                            NfsPath(nfs, nfs.dirs[Served(media[i], spec.app, is4k)]),
                            nfs.dirs[media[i]])]
             injected == Persistence(<<>>, list)
  <1>1. MountsIn(spec, W)
    BY DEF MountsIn
  <1>2. CASE media = <<>> \/ ServerAddress(nfs) = None
    <2>1. t = spec
      BY <1>2 DEF InjectNfs
    <2> QED BY <2>1, <1>1
  <1>3. CASE ~(media = <<>> \/ ServerAddress(nfs) = None)
    <2>1. list \in Seq(W)
      <3>1. PICK n \in Nat : DOMAIN media = 1 .. n
        BY MountedIsList
      <3>2. \A i \in DOMAIN media : list[i] \in W
        BY DEF MediaMounts
      <3> QED BY <3>1, <3>2
    <2>2. injected.nfs = list
      BY DEF Persistence
    <2>3. t = [spec EXCEPT !.persistence =
                 IF @ = None THEN Some(injected) ELSE Some(MergePersistence(Given(@), injected))]
      BY <1>3 DEF InjectNfs
    <2> HIDE DEF injected, list, media, W, t
    <2>4. /\ t.app = spec.app /\ t.instance = spec.instance
          /\ t.persistence = IF spec.persistence = None THEN Some(injected)
                             ELSE Some(MergePersistence(Given(spec.persistence), injected))
      BY <2>3, FieldsNamed DEF Shaped
    <2>5. MountsIn(t, W)
      <3>1. CASE spec.persistence = None
        BY <3>1, <2>1, <2>2, <2>4, SomeIsOption DEF MountsIn, Some
      <3>2. CASE spec.persistence # None
        <4>1. Given(spec.persistence).nfs \in Seq(W)
          BY <3>2, <1>1, OptionHolds DEF MountsIn
        <4>2. MergePersistence(Given(spec.persistence), injected).nfs \in Seq(W)
          BY <4>1, <2>1, <2>2, MergeKeeps
        <4> QED BY <3>2, <4>2, <2>4, SomeIsOption DEF MountsIn, Some
      <3> QED BY <3>1, <3>2
    <2> QED BY <2>4, <2>5 DEF t, W
  <1> QED BY <1>2, <1>3

\* The pod's address changes where the server is, not its directories.
LEMMA EffectiveKeeps ==
  ASSUME NEW nfs, IsNfsServer(nfs), NEW a
  PROVE  /\ Effective(nfs, a).dirs = nfs.dirs
         /\ Effective(nfs, a).root \in Seq(STRING)
  <1>1. "external" \in DOMAIN nfs /\ "root" \in DOMAIN nfs /\ "dirs" \in DOMAIN nfs
    BY DEF IsNfsServer, NfsServer
  <1>2. CASE nfs.external = None /\ a # None
    <2>1. Effective(nfs, a) = [nfs EXCEPT !.external = a, !.root = <<>>]
      BY <1>2 DEF Effective
    <2>2. Effective(nfs, a).dirs = nfs.dirs /\ Effective(nfs, a).root = <<>>
      BY <1>1, <2>1
    <2> QED BY <2>2
  <1>3. CASE ~(nfs.external = None /\ a # None)
    BY <1>3 DEF Effective, IsNfsServer
  <1> QED BY <1>2, <1>3

\* What one mounts at a path as a 4K instance is another directory than what another one
\* does, if the stack names two.
LEMMA MediaApart ==
  ASSUME NEW nfs, IsNfsServer(nfs), NEW a, NEW app, Split4kValid(app),
         \A m \in ToSet(Mounted(app)) : nfs.dirs[m] # nfs.dirs[Media4k[m]],
         NEW v \in MediaMounts(Effective(nfs, a), app, FALSE),
         NEW w \in MediaMounts(Effective(nfs, a), app, TRUE)
  PROVE  v.dir # w.dir
  <1> DEFINE e == Effective(nfs, a)
  <1>1. PICK m \in Media : /\ Mounted(app) = <<m>> /\ m \in DOMAIN Media4k
                           /\ Media4k[m] \in Media
    BY DEF Split4kValid, Mounted, Media, Media4k
  <1>2. nfs.dirs[m] # nfs.dirs[Media4k[m]]
    BY <1>1 DEF ToSet
  <1>3. e.dirs = nfs.dirs /\ e.root \in Seq(STRING)
    BY EffectiveKeeps
  <1>4. nfs.dirs[m] \in Seq(STRING) /\ nfs.dirs[Media4k[m]] \in Seq(STRING)
    BY <1>1 DEF IsNfsServer
  <1>5. v.dir = NfsPath(e, nfs.dirs[m]) /\ w.dir = NfsPath(e, nfs.dirs[Media4k[m]])
    BY <1>1, <1>3 DEF MediaMounts, Served, Nfs
  <1> HIDE DEF e
  <1>6. ASSUME NEW r \in Seq(STRING), NEW c \in Seq(STRING), NEW d \in Seq(STRING), c # d
        PROVE  r \o c # r \o d
    <2>1. SUFFICES ASSUME r \o c = r \o d PROVE c = d
      BY <1>6
    <2>2. Len(c) = Len(d)
      BY <2>1
    <2>3. ASSUME NEW i \in 1 .. Len(c) PROVE c[i] = d[i]
      <3>1. (r \o c)[Len(r) + i] = c[i] /\ (r \o d)[Len(r) + i] = d[i]
        BY <2>2
      <3> QED BY <3>1, <2>1
    <2> QED BY <2>2, <2>3
  <1> QED BY <1>2, <1>3, <1>4, <1>5, <1>6 DEF NfsPath

\* A child has the app and the instance of its entry, or 4k, is named after them, and
\* mounts what the user wrote or the media server.
LEMMA ChildKeeps ==
  ASSUME NEW s \in Stacks, NEW a, NEW p \in Places(s)
  PROVE  LET entry == s.apps[p[1]]
             child == Children(s, a)[p]
         IN  /\ child.spec.app = entry.spec.app
             /\ child.spec.instance = IF p[2] THEN Some("4k") ELSE entry.spec.instance
             /\ IsOption(child.spec.instance)
             /\ child.name = ChildName(child.spec.app, child.spec.instance)
             /\ \A v \in Mounts(child.spec) \ Written(s) : \E nfs \in s.nfs :
                  v \in MediaMounts(Effective(nfs, a), child.spec.app, p[2])
  <1> DEFINE entry == s.apps[p[1]]
             child == Children(s, a)[p]
             spec == IF p[2] THEN FourK(entry) ELSE entry.spec
             merged == ToServarrSpec(spec, s.defaults)
             nfs == {Effective(n, a) : n \in s.nfs}
             V == Written(s)
  <1>1. entry \in ToSet(s.apps) /\ p[2] \in BOOLEAN
    BY DEF Places, ToSet
  <1>2. /\ IsSpec(s.defaults) /\ IsSpec(entry.spec) /\ IsOption(entry.overrides)
        /\ IsOption(s.nfs) /\ \A o \in entry.overrides : IsSpec(o)
    BY <1>1, StacksAssumption
  <1>3. /\ Mounts(s.defaults) \subseteq V /\ Mounts(entry.spec) \subseteq V
        /\ \A o \in entry.overrides : Mounts(o) \subseteq V
    BY <1>1 DEF Written
  <1>4. child = [name |-> ChildName(spec.app, spec.instance),
                 spec |-> IF nfs = None THEN merged ELSE InjectNfs(merged, Given(nfs), p[2])]
    BY DEF Children, Expand
  <1> HIDE DEF entry, child, V
  <1>5. /\ Shaped(entry.spec) /\ MountsIn(entry.spec, V) /\ MountsIn(s.defaults, V)
        /\ \A o \in entry.overrides : MountsIn(o, V)
    BY <1>2, <1>3, SpecMounts
  <1>6. /\ Shaped(FourK(entry)) /\ MountsIn(FourK(entry), V)
        /\ FourK(entry).app = entry.spec.app /\ FourK(entry).instance = Some("4k")
    BY <1>2, <1>5, FourKKeeps
  <1>7. /\ Shaped(spec) /\ MountsIn(spec, V) /\ spec.app = entry.spec.app
        /\ spec.instance = (IF p[2] THEN Some("4k") ELSE entry.spec.instance)
    BY <1>5, <1>6
  <1> HIDE DEF spec
  <1>8. /\ Shaped(merged) /\ MountsIn(merged, V)
        /\ merged.app = spec.app /\ merged.instance = spec.instance
    BY <1>5, <1>7, DefaultsKeep
  <1> HIDE DEF merged
  <1>9. /\ child.spec.app = spec.app /\ child.spec.instance = spec.instance
        /\ \A v \in Mounts(child.spec) \ V : \E n \in s.nfs :
             v \in MediaMounts(Effective(n, a), spec.app, p[2])
    <2>1. CASE nfs = None
      BY <2>1, <1>4, <1>8, MountsInSubset
    <2>2. CASE nfs # None
      <3>1. PICK n \in s.nfs : s.nfs = Some(n)
        BY <2>2, <1>2, OptionHolds DEF None
      <3>2. Given(nfs) = Effective(n, a)
        <4>1. nfs = Some(Effective(n, a))
          BY <3>1 DEF Some
        <4> QED BY <4>1, GivenSome
      <3>3. child.spec = InjectNfs(merged, Effective(n, a), p[2])
        BY <2>2, <3>2, <1>4
      <3>4. /\ MountsIn(child.spec, V \cup MediaMounts(Effective(n, a), merged.app, p[2]))
            /\ child.spec.app = merged.app /\ child.spec.instance = merged.instance
        BY <3>3, <1>8, InjectKeeps
      <3>5. Mounts(child.spec) \subseteq V \cup MediaMounts(Effective(n, a), spec.app, p[2])
        BY <3>4, <1>8, MountsInSubset
      <3> QED BY <3>4, <3>5, <1>8
    <2> QED BY <2>1, <2>2
  <1>10. IsOption(spec.instance)
    BY <1>7, <1>2, SomeIsOption DEF IsSpec
  <1>11. child.name = ChildName(spec.app, spec.instance)
    BY <1>4
  <1> QED BY <1>7, <1>9, <1>10, <1>11 DEF entry, child, V

-----------------------------------------------------------------------------
(* The plan is what the reconcile made of a stack that it did not turn     *)
(* down, with some address (PlanInv).                                      *)

PodAddresses == {None} \cup {Some(x) : x \in Addresses}

PlanInv ==
  /\ wish \in Wishes /\ stack \subseteq Stacks /\ address \in PodAddresses
  /\ plan = <<>> \/ \E t \in ValidStacks, a \in PodAddresses : plan = Children(t, a)

LEMMA ChildrenOfIs ==
  ASSUME NEW s \in Stacks, NEW a \in PodAddresses
  PROVE  ChildrenOf[s][a] = Children(s, a)
  BY DEF ChildrenOf, PodAddresses

\* Two children of a stack that is not turned down have different names, whatever the
\* address, and so different instances.
LEMMA InstancesDiffer ==
  ASSUME NEW t \in ValidStacks, NEW a, NEW p \in Places(t), NEW q \in Places(t), p # q,
         Children(t, a)[p].spec.app = Children(t, a)[q].spec.app
  PROVE  Children(t, a)[p].spec.instance # Children(t, a)[q].spec.instance
  <1>1. t \in Stacks /\ Children(t, None)[p].name # Children(t, None)[q].name
    BY DEF ValidStacks, ValidStack, IsInjective
  <1>2. ASSUME NEW x \in Places(t)
        PROVE  /\ Children(t, a)[x].spec.app = Children(t, None)[x].spec.app
               /\ Children(t, a)[x].spec.instance = Children(t, None)[x].spec.instance
               /\ Children(t, None)[x].name = ChildName(Children(t, None)[x].spec.app,
                                                        Children(t, None)[x].spec.instance)
    BY <1>1, ChildKeeps
  <1> QED BY <1>1, <1>2

\* An instance that is not the empty string is told by the identity.
LEMMA IdentityTells ==
  ASSUME NEW one, NEW two, IsOption(one.instance), IsOption(two.instance),
         one.instance # two.instance
  PROVE  Distinct(one, two)
  <1> SUFFICES ASSUME Some("") \notin {one.instance, two.instance}, Identity(one) = Identity(two)
               PROVE  FALSE
    BY DEF Distinct
  <1>1. OrElse(one.instance, "") = OrElse(two.instance, "")
    BY DEF Identity
  <1> QED BY <1>1, OptionHolds DEF OrElse

LEMMA PlansApart == ASSUME PlanInv PROVE PairApart
  <1> SUFFICES ASSUME NEW s \in stack, plan = ChildrenOf[s][address],
                      NEW p \in DOMAIN plan, NEW q \in DOMAIN plan, p # q,
                      plan[p].spec.app = plan[q].spec.app
               PROVE  /\ Distinct(plan[p].spec, plan[q].spec)
                      /\ ~p[2] /\ q[2] /\ ~OneDirectory(s, plan[p].spec.app) =>
                           DirectoriesApart(s, plan[p].spec, plan[q].spec)
    BY DEF PairApart
  <1>1. PICK t \in ValidStacks, a \in PodAddresses : plan = Children(t, a)
    BY DEF PlanInv
  <1>2. t \in Stacks /\ s \in Stacks /\ plan = Children(s, address)
    BY ChildrenOfIs DEF PlanInv, ValidStacks
  <1>3. DOMAIN plan = Places(t) /\ DOMAIN plan = Places(s)
    BY <1>1, <1>2 DEF Children
  <1>4. Distinct(plan[p].spec, plan[q].spec)
    <2>1. IsOption(plan[p].spec.instance) /\ IsOption(plan[q].spec.instance)
      BY <1>2, <1>3, ChildKeeps
    <2>2. plan[p].spec.instance # plan[q].spec.instance
      BY <1>1, <1>3, InstancesDiffer
    <2> QED BY <2>1, <2>2, IdentityTells
  <1>5. ASSUME ~p[2], q[2], ~OneDirectory(s, plan[p].spec.app),
               NEW v \in Mounts(plan[p].spec) \ Written(s),
               NEW w \in Mounts(plan[q].spec) \ Written(s)
        PROVE  v.dir # w.dir
    <2> DEFINE app == plan[p].spec.app
    <2>1. Split4kValid(app)
      <3>1. q \in Places(t)
        BY <1>3
      <3>2. Children(t, a)[q].spec.app = t.apps[q[1]].spec.app
        BY <1>2, <3>1, ChildKeeps
      <3>3. Split4kValid(t.apps[q[1]].spec.app)
        BY <1>5, <3>1 DEF ValidStacks, ValidStack
      <3> QED BY <3>2, <3>3, <1>1
    <2>2. IsOption(s.nfs) /\ \A nfs \in s.nfs : IsNfsServer(nfs)
      BY <1>2, StacksAssumption
    <2>3. p[2] = FALSE /\ q[2] = TRUE
      BY <1>3, <1>5 DEF Places
    <2>4. ASSUME NEW x \in Places(s), NEW y \in Mounts(plan[x].spec) \ Written(s)
          PROVE  \E nfs \in s.nfs : y \in MediaMounts(Effective(nfs, address), plan[x].spec.app, x[2])
      <3>1. \A z \in Mounts(Children(s, address)[x].spec) \ Written(s) : \E nfs \in s.nfs :
              z \in MediaMounts(Effective(nfs, address), Children(s, address)[x].spec.app, x[2])
        BY <1>2, ChildKeeps
      <3> QED BY <3>1, <1>2
    <2>5. PICK n \in s.nfs : v \in MediaMounts(Effective(n, address), app, FALSE)
      BY <1>3, <2>3, <2>4
    <2>6. PICK m \in s.nfs : w \in MediaMounts(Effective(m, address), app, TRUE)
      BY <1>3, <2>3, <2>4
    <2>7. n = m
      BY <2>2, OptionHolds DEF None, Some
    <2>8. \A x \in ToSet(Mounted(app)) : n.dirs[x] # n.dirs[Media4k[x]]
      BY <1>5 DEF OneDirectory
    <2> QED BY <2>1, <2>2, <2>5, <2>6, <2>7, <2>8, MediaApart
  <1> QED BY <1>4, <1>5 DEF DirectoriesApart

LEMMA PlanInvNext == ASSUME PlanInv, [Next]_vars PROVE PlanInv'
  <1>1. ASSUME UNCHANGED <<wish, stack, address, plan>> PROVE PlanInv'
    BY <1>1 DEF PlanInv
  <1>2. CASE PutApp \/ DeleteApp
    BY <1>1, <1>2 DEF PutApp, DeleteApp, Edit
  <1>3. CASE PutStack
    <2>1. stack' \in wish.stacks /\ UNCHANGED <<wish, address, plan>>
      BY <1>3 DEF PutStack, Edit
    <2>2. stack' \subseteq Stacks
      BY <2>1 DEF PlanInv, Stacks
    <2> QED BY <2>1, <2>2 DEF PlanInv
  <1>4. CASE NfsPodMoves
    <2>1. address' \in PodAddresses /\ UNCHANGED <<wish, stack, plan>>
      BY <1>4 DEF NfsPodMoves, Mishap, PodAddresses
    <2> QED BY <2>1 DEF PlanInv
  <1>5. CASE Upgrade
    BY <1>1, <1>5 DEF Upgrade, Mishap
  <1>6. CASE PlanStack
    <2>1. PICK s \in stack \cap ValidStacks : plan' = ChildrenOf[s][address]
      BY <1>6 DEF PlanStack
    <2>2. plan' = Children(s, address)
      BY <2>1, ChildrenOfIs DEF PlanInv, ValidStacks
    <2>3. UNCHANGED <<wish, stack, address>>
      BY <1>6 DEF PlanStack
    <2> QED BY <2>1, <2>2, <2>3 DEF PlanInv
  <1>7. CASE ApplyChild
    BY <1>1, <1>7 DEF ApplyChild, stacks
  <1>8. ASSUME NEW n \in AppNames,
               StoreChecked(n) \/ ApplyDeployment(n) \/ ApplyRest(n) \/ StartPod(n)
        PROVE  PlanInv'
    BY <1>1, <1>8 DEF StoreChecked, ApplyDeployment, ApplyRest, StartPod, stacks
  <1>9. CASE UNCHANGED vars
    BY <1>1, <1>9 DEF vars, stacks
  <1> QED BY <1>2, <1>3, <1>4, <1>5, <1>6, <1>7, <1>8, <1>9 DEF Next

\* Whatever a stack lists, overrides and gives by default, and wherever its NFS server
\* runs, no two of its children are one instance of one app, and a 4K instance mounts
\* another directory than a standard one (media_stack.rs expand, inject_nfs_mounts;
\* media_stack_controller.rs reconcile, which turns down a name that comes twice).
THEOREM ChildrenApart == Spec => []PairApart
  <1>1. Init => PlanInv
    BY DEF Init, PlanInv, PodAddresses, None
  <1>2. PlanInv /\ [Next]_vars => PlanInv'
    BY PlanInvNext
  <1>3. PlanInv => PairApart
    BY PlansApart
  <1> QED BY <1>1, <1>2, <1>3, PTL DEF Spec

-----------------------------------------------------------------------------
(* What ServerFollows says of pods in the end holds of plans at once.      *)

\* A server that runs in the cluster is mounted by the address of its pod.
LEMMA PodIsServer ==
  ASSUME NEW nfs, IsNfsServer(nfs), DeployInCluster(nfs), NEW addr \in PodAddresses,
         NEW a \in addr
  PROVE  Given(ServerAddress(Effective(nfs, addr))) = a
  <1>1. addr = Some(a) /\ addr # None
    BY DEF PodAddresses, None, Some
  <1>2. nfs.external = None /\ "external" \in DOMAIN nfs
    BY DEF DeployInCluster, IsNfsServer, NfsServer
  <1>3. Effective(nfs, addr).external = Some(a)
    <2>1. Effective(nfs, addr) = [nfs EXCEPT !.external = addr, !.root = <<>>]
      BY <1>1, <1>2 DEF Effective
    <2> QED BY <2>1, <1>1, <1>2
  <1>4. ServerAddress(Effective(nfs, addr)) = Some(a)
    BY <1>1, <1>3 DEF ServerAddress
  <1> QED BY <1>4, GivenSome

\* A plan that is made for the address at hand mounts the media server, where it runs in
\* the cluster, from there and nowhere else: neither defaults nor overrides nor an older
\* address get into a mount that no user wrote (media_stack.rs inject_nfs_mounts;
\* media_stack_controller.rs, which computes the children after it read the pod).
THEOREM PlansFollow ==
  Spec => [](\A s \in stack : plan = ChildrenOf[s][address] =>
               \A p \in DOMAIN plan, nfs \in s.nfs, a \in address : DeployInCluster(nfs) =>
                 {v.server : v \in Mounts(plan[p].spec) \ Written(s)} \subseteq {a})
  <1> DEFINE Follow ==
        \A s \in stack : plan = ChildrenOf[s][address] =>
          \A p \in DOMAIN plan, nfs \in s.nfs, a \in address : DeployInCluster(nfs) =>
            {v.server : v \in Mounts(plan[p].spec) \ Written(s)} \subseteq {a}
  <1>1. Init => PlanInv
    BY DEF Init, PlanInv, PodAddresses, None
  <1>2. PlanInv /\ [Next]_vars => PlanInv'
    BY PlanInvNext
  <1>3. PlanInv => Follow
    <2> SUFFICES ASSUME PlanInv, NEW s \in stack, plan = ChildrenOf[s][address],
                        NEW p \in DOMAIN plan, NEW nfs \in s.nfs, NEW a \in address,
                        DeployInCluster(nfs), NEW v \in Mounts(plan[p].spec) \ Written(s)
                 PROVE  v.server = a
      OBVIOUS
    <2>1. s \in Stacks /\ plan = Children(s, address) /\ address \in PodAddresses
      BY ChildrenOfIs DEF PlanInv
    <2>2. p \in Places(s)
      BY <2>1 DEF Children
    <2>3. IsOption(s.nfs) /\ IsNfsServer(nfs)
      BY <2>1, StacksAssumption
    <2>4. PICK n \in s.nfs :
             v \in MediaMounts(Effective(n, address), plan[p].spec.app, p[2])
      <3>1. \A z \in Mounts(Children(s, address)[p].spec) \ Written(s) : \E n \in s.nfs :
              z \in MediaMounts(Effective(n, address), Children(s, address)[p].spec.app, p[2])
        BY <2>1, <2>2, ChildKeeps
      <3> QED BY <3>1, <2>1
    <2>5. n = nfs
      BY <2>3, OptionHolds DEF None, Some
    <2>6. v.server = Given(ServerAddress(Effective(nfs, address)))
      BY <2>4, <2>5 DEF MediaMounts, Nfs
    <2> QED BY <2>1, <2>3, <2>6, PodIsServer
  <1> QED BY <1>1, <1>2, <1>3, PTL DEF Spec
=============================================================================
