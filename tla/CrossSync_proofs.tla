-------------------------- MODULE CrossSync_proofs --------------------------
(***************************************************************************)
(* The Secrets of the apps are a register of keys that are written once.   *)
(* The hub holds every app at most once, and reports a sync as ready only  *)
(* when what it read is registered.  The second part rests on what the     *)
(* reconcile knows between its calls: that the list it took is still right *)
(* about every app that is about to be added, because only the sync itself *)
(* registers apps and it adds each app once.                               *)
(***************************************************************************)
EXTENDS CrossSync, FiniteSetTheorems, WellFoundedInduction, TLAPS

\* What the refinement needs: the Secrets are a register, and the specs name some.
KeysTyped ==
  /\ setup.keyOf \in [Apps -> Apps \cup {Unset}] /\ hub.named \in {Hub, Other, Unset}
  /\ key \in [Secrets -> Nat] /\ drawn \in [Secrets -> Nat]

\* A Secret an app or the hub looks after is one of the register's.
LEMMA NameIsName ==
  ASSUME KeysTyped, NEW m \in Names
  PROVE  Name(m) \in Secrets
BY DEF KeysTyped, Name, Names, Named, Secrets

\* The initial state is the register's.
LEMMA InitKeys == Init => KeysTyped /\ KeyRegister!Init
<1> SUFFICES ASSUME Init PROVE KeysTyped /\ KeyRegister!Init
  OBVIOUS
<1>1. PICK s \in Scenes : hub = s.hub /\ setup = s.setup
  BY DEF Init
<1>2. setup.keyOf \in [Apps -> Apps \cup {Unset}] /\ hub.named \in {Hub, Other, Unset}
  BY <1>1, ScenesAssumption
<1> QED BY <1>2 DEF Init, KeysTyped, KeyRegister!Init

\* A key that is drawn for an empty Secret is the register's Draw.
LEMMA DrawStep ==
  ASSUME KeysTyped, NEW n \in Secrets, NEW by, key[n] = 0, Draw(n, by),
         UNCHANGED <<setup, hub>>
  PROVE  KeysTyped' /\ KeyRegister!Next
<1>1. KeyRegister!Draw(n)
  BY DEF Draw, KeyRegister!Draw
<1>2. drawn[n] + 1 \in Nat
  BY DEF KeysTyped
<1>3. KeysTyped'
  BY <1>2 DEF KeysTyped, Draw
<1> QED BY <1>1, <1>3 DEF KeyRegister!Next

\* A removal is the register's.
LEMMA RemoveStep ==
  ASSUME KeysTyped, UNCHANGED <<setup, hub, drawn>>, NEW S \in SUBSET Secrets,
         key' = [n \in Secrets |-> IF n \in S THEN 0 ELSE key[n]]
  PROVE  KeysTyped' /\ KeyRegister!Next
<1>1. KeyRegister!Remove(S)
  BY DEF KeyRegister!Remove
<1>2. KeysTyped'
  BY DEF KeysTyped
<1> QED BY <1>1, <1>2 DEF KeyRegister!Next

\* The hub's own steps and the failures leave the Secrets alone.
LEMMA QuietStep ==
  ASSUME KeysTyped, UNCHANGED <<setup, hub, secrets>>
  PROVE  KeysTyped' /\ UNCHANGED <<key, drawn>>
BY DEF KeysTyped, secrets

LEMMA EnsureStep ==
  ASSUME KeysTyped, NEW m \in Names, Ensure(m)
  PROVE  KeysTyped' /\ [KeyRegister!Next]_<<key, drawn>>
<1>1. CASE LookUp(m)
  BY <1>1, QuietStep DEF LookUp
<1>2. CASE Create(m) /\ key[Name(m)] = 0
  BY <1>2, NameIsName, DrawStep DEF Create
<1>3. CASE Create(m) /\ key[Name(m)] # 0
  BY <1>3, QuietStep DEF Create
<1> QED BY <1>1, <1>2, <1>3 DEF Ensure

LEMMA UsersStep ==
  ASSUME KeysTyped, Users
  PROVE  KeysTyped' /\ [KeyRegister!Next]_<<key, drawn>>
<1>1. CASE \E n \in Named : RemoveSecret(n)
  <2>1. PICK n \in Named : RemoveSecret(n)
    BY <1>1
  <2>2. key' = [k \in Secrets |-> IF k \in {n} THEN 0 ELSE key[k]]
    BY <2>1 DEF RemoveSecret, KeysTyped
  <2>3. {n} \in SUBSET Secrets /\ UNCHANGED <<setup, hub, drawn>>
    BY <2>1 DEF RemoveSecret, Secrets
  <2> QED BY <2>2, <2>3, RemoveStep
<1>2. CASE \E n \in Named : StoreSecret(n)
  <2>1. PICK n \in Named : StoreSecret(n)
    BY <1>2
  <2>2. n \in Secrets /\ Draw(n, "user") /\ key[n] = 0 /\ UNCHANGED <<setup, hub>>
    BY <2>1 DEF StoreSecret, Secrets
  <2> QED BY <2>2, DrawStep
<1>3. CASE \E a \in Apps : DeleteApp(a)
  <2>1. PICK a \in Apps : DeleteApp(a)
    BY <1>3
  <2> DEFINE S == {n \in Secrets : owner[n] = a}
  <2>2. key' = [k \in Secrets |-> IF k \in S THEN 0 ELSE key[k]]
    BY <2>1 DEF DeleteApp
  <2>3. S \in SUBSET Secrets /\ UNCHANGED <<setup, hub, drawn>>
    BY <2>1 DEF DeleteApp
  <2> HIDE DEF S
  <2> QED BY <2>2, <2>3, RemoveStep
<1>4. CASE \E a \in Apps : CreateApp(a) \/ MoveApp(a)
  BY <1>4, QuietStep DEF CreateApp, MoveApp
<1> QED BY <1>1, <1>2, <1>3, <1>4 DEF Users

LEMMA SyncStep ==
  ASSUME KeysTyped, Sync
  PROVE  KeysTyped' /\ UNCHANGED <<key, drawn>>
<1>1. UNCHANGED world
  BY DEF Sync, Begin, ReadKey, KeysRead, List, AllListed, Push, AllPushed, Remove,
         AllRemoved, Finish
<1> QED BY <1>1, QuietStep DEF world

LEMMA NextStep ==
  ASSUME KeysTyped, [Next]_vars
  PROVE  KeysTyped' /\ [KeyRegister!Next]_<<key, drawn>>
<1>1. CASE Sync
  BY <1>1, SyncStep
<1>2. CASE \E m \in Names : Ensure(m)
  BY <1>2, EnsureStep
<1>3. CASE \E m \in Names : CreateFails(m)
  BY <1>3, QuietStep DEF CreateFails
<1>4. CASE Users
  BY <1>4, UsersStep
<1>5. CASE UNCHANGED vars
  BY <1>5, QuietStep DEF vars, world
<1> QED BY <1>1, <1>2, <1>3, <1>4, <1>5 DEF Next

\* Lookups that race, creates that fail, Secrets that users remove or store and
\* apps that are deleted: the Secrets behave as a register that hands out a new
\* key only where there is none, and never writes over one.
THEOREM KeysAreARegister == Spec => KeysWrittenOnce
<1>1. Spec => []KeysTyped
  BY InitKeys, NextStep, PTL DEF Spec
<1>2. KeysTyped /\ [Next]_vars => [KeyRegister!Next]_<<key, drawn>>
  BY NextStep
<1> QED BY <1>1, <1>2, InitKeys, PTL DEF Spec, KeysWrittenOnce, KeyRegister!Spec

-----------------------------------------------------------------------------
(* The choices the sync makes.                                             *)

\* A set of natural numbers has a least element.
LEMMA LeastNat ==
  ASSUME NEW T \in SUBSET Nat, T # {}
  PROVE  \E n \in T : \A m \in T : n <= m
<1>1. PICK n \in T : \A m \in T : ~ (<<m, n>> \in OpToRel(<, Nat))
  BY NatLessThanWellFounded, WFMin
<1>2. ASSUME NEW m \in T PROVE n <= m
  <2>1. <<m, n>> \notin OpToRel(<, Nat)
    BY <1>1
  <2>2. ~ (m < n)
    BY <2>1 DEF OpToRel
  <2> QED BY <2>2
<1> QED BY <1>2

\* The first of the listed or found apps is one of them.
LEMMA FirstIn ==
  ASSUME NEW S, S # {}, \A s \in S : s.app \in Apps
  PROVE  First(S) \in S
<1> DEFINE T == {Rank[s.app] : s \in S}
<1>1. T \in SUBSET Nat /\ T # {}
  BY AppsAssumption
<1>2. PICK n \in T : \A m \in T : n <= m
  BY <1>1, LeastNat
<1>3. PICK s \in S : n = Rank[s.app]
  BY <1>2
<1>4. \A t \in S : Rank[s.app] <= Rank[t.app]
  BY <1>2, <1>3
<1> QED BY <1>4 DEF First

\* There are not more ids than entries.
LEMMA IdsRunOut ==
  ASSUME NEW E, IsFiniteSet(E), NEW D, IsFiniteSet(D), Cardinality(E) < Cardinality(D)
  PROVE  \E i \in D : \A e \in E : e.id # i
<1> SUFFICES ASSUME \A i \in D : \E e \in E : e.id = i PROVE FALSE
  OBVIOUS
<1>1. PICK f : f = [i \in D |-> CHOOSE e \in E : e.id = i]
  OBVIOUS
<1>2. f \in [D -> E] /\ \A i \in D : f[i].id = i
  BY <1>1
<1>3. \E i, j \in D : i # j /\ f[i] = f[j]
  BY <1>2, FS_PigeonHole
<1> QED BY <1>2, <1>3

\* An entry that is added gets an id of its own.
LEMMA FreshId ==
  ASSUME IsFiniteSet(entries)
  PROVE  Fresh \in Nat /\ \A e \in entries : e.id # Fresh
<1> DEFINE N == Cardinality(entries)
<1>1. N \in Nat
  BY FS_CardinalityType
<1>2. IsFiniteSet(1 .. N + 1) /\ Cardinality(1 .. N + 1) = N + 1
  BY <1>1, FS_Interval
<1>3. \E i \in 1 .. N + 1 : \A e \in entries : e.id # i
  BY <1>1, <1>2, IdsRunOut
<1> QED BY <1>1, <1>3 DEF Fresh

-----------------------------------------------------------------------------
(* The reconcile of the hub.                                               *)

OnePerApp(S) == \A f, g \in S : f.app = g.app => f = g

\* What concerns an app among the entries of S.
Mine(S, f) == {e \in S : e.app = f.app /\ (hub.kind \in ByUrl => e.url = f.url)}

Single(f) == OneSlot(hub.kind, setup.kindOf[f.app])

\* The apps are read one by one, each of them once.
ReadInv ==
  /\ OnePerApp(r.todo) /\ OnePerApp(r.found)
  /\ \A s \in r.todo, f \in r.found : s.app # f.app
  /\ \A f \in r.found : Takes(hub.kind, setup.kindOf[f.app])
  /\ r.batch \subseteq r.found
  /\ r.pc # "keys" => r.todo = {}
  /\ r.pc = "keys" => r.seen = {} /\ r.batch = {} /\ r.kinds = Many /\ ~r.failed
  /\ r.pc \in {"list", "remove", "finish"} => r.batch = {}

\* What has been listed: everything of the kinds that were asked for.
ListInv ==
  /\ r.pc = "list" /\ ~Alternates => r.seen = OfKind(entries, Many \ r.kinds)
  /\ r.pc = "push" /\ ~Alternates => r.kinds = {}
  /\ r.pc \in {"list", "push"} /\ Alternates => OfKind(r.seen, r.kinds) = {}

\* The list is still right about every app that is about to be added.
BatchInv == \A f \in r.batch : ~Single(f) => Mine(entries, f) = Mine(r.seen, f)

SyncInv == ReadInv /\ ListInv /\ BatchInv

\* An app that was found is registered, or its turn will come.
Registered(f) ==
  IF Single(f)
  THEN \E g \in OfKind(r.found, {setup.kindOf[f.app]}) : Holds(g)
  ELSE \E e \in entries : e.app = f.app

Pending(f) ==
  \/ r.pc = "keys"
  \/ r.pc = "list" /\ ~Alternates
  \/ r.pc = "push" /\ f \in r.batch
  \/ r.pc \in {"list", "push"} /\ Alternates /\ setup.kindOf[f.app] \in r.kinds

RegisterInv ==
  hub.kind \notin ByUrl /\ ~r.failed => \A f \in r.found : Registered(f) \/ Pending(f)

\* The types of the world around the hub, and of the hub.
WorldOK ==
  /\ [hub |-> hub, setup |-> setup] \in Scenes
  /\ app \in [Apps -> [there : BOOLEAN, url : Urls]]
  /\ key \in [Secrets -> Keys] /\ drawn \in [Secrets -> Nat]
  /\ owner \in [Secrets -> Names \cup {"user"}]
  /\ make \in [Names -> BOOLEAN]
  /\ edits \in 0 .. MaxEdits

Distinct(E) == \A e, f \in E : e.id = f.id \/ SameApp(e, f) => e = f
EntriesOK(E) == E \in SUBSET Entry /\ IsFiniteSet(E) /\ Distinct(E)

Runs == [pc : Steps, todo : SUBSET Listed, found : SUBSET Found, kinds : SUBSET Many,
         batch : SUBSET Found, seen : SUBSET Entry, failed : BOOLEAN]
HubOK == EntriesOK(entries) /\ r \in Runs /\ ready \in {"none", "True", "False"}


Good == HubOK /\ SyncInv /\ RegisterInv

\* The inductive invariant.
CrossInv == WorldOK /\ Good /\ faults \in 0 .. MaxFaults

\* The kinds of hubs and apps.
LEMMA SetupTyped ==
  ASSUME WorldOK
  PROVE  /\ hub.kind \in HubKinds /\ hub.auto \in BOOLEAN
         /\ hub.named \in {Hub, Other, Unset}
         /\ setup.kindOf \in [Apps -> Kinds] /\ setup.keyOf \in [Apps -> Apps \cup {Unset}]
<1>1. [hub |-> hub, setup |-> setup] \in
        [hub : [kind : HubKinds, auto : BOOLEAN, named : {Hub, Other, Unset}],
         setup : [kindOf : [Apps -> Kinds], keyOf : [Apps -> Apps \cup {Unset}]]]
  BY ScenesAssumption DEF WorldOK
<1>2. /\ hub \in [kind : HubKinds, auto : BOOLEAN, named : {Hub, Other, Unset}]
      /\ setup \in [kindOf : [Apps -> Kinds], keyOf : [Apps -> Apps \cup {Unset}]]
  BY <1>1
<1> QED BY <1>2

LEMMA IdleOK == Idle \in Runs /\ Idle.pc = "idle" /\ Idle.todo = {} /\ Idle.found = {}
                /\ Idle.batch = {} /\ Idle.seen = {} /\ Idle.kinds = {} /\ Idle.failed = FALSE
BY DEF Idle, Runs, Steps

\* An idle reconcile owes nothing.
LEMMA IdleInv ==
  ASSUME r = Idle
  PROVE  SyncInv /\ RegisterInv
BY IdleOK DEF SyncInv, ReadInv, ListInv, BatchInv, RegisterInv, OnePerApp

LEMMA InitInv == Init => CrossInv
<1> SUFFICES ASSUME Init PROVE CrossInv
  OBVIOUS
<1>1. PICK s \in Scenes : hub = s.hub /\ setup = s.setup
  BY DEF Init
<1>2. s = [hub |-> s.hub, setup |-> s.setup]
  BY ScenesAssumption
<1>3. WorldOK
  <2>1. app \in [Apps -> [there : BOOLEAN, url : Urls]]
    BY DEF Init, Urls
  <2> QED BY <1>1, <1>2, <2>1, BoundsAssumption DEF Init, WorldOK, Keys
<1>4. HubOK
  BY IdleOK, FS_EmptySet DEF Init, HubOK, EntriesOK, Distinct
<1>5. faults \in 0 .. MaxFaults
  BY BoundsAssumption DEF Init
<1>6. SyncInv /\ RegisterInv
  BY IdleInv DEF Init
<1> QED BY <1>3, <1>4, <1>5, <1>6 DEF CrossInv, Good

\* What the hub's reconcile has found out does not depend on the rest.
LEMMA SyncUnmoved ==
  ASSUME UNCHANGED <<hub, setup, entries, r>>
  PROVE  (SyncInv => SyncInv') /\ (RegisterInv => RegisterInv')
<1>1. SyncInv => SyncInv'
  BY DEF SyncInv, ReadInv, ListInv, BatchInv, OnePerApp, Mine, Single, OneSlot, Takes,
         Alternates, OfKind
<1>2. RegisterInv => RegisterInv'
  BY DEF RegisterInv, Registered, Pending, Holds, Single, OneSlot, Alternates, OfKind
<1> QED BY <1>1, <1>2

LEMMA HubUnmoved ==
  ASSUME HubOK, UNCHANGED <<hub, setup, entries, r, ready>>
  PROVE  HubOK'
BY DEF HubOK, EntriesOK, Distinct, SameApp, Runs

\* Users, and the reconciles that ensure the Secrets, only move the world.
LEMMA DrawTyped ==
  ASSUME WorldOK, NEW n \in Secrets, NEW by \in Names \cup {"user"}, Draw(n, by)
  PROVE  /\ key' \in [Secrets -> Keys] /\ drawn' \in [Secrets -> Nat]
         /\ owner' \in [Secrets -> Names \cup {"user"}]
BY DEF WorldOK, Draw, Keys

LEMMA EnsureWorld ==
  ASSUME WorldOK, NEW m \in Names, Ensure(m) \/ CreateFails(m)
  PROVE  WorldOK' /\ UNCHANGED <<hub, setup, entries, r, ready>>
<1>1. Name(m) \in Secrets
  BY SetupTyped DEF Name, Names, Named, Secrets
<1>2. make' \in [Names -> BOOLEAN]
  BY DEF WorldOK, Ensure, LookUp, Create, CreateFails
<1>3. UNCHANGED <<hub, setup, app, edits, entries, r, ready>>
  BY DEF Ensure, LookUp, Create, CreateFails
<1>4. CASE Create(m) /\ Draw(Name(m), m)
  BY <1>1, <1>2, <1>3, <1>4, DrawTyped DEF WorldOK
<1>5. CASE UNCHANGED secrets
  BY <1>2, <1>3, <1>5 DEF WorldOK, secrets
<1> QED BY <1>4, <1>5 DEF Ensure, LookUp, Create, CreateFails

LEMMA UsersWorld ==
  ASSUME WorldOK, Users
  PROVE  WorldOK' /\ UNCHANGED <<hub, setup, entries, r, ready>>
<1>0. edits' \in 0 .. MaxEdits
  BY BoundsAssumption DEF Users, RemoveSecret, StoreSecret, DeleteApp, CreateApp, MoveApp,
     Edit, WorldOK
<1>1. CASE \E n \in Named : RemoveSecret(n)
  <2>1. PICK n \in Named : RemoveSecret(n)
    BY <1>1
  <2>2. key' \in [Secrets -> Keys]
    BY <2>1 DEF RemoveSecret, WorldOK, Keys
  <2> QED BY <1>0, <2>1, <2>2 DEF RemoveSecret, WorldOK
<1>2. CASE \E n \in Named : StoreSecret(n)
  BY <1>0, <1>2, DrawTyped DEF StoreSecret, WorldOK, Secrets
<1>3. CASE \E a \in Apps : DeleteApp(a)
  <2>1. PICK a \in Apps : DeleteApp(a)
    BY <1>3
  <2>2. app' = [app EXCEPT ![a] = [@ EXCEPT !.there = FALSE]]
    BY <2>1 DEF DeleteApp
  <2>3. [app[a] EXCEPT !.there = FALSE] \in [there : BOOLEAN, url : Urls]
    BY DEF WorldOK
  <2>4. app' \in [Apps -> [there : BOOLEAN, url : Urls]]
    BY <2>2, <2>3 DEF WorldOK
  <2>5. make' \in [Names -> BOOLEAN]
    BY <2>1 DEF DeleteApp, WorldOK
  <2>6. key' \in [Secrets -> Keys]
    BY <2>1 DEF DeleteApp, WorldOK, Keys
  <2> QED BY <1>0, <2>1, <2>4, <2>5, <2>6 DEF DeleteApp, WorldOK
<1>4. CASE \E a \in Apps : CreateApp(a) \/ MoveApp(a)
  <2>1. PICK a \in Apps : CreateApp(a) \/ MoveApp(a)
    BY <1>4
  <2>2. PICK x : app' = [app EXCEPT ![a] = x] /\ x \in [there : BOOLEAN, url : Urls]
    <3>1. /\ [app[a] EXCEPT !.there = TRUE] \in [there : BOOLEAN, url : Urls]
          /\ [app[a] EXCEPT !.url = 3 - app[a].url] \in [there : BOOLEAN, url : Urls]
      <4>1. app[a] \in [there : BOOLEAN, url : Urls]
        BY DEF WorldOK
      <4>2. 3 - app[a].url \in Urls
        BY <4>1 DEF Urls
      <4> QED BY <4>1, <4>2
    <3>2. \/ app' = [app EXCEPT ![a] = [app[a] EXCEPT !.there = TRUE]]
          \/ app' = [app EXCEPT ![a] = [app[a] EXCEPT !.url = 3 - app[a].url]]
      BY <2>1 DEF CreateApp, MoveApp
    <3> QED BY <3>1, <3>2
  <2>3. app' \in [Apps -> [there : BOOLEAN, url : Urls]]
    BY <2>2 DEF WorldOK
  <2> QED BY <1>0, <2>1, <2>3 DEF CreateApp, MoveApp, WorldOK, secrets
<1> QED BY <1>1, <1>2, <1>3, <1>4 DEF Users

\* The hub's own steps leave the world alone.
LEMMA SyncWorld ==
  ASSUME WorldOK, faults \in 0 .. MaxFaults, Sync
  PROVE  WorldOK' /\ UNCHANGED <<hub, setup>> /\ faults' \in 0 .. MaxFaults
<1>1. UNCHANGED <<world, edits>>
  BY DEF Sync, Begin, ReadKey, KeysRead, List, AllListed, Push, AllPushed, Remove,
         AllRemoved, Finish
<1>2. faults' = faults \/ (faults < MaxFaults /\ faults' = faults + 1)
  BY DEF Sync, Begin, ReadKey, KeysRead, List, AllListed, Push, AllPushed, Remove,
         AllRemoved, Finish, Quiet, Fault
<1> QED BY <1>1, <1>2, BoundsAssumption DEF world, secrets, WorldOK

-----------------------------------------------------------------------------
(* Each of the hub's steps keeps what it has found out.                    *)

\* A sync that gives up, or that is done, has nothing left to owe.
LEMMA GivenUp ==
  ASSUME HubOK, UNCHANGED <<hub, setup, entries>>, r' = Idle, ready' \in {ready, "True", "False"}
  PROVE  Good'
<1>1. HubOK'
  BY IdleOK DEF HubOK, EntriesOK, Distinct, SameApp, Runs
<1> QED BY <1>1, IdleInv, IdleOK
  DEF Good, SyncInv, ReadInv, ListInv, BatchInv, RegisterInv, OnePerApp

LEMMA BeginStep ==
  ASSUME WorldOK, Good, Begin
  PROVE  Good'
<1>0. UNCHANGED <<hub, setup, entries>> /\ HubOK
  BY DEF Begin, world, Good
<1>1. CASE GivesUp
  BY <1>0, <1>1, GivenUp DEF GivesUp
<1>2. CASE ~GivesUp
  <2> DEFINE todo == {[app |-> a, url |-> app[a].url] : a \in {b \in Apps : app[b].there}}
  <2>1. r' = [Idle EXCEPT !.pc = "keys", !.kinds = Many, !.todo = todo] /\ ready' = ready
    BY <1>2 DEF Begin
  <2>2. todo \in SUBSET Listed /\ OnePerApp(todo)
    BY DEF WorldOK, Listed, OnePerApp
  <2> HIDE DEF todo
  <2>3. /\ r' \in Runs /\ r'.pc = "keys" /\ r'.todo = todo /\ r'.found = {} /\ r'.batch = {}
        /\ r'.seen = {} /\ r'.kinds = Many /\ r'.failed = FALSE
    BY <2>1, <2>2 DEF Idle, Runs, Steps
  <2>4. HubOK'
    BY <1>0, <2>1, <2>3 DEF HubOK, EntriesOK, Distinct, SameApp, Runs
  <2>5. SyncInv' /\ RegisterInv'
    BY <2>2, <2>3 DEF SyncInv, ReadInv, ListInv, BatchInv, RegisterInv, OnePerApp
  <2> QED BY <2>4, <2>5 DEF Good
<1> QED BY <1>1, <1>2

LEMMA ReadKeyStep ==
  ASSUME WorldOK, Good, ReadKey
  PROVE  Good'
<1> DEFINE s == First(r.todo)
           new == [app |-> s.app, url |-> s.url, key |-> key[setup.keyOf[s.app]]]
<1>1. UNCHANGED <<hub, setup, entries, ready>> /\ r.pc = "keys" /\ r \in Runs
  BY DEF ReadKey, world, Good, HubOK
<1>2. s \in r.todo /\ s \in Listed
  <2>1. r.todo # {} /\ r.todo \in SUBSET Listed
    BY <1>1 DEF ReadKey, Runs
  <2>2. \A t \in r.todo : t.app \in Apps
    BY <2>1 DEF Listed
  <2> HIDE DEF s
  <2>3. First(r.todo) \in r.todo
    BY <2>1, <2>2, FirstIn
  <2> QED BY <2>1, <2>3 DEF s
<1> HIDE DEF s
<1>3. \/ r' = [r EXCEPT !.todo = @ \ {s}]
      \/ /\ r' = [r EXCEPT !.todo = @ \ {s}, !.found = @ \cup {new}]
         /\ Takes(hub.kind, setup.kindOf[s.app])
  BY <1>1 DEF ReadKey, s, Runs
<1>4. new \in Found /\ new.app = s.app
  BY <1>2, SetupTyped DEF WorldOK, Found, Listed, Names, Named, Secrets
<1> HIDE DEF new
<1>5. /\ r' \in Runs /\ r'.pc = "keys" /\ r'.todo = r.todo \ {s}
      /\ r'.batch = r.batch /\ r'.seen = r.seen /\ r'.kinds = r.kinds /\ r'.failed = r.failed
      /\ \/ r'.found = r.found
         \/ r'.found = r.found \cup {new} /\ Takes(hub.kind, setup.kindOf[s.app])
  <2>1. CASE r' = [r EXCEPT !.todo = @ \ {s}]
    BY <1>1, <2>1 DEF Runs, Steps
  <2>2. CASE /\ r' = [r EXCEPT !.todo = @ \ {s}, !.found = @ \cup {new}]
             /\ Takes(hub.kind, setup.kindOf[s.app])
    BY <1>1, <1>4, <2>2 DEF Runs, Steps
  <2> QED BY <1>3, <2>1, <2>2
<1>6. HubOK'
  BY <1>1, <1>5 DEF Good, HubOK, EntriesOK, Distinct, SameApp, Runs
<1>7. ReadInv'
  BY <1>1, <1>2, <1>4, <1>5 DEF Good, SyncInv, ReadInv, OnePerApp, Takes
<1>8. ListInv' /\ BatchInv' /\ RegisterInv'
  BY <1>1, <1>5 DEF Good, SyncInv, ReadInv, ListInv, BatchInv, RegisterInv, Pending
<1> QED BY <1>6, <1>7, <1>8 DEF Good, SyncInv

LEMMA KeysReadStep ==
  ASSUME WorldOK, Good, KeysRead
  PROVE  Good'
<1>1. UNCHANGED <<hub, setup, entries, ready>> /\ r.pc = "keys" /\ r \in Runs /\ r.todo = {}
  BY DEF KeysRead, world, Good, HubOK
<1>2. r.seen = {} /\ r.batch = {} /\ r.kinds = Many /\ ~r.failed
  BY <1>1 DEF Good, SyncInv, ReadInv
<1>3. CASE hub.kind = "Bazarr"
  <2>1. r' = [r EXCEPT !.pc = "push", !.kinds = {}, !.batch = r.found, !.seen = entries]
    BY <1>3 DEF KeysRead
  <2>2. /\ r' \in Runs /\ r'.pc = "push" /\ r'.todo = {} /\ r'.found = r.found
        /\ r'.batch = r.found /\ r'.seen = entries /\ r'.kinds = {} /\ r'.failed = r.failed
    BY <1>1, <2>1 DEF Runs, Steps, Good, HubOK, EntriesOK
  <2>3. ReadInv'
    BY <1>1, <2>2 DEF Good, SyncInv, ReadInv, OnePerApp, Takes
  <2>4. ListInv' /\ BatchInv' /\ RegisterInv'
    BY <1>1, <1>3, <2>2
    DEF ListInv, BatchInv, RegisterInv, Pending, Alternates, Single, OneSlot
  <2> QED BY <1>1, <2>2, <2>3, <2>4 DEF Good, SyncInv, HubOK, EntriesOK, Distinct, SameApp, Runs
<1>4. CASE hub.kind # "Bazarr"
  <2>1. r' = [r EXCEPT !.pc = "list"]
    BY <1>4 DEF KeysRead
  <2>2. /\ r' \in Runs /\ r'.pc = "list" /\ r'.todo = {} /\ r'.found = r.found
        /\ r'.batch = {} /\ r'.seen = {} /\ r'.kinds = Many /\ r'.failed = r.failed
    BY <1>1, <1>2, <2>1 DEF Runs, Steps
  <2>3. ReadInv' /\ BatchInv'
    BY <1>1, <2>2 DEF Good, SyncInv, ReadInv, OnePerApp, Takes, BatchInv
  <2>4. ListInv'
    BY <1>1, <2>2 DEF ListInv, OfKind
  <2>5. RegisterInv'
    BY <1>1, <2>2
    DEF Good, SyncInv, ReadInv, RegisterInv, Pending, Alternates, Takes
  <2> QED BY <1>1, <2>2, <2>3, <2>4, <2>5
      DEF Good, SyncInv, HubOK, EntriesOK, Distinct, SameApp, Runs
<1> QED BY <1>3, <1>4

LEMMA ListStep ==
  ASSUME WorldOK, Good, List
  PROVE  Good'
<1> DEFINE ks == ListCall(r.kinds)
<1>1. UNCHANGED <<hub, setup, entries>> /\ r.pc = "list" /\ r \in Runs /\ r.kinds # {}
  BY DEF List, world, Good, HubOK
<1>2. r.todo = {} /\ r.batch = {} /\ r.kinds \subseteq Many
  <2>1. r.kinds \subseteq Many
    BY <1>1 DEF Runs
  <2>2. r.todo = {} /\ r.batch = {}
    BY <1>1 DEF Good, SyncInv, ReadInv
  <2> QED BY <2>1, <2>2
<1>3. ks \subseteq r.kinds /\ ks # {}
  BY <1>1 DEF ListCall
<1> HIDE DEF ks
<1>4. CASE GivesUp
  BY <1>1, <1>4, GivenUp DEF GivesUp, Good
<1>5. CASE /\ Alternates /\ ready' = ready
           /\ r' = [r EXCEPT !.kinds = @ \ ks, !.failed = TRUE]
  <2>1. /\ r' \in Runs /\ r'.pc = "list" /\ r'.todo = {} /\ r'.found = r.found
        /\ r'.batch = {} /\ r'.seen = r.seen /\ r'.kinds = r.kinds \ ks /\ r'.failed = TRUE
    BY <1>1, <1>2, <1>5 DEF Runs, Steps
  <2>2. ReadInv' /\ BatchInv' /\ RegisterInv'
    BY <1>1, <2>1 DEF Good, SyncInv, ReadInv, OnePerApp, Takes, BatchInv, RegisterInv
  <2>3. ListInv'
    BY <1>1, <1>5, <2>1 DEF Good, SyncInv, ListInv, OfKind, Alternates
  <2> QED BY <1>1, <1>5, <2>1, <2>2, <2>3
      DEF Good, SyncInv, HubOK, EntriesOK, Distinct, SameApp, Runs
<1>6. CASE /\ Alternates /\ ready' = ready
           /\ r' = [r EXCEPT !.kinds = @ \ ks, !.seen = @ \cup OfKind(entries, ks),
                            !.pc = "push", !.batch = OfKind(r.found, ks)]
  <2>1. OfKind(entries, ks) \subseteq entries /\ OfKind(r.found, ks) \subseteq r.found
    BY DEF OfKind
  <2>2. /\ r' \in Runs /\ r'.pc = "push" /\ r'.todo = {} /\ r'.found = r.found
        /\ r'.batch = OfKind(r.found, ks) /\ r'.seen = r.seen \cup OfKind(entries, ks)
        /\ r'.kinds = r.kinds \ ks /\ r'.failed = r.failed
    BY <1>1, <1>2, <1>6, <2>1 DEF Runs, Steps, Good, HubOK, EntriesOK
  <2>3. ReadInv'
    BY <1>1, <2>1, <2>2 DEF Good, SyncInv, ReadInv, OnePerApp, Takes
  <2>4. ListInv'
    BY <1>1, <1>6, <2>2 DEF Good, SyncInv, ListInv, OfKind, Alternates
  <2>5. BatchInv'
    <3> SUFFICES ASSUME NEW f \in r'.batch PROVE Mine(entries, f)' = Mine(r.seen, f)'
      BY DEF BatchInv
    <3>1. setup.kindOf[f.app] \in ks
      BY <2>2 DEF OfKind
    <3>2. \A e \in r.seen : e.app # f.app
      BY <1>1, <1>3, <1>6, <3>1 DEF Good, SyncInv, ListInv, OfKind
    <3>3. \A e \in entries : e.app = f.app => e \in OfKind(entries, ks)
      BY <3>1 DEF OfKind
    <3> QED BY <1>1, <2>1, <2>2, <3>2, <3>3 DEF Mine
  <2>6. RegisterInv'
    <3> SUFFICES ASSUME hub.kind \notin ByUrl, ~r.failed, NEW f \in r.found
                 PROVE  Registered(f)' \/ Pending(f)'
      BY <1>1, <2>2 DEF RegisterInv
    <3>1. Registered(f) \/ Pending(f)
      BY DEF Good, RegisterInv
    <3>2. CASE Registered(f)
      BY <1>1, <2>2, <3>2 DEF Registered, Single, OneSlot, OfKind, Holds
    <3>3. CASE Pending(f)
      <4>1. setup.kindOf[f.app] \in r.kinds
        BY <1>1, <1>6, <3>3 DEF Pending
      <4> QED BY <1>1, <1>6, <2>2, <4>1 DEF Pending, OfKind, Alternates
    <3> QED BY <3>1, <3>2, <3>3
  <2> QED BY <1>1, <1>6, <2>2, <2>3, <2>4, <2>5, <2>6
      DEF Good, SyncInv, HubOK, EntriesOK, Distinct, SameApp, Runs
<1>7. CASE /\ ~Alternates /\ ready' = ready
           /\ r' = [r EXCEPT !.kinds = @ \ ks, !.seen = @ \cup OfKind(entries, ks),
                            !.pc = "list", !.batch = {}]
  <2>1. OfKind(entries, ks) \subseteq entries
    BY DEF OfKind
  <2>2. /\ r' \in Runs /\ r'.pc = "list" /\ r'.todo = {} /\ r'.found = r.found
        /\ r'.batch = {} /\ r'.seen = r.seen \cup OfKind(entries, ks)
        /\ r'.kinds = r.kinds \ ks /\ r'.failed = r.failed
    BY <1>1, <1>2, <1>7, <2>1 DEF Runs, Steps, Good, HubOK, EntriesOK
  <2>3. ReadInv' /\ BatchInv'
    BY <1>1, <2>1, <2>2 DEF Good, SyncInv, ReadInv, OnePerApp, Takes, BatchInv
  <2>4. ListInv'
    BY <1>1, <1>2, <1>3, <1>7, <2>2 DEF Good, SyncInv, ListInv, OfKind, Alternates
  <2>5. RegisterInv'
    BY <1>1, <1>7, <2>2 DEF RegisterInv, Pending, Alternates
  <2> QED BY <1>1, <1>7, <2>2, <2>3, <2>4, <2>5
      DEF Good, SyncInv, HubOK, EntriesOK, Distinct, SameApp, Runs
<1> QED BY <1>4, <1>5, <1>6, <1>7 DEF List, ListFailed, ks

LEMMA AllListedStep ==
  ASSUME WorldOK, Good, AllListed
  PROVE  Good'
<1>1. /\ UNCHANGED <<hub, setup, entries, ready>>
      /\ r.pc = "list" /\ r \in Runs /\ r.kinds = {} /\ r.todo = {}
  BY DEF AllListed, world, Good, HubOK, SyncInv, ReadInv
<1>2. CASE Alternates
  <2>1. r' = [r EXCEPT !.pc = "remove", !.batch = {}]
    BY <1>2 DEF AllListed
  <2>2. /\ r' \in Runs /\ r'.pc = "remove" /\ r'.todo = {} /\ r'.found = r.found
        /\ r'.batch = {} /\ r'.seen = r.seen /\ r'.kinds = {} /\ r'.failed = r.failed
    BY <1>1, <2>1 DEF Runs, Steps
  <2>3. ReadInv' /\ BatchInv' /\ ListInv'
    BY <1>1, <2>2 DEF Good, SyncInv, ReadInv, OnePerApp, Takes, BatchInv, ListInv
  <2>4. RegisterInv'
    BY <1>1, <1>2, <2>2
    DEF Good, RegisterInv, Pending, Registered, Single, OneSlot, OfKind, Holds
  <2> QED BY <1>1, <2>2, <2>3, <2>4 DEF Good, SyncInv, HubOK, EntriesOK, Distinct, SameApp, Runs
<1>3. CASE ~Alternates
  <2>1. r' = [r EXCEPT !.pc = "push", !.batch = r.found]
    BY <1>3 DEF AllListed
  <2>2. /\ r' \in Runs /\ r'.pc = "push" /\ r'.todo = {} /\ r'.found = r.found
        /\ r'.batch = r.found /\ r'.seen = r.seen /\ r'.kinds = {} /\ r'.failed = r.failed
    BY <1>1, <2>1 DEF Runs, Steps
  <2>3. ReadInv' /\ ListInv' /\ RegisterInv'
    BY <1>1, <1>3, <2>2
    DEF Good, SyncInv, ReadInv, OnePerApp, Takes, ListInv, Alternates, RegisterInv, Pending
  <2>4. BatchInv'
    <3> SUFFICES ASSUME NEW f \in r.found, ~Single(f)
                 PROVE  Mine(entries, f) = Mine(r.seen, f)
      BY <1>1, <2>2 DEF BatchInv, Single, OneSlot, Mine
    <3>1. r.seen = OfKind(entries, Many)
      BY <1>1, <1>3 DEF Good, SyncInv, ListInv
    <3>2. setup.kindOf[f.app] \in Many
      BY DEF Single, OneSlot
    <3> QED BY <3>1, <3>2 DEF Mine, OfKind
  <2> QED BY <1>1, <2>2, <2>3, <2>4 DEF Good, SyncInv, HubOK, EntriesOK, Distinct, SameApp, Runs
<1> QED BY <1>2, <1>3

\* What the hub holds, and f, when f is pushed: the entries stay distinct, and what
\* concerns the other apps of the batch stays as it was listed.
LEMMA PushedOK ==
  ASSUME WorldOK, Good, NEW f \in r.batch
  PROVE  /\ EntriesOK(Pushed(f))
         /\ \A g \in r.found : g # f /\ ~Single(g) => Mine(Pushed(f), g) = Mine(entries, g)
<1> DEFINE k == setup.kindOf[f.app]
<1>1. /\ f \in Found /\ f \in r.found /\ entries \in SUBSET Entry /\ IsFiniteSet(entries)
      /\ Distinct(entries)
  BY DEF Good, HubOK, EntriesOK, SyncInv, ReadInv, Runs
<1>2. \A g \in r.found : g # f => g.app # f.app
  BY <1>1 DEF Good, SyncInv, ReadInv, OnePerApp
<1>3. Fresh \in Nat /\ \A e \in entries : e.id # Fresh
  BY <1>1, FreshId
<1>4. CASE Single(f)
  <2> DEFINE i == IF Slot(k) = {} THEN Fresh ELSE (CHOOSE e \in Slot(k) : TRUE).id
             n == [id |-> i, app |-> f.app, url |-> f.url, key |-> f.key]
  <2>1. Pushed(f) = (entries \ Slot(k)) \cup {n}
    BY <1>4 DEF Pushed, Single
  <2>2. i \in Nat /\ \A e \in entries \ Slot(k) : e.id # i
    <3>1. CASE Slot(k) = {}
      BY <1>3, <3>1
    <3>2. CASE Slot(k) # {}
      <4>1. PICK d \in Slot(k) : i = d.id
        BY <3>2
      <4>2. d \in entries
        BY DEF Slot, OfKind
      <4> HIDE DEF i
      <4> QED BY <1>1, <4>1, <4>2 DEF Distinct, Entry
    <3> QED BY <3>1, <3>2
  <2> HIDE DEF i
  <2>3. n \in Entry
    BY <1>1, <2>2 DEF Entry, Found
  <2>4. n.id = i /\ n.app = f.app
    OBVIOUS
  <2> HIDE DEF n
  <2>5. \A e \in entries \ Slot(k) : e.app # f.app
    BY DEF Slot, OfKind
  <2>6. IsFiniteSet(Pushed(f))
    <3>1. IsFiniteSet(entries \ Slot(k))
      BY <1>1, FS_Difference
    <3> QED BY <2>1, <3>1, FS_AddElement
  <2>7. Distinct(Pushed(f))
    BY <1>1, <2>1, <2>2, <2>4, <2>5 DEF Distinct, SameApp
  <2>8. ASSUME NEW g \in r.found, g # f, ~Single(g)
        PROVE  Mine(Pushed(f), g) = Mine(entries, g)
    <3>1. setup.kindOf[g.app] # k
      BY <1>4, <2>8 DEF Single
    <3>2. \A e \in Slot(k) : e.app # g.app
      BY <3>1 DEF Slot, OfKind
    <3> QED BY <1>2, <2>1, <2>4, <2>8, <3>2 DEF Mine
  <2> QED BY <1>1, <2>1, <2>3, <2>6, <2>7, <2>8 DEF EntriesOK
<1>5. CASE ~Single(f) /\ Mine(r.seen, f) = {}
  <2> DEFINE n == [id |-> Fresh, app |-> f.app, url |-> f.url, key |-> f.key]
  <2>1. Pushed(f) = entries \cup {n}
    BY <1>5 DEF Pushed, Single, KnownAs, Mine, Added
  <2>2. n \in Entry /\ n.id = Fresh /\ n.app = f.app /\ n.url = f.url
    BY <1>1, <1>3 DEF Entry, Found
  <2> HIDE DEF n
  <2>3. \A e \in entries : ~SameApp(e, n) /\ ~SameApp(n, e)
    BY <1>5, <2>2 DEF Good, SyncInv, BatchInv, Mine, SameApp
  <2>4. IsFiniteSet(Pushed(f))
    BY <1>1, <2>1, FS_AddElement
  <2>5. Distinct(Pushed(f))
    BY <1>1, <1>3, <2>1, <2>2, <2>3 DEF Distinct
  <2>6. \A g \in r.found : g # f => Mine(Pushed(f), g) = Mine(entries, g)
    BY <1>2, <2>1, <2>2 DEF Mine
  <2> QED BY <1>1, <2>1, <2>2, <2>4, <2>5, <2>6 DEF EntriesOK
<1>6. CASE ~Single(f) /\ Mine(r.seen, f) # {} /\ hub.kind # "Seerr"
  <2>1. Pushed(f) = entries
    BY <1>6 DEF Pushed, Single, KnownAs, Mine
  <2> QED BY <1>1, <2>1 DEF EntriesOK
<1>7. CASE ~Single(f) /\ Mine(r.seen, f) # {} /\ hub.kind = "Seerr"
  <2>1. PICK d \in Mine(r.seen, f) : Pushed(f) = Replaced(d, f)
    BY <1>7 DEF Pushed, Single, KnownAs, Mine
  <2> DEFINE n == [id |-> d.id, app |-> f.app, url |-> f.url, key |-> f.key]
  <2>2. d \in entries /\ d.app = f.app /\ d.url = f.url
    BY <1>7 DEF Good, SyncInv, BatchInv, Mine, ByUrl
  <2>3. Pushed(f) = (entries \ {d}) \cup {n}
    BY <2>1 DEF Replaced
  <2>4. n \in Entry /\ n.id = d.id /\ n.app = f.app /\ n.url = f.url
    BY <1>1, <2>2 DEF Entry, Found
  <2> HIDE DEF n
  <2>5. \A e \in entries \ {d} : e.id # n.id /\ ~SameApp(e, n) /\ ~SameApp(n, e)
    BY <1>1, <2>2, <2>4 DEF Distinct, SameApp
  <2>6. IsFiniteSet(Pushed(f))
    <3>1. IsFiniteSet(entries \ {d})
      BY <1>1, FS_RemoveElement
    <3> QED BY <2>3, <3>1, FS_AddElement
  <2>7. Distinct(Pushed(f))
    BY <1>1, <2>3, <2>5 DEF Distinct
  <2>8. \A g \in r.found : g # f => Mine(Pushed(f), g) = Mine(entries, g)
    BY <1>2, <2>2, <2>3, <2>4 DEF Mine
  <2> QED BY <1>1, <2>3, <2>4, <2>6, <2>7, <2>8 DEF EntriesOK
<1> QED BY <1>4, <1>5, <1>6, <1>7

\* Once f is pushed it is registered, and so is what was.
LEMMA PushedHolds ==
  ASSUME WorldOK, Good, NEW f \in r.batch, hub.kind \notin ByUrl
  PROVE  /\ Single(f) => \E e \in Pushed(f) : e.app = f.app /\ e.url = f.url /\ e.key = f.key
         /\ ~Single(f) => \E e \in Pushed(f) : e.app = f.app
         /\ \A e \in entries : \/ Single(f) /\ setup.kindOf[e.app] = setup.kindOf[f.app]
                              \/ e \in Pushed(f)
<1>1. CASE Single(f)
  <2> DEFINE k == setup.kindOf[f.app]
             i == IF Slot(k) = {} THEN Fresh ELSE (CHOOSE e \in Slot(k) : TRUE).id
             n == [id |-> i, app |-> f.app, url |-> f.url, key |-> f.key]
  <2>1. Pushed(f) = (entries \ Slot(k)) \cup {n}
    BY <1>1 DEF Pushed, Single
  <2> HIDE DEF i
  <2>0. n.app = f.app /\ n.url = f.url /\ n.key = f.key
    OBVIOUS
  <2> HIDE DEF n
  <2>2. \A e \in entries : setup.kindOf[e.app] = setup.kindOf[f.app] \/ e \in Pushed(f)
    BY <2>1 DEF Slot, OfKind
  <2> QED BY <1>1, <2>0, <2>1, <2>2
<1>2. CASE ~Single(f) /\ Mine(r.seen, f) = {}
  <2> DEFINE n == [id |-> Fresh, app |-> f.app, url |-> f.url, key |-> f.key]
  <2>0. Pushed(f) = entries \cup {n}
    BY <1>2 DEF Pushed, Single, KnownAs, Mine, Added
  <2>1. n.app = f.app
    OBVIOUS
  <2> HIDE DEF n
  <2> QED BY <1>2, <2>0, <2>1
<1>3. CASE ~Single(f) /\ Mine(r.seen, f) # {}
  <2>1. Pushed(f) = entries
    BY <1>3 DEF Pushed, Single, KnownAs, Mine, ByUrl
  <2>2. Mine(entries, f) # {}
    BY <1>3 DEF Good, SyncInv, BatchInv
  <2> QED BY <1>3, <2>1, <2>2 DEF Mine
<1> QED BY <1>1, <1>2, <1>3

\* What was registered, or waited for its turn, is or does so after f is pushed.
LEMMA PushRegisters ==
  ASSUME WorldOK, Good, r.pc = "push", NEW f \in r.batch, hub.kind \notin ByUrl, ~r.failed,
         UNCHANGED <<hub, setup>>, entries' = Pushed(f), r'.pc = "push", r'.found = r.found,
         r'.batch = r.batch \ ({f} \cup Skipped(f, r.batch)), r'.kinds = r.kinds,
         NEW g \in r.found
  PROVE  Registered(g)' \/ Pending(g)'
<1>1. f \in r.found /\ \A h \in r.found : h.app = f.app => h = f
  BY DEF Good, SyncInv, ReadInv, OnePerApp
<1>2. (Single(g)' <=> Single(g)) /\ (Alternates' <=> Alternates)
  BY DEF Single, OneSlot, Alternates
<1>3. CASE setup.kindOf[g.app] = setup.kindOf[f.app] /\ Single(f)
  <2>1. f \in OfKind(r.found, {setup.kindOf[g.app]}) /\ Single(g)
    BY <1>1, <1>3 DEF OfKind, Single
  <2>2. Holds(f)'
    BY <1>3, PushedHolds DEF Holds
  <2> QED BY <1>2, <2>1, <2>2 DEF Registered, OfKind
<1>4. CASE setup.kindOf[g.app] # setup.kindOf[f.app] \/ ~Single(f)
  <2>1. CASE g = f
    BY <1>2, <1>4, <2>1, PushedHolds DEF Registered
  <2>2. CASE g # f /\ Registered(g) /\ Single(g)
    <3>1. setup.kindOf[g.app] # setup.kindOf[f.app]
      BY <1>4, <2>2 DEF Single
    <3>2. PICK h \in OfKind(r.found, {setup.kindOf[g.app]}) : Holds(h)
      BY <2>2 DEF Registered
    <3>3. PICK e \in entries : e.app = h.app /\ e.url = h.url /\ e.key = h.key
      BY <3>2 DEF Holds
    <3>4. e \in Pushed(f)
      BY <3>1, <3>2, <3>3, PushedHolds DEF OfKind
    <3> QED BY <1>2, <2>2, <3>2, <3>3, <3>4 DEF Registered, OfKind, Holds
  <2>3. CASE g # f /\ Registered(g) /\ ~Single(g)
    <3>1. PICK e \in entries : e.app = g.app
      BY <2>3 DEF Registered
    <3>2. e \in Pushed(f)
      BY <1>4, <3>1, PushedHolds
    <3> QED BY <1>2, <2>3, <3>1, <3>2 DEF Registered
  <2>4. CASE g # f /\ Pending(g)
    <3>1. \A h \in Skipped(f, r.batch) : setup.kindOf[h.app] = setup.kindOf[f.app] /\ Single(h)
      BY DEF Skipped, OfKind, Single
    <3>2. g \notin Skipped(f, r.batch)
      BY <1>4, <3>1 DEF Single
    <3> QED BY <1>2, <2>4, <3>2 DEF Pending
  <2>5. Registered(g) \/ Pending(g)
    BY DEF Good, RegisterInv
  <2> QED BY <2>1, <2>2, <2>3, <2>4, <2>5
<1> QED BY <1>3, <1>4

LEMMA PushStep ==
  ASSUME WorldOK, Good, Push
  PROVE  Good'
<1> DEFINE f == First(r.batch)
           rest == r.batch \ ({f} \cup Skipped(f, r.batch))
<1>1. UNCHANGED <<hub, setup, ready>> /\ r.pc = "push" /\ r \in Runs /\ r.todo = {}
  BY DEF Push, world, Good, HubOK, SyncInv, ReadInv
<1>2. f \in r.batch
  <2>1. r.batch # {} /\ \A g \in r.batch : g.app \in Apps
    BY <1>1 DEF Push, Runs, Found
  <2> QED BY <2>1, FirstIn
<1> HIDE DEF f
<1>3. \/ entries' = Pushed(f) /\ r' = [r EXCEPT !.batch = rest]
      \/ entries' \in {entries, Pushed(f)} /\ r' = CallFailed(f)
  BY <1>1 DEF Push, f, Runs
<1>4. rest \subseteq r.batch \ {f}
  OBVIOUS
<1> HIDE DEF rest
<1>5. /\ r' \in Runs /\ r'.pc = "push" /\ r'.todo = {} /\ r'.found = r.found
      /\ r'.seen = r.seen /\ r'.kinds = r.kinds
      /\ r'.batch \subseteq r.batch \ {f}
      /\ \/ r'.batch = rest /\ r'.failed = r.failed /\ entries' = Pushed(f)
         \/ r'.failed = (r.failed \/ hub.kind \notin ByUrl)
  <2>1. CASE entries' = Pushed(f) /\ r' = [r EXCEPT !.batch = rest]
    BY <1>1, <1>4, <2>1 DEF Runs, Steps
  <2>2. CASE r' = CallFailed(f)
    BY <1>1, <2>2 DEF Runs, Steps, CallFailed
  <2> QED BY <1>3, <2>1, <2>2
<1>6. HubOK'
  <2>1. EntriesOK(entries) /\ EntriesOK(Pushed(f)) /\ entries' \in {entries, Pushed(f)}
    BY <1>2, <1>3, PushedOK DEF Good, HubOK
  <2>2. EntriesOK(entries')
    BY <2>1
  <2>3. EntriesOK(entries)'
    BY <1>1, <2>2 DEF EntriesOK, Distinct, SameApp
  <2> QED BY <1>1, <1>5, <2>3 DEF Good, HubOK
<1>7. ReadInv'
  BY <1>1, <1>5 DEF Good, SyncInv, ReadInv, OnePerApp, Takes
<1>8. ListInv'
  BY <1>1, <1>5 DEF Good, SyncInv, ListInv, OfKind, Alternates
<1>9. BatchInv'
  <2> SUFFICES ASSUME NEW g \in r'.batch, ~Single(g) PROVE Mine(entries, g)' = Mine(r.seen, g)'
    BY <1>1 DEF BatchInv, Single, OneSlot
  <2>1. g \in r.batch /\ g \in r.found /\ g # f
    BY <1>5 DEF Good, SyncInv, ReadInv
  <2>2. Mine(Pushed(f), g) = Mine(entries, g) /\ Mine(entries, g) = Mine(r.seen, g)
    BY <1>2, <2>1, PushedOK DEF Good, SyncInv, BatchInv
  <2>3. entries' \in {entries, Pushed(f)}
    BY <1>3
  <2> QED BY <1>1, <1>5, <2>2, <2>3 DEF Mine
<1>10. RegisterInv'
  <2> SUFFICES ASSUME hub.kind \notin ByUrl, ~r'.failed, NEW g \in r.found
               PROVE  Registered(g)' \/ Pending(g)'
    BY <1>1, <1>5 DEF RegisterInv
  <2>1. r'.batch = rest /\ ~r.failed /\ entries' = Pushed(f)
    BY <1>5
  <2> QED BY <1>1, <1>2, <1>5, <2>1, PushRegisters DEF rest
<1> QED BY <1>6, <1>7, <1>8, <1>9, <1>10 DEF Good, SyncInv

LEMMA AllPushedStep ==
  ASSUME WorldOK, Good, AllPushed
  PROVE  Good'
<1>1. /\ UNCHANGED <<hub, setup, entries, ready>>
      /\ r.pc = "push" /\ r \in Runs /\ r.batch = {} /\ r.todo = {}
  BY DEF AllPushed, world, Good, HubOK, SyncInv, ReadInv
<1>2. /\ r' \in Runs /\ r'.pc = (IF r.kinds = {} THEN "remove" ELSE "list") /\ r'.todo = {}
      /\ r'.found = r.found /\ r'.batch = {} /\ r'.seen = r.seen /\ r'.kinds = r.kinds
      /\ r'.failed = r.failed
  BY <1>1 DEF AllPushed, Runs, Steps
<1>3. ReadInv' /\ BatchInv'
  BY <1>1, <1>2 DEF Good, SyncInv, ReadInv, OnePerApp, Takes, BatchInv
<1>4. ListInv'
  BY <1>1, <1>2 DEF Good, SyncInv, ListInv, OfKind, Alternates
<1>5. RegisterInv'
  BY <1>1, <1>2
  DEF Good, RegisterInv, Pending, Registered, Single, OneSlot, OfKind, Holds, Alternates
<1> QED BY <1>1, <1>2, <1>3, <1>4, <1>5
    DEF Good, SyncInv, HubOK, EntriesOK, Distinct, SameApp, Runs

LEMMA RemoveEntryStep ==
  ASSUME WorldOK, Good, Remove
  PROVE  Good'
<1>1. /\ UNCHANGED <<hub, setup, ready>>
      /\ r.pc = "remove" /\ r \in Runs /\ r.todo = {} /\ r.batch = {}
  BY DEF Remove, world, Good, HubOK, SyncInv, ReadInv
<1>2. PICK e \in Stale :
        /\ entries' \in {entries, entries \ {e}}
        /\ \/ r' = [r EXCEPT !.seen = @ \ {e}]
           \/ r' = [r EXCEPT !.seen = @ \ {e}, !.failed = @ \/ hub.kind \notin ByUrl]
  BY DEF Remove
<1>3. /\ r' \in Runs /\ r'.pc = "remove" /\ r'.todo = {} /\ r'.found = r.found
      /\ r'.batch = {} /\ r'.seen \subseteq r.seen /\ r'.kinds = r.kinds
      /\ r'.failed = r.failed \/ r'.failed = (r.failed \/ hub.kind \notin ByUrl)
  <2>1. CASE r' = [r EXCEPT !.seen = @ \ {e}]
    BY <1>1, <2>1 DEF Runs, Steps
  <2>2. CASE r' = [r EXCEPT !.seen = @ \ {e}, !.failed = @ \/ hub.kind \notin ByUrl]
    BY <1>1, <2>2 DEF Runs, Steps
  <2> QED BY <1>2, <2>1, <2>2
<1>4. HubOK'
  <2>1. entries' \subseteq entries
    BY <1>2
  <2>2. IsFiniteSet(entries')
    BY <2>1, FS_Subset DEF Good, HubOK, EntriesOK
  <2> QED BY <1>1, <1>3, <2>1, <2>2 DEF Good, HubOK, EntriesOK, Distinct, SameApp
<1>5. SyncInv'
  BY <1>1, <1>3 DEF Good, SyncInv, ReadInv, ListInv, BatchInv, OnePerApp, Takes
<1>6. RegisterInv'
  <2> SUFFICES ASSUME hub.kind \notin ByUrl, ~r'.failed, NEW f \in r.found
               PROVE  Registered(f)'
    BY <1>1, <1>3 DEF RegisterInv
  <2>1. hub.kind = "Bazarr" /\ OfKind(r.found, {setup.kindOf[e.app]}) = {}
    BY <1>2, SetupTyped DEF Stale, ByUrl, ByName, HubKinds
  <2>2. PICK g \in OfKind(r.found, {setup.kindOf[f.app]}) : Holds(g)
    <3>1. ~r.failed
      BY <1>3
    <3>2. Registered(f)
      BY <1>1, <3>1 DEF Good, RegisterInv, Pending
    <3> QED BY <2>1, <3>2 DEF Registered, Single, OneSlot
  <2>3. PICK d \in entries : d.app = g.app /\ d.url = g.url /\ d.key = g.key
    BY <2>2 DEF Holds
  <2>4. d # e
    BY <2>1, <2>2, <2>3 DEF OfKind
  <2>5. d \in entries'
    BY <1>2, <2>3, <2>4
  <2> QED BY <1>1, <1>3, <2>1, <2>2, <2>3, <2>5 DEF Registered, Single, OneSlot, OfKind, Holds
<1> QED BY <1>4, <1>5, <1>6 DEF Good

LEMMA AllRemovedStep ==
  ASSUME WorldOK, Good, AllRemoved
  PROVE  Good'
<1>1. /\ UNCHANGED <<hub, setup, entries, ready>>
      /\ r.pc = "remove" /\ r \in Runs /\ r.batch = {} /\ r.todo = {}
  BY DEF AllRemoved, world, Good, HubOK, SyncInv, ReadInv
<1>2. /\ r' \in Runs /\ r'.pc = "finish" /\ r'.todo = {}
      /\ r'.found = r.found /\ r'.batch = {} /\ r'.seen = r.seen /\ r'.kinds = r.kinds
      /\ r'.failed = r.failed
  BY <1>1 DEF AllRemoved, Runs, Steps
<1>3. SyncInv'
  BY <1>1, <1>2 DEF Good, SyncInv, ReadInv, ListInv, OnePerApp, Takes, BatchInv
<1>4. RegisterInv'
  BY <1>1, <1>2
  DEF Good, RegisterInv, Pending, Registered, Single, OneSlot, OfKind, Holds
<1> QED BY <1>1, <1>2, <1>3, <1>4 DEF Good, HubOK, EntriesOK, Distinct, SameApp, Runs

LEMMA FinishStep ==
  ASSUME Good, Finish
  PROVE  Good'
BY GivenUp DEF Finish, Good, world

LEMMA SyncGood ==
  ASSUME WorldOK, Good, Sync
  PROVE  Good'
BY BeginStep, ReadKeyStep, KeysReadStep, ListStep, AllListedStep, PushStep, AllPushedStep,
   RemoveEntryStep, AllRemovedStep, FinishStep DEF Sync

\* Whoever moves, the invariant stays.
LEMMA NextKeepsInv ==
  ASSUME CrossInv, [Next]_vars
  PROVE  CrossInv'
<1>1. CASE Sync
  BY <1>1, SyncGood, SyncWorld DEF CrossInv
<1>2. ASSUME WorldOK', UNCHANGED <<hub, setup, entries, r, ready>>, faults' \in 0 .. MaxFaults
      PROVE  CrossInv'
  BY <1>2, SyncUnmoved, HubUnmoved DEF CrossInv, Good
<1>3. CASE \E m \in Names : Ensure(m) \/ CreateFails(m)
  <2>1. PICK m \in Names : Ensure(m) \/ CreateFails(m)
    BY <1>3
  <2>2. faults' \in 0 .. MaxFaults
    BY <2>1, BoundsAssumption DEF CrossInv, Ensure, LookUp, Create, CreateFails
  <2> QED BY <1>2, <2>1, <2>2, EnsureWorld DEF CrossInv
<1>4. CASE Users
  <2>1. faults' = faults
    BY <1>4 DEF Users, RemoveSecret, StoreSecret, DeleteApp, CreateApp, MoveApp
  <2> QED BY <1>2, <1>4, <2>1, UsersWorld DEF CrossInv
<1>5. CASE UNCHANGED vars
  <2>1. WorldOK'
    BY <1>5 DEF CrossInv, WorldOK, vars, world, secrets
  <2> QED BY <1>2, <1>5, <2>1 DEF CrossInv, vars, world
<1> QED BY <1>1, <1>3, <1>4, <1>5 DEF Next

\* Types, and: however syncs, users and failures interleave, and whichever answers
\* are lost, a hub never holds two entries for one app.
THEOREM TypeCorrect == Spec => []TypeOK
<1>1. CrossInv => TypeOK
  BY DEF CrossInv, Good, WorldOK, HubOK, EntriesOK, Distinct, Runs, TypeOK
<1> QED BY <1>1, InitInv, NextKeepsInv, PTL DEF Spec

LEMMA ReadyStep ==
  ASSUME CrossInv, Next, ready' = "True", r.pc = "finish", r'.pc = "idle",
         hub.kind \notin ByUrl, NEW f \in r.found
  PROVE  Registered(f)
<1>1. ~r.failed
  <2>1. Finish
    <3>1. ~UNCHANGED r
      OBVIOUS
    <3>2. Sync
      BY <3>1 DEF Next, Ensure, LookUp, Create, CreateFails, Users, RemoveSecret, StoreSecret,
         DeleteApp, CreateApp, MoveApp
    <3> QED BY <3>2 DEF Sync, Begin, ReadKey, KeysRead, List, AllListed, Push, AllPushed,
         Remove, AllRemoved
  <2> QED BY <2>1 DEF Finish
<1> QED BY <1>1 DEF CrossInv, Good, RegisterInv, Pending

\* A hub that reports its sync as ready has every app whose key it read, whatever
\* failed on the way and whoever moved the apps or their keys meanwhile.
THEOREM ReadyMeansRegistered == Spec => ReadyIsRegistered
<1>1. CrossInv /\ [Next]_vars =>
        [ready' = "True" /\ r.pc = "finish" /\ r'.pc = "idle" /\ hub.kind \notin ByUrl
           => \A f \in r.found :
                IF OneSlot(hub.kind, setup.kindOf[f.app])
                THEN \E g \in OfKind(r.found, {setup.kindOf[f.app]}) : Holds(g)
                ELSE \E e \in entries : e.app = f.app]_vars
  BY ReadyStep DEF Registered, Single
<1> QED BY <1>1, InitInv, NextKeepsInv, PTL DEF Spec, ReadyIsRegistered
=============================================================================
