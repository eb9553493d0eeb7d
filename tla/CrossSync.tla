----------------------------- MODULE CrossSync -----------------------------
(***************************************************************************)
(* A hub registers the apps of its namespace, each with the URL of its     *)
(* Service and the API key in its Secret.  Every app's own reconcile       *)
(* creates the Secret its spec names when it finds none, and nothing when  *)
(* the spec names none; apps of a split pair share one.  The hub's         *)
(* reconcile reads its own key, from the Secret it creates or from another *)
(* one, lists the apps, reads their keys one by one, lists what is         *)
(* registered and adds what is missing.  What it does about entries that   *)
(* are there already, or stale, differs by hub.                            *)
(***************************************************************************)
EXTENDS Naturals, FiniteSets

CONSTANTS Apps,      \* the apps of the namespace
          Rank,      \* the order in which they are listed
          Scenes,    \* the hubs to look at, and with each what the apps are and
                     \* which Secrets they name
          MaxEdits,  \* what users do to apps and Secrets
          MaxFaults  \* calls that fail, and answers that are lost

\* The kinds of which a hub may hold several, and those Maintainerr has a slot for.
Many == {"sonarr", "radarr"}
Kinds == Many \cup {"seerr", "tautulli"}
HubKinds == {"Prowlarr", "Seerr", "Bazarr", "Maintainerr", "Cleanuparr", "Houndarr"}

\* The apps a hub registers.
Takes(h, k) == k \in Many \/ h = "Maintainerr"

\* Hubs that know an entry by its URL, and hubs that know it by its name.
ByUrl == {"Prowlarr", "Seerr"}
ByName == {"Maintainerr", "Cleanuparr", "Houndarr"}

\* Settings that hold one app at a time.
OneSlot(h, k) == h = "Bazarr" \/ k \notin Many

Hub == "hub"
Names == Apps \cup {Hub}

\* The Secrets: <name>-api-key of each app and of the hub, and one of another name.
\* Unset stands for apiKeySecret that is not set; nothing ever stores a key there.
Other == "other"
Unset == "unset"
Named == Names \cup {Other}
Secrets == Named \cup {Unset}

ASSUME AppsAssumption ==
  /\ Apps \cap {Hub, Other, Unset} = {}
  /\ Rank \in [Apps -> Nat]
  /\ \A a, b \in Apps : Rank[a] = Rank[b] => a = b
ASSUME ScenesAssumption ==
  Scenes \subseteq [hub : [kind : HubKinds, auto : BOOLEAN, named : {Hub, Other, Unset}],
                    setup : [kindOf : [Apps -> Kinds], keyOf : [Apps -> Apps \cup {Unset}]]]
ASSUME BoundsAssumption == MaxEdits \in Nat /\ MaxFaults \in Nat

VARIABLES
  setup,   \* the kind of each app and the Secret it names
  hub,     \* the hub: its kind, autoRemove and apiKeySecret
  app,     \* the apps, and the URL of each one's Service
  key,     \* the key in each Secret; 0 when there is none
  owner,   \* who created it
  drawn,   \* how many keys each Secret was given so far
  make,    \* who found no Secret and is about to create one
  entries, \* what is registered in the hub
  r,       \* the hub's reconcile
  ready,   \* its SyncReady condition
  edits, faults

secrets == <<key, owner, drawn>>
world == <<setup, hub, app, secrets, make>>
vars == <<world, entries, r, ready, edits, faults>>

Keys == Nat
Urls == {1, 2}
Listed == [app : Apps, url : Urls]
Found == [app : Apps, url : Urls, key : Keys]
Entry == [id : Nat, app : Apps, url : Urls, key : Keys]
Steps == {"idle", "keys", "list", "push", "remove", "finish"}

\* Two entries for one app: the same name, or the same URL.
SameApp(e, f) ==
  /\ e.app = f.app
  /\ hub.kind \in ByUrl => e.url = f.url

\* Every variable has its type, and no app is registered twice.
TypeOK ==
  /\ [hub |-> hub, setup |-> setup] \in Scenes
  /\ app \in [Apps -> [there : BOOLEAN, url : Urls]]
  /\ key \in [Secrets -> Keys] /\ drawn \in [Secrets -> Nat]
  /\ owner \in [Secrets -> Names \cup {"user"}]
  /\ make \in [Names -> BOOLEAN]
  /\ entries \in SUBSET Entry
  /\ \A e, f \in entries : e.id = f.id \/ SameApp(e, f) => e = f
  /\ r \in [pc : Steps, todo : SUBSET Listed, found : SUBSET Found, kinds : SUBSET Many,
            batch : SUBSET Found, seen : SUBSET Entry, failed : BOOLEAN]
  /\ ready \in {"none", "True", "False"}
  /\ edits \in 0 .. MaxEdits /\ faults \in 0 .. MaxFaults

Idle == [pc |-> "idle", todo |-> {}, found |-> {}, kinds |-> {}, batch |-> {},
         seen |-> {}, failed |-> FALSE]

Init ==
  /\ \E s \in Scenes : hub = s.hub /\ setup = s.setup
  /\ app \in [Apps -> [there : BOOLEAN, url : {1}]]
  /\ key = [n \in Secrets |-> 0] /\ drawn = [n \in Secrets |-> 0]
  /\ owner = [n \in Secrets |-> "user"]
  /\ make = [n \in Names |-> FALSE]
  /\ entries = {} /\ r = Idle /\ ready = "none"
  /\ edits = 0 /\ faults = 0

-----------------------------------------------------------------------------
(* The Secrets.                                                            *)

\* The Secret that m's reconcile creates: Bazarr's has a name of its own, whatever
\* its spec names.
Name(m) ==
  IF m = Hub THEN IF hub.kind = "Bazarr" THEN Hub ELSE hub.named ELSE setup.keyOf[m]
Makes(m) == Name(m) # Unset /\ (m \in Apps => app[m].there)

LookUp(m) ==
  /\ Makes(m) /\ ~make[m]
  /\ key[Name(m)] = 0
  /\ make' = [make EXCEPT ![m] = TRUE]
  /\ UNCHANGED <<setup, hub, app, secrets, entries, r, ready, edits, faults>>

\* n gets a key drawn at random.
Draw(n, by) ==
  /\ drawn' = [drawn EXCEPT ![n] = @ + 1]
  /\ key' = [key EXCEPT ![n] = drawn[n] + 1]
  /\ owner' = [owner EXCEPT ![n] = by]

\* Mutant: the Secret is applied, and takes the place of one that came between.
CreateApplied(m) ==
  /\ make[m]
  /\ make' = [make EXCEPT ![m] = FALSE]
  /\ Draw(Name(m), m)
  /\ UNCHANGED <<setup, hub, app, entries, r, ready, edits, faults>>

\* A create of what somebody else created in between is refused.
Create(m) ==
  /\ make[m]
  /\ make' = [make EXCEPT ![m] = FALSE]
  /\ IF key[Name(m)] = 0 THEN Draw(Name(m), m) ELSE UNCHANGED secrets
  /\ UNCHANGED <<setup, hub, app, entries, r, ready, edits, faults>>

\* It fails, or the operator crashes before it.
CreateFails(m) ==
  /\ make[m] /\ faults < MaxFaults
  /\ faults' = faults + 1
  /\ make' = [make EXCEPT ![m] = FALSE]
  /\ UNCHANGED <<setup, hub, app, secrets, entries, r, ready, edits>>

Edit == edits < MaxEdits /\ edits' = edits + 1

\* A user removes a Secret, or stores a key of his own where there is none.
RemoveSecret(n) ==
  /\ Edit
  /\ key[n] # 0
  /\ key' = [key EXCEPT ![n] = 0]
  /\ UNCHANGED <<setup, hub, app, owner, drawn, make, entries, r, ready, faults>>

StoreSecret(n) ==
  /\ Edit
  /\ key[n] = 0
  /\ Draw(n, "user")
  /\ UNCHANGED <<setup, hub, app, make, entries, r, ready, faults>>

\* An app is deleted, and the Secrets it created with it; it comes back, or its
\* Service moves to another port.
DeleteApp(a) ==
  /\ Edit
  /\ app[a].there
  /\ app' = [app EXCEPT ![a].there = FALSE]
  /\ make' = [make EXCEPT ![a] = FALSE]
  /\ key' = [n \in Secrets |-> IF owner[n] = a THEN 0 ELSE key[n]]
  /\ UNCHANGED <<setup, hub, owner, drawn, entries, r, ready, faults>>

CreateApp(a) ==
  /\ Edit
  /\ ~app[a].there
  /\ app' = [app EXCEPT ![a].there = TRUE]
  /\ UNCHANGED <<setup, hub, secrets, make, entries, r, ready, faults>>

MoveApp(a) ==
  /\ Edit
  /\ app[a].there
  /\ app' = [app EXCEPT ![a].url = 3 - @]
  /\ UNCHANGED <<setup, hub, secrets, make, entries, r, ready, faults>>

-----------------------------------------------------------------------------
(* The hub's reconcile.                                                    *)

Fault == faults < MaxFaults /\ faults' = faults + 1
Quiet == UNCHANGED faults

\* The Secret it reads its own key from: Bazarr's and Maintainerr's go by the name
\* <name>-api-key, the others' by the one their spec names.
HubSecret == IF hub.kind \in {"Bazarr", "Maintainerr"} THEN Hub ELSE hub.named

\* Houndarr logs in with a Secret of the user.
HasKey == hub.kind = "Houndarr" \/ key[HubSecret] # 0

\* The sync gives up; its error becomes the condition.
GivesUp == ready' = "False" /\ r' = Idle

Begin ==
  /\ r.pc = "idle"
  /\ \/ /\ Quiet /\ HasKey
        /\ r' = [Idle EXCEPT !.pc = "keys", !.kinds = Many,
                   !.todo = {[app |-> a, url |-> app[a].url] :
                               a \in {b \in Apps : app[b].there}}]
        /\ UNCHANGED ready
     \/ /\ Quiet /\ ~HasKey /\ GivesUp
     \/ /\ Fault /\ GivesUp
  /\ UNCHANGED <<world, entries, edits>>

\* The first of S in the order of the listing.
First(S) == CHOOSE s \in S : \A t \in S : Rank[s.app] <= Rank[t.app]

\* The apps' keys are read one by one; an app whose key cannot be read is
\* skipped.
ReadKey ==
  /\ r.pc = "keys" /\ r.todo # {}
  /\ LET s == First(r.todo)
         k == key[setup.keyOf[s.app]]
         done == [r EXCEPT !.todo = @ \ {s}]
     IN \/ /\ Quiet
           /\ r' = IF k = 0 \/ ~Takes(hub.kind, setup.kindOf[s.app]) THEN done
                   ELSE [done EXCEPT !.found = @ \cup {[app |-> s.app, url |-> s.url, key |-> k]}]
        \/ Fault /\ r' = done
  /\ UNCHANGED <<world, entries, ready, edits>>

\* Bazarr has no list to ask for; it is told what to use and what not.
KeysRead ==
  /\ r.pc = "keys" /\ r.todo = {}
  /\ r' = IF hub.kind = "Bazarr"
          THEN [r EXCEPT !.pc = "push", !.kinds = {}, !.batch = r.found, !.seen = entries]
          ELSE [r EXCEPT !.pc = "list"]
  /\ UNCHANGED <<world, entries, ready, edits, faults>>

OfKind(S, ks) == {s \in S : setup.kindOf[s.app] \in ks}

\* What one list call covers: Prowlarr's everything, the others' one kind.
ListCall(ks) == IF hub.kind = "Prowlarr" THEN ks ELSE {CHOOSE k \in ks : TRUE}

\* Cleanuparr and Houndarr add what is missing of a kind before they list the
\* next; the others list first.
Alternates == hub.kind \in {"Cleanuparr", "Houndarr"}

\* Mutant: a list that cannot be had counts as empty.
ListFailedEmpty(ks) ==
  /\ r' = [r EXCEPT !.pc = "push", !.kinds = @ \ ks, !.failed = TRUE,
                    !.batch = OfKind(r.found, IF Alternates THEN ks ELSE Kinds)]
  /\ UNCHANGED ready

\* A list that cannot be had: nothing of that kind is added, or the whole sync
\* gives up.
ListFailed(ks) ==
  IF Alternates
  THEN r' = [r EXCEPT !.kinds = @ \ ks, !.failed = TRUE] /\ UNCHANGED ready
  ELSE GivesUp

List ==
  /\ r.pc = "list" /\ r.kinds # {}
  /\ LET ks == ListCall(r.kinds)
     IN \/ /\ Quiet
           /\ r' = [r EXCEPT !.kinds = @ \ ks, !.seen = @ \cup OfKind(entries, ks),
                             !.pc = IF Alternates THEN "push" ELSE "list",
                             !.batch = IF Alternates THEN OfKind(r.found, ks) ELSE {}]
           /\ UNCHANGED ready
        \/ Fault /\ ListFailed(ks)
  /\ UNCHANGED <<world, entries, edits>>

AllListed ==
  /\ r.pc = "list" /\ r.kinds = {}
  /\ r' = [r EXCEPT !.pc = IF Alternates THEN "remove" ELSE "push",
                    !.batch = IF Alternates THEN {} ELSE r.found]
  /\ UNCHANGED <<world, entries, ready, edits, faults>>

Fresh == CHOOSE i \in 1 .. Cardinality(entries) + 1 : \A e \in entries : e.id # i
Added(f) == entries \cup {[id |-> Fresh, app |-> f.app, url |-> f.url, key |-> f.key]}
Replaced(e, f) == (entries \ {e}) \cup {[id |-> e.id, app |-> f.app, url |-> f.url, key |-> f.key]}

\* The entries a found app is known by, as the hub listed them.
KnownAs(f) ==
  {e \in r.seen : e.app = f.app /\ (hub.kind \in ByUrl => e.url = f.url)}

Slot(k) == OfKind(entries, {k})

\* Mutant: a slot is given the app's URL and keeps the key it has.
PushedKept(f) ==
  CASE OneSlot(hub.kind, setup.kindOf[f.app]) ->
         IF Slot(setup.kindOf[f.app]) = {} THEN Added(f)
         ELSE LET e == CHOOSE g \in Slot(setup.kindOf[f.app]) : TRUE
              IN Replaced(e, [f EXCEPT !.key = e.key])
    [] KnownAs(f) # {} -> entries
    [] OTHER -> Added(f)

\* What the hub holds once f is registered.  A slot is written over, Seerr's
\* entry is updated, any other entry that is there already is left as it is.
Pushed(f) ==
  LET k == setup.kindOf[f.app]
  IN CASE OneSlot(hub.kind, k) ->
            (entries \ Slot(k)) \cup
              {[id |-> IF Slot(k) = {} THEN Fresh ELSE (CHOOSE e \in Slot(k) : TRUE).id,
                app |-> f.app, url |-> f.url, key |-> f.key]}
       [] ~OneSlot(hub.kind, k) /\ KnownAs(f) # {} ->
            IF hub.kind = "Seerr" THEN Replaced(CHOOSE e \in KnownAs(f) : TRUE, f) ELSE entries
       [] OTHER -> Added(f)

\* Maintainerr's slots are each filled by the first app that is accepted.
Skipped(f, S) ==
  {g \in OfKind(S, {setup.kindOf[f.app]}) :
     hub.kind = "Maintainerr" /\ OneSlot(hub.kind, setup.kindOf[g.app])}

\* Mutant: an app that is refused is only logged.
CallFailedLogged(f) == [r EXCEPT !.batch = @ \ {f}]

\* A refused or unanswered call is counted; Prowlarr's and Seerr's are only logged.
CallFailed(f) ==
  [r EXCEPT !.batch = @ \ {f}, !.failed = @ \/ hub.kind \notin ByUrl]

Push ==
  /\ r.pc = "push" /\ r.batch # {}
  /\ LET f == First(r.batch)
     IN \/ /\ Quiet
           /\ entries' = Pushed(f)
           /\ r' = [r EXCEPT !.batch = @ \ ({f} \cup Skipped(f, @))]
        \/ /\ Fault
           /\ entries' \in {entries, Pushed(f)}
           /\ r' = CallFailed(f)
  /\ UNCHANGED <<world, ready, edits>>

AllPushed ==
  /\ r.pc = "push" /\ r.batch = {}
  /\ r' = [r EXCEPT !.pc = IF r.kinds = {} THEN "remove" ELSE "list"]
  /\ UNCHANGED <<world, entries, ready, edits, faults>>

\* Entries whose URL was not found; Bazarr's settings of a kind without apps.
Stale ==
  CASE ~hub.auto \/ hub.kind \in ByName -> {}
    [] hub.auto /\ hub.kind \in ByUrl ->
         {e \in r.seen : \A f \in r.found : e.app # f.app \/ e.url # f.url}
    [] OTHER -> {e \in r.seen : OfKind(r.found, {setup.kindOf[e.app]}) = {}}

\* They are removed one by one; one that cannot be is left to the next sync.
Remove ==
  /\ r.pc = "remove"
  /\ \E e \in Stale :
       \/ /\ Quiet
          /\ entries' = entries \ {e}
          /\ r' = [r EXCEPT !.seen = @ \ {e}]
       \/ /\ Fault
          /\ entries' \in {entries, entries \ {e}}
          /\ r' = [r EXCEPT !.seen = @ \ {e}, !.failed = @ \/ hub.kind \notin ByUrl]
  /\ UNCHANGED <<world, ready, edits>>

AllRemoved ==
  /\ r.pc = "remove" /\ Stale = {}
  /\ r' = [r EXCEPT !.pc = "finish"]
  /\ UNCHANGED <<world, entries, ready, edits, faults>>

\* The condition the reconcile writes.
Finish ==
  /\ r.pc = "finish"
  /\ ready' = IF r.failed THEN "False" ELSE "True"
  /\ r' = Idle
  /\ UNCHANGED <<world, entries, edits, faults>>

-----------------------------------------------------------------------------
Sync ==
  \/ Begin
  \/ ReadKey
  \/ KeysRead
  \/ List
  \/ AllListed
  \/ Push
  \/ AllPushed
  \/ Remove
  \/ AllRemoved
  \/ Finish

Ensure(m) == LookUp(m) \/ Create(m)

Users ==
  \/ \E n \in Named : RemoveSecret(n) \/ StoreSecret(n)
  \/ \E a \in Apps : DeleteApp(a) \/ CreateApp(a) \/ MoveApp(a)

Next ==
  \/ Sync
  \/ \E m \in Names : Ensure(m) \/ CreateFails(m)
  \/ Users

Spec == Init /\ [][Next]_vars

\* Every reconcile is requeued and retried; users and faults owe nothing.
FairSpec == Spec /\ WF_vars(Sync) /\ \A m \in Names : WF_vars(Ensure(m))

-----------------------------------------------------------------------------
(* Properties.                                                             *)

\* Whatever users do, whoever else creates the Secret in between, and wherever
\* calls fail: a generated key is never written over.
KeyRegister == INSTANCE KeyOnce WITH Names <- Secrets, key <- key, drawn <- drawn
KeysWrittenOnce == KeyRegister!Spec

\* The setting of a kind in a hub that holds one app at a time.
Holds(f) == \E e \in entries : e.app = f.app /\ e.url = f.url /\ e.key = f.key

\* A hub that counts failures reports its sync as ready only when every app whose
\* key it read is registered, whatever calls failed or lost their answer; a slot
\* is held by one of the apps of its kind, as that app was read.
ReadyIsRegistered ==
  [][ready' = "True" /\ r.pc = "finish" /\ r'.pc = "idle" /\ hub.kind \notin ByUrl
       => \A f \in r.found :
            IF OneSlot(hub.kind, setup.kindOf[f.app])
            THEN \E g \in OfKind(r.found, {setup.kindOf[f.app]}) : Holds(g)
            ELSE \E e \in entries : e.app = f.app]_vars

Current(a) == [app |-> a, url |-> app[a].url, key |-> key[setup.keyOf[a]]]
Present == {a \in Apps : app[a].there /\ setup.keyOf[a] # Unset
                         /\ Takes(hub.kind, setup.kindOf[a])}
SameKind(a) == {b \in Present : setup.kindOf[b] = setup.kindOf[a]}

\* The key the sync reads is in a Secret that the hub's own reconcile creates.
Managed == HubSecret = Name(Hub) /\ HubSecret # Unset

IsRegistered(a) ==
  CASE OneSlot(hub.kind, setup.kindOf[a]) -> \E b \in SameKind(a) : Holds(Current(b))
    [] hub.kind = "Seerr" -> Holds(Current(a))
    [] hub.kind = "Prowlarr" -> \E e \in entries : e.app = a /\ e.url = app[a].url
    [] OTHER -> \E e \in entries : e.app = a

\* In the end every app that names a Secret is registered, at a hub that goes by URLs
\* under its URL and at Seerr with the key its Secret holds, however often keys were
\* replaced; and a slot holds one of the apps of its kind, its URL and key up to date.
\* That takes a key of the hub's own: the operator makes the one it reads, or a user
\* keeps one there; a hub without one says that it is not in sync.
Arrives ==
  /\ <>[](Managed \/ HasKey) => <>[](\A a \in Present : IsRegistered(a))
  /\ <>[]~HasKey => <>[](ready = "False")
=============================================================================
