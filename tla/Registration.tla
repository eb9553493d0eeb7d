---------------------------- MODULE Registration ----------------------------
(***************************************************************************)
(* How a Sonarr, Radarr or Lidarr app gets registered in Prowlarr and      *)
(* Seerr, and unregistered when its ServarrApp is deleted.                 *)
(*                                                                         *)
(* Two kinds of handlers of the same controller meet here: the reconcile   *)
(* of the app, which puts finalizers on the object and runs the cleanup    *)
(* they gate, and the reconcile of a hub (Prowlarr or Seerr), which lists  *)
(* the apps and the registrations and then adds and removes.  The          *)
(* controller runs one reconcile per object at a time, and reconciles of   *)
(* different objects concurrently; each starts from a cached object.       *)
(***************************************************************************)
EXTENDS Integers

CONSTANTS
  App,         \* Sonarr, Radarr and Lidarr apps of the namespace
  Serves,      \* Serves[h]: the apps that hub h registers (Seerr: not Lidarr)
  AutoRemove,  \* AutoRemove[h]: spec.prowlarrSync / seerrSync .autoRemove
  Existing,    \* apps that exist when the operator first starts
  Enabled0,    \* hubs whose sync is on initially
  MaxEdits,    \* bound: users creating, deleting or reconfiguring objects
  MaxFaults    \* bound: failed calls and operator crashes

Hub == {"prowlarr", "seerr"}

ASSUME ServesAssumption     == Serves \in [Hub -> SUBSET App]
ASSUME AutoRemoveAssumption == AutoRemove \in [Hub -> BOOLEAN]
ASSUME InitialAssumption    == Existing \subseteq App /\ Enabled0 \subseteq Hub
ASSUME BoundsAssumption     == MaxEdits \in Nat /\ MaxFaults \in Nat

VARIABLES
  obj,      \* obj[a]: the ServarrApp is "absent", "live" or "terminating"
  fin,      \* fin[a]: its finalizers, by hub
  cache,    \* cache[a]: object and finalizers as the watch delivered them
  wake,     \* apps with a reconcile due: a watch event or a requeue
  run,      \* run[a]: the app's running reconcile
  hub,      \* hub[h]: sync "off", "on", or "keyless": on, but its key Secret is missing
  reg,      \* reg[h]: apps registered in hub h
  sync,     \* sync[h]: the hub's running sync
  edits, faults,
  owed,     \* history: finalizers the object held when it was deleted
  life,     \* history: objects of that name created so far, counted to 2
  cleaned   \* history: hubs whose cleanup completed for the deleted object

appVars == <<obj, fin, cache, wake, run>>
hubVars == <<hub, sync>>
history == <<owed, life, cleaned>>
vars    == <<appVars, hubVars, reg, edits, faults, history>>

ObjState == {"absent", "live", "terminating"}
HubState == {"off", "on", "keyless"}

Run == [pc   : {"idle", "cleanup", "unregister", "release", "protect", "addfin"},
        snap : SUBSET Hub,   \* app.metadata.finalizers as cached at the start
        todo : SUBSET Hub,   \* hubs not handled yet
        ok   : SUBSET Hub]   \* hubs whose cleanup returned Ok

Sync == [pc    : {"idle", "list", "apply"},
         found : SUBSET App,      \* discovered apps
         add    : SUBSET App,  \* still to register
         remove : SUBSET App]  \* still to unregister

NoRun  == [pc |-> "idle", snap |-> {}, todo |-> {}, ok |-> {}]
NoSync == [pc |-> "idle", found |-> {}, add |-> {}, remove |-> {}]

TypeOK ==
  /\ obj \in [App -> ObjState]
  /\ fin \in [App -> SUBSET Hub]
  /\ cache \in [App -> [obj : ObjState, fin : SUBSET Hub]]
  /\ wake \in SUBSET App
  /\ run \in [App -> Run]
  /\ hub \in [Hub -> HubState]
  /\ reg \in [Hub -> SUBSET App]
  /\ sync \in [Hub -> Sync]
  /\ edits \in 0..MaxEdits /\ faults \in 0..MaxFaults
  /\ owed \in [App -> SUBSET Hub]
  /\ life \in [App -> 0..2]
  /\ cleaned \in [App -> SUBSET Hub]
  \* an object without finalizers never lingers in deletion
  /\ \A a \in App : obj[a] = "terminating" => fin[a] # {}

Init ==
  /\ obj = [a \in App |-> IF a \in Existing THEN "live" ELSE "absent"]
  /\ fin = [a \in App |-> {}]
  /\ cache = [a \in App |-> [obj |-> "absent", fin |-> {}]]
  /\ wake = {}
  /\ run = [a \in App |-> NoRun]
  /\ hub = [h \in Hub |-> IF h \in Enabled0 THEN "on" ELSE "off"]
  /\ reg = [h \in Hub |-> {}]
  /\ sync = [h \in Hub |-> NoSync]
  /\ edits = 0 /\ faults = 0
  /\ owed = [a \in App |-> {}]
  /\ life = [a \in App |-> IF a \in Existing THEN 1 ELSE 0]
  /\ cleaned = [a \in App |-> {}]

-----------------------------------------------------------------------------
(* Environment: users, the API server and the watch. *)

Edit == edits < MaxEdits /\ edits' = edits + 1

CreateApp(a) ==
  /\ Edit /\ obj[a] = "absent"
  /\ obj' = [obj EXCEPT ![a] = "live"]
  /\ fin' = [fin EXCEPT ![a] = {}]
  /\ owed' = [owed EXCEPT ![a] = {}]
  /\ life' = [life EXCEPT ![a] = IF @ = 0 THEN 1 ELSE 2]
  /\ cleaned' = [cleaned EXCEPT ![a] = {}]
  /\ UNCHANGED <<cache, wake, run, hubVars, reg, faults>>

\* An object without finalizers goes at once, one with finalizers lingers.
DeleteApp(a) ==
  /\ Edit /\ obj[a] = "live"
  /\ obj' = [obj EXCEPT ![a] = IF fin[a] = {} THEN "absent" ELSE "terminating"]
  /\ owed' = [owed EXCEPT ![a] = fin[a]]
  /\ UNCHANGED <<fin, cache, wake, run, hubVars, reg, faults, life, cleaned>>

\* A user switches a sync on or off, or loses or restores the hub's key Secret.
EditHub(h) ==
  /\ Edit
  /\ \E state \in HubState \ {hub[h]} : hub' = [hub EXCEPT ![h] = state]
  /\ UNCHANGED <<appVars, reg, sync, faults, history>>

Fresh(a) == [obj |-> obj[a], fin |-> fin[a]]

\* The watch delivers the current object and schedules a reconcile.
Deliver(a) ==
  /\ cache[a] # Fresh(a)
  /\ cache' = [cache EXCEPT ![a] = Fresh(a)]
  /\ wake' = wake \union {a}
  /\ UNCHANGED <<obj, fin, run, hubVars, reg, edits, faults, history>>

\* An event of an owned Deployment, Service or ConfigMap, or of the app's
\* credentials Secret, schedules a reconcile at any time.
OwnedEvent(a) ==
  /\ cache[a].obj # "absent" /\ a \notin wake
  /\ wake' = wake \union {a}
  /\ UNCHANGED <<obj, fin, cache, run, hubVars, reg, edits, faults, history>>

-----------------------------------------------------------------------------
(* The app's reconcile: the finalizer block at the head of the handler. *)

\* Prowlarr is handled before Seerr in both branches.
NextHub(a) == IF "prowlarr" \in run[a].todo THEN "prowlarr" ELSE "seerr"

Start(a) ==
  /\ run[a].pc = "idle" /\ a \in wake /\ cache[a].obj # "absent"
  /\ wake' = wake \ {a}
  /\ run' = [run EXCEPT ![a] =
       [pc   |-> IF cache[a].obj = "terminating" THEN "cleanup" ELSE "protect",
        snap |-> cache[a].fin, todo |-> Hub, ok |-> {}]]
  /\ UNCHANGED <<obj, fin, cache, hubVars, reg, edits, faults, history>>

\* The hub h of a's cleanup is dealt with; `good` tells whether it returned Ok.
HubDone(a, h, good) ==
  /\ run' = [run EXCEPT ![a] =
       [run[a] EXCEPT !.pc = IF run[a].todo = {h} THEN "release" ELSE "cleanup",
                 !.todo = @ \ {h},
                 !.ok = IF good THEN @ \union {h} ELSE @]]
  /\ cleaned' = IF good /\ obj[a] = "terminating"
                  THEN [cleaned EXCEPT ![a] = @ \union {h}] ELSE cleaned

\* Mutant: the entry is looked for under another spelling of the app's URL.
RegisteredElsewhere(a, h) == FALSE

\* The hub lists an entry under the app's URL, among those of a kind it serves.
Registered(a, h) == a \in reg[h] /\ a \in Serves[h]

\* Look for the hub and for the app's entry in its list of registrations.  No
\* hub, no key Secret (its 404 is terminal) and no entry all count as cleaned up.
CleanupLookup(a) ==
  /\ run[a].pc = "cleanup"
  /\ LET h == NextHub(a) IN
       IF hub[h] = "on" /\ Registered(a, h)
         THEN /\ run' = [run EXCEPT ![a].pc = "unregister"]
              /\ UNCHANGED cleaned
         ELSE HubDone(a, h, TRUE)
  /\ UNCHANGED <<obj, fin, cache, wake, hubVars, reg, edits, faults, owed, life>>

\* Delete the registration; that it is already gone (404) is fine.
Unregister(a) ==
  /\ run[a].pc = "unregister"
  /\ LET h == NextHub(a) IN
       /\ reg' = [reg EXCEPT ![h] = @ \ {a}]
       /\ HubDone(a, h, TRUE)
  /\ UNCHANGED <<obj, fin, cache, wake, hubVars, edits, faults, owed, life>>

Fault == faults < MaxFaults /\ faults' = faults + 1

\* A transient failure of any call of the cleanup; the deletion may have reached
\* the hub although its answer was lost.
CleanupFails(a) ==
  /\ Fault /\ run[a].pc \in {"cleanup", "unregister"}
  /\ HubDone(a, NextHub(a), FALSE)
  /\ \/ reg' = reg
     \/ run[a].pc = "unregister" /\ reg' = [reg EXCEPT ![NextHub(a)] = @ \ {a}]
  /\ UNCHANGED <<obj, fin, cache, wake, hubVars, edits, owed, life>>

\* Mutant: a reconcile that left a cleanup pending waits for a watch event.
RequeuedOnlyByEvents(a, list) == wake

\* CleanupPending requeues; a finished deletion awaits a change.
Requeued(a, list) == IF list # {} THEN wake \union {a} ELSE wake

\* What the API server makes of a merge patch of the finalizer list.
Patchable(a, list) ==
  \/ obj[a] = "live"
  \/ obj[a] = "terminating" /\ list \subseteq fin[a]

Patched(a, list) ==
  /\ fin' = [fin EXCEPT ![a] = list]
  /\ obj' = IF obj[a] = "terminating" /\ list = {}
              THEN [obj EXCEPT ![a] = "absent"] ELSE obj

\* Mutant: every cleanup finalizer is dropped, failed or not.
RemainingNone(a) == {}

\* The cached list without the finalizers whose cleanup completed.
Remaining(a) == run[a].snap \ run[a].ok

Release(a) ==
  /\ run[a].pc = "release"
  /\ LET list == Remaining(a) IN
       \/ /\ list # run[a].snap /\ Patchable(a, list)
          /\ Patched(a, list)
          /\ wake' = Requeued(a, list)
       \/ /\ list = run[a].snap
          /\ wake' = Requeued(a, list)
          /\ UNCHANGED <<obj, fin>>
  /\ run' = [run EXCEPT ![a] = NoRun]
  /\ UNCHANGED <<cache, hubVars, reg, edits, faults, history>>

\* The API server refuses the patch; the error requeues the app.
PatchRefused(a) ==
  /\ \/ /\ run[a].pc = "release"
        /\ Remaining(a) # run[a].snap /\ ~Patchable(a, Remaining(a))
     \/ /\ run[a].pc = "addfin"
        /\ ~Patchable(a, run[a].snap \union {NextHub(a)})
  /\ run' = [run EXCEPT ![a] = NoRun]
  /\ wake' = wake \union {a}
  /\ UNCHANGED <<obj, fin, cache, hubVars, reg, edits, faults, history>>

\* The rest of the reconcile does not touch registrations; it requeues (300 s).
ProtectNext(a, h) ==
  /\ run' = [run EXCEPT ![a] = IF run[a].todo = {h} THEN NoRun
                               ELSE [run[a] EXCEPT !.pc = "protect", !.todo = @ \ {h}]]
  /\ wake' = IF run[a].todo = {h} THEN wake \union {a} ELSE wake

\* Does a hub with sync exist whose finalizer the cached object lacks?
Protect(a) ==
  /\ run[a].pc = "protect"
  /\ LET h == NextHub(a) IN
       IF h \notin run[a].snap /\ hub[h] # "off"
         THEN run' = [run EXCEPT ![a].pc = "addfin"] /\ UNCHANGED wake
         ELSE ProtectNext(a, h)
  /\ UNCHANGED <<obj, fin, cache, hubVars, reg, edits, faults, history>>

\* A failed list of ServarrApps counts as "no sync exists".
ProtectListFails(a) ==
  /\ Fault /\ run[a].pc = "protect" /\ NextHub(a) \notin run[a].snap
  /\ ProtectNext(a, NextHub(a))
  /\ UNCHANGED <<obj, fin, cache, hubVars, reg, edits, history>>

\* The patch carries the list cached at the start, even for the second hub.
AddFinalizer(a) ==
  /\ run[a].pc = "addfin"
  /\ LET h == NextHub(a)
         list == run[a].snap \union {h} IN
       /\ Patchable(a, list)
       /\ Patched(a, list)
       /\ ProtectNext(a, h)
  /\ UNCHANGED <<cache, hubVars, reg, edits, faults, history>>

\* A failed call that ends the reconcile with an error, or an operator crash.
Abort(a) ==
  /\ Fault /\ run[a].pc # "idle"
  /\ run' = [run EXCEPT ![a] = NoRun]
  /\ wake' = wake \union {a}
  /\ UNCHANGED <<obj, fin, cache, hubVars, reg, edits, history>>

-----------------------------------------------------------------------------
(* The hub's reconcile: sync_prowlarr_apps and sync_seerr_servers. *)

\* Every ServarrApp in the list counts, also one that is being deleted.
Discoverable(h) == {a \in Serves[h] : obj[a] # "absent"}

Discover(h, found) ==
  /\ sync[h].pc = "idle" /\ hub[h] = "on"
  /\ sync' = [sync EXCEPT ![h] = [NoSync EXCEPT !.pc = "list", !.found = found]]

SyncDiscover(h) ==
  /\ Discover(h, Discoverable(h))
  /\ UNCHANGED <<appVars, hub, reg, edits, faults, history>>

\* Apps whose API key cannot be read are skipped.
SyncSkipsApp(h) ==
  /\ Fault
  /\ \E skipped \in SUBSET Discoverable(h) \ {{}} : Discover(h, Discoverable(h) \ skipped)
  /\ UNCHANGED <<appVars, hub, reg, edits, history>>

\* Mutant: nothing is ever stale.
StaleNever(h) == {}

\* Mutant: every registration is stale, discovered or not.
StaleAll(h) == IF AutoRemove[h] THEN reg[h] ELSE {}

Stale(h) == IF AutoRemove[h] THEN reg[h] \ sync[h].found ELSE {}

\* The calls a sync still has to make; without any it ends.
SyncRest(add, remove) ==
  IF add \union remove = {} THEN NoSync
  ELSE [NoSync EXCEPT !.pc = "apply", !.add = add, !.remove = remove]

\* List the registrations and diff them with the discovered apps.
SyncList(h) ==
  /\ sync[h].pc = "list"
  /\ sync' = [sync EXCEPT ![h] = SyncRest(sync[h].found \ reg[h], Stale(h))]
  /\ UNCHANGED <<appVars, hub, reg, edits, faults, history>>

\* First the additions, then the removals, one call each.
SyncCall(h, done) ==
  /\ sync[h].pc = "apply"
  /\ \E a \in App :
       \/ /\ a \in sync[h].add
          /\ sync' = [sync EXCEPT ![h] = SyncRest(@.add \ {a}, @.remove)]
          /\ reg' = IF done THEN [reg EXCEPT ![h] = @ \union {a}] ELSE reg
       \/ /\ sync[h].add = {} /\ a \in sync[h].remove
          /\ sync' = [sync EXCEPT ![h] = SyncRest({}, @.remove \ {a})]
          /\ reg' = IF done THEN [reg EXCEPT ![h] = @ \ {a}] ELSE reg

SyncApply(h) ==
  /\ SyncCall(h, TRUE)
  /\ UNCHANGED <<appVars, hub, edits, faults, history>>

\* A failed call is logged and the loop goes on.
SyncCallFails(h) ==
  /\ Fault /\ SyncCall(h, FALSE)
  /\ UNCHANGED <<appVars, hub, edits, history>>

SyncAbort(h) ==
  /\ Fault /\ sync[h].pc # "idle"
  /\ sync' = [sync EXCEPT ![h] = NoSync]
  /\ UNCHANGED <<appVars, hub, reg, edits, history>>

-----------------------------------------------------------------------------
AppStep(a) ==
  \/ Start(a) \/ CleanupLookup(a) \/ Unregister(a) \/ Release(a) \/ PatchRefused(a)
  \/ Protect(a) \/ AddFinalizer(a)

HubStep(h) == SyncDiscover(h) \/ SyncList(h) \/ SyncApply(h)

Next ==
  \/ \E a \in App : \/ CreateApp(a) \/ DeleteApp(a) \/ Deliver(a) \/ OwnedEvent(a)
                    \/ AppStep(a)
                    \/ CleanupFails(a) \/ ProtectListFails(a) \/ Abort(a)
  \/ \E h \in Hub : \/ EditHub(h) \/ HubStep(h)
                    \/ SyncSkipsApp(h) \/ SyncCallFails(h) \/ SyncAbort(h)

Spec == Init /\ [][Next]_vars

\* Watches reconnect, every error requeues and a hub reconciles every 300 s.
Fairness ==
  /\ \A a \in App : WF_vars(Deliver(a)) /\ WF_vars(AppStep(a))
  /\ \A h \in Hub : WF_vars(HubStep(h))

FairSpec == Spec /\ Fairness

-----------------------------------------------------------------------------
(* Properties. *)

\* A deleted app does not disappear before the cleanup behind every finalizer
\* it held at its deletion has completed.  Only of the first object of a name:
\* a reconcile that still runs for that one may release a later one's finalizers,
\* because its patch names neither uid nor resourceVersion.
OwedCleanupDone ==
  \A a \in App : obj[a] = "absent" /\ life[a] = 1 => owed[a] \subseteq cleaned[a]

\* A deletion is never stuck: cleanup that failed is retried until it is done.
DeletionCompletes ==
  \A a \in App : obj[a] = "terminating" ~> obj[a] = "absent"

\* An app that stays live ends up registered for good in every hub that is on,
\* although a sync that could not read its key removes the registration.
LiveAppsRegistered ==
  \A h \in Hub : \A a \in Serves[h] :
    <>[](obj[a] = "live" /\ hub[h] = "on") => <>[](a \in reg[h])

\* With autoRemove, no registration of an app that stays gone survives, even
\* one that a sync added back after the app's own cleanup.
GhostsRemoved ==
  \A h \in Hub : \A a \in Serves[h] :
    <>[](obj[a] = "absent" /\ hub[h] = "on" /\ AutoRemove[h]) => <>[](a \notin reg[h])

(* How the model is seen through Membership. *)

Used == {a \in App : life[a] >= 1}
Again == {a \in App : life[a] = 2}
On == {h \in Hub : hub[h] = "on"}
Due == [a \in App |-> owed[a] \ cleaned[a]]
Seen == [h \in Hub |-> sync[h].found \union sync[h].add]
\* Before a pass has listed the registrations it may remove all that it did not find.
Unseen == [h \in Hub |->
  IF sync[h].pc # "list" THEN sync[h].remove
  ELSE IF AutoRemove[h] THEN App \ sync[h].found ELSE {}]

\* The controller keeps the contract of Membership: however stale its caches, whichever
\* calls fail and in whatever order reconciles of apps and hubs meet, an app is registered
\* only by a pass that found it, loses a registration only to its own cleanup after its
\* deletion or to a pass that did not find it, and is gone only when every hub that its
\* finalizers named was without it, or not on, at some moment since its deletion.
Promised == INSTANCE Membership WITH
  used <- Used, again <- Again, on <- On, due <- Due, seen <- Seen, unseen <- Unseen
KeepsMembership == Promised!Spec

\* The comment on the finalizer filter: a finalizer that was placed on the
\* object leaves it only once the cleanup behind it has completed.
NoFinalizerDropped ==
  [][\A a \in App : fin[a] \ fin'[a] \subseteq cleaned[a]]_vars
=============================================================================
