# TLA+ models of servarr-operator

servarr-operator is a Kubernetes operator written in Rust.  It turns `MediaStack` and
`ServarrApp` objects into running media applications (Plex, Sonarr, Prowlarr, ...), and keeps
those applications configured through their HTTP APIs.  This directory holds models of the
operator in TLA+, the TLC configurations that check them and the proofs that TLAPS checks.
Paths below are relative to the repository; `operator/` stands for
`crates/servarr-operator/src/`.

## The system

Two controllers run in one process (`operator/main.rs`), each with its own watch and its own
queue.  A controller runs one reconcile per object at a time and reconciles of different
objects concurrently; a reconcile starts from the *cached* object its watch delivered and makes
awaited calls to the API server and to applications, so everything else in the cluster moves
between any two of its calls.  A reconcile that returns an error is requeued after 60 s, one
that succeeds after 30 or 300 s.

| Component | Source | State it keeps | Operations | What is hard |
|---|---|---|---|---|
| MediaStack controller | `operator/media_stack_controller.rs` | `MediaStack.status` (tier, timer, bypass flags, phase, conditions); the child `ServarrApp`s | reconcile: NFS objects, expand and validate, clean up orphans, apply tier by tier, publish the status | the status it reads may be stale; timeouts; cleanup that fails half way; the webhook rejecting an apply; children that flap |
| ServarrApp controller | `operator/controller.rs` | Deployment, Service, claims, Secrets, ConfigMaps, `ServarrApp.status` | reconcile: finalizers, restore, resources, credentials, health, backup, syncs, status | a long list of awaited calls that each may fail; status rebuilt from scratch |
| Deletion and hub registration | `operator/controller.rs:355-468, 2825-3335`, `operator/controller/cleanup.rs` | finalizers of Sonarr, Radarr and Lidarr apps; registrations inside Prowlarr and Seerr | protect with finalizers, clean up on deletion, sync of a hub | two objects' reconciles act on the same registrations; stale finalizer lists; transient and terminal failures |
| Backup and restore | `operator/controller.rs:2305-2802` | `status.backupStatus`; the backups inside the app; the restore annotation; replicas | scheduled backup with retention; restore with scale-down and scale-up | crash between scale-down and scale-up; retries; lost status |
| Credentials | `operator/controller/rpc_password.rs`, `operator/controller.rs:1287-1702` | Secrets, the checksum annotation of the pod template | generate once, push over the API, roll the pods | create races, partial failure |
| Self-heal | `operator/controller/download_health*`, `health_throttle.rs` | the `DownloadDataHealthy` condition | detect, verify, remove torrents; throttle | destructive step behind a stale observation; clock edges |
| Other syncs | `operator/controller.rs:2804-4094` | settings inside Prowlarr, Seerr, Bazarr, Maintainerr, Cleanuparr, Houndarr; the API key Secrets they are made from | create a key once; read keys, list, write what is missing | shared Secrets and create races; lists that fail; lost answers; settings that hold one app at a time |
| Admission webhook | `operator/webhook.rs` | none | validate one object, check for a duplicate app+instance, forbid a change of identity | list-then-admit; it must know everything the builders will add to a spec |
| Resource builders | `crates/servarr-resources/` | none | pure functions from a spec to Deployment, Service, policy, ConfigMaps, Secrets, claims, routes | what they add may clash with what users wrote; the checksum must cover all that a pod reads at start |
| API clients | `crates/servarr-api/` | none | HTTP calls | lost answers |
| CRD types | `crates/servarr-crds/` | none | defaults of each kind of app, merges, collision checks, expansion of a stack into children | the merges of user, stack and kind; split pairs |
| Process shell | `operator/main.rs`, `context.rs`, `server.rs`, ... | readiness flag, event tasks | start, drain | - |

The components meet in the cluster.  The MediaStack controller creates and deletes the
`ServarrApp`s that the other controller reconciles; it reads their `status.ready` and it
detaches their claims before a deletion, which the garbage collector would otherwise follow.
The webhook stands between the two and may reject the apply.  An app's reconcile and the
reconcile of a hub (Prowlarr, Seerr) meet in the hub's list of registrations.  What a user writes
reaches a pod along a chain: the stack's expansion, the webhook, the API server, the builders, the
applies of an app's reconcile, the kubelet; a rule that one link forgets shows up at another.

What makes each component correct:

- *MediaStack*: no user data is lost by a cleanup; a tier starts only when the ones below are
  ready or were given up on; the rollout is never wedged; removed apps really go; the published
  status converges to what the cluster does.
- *Registration*: an app does not vanish before the cleanup it owes is done; a deletion is never
  stuck; in the end exactly the live apps are registered.
- *Backup and restore*: a due backup is taken once; retention keeps the newest; an app that was
  scaled down comes back.
- *Credentials*: a generated secret never changes under a running app; a changed credential
  reaches every consumer.
- *Self-heal*: nothing is removed but on the evidence of a verify, or because its directory is not
  mounted; passes keep their interval and never stop; a loss is reported and with consent removed.
- *ServarrApp reconcile*: a status names a generation only when all of it was applied; no
  Deployment that it saw to be somebody else's is deleted; whatever happens to the objects, they
  converge, and pods stand still.
- *Syncs*: a generated key is never written over; no app is registered twice; a sync that says it is
  ready has registered what it read; current addresses arrive.
- *From specs to pods*: what the webhook admits runs; two apps have one identity only by a race of
  two creates; the instances of a split app keep apart; a change of configuration or of the NFS
  server's address reaches the pods.

`PROJECT.json` lists every hazard of the code at its line, with the properties that cover it.

## Modules

| Module | What it is |
|---|---|
| `MediaStack` | the reconcile of one MediaStack, with its children, their claims, the webhook, the watch and the clock |
| `MCMediaStack` | its instances: a rollout over tiers 0, 1 and 3; the rename of an app |
| `Rollout` | what is promised about a stack's children: passes that create, find ready, give up, remove, report |
| `MediaStack_proofs` | types, `KeptVolumesSurvive`, `CreatedBehindGate`, `BypassCleared` and the implementation of `Rollout` as theorems |
| `Registration` | the finalizers of Sonarr, Radarr and Lidarr apps, the cleanup they gate, and the syncs of Prowlarr and Seerr |
| `MCRegistration` | its instances: one app that both hubs register |
| `Membership` | what is promised about registrations: how a hub gains and loses an app, when a deleted app is gone |
| `Registration_proofs` | types, `OwedCleanupDone` and the implementation of `Membership` as theorems |
| `AppBackup` | the scheduled backups and the restores of one Sonarr, Radarr, Lidarr or Prowlarr |
| `AppBackup_proofs` | types, `DownOnlyWhileRestoring` and `NewestKept` as theorems |
| `SelfHeal` | the self-heal pass over the torrents of one Transmission, with its throttle and the condition it writes |
| `MCSelfHeal` | its instances: two torrents of one download directory, or of one each |
| `SelfHeal_proofs` | types, `RemovedWasVerified`, `OutageSurvives` and `PassesSpaced` as theorems |
| `Credentials` | the admin credentials of one app, from the user's Secret to the running app |
| `Credentials_proofs` | types and `TrueMeansApplied` as theorems |
| `AppReconcile` | the reconcile of one app, apply by apply, with users who tamper with its objects |
| `MCAppReconcile` | its instance: two specs that differ in selector, policy, route and certificate |
| `Upkeep` | what is promised about an app's objects: passes that build, create once, delete and report |
| `AppReconcile_proofs` | types, `ObservedIsBuilt`, `ForeignSurvives` and the implementation of `Upkeep` as theorems |
| `KeyOnce` | what is promised about generated API keys: an abstract register |
| `CrossSync` | the key Secrets of a namespace's apps and the sync of a hub, for six kinds of hubs; implements `KeyOnce` |
| `MCCrossSync` | its instances: twelve pairs of a hub and two apps, and the Secrets they name |
| `CrossSync_proofs` | types, `ReadyIsRegistered` and the implementation of `KeyOnce` as theorems |
| `AppSpec` | the specs of apps, the defaults of each kind, the merges and the collision checks |
| `Manifests` | the resource builders: what is made of a spec |
| `Admission` | the rules of the webhook, one predicate each |
| `StackExpansion` | a stack, its effective NFS server and its children |
| `Inputs` | composes the four: from what users write to what runs |
| `MCInputs` | its instances: single apps, rivals, stacks |
| `Inputs_proofs` | `TwinsRaced`, `ConfigReaches` and `PairApart` as theorems, and that plans follow the NFS server |

`PROJECT.json` maps every definition to the lines it models.

### MediaStack

The handler's locals are the record `r`; `r.pc` says which awaited call comes next, and each
call is one action, so that the environment may move between any two of them.

| Action | Code |
|---|---|
| `Begin` | the handler gets the cached object: `r.spec` and `r.prev` may both be stale |
| `NfsCall`, `NfsDeleteFails` | `reconcile_nfs_server`; a failed delete is only logged |
| `RejectSpec` | an invalid `split4k` or a duplicate child name replaces the whole status by the default |
| `ListChildren` | expansion, grouping by tier, the list of labelled children |
| `PickOrphan`, `Detach`, `DetachFails`, `DetachEnds` | `cleanup_orphaned_children` up to the delete |
| `DeleteOrphan`, `DeleteFails` | the delete of the orphan: gone, or terminating if it holds finalizers |
| `SkipTier`, `EnterTier` | the head of the tier loop: blocked, timed out or clear |
| `ApplyChild`, `ApplyRejected` | server-side apply, with the webhook's duplicate check on creation |
| `ReadChild`, `ReadFails` | `read_child_ready` and what the loop makes of its answer |
| `WriteStatus` | phase, timer, conditions and `patch_status` |
| `Abort` | an error returned by `?`, or a crash: the locals are lost |
| `EditSpec`, `Deliver`, `Tick`, `Child*`, `Collect` | users, the watch, the clock, the children's controller, the garbage collector |

Abstractions: a child's spec is not modelled, only whether it is wanted; a timestamp is its age
in ticks, saturated at the timeout, because the code only compares `now - since` with it;
`tier_blocked_since` that does not parse (never written by this code) is left out; the causes of
a stuck orphan (`Forbidden`, `Transient`, `delete_failed`) are one set, because only the wording
of a condition tells them apart; the fallback that finds claims by owner uid when names cannot be
computed detaches the same claims and is the same action.  Disabled apps are in the status only
as constants and are left out of it.

`Rollout` is the contract.  It has no calls, no timer, no cache and no cleanup steps: a pass fixes
what is wanted; creates a child only when every wanted child of a lower tier was found ready or was
given up on, in this pass; removes only what it does not want; and reports what it found out.  When
a child is given up on is left open, because the code's answer (the timeout, which `StackCascade` is
about) is no part of the promise.  The mapping (`MediaStack!Promised`) reads the pass off the
handler's record: `want`, `seen` and `givenUp` are `r.want`, `r.seen` and `r.bypassed`, and the
report is the two lists of the stored status.  A status write therefore has to publish exactly what
its own pass found, and a child never comes to be, is adopted or goes in any other way.

### Registration

`run[a]` is the app's reconcile and `sync[h]` a hub's.  The app's part is the finalizer block at
the head of `reconcile`; what follows that block touches no registration and is `ProtectNext`'s
return to idle.  `cache[a]` is the object the reconcile starts from and `run[a].snap` the
finalizer list it computes patches from.

| Action | Code |
|---|---|
| `Start` | `reconcile` begins; a terminating object takes the cleanup branch |
| `CleanupLookup`, `Unregister`, `CleanupFails` | the cleanup bodies for Prowlarr, then Seerr; no hub, no key Secret (404) and no entry count as done |
| `Release`, `PatchRefused` | the merge patch of the remaining finalizers; `CleanupPending` requeues |
| `Protect`, `ProtectListFails`, `AddFinalizer` | does a hub with sync exist; patch the *cached* list plus the hub's finalizer |
| `Abort` | an error, or a crash |
| `SyncDiscover`, `SyncSkipsApp` | `discover_namespace_apps` |
| `SyncList`, `SyncApply`, `SyncCallFails`, `SyncAbort` | the diff, then one call per addition and per removal |
| `CreateApp`, `DeleteApp`, `EditHub`, `Deliver`, `OwnedEvent` | users, the API server, the watches |

The API server is modelled where the code depends on it: an object without finalizers goes at
once; a merge patch replaces the finalizer list, and is refused if the object is gone or if it
would add a finalizer to an object in deletion.  A registration is the app it is for: ids, names,
API keys and quality profiles are left out, and with them the update of an entry that exists.

`Membership` is the contract: no finalizers, no caches, no reconciles, and hubs that differ only in
whom they serve.  `due[a]` are the hubs a deleted app still has to be cleaned up in.  A hub gains an
app only from a pass of its own that found the app, loses one only to a pass that did not find it
(where its owner allows that) or to the app's own cleanup, and a deleted app is gone only when it
owes nothing.  The mapping (`Registration!Promised`) takes `due[a]` to be what the finalizers named
at the deletion less the cleanups done since, and what a pass may still register or unregister to be
what its discovery found or missed.  Of a name in its second life only the registrations are
promised: a reconcile that outlives the first object may clean up or patch the second.

### AppBackup

`r` is the app's reconcile, reduced to the three parts that matter here, in the order the code
runs them: the restore at its head, the apply of the Deployment, the backup and the status near
its end.  It starts from the cached `spec.backup`, annotation and `lastBackupTime`.

| Action | Code |
|---|---|
| `Begin` | is there a restore annotation, and is it a number |
| `ScaleDown`, `ScaleDownFails`, `WaitDown`, `WaitGivesUp` | the merge patch to zero replicas and the twelve polls; a failed or exhausted poll goes on |
| `RestoreCall`, `RestoreFails` | `try_restore`: key Secret, client, the call |
| `ScaleUp`, `ScaleUpFails` | the merge patch to one replica, only logged when it fails |
| `Unmark`, `UnmarkFails` | the removal of the annotation, reached only after a successful restore |
| `ApplyDeployment` | server-side apply of the Deployment, which forces `replicas: 1` |
| `ReadKey`, `KeyFails` | switched off, key unreadable, schedule invalid, due, not due |
| `CreateBackup`, `CreateFails` | the create, whose answer may be lost; a failure records a time only if there was one |
| `ListBackups`, `ListFails`, `Prune`, `PruneFails`, `PruneEnds` | retention, deletion by deletion |
| `WriteStatus` | `update_status`, a forced apply that also clears what is absent |
| `Abort` | an error anywhere in the reconcile, or a crash |
| `EditSpec`, `Annotate`, `Fire`, `Deliver`, `PodMoves`, `OwnBackup` | users, the clock, the watch, the pod, the app |

Abstractions: time is the number of firings of the cron schedule, because the code only asks
whether a firing lies between the recorded time and now; backups are counted, because they differ
only in age and the pruning goes by age; `backupCount` and `lastBackupResult` are reports nothing
reads; a restore changes the app's database and not the list of backups.  A timestamp that does
not parse is never written by this code and is left out.  An app that deletes backups by itself
is left out: the ids the operator then asks to delete are the oldest all the same.

### SelfHeal

`r` is the running pass: `r.stale` are the torrents it remediates, `r.checking` those of them that
the client was verifying already, `r.next` the condition `update_status` will write.  The rest of
the app's reconcile is `Abort` (it failed) or nothing.

| Action | Code |
|---|---|
| `Begin` | `check_download_client_health` up to the throttle: switched off, skipped (the cached condition is written back, a corrupt timestamp repaired), or a pass |
| `ListTorrents`, `ListFails` | client and credentials, `torrent_get`, `partition_unavailable_dirs`, `split_missing_hash` |
| `VerifyTorrents`, `VerifyFails` | `torrent_verify` of the torrents that are not being verified yet |
| `Settle`, `PollGivesUp`, `PollFails` | `poll_with_budget` and `classify_settled` |
| `RemoveTorrents`, `RemoveFails` | `remove_confirmed`, reached only with consent |
| `WriteStatus` | `update_status`, a forced apply of a status rebuilt from scratch |
| `Abort` | an error elsewhere in the reconcile, a failed status write, or a crash |
| `Notice`, `VerifyBegins`, `VerifyEnds` | the client: it stops a torrent whose data it misses, begins a verify some time after it was asked for, ends it with no data, with data, or with an error and data |
| `DataMoves`, `UserActs`, `EditSpec`, `EditTimestamp`, `Deliver`, `Tick` | disks, users, the watch, the clock |

Abstractions: a timestamp is its age in ticks up to the interval, or in the future, or corrupt,
which is all that `is_within_poll_window` tells apart.  The sleep before the first poll is
assumed to be long enough for the client to begin the verify (`Begun`); the mutant that drops the
sleep breaks `RemovedWasVerified`, so this assumption is what removals rest on.  The polls of one
window are one step: it settles, or it is used up while something is still being verified.  The
verify of a torrent of `Slow` may outlast every window, that of another one only as one of the
counted troubles.  What such a verify keeps from happening is said in the liveness properties
themselves: `HeldBack` is a torrent on whose batch pass after pass gives up with a slow torrent in
it.  Users gave their consent at first and may take it back.
Of a torrent only what the code reads is modelled: the error and whether it reports no progress;
an answer without a hash or without progress is a trouble.  Tracker errors, torrents without a
directory, names and event texts are left out.  The read-only health probe uses the same throttle
with the opposite reading of a corrupt timestamp and changes nothing but its condition.

### Credentials

`r` is the app's reconcile as far as credentials go.  A user name or a password is the number of
the edit of the Secret that wrote it, so that "current", "older" and "torn" can be told apart.

| Action | Code |
|---|---|
| `Rotate` | a user edits the Secret: the password, or both |
| `RpcRead`, `RpcSkipped`, `RpcWrite` | `rpc_password.rs`: Transmission's salted hash is kept while it is of this password, else drawn anew |
| `ApplyDeployment`, `SumRead`, `SumSkipped`, `SumWrite` | the main apply and, under its own field manager, the annotation that rolls the pods of Servarr v3 apps |
| `ShareUser`, `SharePassword`, `ReadUser`, `ReadPassword`, `ReadFails`, `ReadKey` | two calls of `read_secret_key`, with a rotation in between |
| `PushOneCall`, `PushUser`, `PushPass`, `PushHostConfig`, `PushSession`, `VerifySession`, `WizardStarts`, `WizardUser`, `WizardEnds`, `Login`, `CallFails` | one call (Bazarr, Tautulli, Seerr), two (SABnzbd), the host settings (Servarr v3), the session (Transmission), the start-up wizard (Jellyfin); each may be refused, fail, or lose its answer |
| `WriteStatus` | the condition, from what the reconcile found or did |
| `PodStarts`, `PodRolls`, `PodRestarts` | the cluster; a Transmission reads its settings when it starts |
| `Abort` | an error returned by `?`, or a crash |

### AppReconcile

`r.pc` walks the code's order: read the Deployment, delete it if its immutable selector changed,
apply it, read it back for drift, then Service, claims, policy, ConfigMaps, API key, route,
certificate, health, replicas, status.  An object is the generation of the spec it was built from.

| Action | Code |
|---|---|
| `GetDeployment`, `DeleteDeployment` | the selector check; only an owned Deployment is deleted |
| `ApplyDeployment`, `CheckDrift` | server-side apply, `json_is_subset`, the second apply |
| `ApplyService`, `ApplyPolicy`, `ApplyConfig`, routes, `ApplyCertificate` | forced applies, each of which ends the reconcile when it fails |
| `EnsureClaim`, `EnsureKey` | created when missing, never updated |
| `CheckHealth`, `ReadReplicas`, `WriteStatus` | the throttled health poll, the ready replicas, the status with the generation observed |
| `CallFails` | any call fails, or the operator crashes |
| `TamperObject`, `TamperDeployment`, `EditSpec`, `Deliver`, `PodMoves`, ... | users, the watch, the cluster |

`Upkeep` is the contract.  A pass works by one spec, the one it knew when it began.  It may look for
a Deployment to delete, take over one with the right label, build an object its spec wants, in any
order, and end at any time; it reports the generation of its spec, and only when it has been through
all that this spec wants.  Health, replicas, drift and the order of the calls are no part of the
promise.  The mapping (`AppReconcile!Promised`) reads the pass off the handler's record: `target` is
the uid that is about to be deleted, and `done` is what lies behind the step it is at, as far as its
spec wants it.  An object is there or not, with the generation it was built from (0 if a user wrote
it), so a reconcile that falls back to older content, builds what its spec switched off or reports a
generation it did not work by is no step of the contract.  The contract says nothing against two
things, because the code does them: a Deployment of somebody else that has the right selector is
taken over, and one that replaced the condemned one between look and delete is deleted, for the
delete names no uid (`controller.rs:645`).

### CrossSync and KeyOnce

The hub's reconcile `r` reads its own key, lists the apps, reads their keys one by one, lists what
is registered and adds what is missing, call by call.  Hubs differ in what they list in one call,
in what they do with an entry that is there (leave, update, write over a slot), in what a failed
list does (give up, or skip that kind), and in whether failures are counted.  `KeyOnce` knows only
the Secrets: a draw of a fresh key where there is none, and removals.  `CrossSync` reaches it
through look-ups and creates of several reconciles that share a Secret.

Secrets go by name.  `Name(m)` is the one that m's reconcile makes, the one that `spec.apiKeySecret`
names and none when it is unset, but `<name>-api-key` for Bazarr; `HubSecret` is the one the sync
reads, which is `<name>-api-key` for Bazarr and Maintainerr.  For Maintainerr the two may differ, and a
hub or an app may name no Secret at all.  `Arrives` therefore has three cases: the operator makes the
Secret that is read (`Managed`), or a user keeps a key in it (`HasKey`), and the apps that name a Secret
are registered in the end; or the hub stays without a key, and says that it is not in sync.

Abstractions: an app is identified by its name and the URL of its Service; Maintainerr's Plex
settings (a token and a host, pushed after the loop) are left out.

### From specs to pods

`AppSpec`, `Manifests`, `Admission` and `StackExpansion` are operators, no state: an optional value
is a set of at most one element, a path is a sequence of segments, a quantity is a number (0 when
it does not parse), and of a string a rule only tells whether it is clean.  `Inputs` gives them
state and order:

| Action | Code |
|---|---|
| `PutApp`, `ApplyChild` | a user or the stack's reconcile puts a spec: `validate_handler`, with the duplicate check on create and the identity check on update |
| `StoreChecked` | what was admitted is stored; others may have been stored since |
| `PlanStack` | the stack's reconcile reads the address of the NFS server's pod, expands, validates |
| `ApplyDeployment` | `deployment::build` and its apply, which the API server refuses when list keys repeat or a mount has no volume |
| `ApplyRest` | the ConfigMaps, claims and Secrets, which come after the Deployment |
| `StartPod` | the cluster starts a pod from a new template once all it mounts exists; a running pod keeps what it mounted |
| `NfsPodMoves`, `Upgrade`, `DeleteApp`, `PutStack` | the NFS server's pod is replaced; a stored spec becomes illegible to the operator, and typed lists then fail as a whole; users |

Which children a stack creates when, its tiers and its orphans are `MediaStack`'s subject and left
out here.  A plan is a function of the places children come from: an entry's position, and whether
it is the entry's 4K instance; in which order children are applied is `MediaStack`'s subject.  The
webhook is assumed to be installed as the chart does by default (failure policy `Fail`, creates and
updates).

## What the runs check

Every run uses `FairSpec`.  The runs of `MediaStack` and `Registration` do not check deadlock
(`CHECK_DEADLOCK FALSE`): a namespace in which users stop editing and every object is gone may
stop; so may that of `Inputs`.  The other systems never stop, and their runs check deadlock.

| Run | Expect | Instance | Shows |
|---|---|---|---|
| `StackRollout` | pass | 3 apps of tiers 0, 1 and 3; timeout of 1 tick; one flap; 1 edit that makes the spec invalid | `BypassCleared`, `CreatedBehindGate`, `EveryAppCreated`, `StatusSettles` |
| `StackCleanup` | pass | Overseerr renamed to Seerr, 2 claims; 2 edits (enable, disable, NFS, invalid spec); 1 failed call or crash | `KeptVolumesSurvive`, `ChildrenFollow`, `NfsFollowsSpec`, `KeepsRollout` |
| `Registration` | pass | 1 app, both hubs; 2 edits (create, delete, reconfigure a hub); 1 fault | `OwedCleanupDone`, `DeletionCompletes`, `LiveAppsRegistered`, `GhostsRemoved`, `KeepsMembership` |
| `Backup` | pass | retention 2; 2 firings; 1 edit of the backup spec or restore annotation; 1 backup of the app's own; 2 faults | `DownOnlyWhileRestoring`, `NewestKept`, `AppComesBack`, `BackupRecorded` |
| `SelfHeal` | pass | 2 torrents of one directory, or of one each, the verify of one of them slow; interval of 1 tick; 2 losses, outages, repairs or user actions, of which one may be a trouble (edit, failed call, odd answer, crash) | `RemovedWasVerified`, `OutageSurvives`, `PassesSpaced`, `PassesRecur`, `LossReported`, `LostGoes` |
| `Credentials` | pass | one app of each of 7 kinds, with and without a key; 2 rotations, 1 restart, 1 fault | `TrueMeansApplied`, `RollsSettle`, `RotationReaches` |
| `AppReconcile` | pass | 2 specs that differ in selector, policy, route and certificate; 1 edit; 1 mishap (tampering, change of health, failed call, crash) | `ObservedIsBuilt`, `ForeignSurvives`, `Converges`, `PodsSettle`, `KeepsUpkeep` |
| `CrossSync` | pass | 12 scenes: a hub, 2 apps, a split pair that shares a Secret and one that does not, 2 apps for Maintainerr's slots, hubs that name the Secret they read, another one or none, an app without one; any of the apps there at first; 1 edit; 1 fault | `TypeOK`, `KeysWrittenOnce`, `ReadyIsRegistered`, `Arrives` |
| `Inputs` | pass | for each kind of app some 28 specs (more for those with a configuration of their own: instances of Unpackerr, SSH users with and without keys and with other keys) and any other in its place; 2 names that compete for 2 identities, 4 edits and an upgrade; 7 stacks (one with three instances of one app), 2 edits, 1 or 2 moves of the NFS server | `TwinsRaced`, `ConfigReaches`, `PairApart`, `AdmittedRuns`, `ServerFollows` |
| `StackCascade` | violation | as `StackRollout` | one elapsed timer bypasses several tiers in one reconcile |
| `RegistrationLost` | violation | as `Registration`, no faults | the second finalizer patch undoes the first |
| `RestoreLoops` | violation | 1 annotation, no faults | a restore never completes and cycles the app |

The bounds are enough because of what they let happen.  Three apps on three tiers are the fewest
for which one tier can be passed by timeout while another waits; one tick of timeout separates
"just started" from "elapsed", and the tick may come between any two calls.  One flap makes a
ready, a degraded and a rolling stack out of the same apps.  Two claims are the fewest for which
one detach fails and the other succeeds.  Two edits delete an app and create it again, or switch
a hub off under a deletion.  One fault may hit any call, or be a crash at any point; the
theorems below remove all these bounds for the safety properties.  For backups, retention 2 and
two firings let the pruning loop delete one backup and fail on another; a status the watch has not
delivered makes the operator store duplicates besides.  Two faults are a failed restore or a crash
that leaves the app down, and another one while it is brought back.  Two torrents are the fewest
the directory check counts, and the fewest of which one can show that the directory is mounted
while the other is lost; in one directory or in two, as the check counts by directory.  Two events
lose a torrent and bring it back, or unmount a directory in the middle of a pass and mount it again.
The verify of one torrent outlasts the polling as often as it likes, so that the other one is a
bystander of its batch.  An interval of one tick tells a fresh timestamp from an old one; longer ones
are the theorem's (`VerifiesSpaced`).  In `StackRollout` the one edit makes the spec invalid in the
middle of a rollout, from which a stack either settles as invalid or, without the edit, as ready; in
`StackCleanup` two edits can also make it valid again.

Two rotations are the fewest that can tear a pair that a half-done push has torn before.  One edit
between two variants makes every object of `AppReconcile` appear, change or disappear.  In
`CrossSync` two apps are the fewest that share a Secret or a slot, or of which one call fails and
one succeeds.  The specs of `MCInputs` are chosen by rule: each field a builder or the webhook reads
is set at least once for every kind, and where two sources of one name meet (default and user,
stack and entry, operator and user) there is a spec with both.  An exhaustive product of the fields
is out of reach; a clash of three sources at once would not be found.

### Findings

Three runs show a disagreement between the code and what its own comments and docs say;
`PROJECT.json` quotes the lines.

- `StackCascade`: after one timeout, tiers that were created a moment ago are bypassed at once.
- `RegistrationLost`: a reconcile that adds both finalizers drops the first one again.  The next
  reconcile restores it; an app deleted in between has only Seerr's cleanup to hold it.
- `RestoreLoops`: the restore is asked of an app that was scaled to zero one step before.  The
  call fails, the annotation stays, and every reconcile takes the app down and up again.

### Observations

What the models met besides, without a run of its own.

*Against a doc or a comment:*

- A stuck orphan that makes the webhook reject the renamed child is in no status: the error returns
  (`media_stack_controller.rs:306`) before the status is written (comment at 813-815).
- The guard against verifying again what is being verified looks at the moment of the listing only:
  a verify that outlasts the polling and ends before the next pass is started again, for ever
  (`remediate.rs:191-196`, against the doc at 43-47), so that its torrent is never removed, and holds
  back its batch.
- While such a verify runs the client shows no error, so a pass that lists meanwhile writes the
  condition `True` although data is gone, and the next pass takes it back (`LossReported`: a loss is
  reported time and again, and for good where no slow verify holds the torrent back).
- A lost torrent is detected, verified and removed in one pass, where `docs/configuration.md:802`
  says that no torrent is removed in the pass that detected it; and a reconcile on a status that is
  not delivered yet verifies twice in one interval (804), because the last pass is read from it.
- A Jellyfin whose user was renamed or whose password was rotated cannot be logged into by the new
  pair, which is the only one the operator has (`jellyfin.rs:361`, `docs/admin-credentials.md:179`).
- Maintainerr's sync reads the Secret `<name>-api-key` (`controller.rs:3556`), while the operator
  creates the one that `apiKeySecret` names, and none when it is unset (1291-1300), where
  `docs/configuration.md:999` says that the operator manages the key and none is needed.  Without
  `apiKeySecret`, or with one of another name, nothing is registered unless a user stores a key under
  the name that is read; two scenes of `CrossSync` are of this kind.  An app without `apiKeySecret` is
  registered nowhere.
- Subgen's sync (`controller.rs:4054`) applies a Deployment of nothing but two variables with the
  field manager of the main apply.  A manager gives up the fields that its next apply leaves out,
  image and selector among them, so the API server must refuse it; had it not, the next main apply
  would remove the variables.  The checksum patch at 1385 uses a manager of its own for that reason,
  and `docs/superpowers/plans/2026-04-13-bazarr-subgen.md:1059` planned one for this patch.

*What the webhook admits although it cannot run as written* (the conjuncts of `Exempt` in `Inputs`,
which `AdmittedRuns` asserts to be all there is, in both directions):

- `NeededRemoved`: a default volume is removed that an init container mounts.
- `VariableTaken`: a user's variable has the name of one that the operator adds behind the user's
  (an API key variable with `apiKeySecret`, Transmission's login, the bastion's `MOTD`, which the list
  of managed names at `deployment.rs:789` lacks): the apply is refused.
- `UserTaken`: two SSH users of one name, or a volume named or mounted like a user's home.
- `PortTaken`: the peer port is a service port, or two ports share a name or number.
- `PortElsewhere`: `containerPort` differs from `port`.  The Service sets no target port
  (`service.rs:17-26`) and so leads to a port nobody opened, against `docs/networking.md:75`.
- `RefusesItself`: a non-root profile with user 0.

*Else:* a Deployment is applied before the ConfigMaps and Secrets its checksum is of, so a failure
in between leaves a pod with the old files for good (`ConfigReaches` is about pods that were
started after; no property covers that window); the init scripts are in no checksum, and what keeps
Unpackerr's pods up to date is that the container that runs the script has variables for each
instance that the script has a block for; an instance changed from unset to empty is an identity change for an update and the
same identity for a create, while the child of an empty instance has a name that ends in `-`, which
the API server refuses; a split entry with a `serviceName` and no override gives both children one
Service, one with an NFS mount in the stack's defaults gives both that mount, and nothing hinders a
user from giving both instances one directory of the NFS server.  A child that flaps between two
tiers restarts the rollout timer; `autoRemove` removes a live app's registration when its key
cannot be read, and the next sync restores it; a sync that overlaps a deletion registers the app
again, and without `autoRemove` that entry stays, while the cleanup of a deleted app unregisters it
whether `autoRemove` is set or not; a key Secret that cannot be read once makes the backup status
forget the time of the last backup, and the next reconcile makes another one; Prowlarr's entry of
an app whose key was rotated is not updated; an outage that begins between a listing and its verify
is not seen by the directory check; a reconcile of a deleted app may patch the finalizers of a new
one of its name; a self-heal pass that is skipped on a stale status writes the older condition over
the newer one (this is why `PassesSpaced` asks that *every* pass began with the last status).

### Fairness

`MediaStack`: weak fairness of `Handler` (every outcome of the handler requeues it, and the
runtime polls the task it awaits), of `Deliver` (the watch reconnects), of `Tick`, and of
`ChildGone` (a terminating child's own controller retries until its finalizers are gone, which is
`DeletionCompletes`).  Nothing makes a child become ready, so `EveryAppCreated` holds for a stack
whose apps never start.  `Registration`: weak fairness of `Deliver` and of the reconcile of each
app, and of each hub's sync (requeued every 300 s).  `AppBackup`: weak
fairness of `Handler`, of `Deliver` and of `PodMoves` (a Deployment with one replica starts its
pod, one without stops it); neither the schedule nor a user is fair.  `SelfHeal`: weak fairness of
`Handler`, `Deliver` and `Tick`, and of what the client does with each torrent (it notices missing
data, begins and ends its verifies).  `Credentials` and `AppReconcile`: weak fairness of the
handler, which every outcome requeues, of the watch, of the clock that ages a health reading, and of
the cluster that starts and rolls pods.  `CrossSync`: of the hub's sync and of each reconcile that
ensures a Secret.  `Inputs`: of the stack's and each app's reconcile, of requests that were admitted
(they end), and of the cluster that starts pods; with an illegible spec stored, reconciles stop, and
the liveness properties say so.  No fault is fair and every fault is bounded:
liveness is about a system in which calls eventually succeed.

## What is proved

TLAPS proves, for every value of the constants that satisfies the named assumptions
(`TimeoutAssumption`, `BoundsAssumption`, `AppAssumption`, `TierAssumption`;
`ServesAssumption`, `InitialAssumption`, `BoundsAssumption`; `RetentionAssumption`,
`BoundsAssumption`; `TorrentAssumption`, `IntervalAssumption`, `BoundsAssumption`; and likewise
those of `Credentials`, `AppReconcile` and `CrossSync`; `StacksAssumption` of `Inputs`, that stacks
and specs have the fields of their types), and so for any number of apps, claims, torrents, edits,
faults and flaps:

- `MediaStack_proofs!TypeCorrect`: `Spec => []TypeOK`.
- `MediaStack_proofs!VolumesSurvive`: `Spec => []KeptVolumesSurvive`.  The property is not
  inductive: a claim that is still owned is one deletion away from being doomed.  `VolumeInv` adds
  `DetachedFirst`, that every claim of the child being cleaned up which the handler is done with,
  and which did not fail, is detached, and that once the child is not live all its kept claims are;
  and `OneChild`, that the handler cleans up one child at a time.
- `MediaStack_proofs!CreationIsGated`: `Spec => CreatedBehindGate`.  `GateInv` says what the
  boolean `clear` stands for: while it is true, every wanted child the loop is done with was seen
  ready or is bypassed; and within a tier, every wanted child of a lower tier was.  Only
  `ApplyChild` creates a child (`OnlyApplyCreates`).
- `MediaStack_proofs!BypassesCleared`: `Spec => []BypassCleared`.  A status comes from a pass,
  and a pass takes bypass flags over from a status that may be older; `PassInv` says that no pass holds
  an app as ready and bypassed, or as anything it does not want.
- `MediaStack_proofs!RolloutKept`: `Spec => KeepsRollout`.  Each action maps to a step of `Rollout`
  or a stutter.  `GateInv` gives the guard of a creation, `PassInv` those of finding ready and giving
  up, and that an orphan is never wanted by the pass that removes it gives the guard of a removal.
- `Registration_proofs!TypeCorrect`: `Spec => []TypeOK`, with the API server's rule that an object
  without finalizers does not linger.
- `Registration_proofs!CleanupBeforeGone`: `Spec => []OwedCleanupDone`.  The difficulty is the
  stale list: the patch that releases finalizers replaces the whole list.  `TerminatingCopy` says
  that a terminating copy knows every finalizer still on the object (the API server lets none be
  added), and `LiveCopy` that a live copy lacks at most one.  Both hold for the first object of a
  name only: a reconcile that outlives it may act on its successor, which is why the property is
  stated for `life = 1`.
- `Registration_proofs!MembershipKept`: `Spec => KeepsMembership`.  `CInv` joins the invariant above,
  which gives that a vanished first app owes nothing; `SyncInv`, that a sync holds only apps its hub
  serves, those it found until it has listed the registrations, and what to add and remove after
  that; and `LiveUncleaned`, that an app that lives has no cleanup on record, so that its deletion
  makes every hub its finalizers name due.
- `AppBackup_proofs!TypeCorrect`, `NeverLeftDown`, `NewestSurvive`: `Spec => []TypeOK`,
  `Spec => []DownOnlyWhileRestoring`, `Spec => NewestKept`, for every retention count, 0 included.
  `PruningInv` is what the loop knows: while something is left to prune, the backups it spared,
  those it will prune and the retained ones are all stored.  It also makes `stored` a natural
  number, so the types cannot be proved without it.
- `SelfHeal_proofs!TypeCorrect`, `RemovalsVerified`, `OutagesSurvive`, `VerifiesSpaced`:
  `Spec => []TypeOK`, `Spec => []RemovedWasVerified`, `Spec => []OutageSurvives`,
  `Spec => PassesSpaced`.  `RemovalInv` follows a batch from the request to the answer: every
  torrent of it waits for its verify, is in it, was found without data by one that ended since, or
  shows data.  `OutageInv` carries the directory check of the listing to the removal; that an
  outage which shows as a whole is one the check finds rests on the finite count of torrents.
  `SpacedInv` relates the stored timestamp, the one about to be written and the age of the last
  verify; it holds only as long as nothing went wrong.  The directories stay as they were chosen at
  first (`LayoutFixed`), whatever the layouts are.
- `Credentials_proofs!TypeCorrect`, `TrueIsApplied`: `Spec => []TypeOK`,
  `Spec => TrueMeansApplied`.  `ReadIsFresh` bounds what the reconcile read, in whichever call, by
  its own start; `HalfPushed` says that what the first call of a push set is still there at the last.
- `AppReconcile_proofs!TypeCorrect`, `ReportIsBuilt`, `ForeignKept`: `Spec => []TypeOK`,
  `Spec => ObservedIsBuilt`, `Spec => ForeignSurvives`.  `PassedIsBuilt` lists, for each step of the
  reconcile, the objects it has been through and says that they are as its spec wants; `SeenOwned`
  keeps the owner and the selector that were seen for as long as the uid is the same.
- `AppReconcile_proofs!UpkeepKept`: `Spec => KeepsUpkeep`.  Each action maps to a step of `Upkeep` or
  a stutter; `SeenOwned` gives the guard of `Remove`.  That a report finds everything done needs no
  invariant, because what is done is read off the step; the work is in the steps, each of which has to
  add to it exactly what it built.  The contract is stronger than `ObservedIsBuilt` where users
  interfere: a status that names the newest generation instead of the pass's own breaks it alone.
- `AppReconcile_proofs!NothingGoesBack`, which no run checks: in every step the generation in the
  status does not go down, and neither does that of the Deployment's template or of any other object,
  unless a user interferes.  `InOrder` says why: objects and status are no newer than the running
  reconcile's spec, that is no newer than the cache, and the cache no newer than the app.
- `CrossSync_proofs!KeysAreARegister`: `Spec => KeyRegister!Spec`.  Initial states map to initial
  states, and each step of the detailed specification to a draw, a removal or a stutter.
- `CrossSync_proofs!TypeCorrect`, `ReadyMeansRegistered`: `Spec => []TypeOK`,
  `Spec => ReadyIsRegistered`.  `TypeOK` says that a hub has one entry per app, which is a
  property and not only a type: the sync adds what a list taken some calls ago does not show.  The
  invariant is that the list is *still* right about every app that is about to be added, because
  only this sync registers apps and it pushes each app once, lost answer or not (`BatchInv`); and
  that every app it found is registered, or its turn is still to come, unless a call failed that
  is counted (`RegisterInv`).
- `Inputs_proofs!TwinsOnlyByRace`: `Spec => []TwinsRaced`.  The property says nothing of a create in
  review; `InReview` adds that such a create has another identity than every app its check saw, which
  holds on because no update changes an identity (`KeptIdentity`).
- `Inputs_proofs!ChecksumCovers`: `Spec => []ConfigReaches`, for every set of specs and stacks.  A
  pod is compared with objects that later applies wrote, and only its template says whether it is
  replaced.  `TemplateTells` and `ChecksumTells` are the lemmas about the builders: two specs of one
  template have one checksum (a spec without data has none), and two specs of one checksum agree on
  all that the builders copy, save the init scripts, which the checksum is not of; `InitTells` has
  those from the variables of the init container (`EnvTells`).  So they agree on all that the template
  mounts (`SameContents`).
  `PodInv` says that only specs whose Deployment the API server took are built, mounted or run.
- `Inputs_proofs!ChildrenApart`: `Spec => []PairApart`, for every stack, defaults, overrides and
  address of the NFS server.  `PlanInv` says that a plan is what the expansion makes of some valid
  stack with some address.  Two children of one kind have two names, because the reconcile turns
  down a stack that repeats a name, and a name tells the instance (`InstancesDiffer`).  What a child
  mounts comes from the entry, its overrides, the stack's defaults and the injection, in merges by
  name; `ByNameKeeps`, `MergeKeeps` and `InjectKeeps` say what a merge keeps, from an enumeration
  of the first occurrences (`InOrderExists`, by induction on a natural number).  So a mount that no
  user wrote is the injected one, and the injected ones of a pair are of two directories of the
  server unless the user gave both one.
- `Inputs_proofs!PlansFollow`, the safety half of `ServerFollows`: a plan made for the address at hand
  mounts an in-cluster NFS server from that address and no other, save what users wrote.

Each invariant was checked by TLC before it was proved.  `TypeOK` of `MediaStack`, `Registration`,
`AppBackup`, `SelfHeal`, `Credentials` and `AppReconcile` is proved and no longer part of a run.  All
invariants and all action properties of the runs, and the four contracts, are now theorems.

Only model-checked: everything under fairness (`EveryAppCreated`, `ChildrenFollow`, `StatusSettles`,
`NfsFollowsSpec`, `DeletionCompletes`, `LiveAppsRegistered`, `GhostsRemoved`, `AppComesBack`,
`BackupRecorded`, `PassesRecur`, `LossReported`, `LostGoes`, `RollsSettle`, `RotationReaches`,
`Converges`, `PodsSettle`, `Arrives`, `AdmittedRuns`, `ServerFollows`), which is out of the prover's
reach, as is everything that speaks of ENABLED.

## What is not modelled

Of the modelled components: the text of events, conditions and metrics; the fields of
registrations and children that no decision reads.  Of those modelled in part:

- resource builders: the text of scripts and settings files, egress rules, labels, the manifests of
  the NFS server itself;
- syncs: Maintainerr's Plex settings, and Subgen's patch (above), which needs the field ownership of
  server-side apply that `AppReconcile` has only as "extra fields survive";
- API clients: URLs, headers, JSON and retries inside the HTTP library; the outcome of a call (done,
  refused, failed, done but the answer lost) is part of the callers' actions.

Not at all: the process shell (start-up checks, the health server, metrics, the drain of event
publications at shutdown: no state a reconcile reads), and charts, scripts and docs.  The unit tests
inside the source files, about half of their lines, are read as statements of intent.

## Plan

What would come next, in this order:

1. Contracts for the components that have none yet, with the same two proofs: `AppBackup` (what is
   stored, pruned and down) and `SelfHeal` (what may be verified and removed).
2. Field ownership of server-side apply as a module of its own, under `AppReconcile`, the checksum
   patch of `Credentials` and Subgen's patch.
3. The cron normalisation of the backup schedule, and the egress rules, as operators in `AppBackup`
   and `Manifests`.
