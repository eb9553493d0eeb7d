----------------------------- MODULE MediaStack -----------------------------
(***************************************************************************)
(* The MediaStack controller: one reconcile handler that cleans up         *)
(* orphaned children, applies the wanted children tier by tier, gives up   *)
(* on a blocked tier after a timeout, and publishes what it saw in the     *)
(* stack's status.  The handler runs one awaited call at a time; users,    *)
(* the children's own controller, the garbage collector and the clock run  *)
(* between any two calls.                                                  *)
(*                                                                         *)
(* A timer is kept as its age in ticks, saturated at Timeout, instead of   *)
(* as a timestamp: the code only ever compares "now - since" with the      *)
(* timeout.  One tick is an arbitrary fraction of that timeout.            *)
(***************************************************************************)
EXTENDS Integers

CONSTANTS
  App,        \* child names
  Tier,       \* Tier[c]: rollout tier of child c
  Identity,   \* Identity[c]: the app type and instance the webhook compares
  Legacy,     \* children left under an old name by an earlier operator
  Volume,     \* the PersistentVolumeClaims each child has
  Enabled0,   \* the apps enabled in the initial spec
  Timeout,    \* TIER_TIMEOUT_SECS, in ticks
  Editable,   \* bound: the parts of the stack's spec that users edit
  MaxEdits,   \* bound: edits of the stack's spec
  MaxFaults,  \* bound: failed calls and operator crashes
  MaxFlaps    \* bound: times a ready child becomes unready

ASSUME TimeoutAssumption == Timeout \in Nat \ {0}
ASSUME BoundsAssumption  == MaxEdits \in Nat /\ MaxFaults \in Nat /\ MaxFlaps \in Nat
ASSUME AppAssumption     == Legacy \subseteq App /\ Enabled0 \subseteq App \ Legacy
ASSUME TierAssumption    == Tier \in [App -> 0..3]
ASSUME IdentityAssumption ==
  \A c, d \in App \ Legacy : Identity[c] = Identity[d] => c = d

VARIABLES
  spec,    \* the stack's spec in the API server
  status,  \* the stack's status in the API server
  cache,   \* the stack object the operator's watch has delivered
  child,   \* child[c]: "absent", "live" or "terminating"
  ready,   \* children whose own status says ready
  pvc,     \* pvc[c][v]: "none", "owned", "detached" or "doomed" (its owner is gone)
  nfs,     \* the in-cluster NFS server objects that exist
  r,       \* the running reconcile
  edits, faults, flaps,
  kept     \* history: volumes a live orphan had when a reconcile listed it

vars == <<spec, status, cache, child, ready, pvc, nfs, r, edits, faults, flaps, kept>>
cluster == <<child, ready, pvc, nfs>>
bounds  == <<edits, faults, flaps>>

NoTier     == -1
NoTimer    == -1
NfsObjects == {"StatefulSet", "Service"}

Status == [tier     : -1..3,
           timer    : -1..Timeout,
           bypassed : SUBSET App,
           ready    : SUBSET App,
           phase    : {"Pending", "RollingOut", "Ready", "Degraded"},
           stuck    : SUBSET App,
           valid    : BOOLEAN]

\* MediaStackStatus::default(); Valid is not judged yet.
DefaultStatus == [tier |-> NoTier, timer |-> NoTimer, bypassed |-> {}, ready |-> {},
                  phase |-> "Pending", stuck |-> {}, valid |-> TRUE]

Spec_ == [enabled : SUBSET App, valid : BOOLEAN, nfs : BOOLEAN]
Stack == [spec : Spec_, status : Status]

Run == [pc       : {"idle", "nfs", "validate", "loop", "detach", "delete",
                    "apply", "read"},
        want     : SUBSET App,              \* desired_children
        prev     : Status,                  \* stack.status as cached at the start
        spec     : Spec_,                   \* stack.spec as cached at the start
        nfsTodo  : SUBSET NfsObjects,
        orphans  : SUBSET App,              \* children still to clean up
        volumes  : SUBSET Volume,           \* volumes of the orphan still to detach
        failed   : BOOLEAN,                 \* detach_failure
        child    : SUBSET App,              \* the one child the current call is about
        stuck    : SUBSET App,              \* stuck_orphans
        todo     : SUBSET App,              \* wanted apps of tiers not visited yet
        queue    : SUBSET App,              \* apps of the current tier to apply
        tier     : -1..3,                   \* current_tier
        clear    : BOOLEAN,                 \* all_previous_ready
        seen     : SUBSET App,              \* apps read back as ready
        bypassed : SUBSET App]

Idle == [pc |-> "idle", want |-> {}, prev |-> DefaultStatus,
         spec |-> [enabled |-> {}, valid |-> TRUE, nfs |-> FALSE],
         nfsTodo |-> {}, orphans |-> {}, volumes |-> {}, failed |-> FALSE,
         child |-> {}, stuck |-> {}, todo |-> {}, queue |-> {}, tier |-> NoTier,
         clear |-> TRUE, seen |-> {}, bypassed |-> {}]

PvcState == {"none", "owned", "detached", "doomed"}

TypeOK ==
  /\ spec \in Spec_
  /\ status \in Status
  /\ cache \in Stack
  /\ child \in [App -> {"absent", "live", "terminating"}]
  /\ ready \in SUBSET App
  /\ pvc \in [App -> [Volume -> PvcState]]
  /\ nfs \in SUBSET NfsObjects
  /\ r \in Run
  /\ edits \in 0..MaxEdits /\ faults \in 0..MaxFaults /\ flaps \in 0..MaxFlaps
  /\ kept \in SUBSET (App \X Volume)

Init ==
  /\ spec = [enabled |-> Enabled0, valid |-> TRUE, nfs |-> FALSE]
  /\ status = DefaultStatus
  /\ cache = [spec |-> spec, status |-> status]
  /\ child = [c \in App |-> IF c \in Legacy THEN "live" ELSE "absent"]
  /\ ready = {}
  /\ pvc = [c \in App |-> [v \in Volume |-> IF c \in Legacy THEN "owned" ELSE "none"]]
  /\ nfs = {}
  /\ r = Idle
  /\ edits = 0 /\ faults = 0 /\ flaps = 0
  /\ kept = {}

-----------------------------------------------------------------------------
(* Environment: users, the watch, the clock, the children and the cluster. *)

\* A user edits spec.apps or spec.nfs; an edit may make the spec invalid
\* (a duplicate app+instance, a bad split4k) and a later one repair it.
EditSpec ==
  /\ edits < MaxEdits
  /\ edits' = edits + 1
  /\ \/ /\ "apps" \in Editable
        /\ \E c \in App \ Legacy :
             spec' = [spec EXCEPT !.enabled = IF c \in @ THEN @ \ {c} ELSE @ \union {c}]
     \/ "valid" \in Editable /\ spec' = [spec EXCEPT !.valid = ~@]
     \/ "nfs" \in Editable /\ spec' = [spec EXCEPT !.nfs = ~@]
  /\ UNCHANGED <<status, cache, cluster, r, faults, flaps, kept>>

\* The watch delivers the current stack object to the operator's cache.
Deliver ==
  /\ cache' = [spec |-> spec, status |-> status]
  /\ UNCHANGED <<spec, status, cluster, r, bounds, kept>>

Aged(s) == [s EXCEPT !.timer = IF @ \in 0..(Timeout - 1) THEN @ + 1 ELSE @]

\* Time passes: every copy of the timestamp grows older together.
Tick ==
  /\ status' = Aged(status)
  /\ cache' = [cache EXCEPT !.status = Aged(@)]
  /\ r' = [r EXCEPT !.prev = Aged(@)]
  /\ UNCHANGED <<spec, cluster, bounds, kept>>

\* The child's own reconcile creates a volume only if no claim of that name exists.
ChildProvision(c, v) ==
  /\ child[c] = "live"
  /\ pvc[c][v] = "none"
  /\ pvc' = [pvc EXCEPT ![c][v] = "owned"]
  /\ UNCHANGED <<spec, status, cache, child, ready, nfs, r, bounds, kept>>

\* The child's own reconcile reports it ready; its pod needs every volume bound.
ChildReady(c) ==
  /\ child[c] = "live" /\ c \notin ready
  /\ \A v \in Volume : pvc[c][v] # "none"
  /\ ready' = ready \union {c}
  /\ UNCHANGED <<spec, status, cache, child, pvc, nfs, r, bounds, kept>>

ChildUnready(c) ==
  /\ child[c] = "live" /\ c \in ready
  /\ flaps < MaxFlaps
  /\ flaps' = flaps + 1
  /\ ready' = ready \ {c}
  /\ UNCHANGED <<spec, status, cache, child, pvc, nfs, r, edits, faults, kept>>

\* Claims owned by child c once its object is gone: their owner uid is dangling.
Disowned(c) ==
  [pvc EXCEPT ![c] = [v \in Volume |-> IF pvc[c][v] = "owned" THEN "doomed" ELSE pvc[c][v]]]

\* The last finalizer of a terminating child is removed and its object goes away.
ChildGone(c) ==
  /\ child[c] = "terminating"
  /\ child' = [child EXCEPT ![c] = "absent"]
  /\ ready' = ready \ {c}
  /\ pvc' = Disowned(c)
  /\ UNCHANGED <<spec, status, cache, nfs, r, bounds, kept>>

\* The garbage collector deletes a claim whose owner no longer exists.
Collect(c, v) ==
  /\ pvc[c][v] = "doomed"
  /\ pvc' = [pvc EXCEPT ![c][v] = "none"]
  /\ UNCHANGED <<spec, status, cache, child, ready, nfs, r, bounds, kept>>

-----------------------------------------------------------------------------
(* The reconcile handler. *)

\* The handler starts from the cached object: spec and status may both be stale.
Begin ==
  /\ r.pc = "idle"
  /\ r' = [Idle EXCEPT !.pc = "nfs", !.prev = cache.status, !.spec = cache.spec,
                       !.nfsTodo = NfsObjects]
  /\ UNCHANGED <<spec, status, cache, cluster, bounds, kept>>

\* reconcile_nfs_server, in order: the StatefulSet, then the Service.
NfsNext == IF "StatefulSet" \in r.nfsTodo THEN "StatefulSet" ELSE "Service"

NfsDone(todo) == [r EXCEPT !.nfsTodo = todo, !.pc = IF todo = {} THEN "validate" ELSE "nfs"]

\* Mutant: objects of a server that was switched off are left behind.
NfsAfterNoDelete == IF r.spec.nfs THEN nfs \union {NfsNext} ELSE nfs

NfsAfter == IF r.spec.nfs THEN nfs \union {NfsNext} ELSE nfs \ {NfsNext}

NfsCall ==
  /\ r.pc = "nfs"
  /\ nfs' = NfsAfter
  /\ r' = NfsDone(r.nfsTodo \ {NfsNext})
  /\ UNCHANGED <<spec, status, cache, child, ready, pvc, bounds, kept>>

\* A failed delete is only logged (a failed apply ends the reconcile, see Abort).
NfsDeleteFails ==
  /\ r.pc = "nfs" /\ ~r.spec.nfs
  /\ faults < MaxFaults /\ faults' = faults + 1
  /\ r' = NfsDone(r.nfsTodo \ {NfsNext})
  /\ UNCHANGED <<spec, status, cache, cluster, edits, flaps, kept>>

\* Mutant: an invalid spec ends the reconcile and leaves the status as it is.
RejectSpecSilent ==
  /\ r.pc = "validate" /\ ~r.spec.valid
  /\ r' = Idle
  /\ UNCHANGED <<spec, status, cache, cluster, bounds, kept>>

\* An invalid spec replaces the whole status and ends the reconcile.
RejectSpec ==
  /\ r.pc = "validate" /\ ~r.spec.valid
  /\ status' = [DefaultStatus EXCEPT !.valid = FALSE]
  /\ r' = Idle
  /\ UNCHANGED <<spec, cache, cluster, bounds, kept>>

\* Mutant: what is an orphan is judged by the spec as it is now.
OrphansNow == {c \in App : child[c] # "absent"} \ spec.enabled

\* The labelled children that the spec no longer wants.
Orphans == {c \in App : child[c] # "absent"} \ r.spec.enabled

\* Expand the spec, then list the children that carry the stack's label.
ListChildren ==
  /\ r.pc = "validate" /\ r.spec.valid
  /\ r' = [r EXCEPT !.pc = "loop", !.want = r.spec.enabled, !.todo = r.spec.enabled,
                    !.orphans = Orphans]
  /\ kept' = kept \union {x \in Orphans \X Volume :
                /\ child[x[1]] = "live"
                /\ pvc[x[1]][x[2]] \in {"owned", "detached"}}
  /\ UNCHANGED <<spec, status, cache, cluster, bounds>>

\* cleanup_orphaned_children takes the next orphan of the list.
PickOrphan(c) ==
  /\ r.pc = "loop" /\ c \in r.orphans
  /\ r' = [r EXCEPT !.pc = "detach", !.child = {c}, !.orphans = @ \ {c},
                    !.volumes = Volume, !.failed = FALSE]
  /\ UNCHANGED <<spec, status, cache, cluster, bounds, kept>>

\* Clear the claim's ownerReferences; a claim that does not exist (404) is fine.
Detach(c, v) ==
  /\ r.pc = "detach" /\ c \in r.child /\ v \in r.volumes
  /\ pvc' = [pvc EXCEPT ![c][v] = IF @ = "none" THEN "none" ELSE "detached"]
  /\ r' = [r EXCEPT !.volumes = @ \ {v}]
  /\ UNCHANGED <<spec, status, cache, child, ready, nfs, bounds, kept>>

\* A failure is remembered and the loop goes on with the other claims.
DetachFails(v) ==
  /\ r.pc = "detach" /\ v \in r.volumes
  /\ faults < MaxFaults /\ faults' = faults + 1
  /\ r' = [r EXCEPT !.volumes = @ \ {v}, !.failed = TRUE]
  /\ UNCHANGED <<spec, status, cache, cluster, edits, flaps, kept>>

\* Mutant: the orphan is deleted although one of its claims is still attached.
DetachFailedIgnored == FALSE

DetachFailed == r.failed

\* Any failed detach leaves the orphan for the next reconcile.
DetachEnds ==
  /\ r.pc = "detach" /\ r.volumes = {}
  /\ r' = IF DetachFailed
            THEN [r EXCEPT !.pc = "loop", !.stuck = @ \union r.child, !.child = {},
                           !.failed = FALSE]
            ELSE [r EXCEPT !.pc = "delete"]
  /\ UNCHANGED <<spec, status, cache, cluster, bounds, kept>>

\* Delete the orphan: gone at once, or terminating if it holds a finalizer.
DeleteOrphan(c) ==
  /\ r.pc = "delete" /\ c \in r.child
  /\ \/ /\ child[c] # "terminating"
        /\ child' = [child EXCEPT ![c] = "absent"]
        /\ ready' = ready \ {c}
        /\ pvc' = Disowned(c)
     \/ /\ child[c] # "absent"
        /\ child' = [child EXCEPT ![c] = "terminating"]
        /\ UNCHANGED <<ready, pvc>>
  /\ r' = [r EXCEPT !.pc = "loop", !.child = {}]
  /\ UNCHANGED <<spec, status, cache, nfs, bounds, kept>>

DeleteFails ==
  /\ r.pc = "delete"
  /\ faults < MaxFaults /\ faults' = faults + 1
  /\ r' = [r EXCEPT !.pc = "loop", !.stuck = @ \union r.child, !.child = {}]
  /\ UNCHANGED <<spec, status, cache, cluster, edits, flaps, kept>>

\* Mutant: the wanted children are applied before the orphans are cleaned up.
InTierLoopAtOnce == r.pc = "loop"

\* Only after the whole cleanup does the loop over the tiers start.
InTierLoop == r.pc = "loop" /\ r.orphans = {}

\* c belongs to the lowest tier that the loop has not visited.
InNextTier(c) == c \in r.todo /\ \A d \in r.todo : Tier[c] <= Tier[d]

\* The timer of the previous status, whichever tier it was started for.
TimedOut == r.prev.timer >= Timeout

\* Mutant: off by one, tier 1 never waits.
BlockedFromTier2(t) == t > 1 /\ ~r.clear

Blocked(t) == t > 0 /\ ~r.clear

\* Not clear and not timed out: the tier's apps are only reported as not ready.
SkipTier ==
  /\ InTierLoop /\ r.todo # {}
  /\ \E c \in r.todo :
       /\ InNextTier(c) /\ Blocked(Tier[c]) /\ ~TimedOut
       /\ r' = [r EXCEPT !.todo = {d \in r.todo : Tier[d] # Tier[c]}]
  /\ UNCHANGED <<spec, status, cache, cluster, bounds, kept>>

\* Every app reported so far that is not ready is given up on.
GivenUp == r.bypassed \union ((r.want \ r.todo) \ r.seen)

CurrentTier(c) == Tier[c]

EnterTier ==
  /\ InTierLoop /\ r.todo # {}
  /\ \E c \in r.todo :
       /\ InNextTier(c) /\ (Blocked(Tier[c]) => TimedOut)
       /\ r' = [r EXCEPT
                  !.pc = "apply",
                  !.tier = CurrentTier(c),
                  !.clear = @ \/ Blocked(Tier[c]),
                  !.bypassed = IF Blocked(Tier[c]) THEN GivenUp ELSE @,
                  !.queue = {d \in r.todo : Tier[d] = Tier[c]},
                  !.todo = {d \in r.todo : Tier[d] # Tier[c]}]
  /\ UNCHANGED <<spec, status, cache, cluster, bounds, kept>>

\* The webhook admits a new child only if no other one has its identity.
Admitted(c) ==
  \/ child[c] # "absent"
  \/ \A d \in App \ {c} : child[d] # "absent" => Identity[d] # Identity[c]

\* Server-side apply creates the child or updates it in place.
ApplyChild(c) ==
  /\ r.pc = "apply" /\ c \in r.queue /\ Admitted(c)
  /\ child' = [child EXCEPT ![c] = IF @ = "absent" THEN "live" ELSE @]
  /\ r' = [r EXCEPT !.pc = "read", !.child = {c}, !.queue = @ \ {c}]
  /\ UNCHANGED <<spec, status, cache, ready, pvc, nfs, bounds, kept>>

\* The webhook's rejection is an error of the apply, which ends the reconcile.
ApplyRejected(c) ==
  /\ r.pc = "apply" /\ c \in r.queue /\ ~Admitted(c)
  /\ r' = Idle
  /\ UNCHANGED <<spec, status, cache, cluster, bounds, kept>>

\* Mutant: the bypass flag sticks to an app that became ready.
StillBypassedForever(c, up) == c \in r.prev.bypassed

StillBypassed(c, up) == c \in r.prev.bypassed /\ ~up

\* read_child_ready answered `up`: a bypassed app does not block the next tier.
Record(c, up) ==
  r' = [r EXCEPT !.pc = IF r.queue = {} THEN "loop" ELSE "apply",
                 !.child = {},
                 !.seen = IF up THEN @ \union {c} ELSE @,
                 !.clear = @ /\ (up \/ c \in r.prev.bypassed),
                 !.bypassed = IF StillBypassed(c, up) THEN @ \union {c} ELSE @]

ReadChild(c) ==
  /\ r.pc = "read" /\ c \in r.child
  /\ Record(c, c \in ready)
  /\ UNCHANGED <<spec, status, cache, cluster, bounds, kept>>

\* A failed read counts as not ready.
ReadFails(c) ==
  /\ r.pc = "read" /\ c \in r.child
  /\ faults < MaxFaults /\ faults' = faults + 1
  /\ Record(c, FALSE)
  /\ UNCHANGED <<spec, status, cache, cluster, edits, flaps, kept>>

Phase ==
  IF r.want = {} THEN "Pending"
  ELSE IF r.seen = r.want THEN "Ready"
  ELSE IF r.prev.phase = "Ready" THEN "Degraded"
  ELSE IF r.seen # {} THEN "RollingOut"
  ELSE "Pending"

\* Mutant: every reconcile that is blocked restarts the timer.
NextTimerRestarted == IF r.seen = r.want THEN NoTimer ELSE 0

\* tier_blocked_since of the new status.
NextTimer ==
  IF r.seen = r.want THEN NoTimer
  ELSE IF r.tier # r.prev.tier THEN 0
  ELSE IF r.clear THEN NoTimer
  ELSE IF r.prev.timer = NoTimer THEN 0
  ELSE r.prev.timer

WriteStatus ==
  /\ InTierLoop /\ r.todo = {}
  /\ status' = [tier |-> r.tier, timer |-> NextTimer, bypassed |-> r.bypassed,
                ready |-> r.seen, phase |-> Phase, stuck |-> r.stuck, valid |-> TRUE]
  /\ r' = Idle
  /\ UNCHANGED <<spec, cache, cluster, bounds, kept>>

\* A call whose error is returned by `?`, or a crash of the operator: the
\* locals are lost, error_policy or the restart starts over from the cache.
Abort ==
  /\ r.pc # "idle"
  /\ faults < MaxFaults /\ faults' = faults + 1
  /\ r' = Idle
  /\ UNCHANGED <<spec, status, cache, cluster, edits, flaps, kept>>

-----------------------------------------------------------------------------
Handler ==
  \/ Begin \/ NfsCall \/ RejectSpec \/ ListChildren \/ DetachEnds
  \/ SkipTier \/ EnterTier \/ WriteStatus
  \/ \E c \in App : \/ PickOrphan(c) \/ DeleteOrphan(c) \/ ApplyChild(c)
                    \/ ApplyRejected(c) \/ ReadChild(c)
                    \/ \E v \in Volume : Detach(c, v)

Fault ==
  \/ NfsDeleteFails \/ DeleteFails \/ Abort
  \/ \E v \in Volume : DetachFails(v)
  \/ \E c \in App : ReadFails(c)

Environment ==
  \/ EditSpec \/ Deliver \/ Tick
  \/ \E c \in App : ChildReady(c) \/ ChildUnready(c) \/ ChildGone(c)
  \/ \E c \in App, v \in Volume : ChildProvision(c, v) \/ Collect(c, v)

Next == Handler \/ Fault \/ Environment

Spec == Init /\ [][Next]_vars

(***************************************************************************)
(* Every outcome of the handler requeues it (30, 60 or 300 s), the watch   *)
(* reconnects, time passes and a terminating child's finalizers are        *)
(* retried until they are removed.  Nothing makes a child become ready.    *)
(***************************************************************************)
Fairness ==
  /\ WF_vars(Handler) /\ WF_vars(Deliver) /\ WF_vars(Tick)
  /\ \A c \in App : WF_vars(ChildGone(c))

FairSpec == Spec /\ Fairness

-----------------------------------------------------------------------------
(* Properties. *)

\* A volume that a live orphan had when a reconcile listed it is never handed
\* to the garbage collector, whatever fails, crashes or is edited meanwhile:
\* cleanup detaches every claim before it deletes the child.
KeptVolumesSurvive ==
  \A x \in kept : pvc[x[1]][x[2]] \in {"owned", "detached"}

\* A child is created only when the same reconcile saw every wanted app of a
\* lower tier ready, or gave up on it.
CreatedBehindGate ==
  [][\A c \in App : (child[c] = "absent" /\ child'[c] = "live") =>
       \A d \in r.want : Tier[d] < Tier[c] => d \in r.seen \union r.bypassed]_vars

\* The controller keeps the contract of Rollout: whatever is stale, fails or is cut
\* short, it removes no child that its pass wants, creates none before the lower tiers
\* are settled, and reports only what the pass that ends found out.
Promised == INSTANCE Rollout WITH
  up <- ready, want <- r.want, seen <- r.seen, givenUp <- r.bypassed,
  report <- [ready |-> status.ready, bypassed |-> status.bypassed]
KeepsRollout == Promised!Spec

\* "Cleared once the app is ready": no app is reported ready and bypassed.
BypassCleared == status.bypassed \cap status.ready = {}

\* The rollout is never wedged: an app that stays enabled in a valid spec is
\* created even if no app of an earlier tier ever becomes ready.
EveryAppCreated ==
  \A c \in App : <>[](spec.valid /\ c \in spec.enabled) => <>(child[c] = "live")

\* The children end up being those of a valid spec, for good: one that it no longer
\* wants is removed although steps of its cleanup fail and are skipped, and one that it
\* wants is there although another child still holds its identity at the webhook.
ChildrenFollow ==
  \A c \in App :
    /\ <>[](spec.valid /\ c \notin spec.enabled) => <>[](child[c] = "absent")
    /\ <>[](spec.valid /\ c \in spec.enabled) => <>[](child[c] = "live")

\* The published status converges: a stack whose apps all stay ready ends up
\* reported Ready with exactly those apps; a spec that stays invalid ends up flagged,
\* whatever a reconcile of the valid spec was in the middle of.
StatusSettles ==
  /\ <>[](spec.valid /\ spec.enabled # {} /\ spec.enabled \subseteq ready)
       => <>[](status.phase = "Ready" /\ status.ready = spec.enabled)
  /\ <>[](~spec.valid) => <>[](~status.valid)

\* The in-cluster NFS objects end up following spec.nfs although a failed
\* delete is only logged.
NfsFollowsSpec ==
  /\ <>[](spec.nfs) => <>[](nfs = NfsObjects)
  /\ <>[](~spec.nfs) => <>[](nfs = {})

\* The doc of StackAppStatus.bypassed: an existing app is newly marked bypassed
\* only when its own tier's timeout elapsed, so not beyond the tier for which
\* the timer of the previous status was running.
BypassOwnTier ==
  [][\A c \in status'.bypassed \ status.bypassed :
       child[c] # "absent" => Tier[c] <= r.prev.tier]_vars
=============================================================================
