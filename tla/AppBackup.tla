----------------------------- MODULE AppBackup -----------------------------
(***************************************************************************)
(* Scheduled backups and restores of one Servarr v3 app (Sonarr, Radarr,   *)
(* Lidarr, Prowlarr) with an API key Secret.  Both are parts of the app's  *)
(* reconcile: a restore, asked for by an annotation, runs at its head and  *)
(* scales the Deployment down and up around the call; the apply of the     *)
(* Deployment follows; the backup runs near the end and its outcome goes   *)
(* into the status, which says when the next one is due.                   *)
(*                                                                         *)
(* Time is the number of firings of the cron schedule so far.  Backups are *)
(* counted from the oldest: backup 1 is the oldest one stored in the app.  *)
(***************************************************************************)
EXTENDS Integers

CONSTANTS
  Retention,  \* spec.backup.retentionCount
  MaxFirings, \* bound: firings of the schedule
  MaxEdits,   \* bound: edits of spec.backup and restore annotations
  MaxOwn,     \* bound: backups the app makes without the operator
  MaxFaults   \* bound: failed calls and operator crashes

ASSUME RetentionAssumption == Retention \in Nat
ASSUME BoundsAssumption ==
  MaxFirings \in Nat /\ MaxEdits \in Nat /\ MaxOwn \in Nat /\ MaxFaults \in Nat

VARIABLES
  now,       \* firings of the schedule so far
  spec,      \* spec.backup: enabled, and with a schedule that parses
  note,      \* the restore-from annotation
  last,      \* status.backupStatus.lastBackupTime
  cache,     \* spec, annotation and status as the watch delivered them
  stored,    \* number of backups stored in the app
  replicas,  \* spec.replicas of the Deployment
  pod,       \* the app's pod
  r,         \* the running reconcile
  edits, own, faults

vars   == <<now, spec, note, last, cache, stored, replicas, pod, r,
            edits, own, faults>>
object == <<spec, note, last, cache>>
app    == <<stored, replicas, pod>>
bounds == <<edits, own, faults>>

Never == -1
Time  == -1..MaxFirings

\* No annotation, one that is no number, the id of a backup that is not (or
\* no longer) stored, and the id of one that is.
Note == {"none", "bad", "gone", "stored"}

Spec_  == [enabled : BOOLEAN, valid : BOOLEAN]
Object == [spec : Spec_, note : Note, last : Time]

Restoring == {"down", "wait", "restore", "up"}

Run == [pc     : {"idle", "unmark", "apply", "key", "create", "list", "prune",
                  "status"} \union Restoring,
        spec   : Spec_,     \* as cached when the reconcile started
        note   : Note,
        last   : Time,
        done   : BOOLEAN,   \* the restore call succeeded
        doomed : Nat,       \* backups still to prune
        spared : Nat,       \* backups whose prune failed
        next   : Time]      \* lastBackupTime of the status to write

Idle == [pc |-> "idle", spec |-> [enabled |-> FALSE, valid |-> FALSE], note |-> "none",
         last |-> Never, done |-> FALSE, doomed |-> 0, spared |-> 0, next |-> Never]

TypeOK ==
  /\ now \in 0..MaxFirings
  /\ spec \in Spec_ /\ note \in Note /\ last \in Time
  /\ cache \in Object
  /\ stored \in Nat
  /\ replicas \in {0, 1}
  /\ pod \in {"up", "stopping", "down"}
  /\ r \in Run
  /\ edits \in 0..MaxEdits /\ own \in 0..MaxOwn /\ faults \in 0..MaxFaults

Init ==
  /\ now = 0
  /\ spec = [enabled |-> TRUE, valid |-> TRUE]
  /\ note = "none" /\ last = Never
  /\ cache = [spec |-> spec, note |-> note, last |-> last]
  /\ stored = 0
  /\ replicas = 1 /\ pod = "down"
  /\ r = Idle
  /\ edits = 0 /\ own = 0 /\ faults = 0

-----------------------------------------------------------------------------
(* Environment: users, the clock, the watch, the pod, the app itself. *)

Edit == edits < MaxEdits /\ edits' = edits + 1

EditSpec ==
  /\ Edit
  /\ \E s \in Spec_ \ {spec} : spec' = s
  /\ UNCHANGED <<now, note, last, cache, app, r, own, faults>>

Annotate ==
  /\ Edit
  /\ \E n \in Note \ {note} :
       /\ n = "stored" => stored > 0
       /\ note' = n
  /\ UNCHANGED <<now, spec, last, cache, app, r, own, faults>>

Fire ==
  /\ now < MaxFirings
  /\ now' = now + 1
  /\ UNCHANGED <<object, app, r, bounds>>

Deliver ==
  /\ cache' = [spec |-> spec, note |-> note, last |-> last]
  /\ UNCHANGED <<now, spec, note, last, app, r, bounds>>

\* The Deployment follows its replicas; a pod that is stopping is not ready, and
\* may or may not still answer.
PodMoves ==
  /\ \/ replicas = 0 /\ pod = "up" /\ pod' = "stopping"
     \/ pod = "stopping" /\ pod' = "down"
     \/ replicas = 1 /\ pod = "down" /\ pod' = "up"
  /\ UNCHANGED <<now, object, stored, replicas, r, bounds>>

\* The app makes a backup of its own: a user asked for it, or its own schedule.
OwnBackup ==
  /\ pod = "up" /\ own < MaxOwn
  /\ own' = own + 1
  /\ stored' = stored + 1
  /\ UNCHANGED <<now, object, replicas, pod, r, edits, faults>>

-----------------------------------------------------------------------------
(* The reconcile. *)

\* An annotation that is no number fails the restore before it scales down.
Begin ==
  /\ r.pc = "idle"
  /\ r' = [Idle EXCEPT !.pc = IF cache.note \in {"gone", "stored"} THEN "down" ELSE "apply",
                       !.spec = cache.spec, !.note = cache.note, !.last = cache.last]
  /\ UNCHANGED <<now, object, app, bounds>>

Goto(pc) == r' = [r EXCEPT !.pc = pc]

Fault == faults < MaxFaults /\ faults' = faults + 1

ScaleDown ==
  /\ r.pc = "down"
  /\ replicas' = 0
  /\ Goto("wait")
  /\ UNCHANGED <<now, object, stored, pod, bounds>>

\* A scale-down that failed skips the restore, not the scale-up.
ScaleDownFails ==
  /\ r.pc = "down" /\ Fault
  /\ Goto("up")
  /\ UNCHANGED <<now, object, app, edits, own>>

\* Poll until no replica is ready.
WaitDown ==
  /\ r.pc = "wait" /\ pod # "up"
  /\ Goto("restore")
  /\ UNCHANGED <<now, object, app, bounds>>

\* Twelve polls were not enough, or one failed: the restore goes on regardless.
WaitGivesUp ==
  /\ r.pc = "wait" /\ pod = "up" /\ Fault
  /\ Goto("restore")
  /\ UNCHANGED <<now, object, app, edits, own>>

\* The app restores if it still answers and has the backup.
RestoreCall ==
  /\ r.pc = "restore"
  /\ \E done \in BOOLEAN :
       /\ done => pod # "down" /\ r.note = "stored"
       /\ pod = "up" /\ r.note = "stored" => done
       /\ r' = [r EXCEPT !.pc = "up", !.done = done]
  /\ UNCHANGED <<now, object, app, bounds>>

\* The key Secret cannot be read or the call fails.
RestoreFails ==
  /\ r.pc = "restore" /\ Fault
  /\ Goto("up")
  /\ UNCHANGED <<now, object, app, edits, own>>

AfterScaleUp == IF r.done THEN "unmark" ELSE "apply"

ScaleUp ==
  /\ r.pc = "up"
  /\ replicas' = 1
  /\ Goto(AfterScaleUp)
  /\ UNCHANGED <<now, object, stored, pod, bounds>>

\* A failed scale-up is only logged.
ScaleUpFails ==
  /\ r.pc = "up" /\ Fault
  /\ Goto(AfterScaleUp)
  /\ UNCHANGED <<now, object, app, edits, own>>

\* The annotation is removed, whatever its value has become.
Unmark ==
  /\ r.pc = "unmark"
  /\ note' = "none"
  /\ Goto("apply")
  /\ UNCHANGED <<now, spec, last, cache, app, bounds>>

UnmarkFails ==
  /\ r.pc = "unmark" /\ Fault
  /\ Goto("apply")
  /\ UNCHANGED <<now, object, app, edits, own>>

\* Mutant: the apply leaves the replicas to whoever set them.
AppliedReplicasKept == replicas

AppliedReplicas == 1

\* Server-side apply of the Deployment; it forces its one replica.
ApplyDeployment ==
  /\ r.pc = "apply"
  /\ replicas' = AppliedReplicas
  /\ Goto("key")
  /\ UNCHANGED <<now, object, stored, pod, bounds>>

\* A firing lies between the recorded backup and now, or there is none recorded.
Due == r.last = Never \/ r.last < now

Report(time) == r' = [r EXCEPT !.pc = "status", !.next = time]

NotDueReport == Report(r.last)

\* Disabled backups and schedules that do not parse report no time.
ReadKey ==
  /\ r.pc = "key"
  /\ \/ ~(r.spec.enabled /\ r.spec.valid) /\ Report(Never)
     \/ r.spec.enabled /\ r.spec.valid /\ Due /\ Goto("create")
     \/ r.spec.enabled /\ r.spec.valid /\ ~Due /\ NotDueReport
  /\ UNCHANGED <<now, object, app, bounds>>

\* A key Secret that cannot be read reports a fresh status without a time.
KeyFails ==
  /\ r.pc = "key" /\ r.spec.enabled /\ Fault
  /\ Report(Never)
  /\ UNCHANGED <<now, object, app, edits, own>>

\* Mutant: the first failure is recorded like a backup.
FailureTimeAlways == now

FailureTime == IF r.last = Never THEN Never ELSE now

CreateBackup ==
  /\ r.pc = "create" /\ pod = "up"
  /\ stored' = stored + 1
  /\ Goto("list")
  /\ UNCHANGED <<now, object, replicas, pod, bounds>>

\* The app does not answer, or the call fails; it may have stored the backup.
CreateFails ==
  /\ r.pc = "create"
  /\ \/ pod # "up" /\ UNCHANGED <<stored, faults>>
     \/ pod = "up" /\ Fault /\ stored' \in {stored, stored + 1}
  /\ Report(FailureTime)
  /\ UNCHANGED <<now, object, replicas, pod, edits, own>>

\* Mutant: off by one, the backup that was just made counts as retained twice.
ExcessOneMore == IF stored > Retention THEN stored - Retention + 1 ELSE 0

Excess == IF stored > Retention THEN stored - Retention ELSE 0

ListBackups ==
  /\ r.pc = "list" /\ pod = "up"
  /\ r' = [r EXCEPT !.pc = "prune", !.doomed = Excess]
  /\ UNCHANGED <<now, object, app, bounds>>

\* Without the list nothing is pruned.
ListFails ==
  /\ r.pc = "list"
  /\ \/ pod # "up" /\ UNCHANGED faults
     \/ pod = "up" /\ Fault
  /\ Goto("prune")
  /\ UNCHANGED <<now, object, app, edits, own>>

\* The oldest backup that is still to be pruned.
Victim == r.spared + 1

Prune ==
  /\ r.pc = "prune" /\ r.doomed > 0 /\ pod = "up"
  /\ stored' = stored - 1
  /\ r' = [r EXCEPT !.doomed = @ - 1]
  /\ UNCHANGED <<now, object, replicas, pod, bounds>>

\* A failed prune is logged and the loop goes on with the next one; the app may
\* have deleted the backup and only the answer was lost.
PruneFails ==
  /\ r.pc = "prune" /\ r.doomed > 0
  /\ \/ /\ \/ pod # "up" /\ UNCHANGED faults
           \/ pod = "up" /\ Fault
        /\ r' = [r EXCEPT !.doomed = @ - 1, !.spared = @ + 1]
        /\ UNCHANGED stored
     \/ /\ pod = "up" /\ Fault
        /\ r' = [r EXCEPT !.doomed = @ - 1]
        /\ stored' = stored - 1
  /\ UNCHANGED <<now, object, replicas, pod, edits, own>>

\* The time of the status is read after the pruning.
PruneEnds ==
  /\ r.pc = "prune" /\ r.doomed = 0
  /\ Report(now)
  /\ UNCHANGED <<now, object, app, bounds>>

WriteStatus ==
  /\ r.pc = "status"
  /\ last' = r.next
  /\ r' = Idle
  /\ UNCHANGED <<now, spec, note, cache, app, bounds>>

\* A call whose error ends the reconcile, or a crash of the operator.
Abort ==
  /\ r.pc # "idle" /\ Fault
  /\ r' = Idle
  /\ UNCHANGED <<now, object, app, edits, own>>

-----------------------------------------------------------------------------
Handler ==
  \/ Begin \/ ScaleDown \/ WaitDown \/ RestoreCall \/ ScaleUp \/ Unmark
  \/ ApplyDeployment \/ ReadKey \/ CreateBackup \/ CreateFails
  \/ ListBackups \/ ListFails \/ Prune \/ PruneFails \/ PruneEnds \/ WriteStatus

FailedCall ==
  \/ ScaleDownFails \/ WaitGivesUp \/ RestoreFails \/ ScaleUpFails \/ UnmarkFails
  \/ KeyFails \/ Abort

Environment == EditSpec \/ Annotate \/ Fire \/ Deliver \/ PodMoves \/ OwnBackup

Next == Handler \/ FailedCall \/ Environment

Spec == Init /\ [][Next]_vars

\* Every outcome requeues the app, the watch reconnects, pods start and stop.
Fairness == WF_vars(Handler) /\ WF_vars(Deliver) /\ WF_vars(PodMoves)

FairSpec == Spec /\ Fairness

-----------------------------------------------------------------------------
(* Properties. *)

\* The Deployment is at zero replicas only while a restore is under way, or, after
\* a failed call or a crash, until the next apply: a backup is never asked of an app
\* that a restore left scaled down.
DownOnlyWhileRestoring ==
  replicas = 0 =>
    \/ r.pc \in Restoring
    \/ r.pc \in {"idle", "unmark", "apply"} /\ faults > 0

\* Pruning deletes no backup that is one of the Retention newest, also when some
\* deletions fail and the app makes backups of its own meanwhile.
NewestKept == [][stored' < stored => stored - Victim >= Retention]_vars

\* An app whose restore request is settled comes back up, wherever a restore
\* failed or the operator crashed.
AppComesBack == <>[](note = "none") => <>[](pod = "up")

\* With backups on, one ends up stored and recorded for good, although the first
\* attempts fail and the record may be lost on the way.
BackupRecorded ==
  <>[](spec.enabled /\ spec.valid /\ note = "none") => <>[](last # Never /\ stored > 0)

\* The docs: the operator restores and then removes the annotation, so a request
\* for a stored backup does not stay for ever.
RestoreCompletes == ~<>[](note = "stored")
=============================================================================
