------------------------- MODULE AppBackup_proofs -------------------------
(***************************************************************************)
(* Proofs about AppBackup for every retention count and every bound on the *)
(* clock, the edits, the app's own backups and the faults.                 *)
(***************************************************************************)
EXTENDS AppBackup, TLAPS

\* What the pruning loop knows: with something left to prune, the backups it has
\* spared, those it will still prune and the retained ones are all stored.
PruningInv ==
  /\ r.doomed > 0 => r.doomed + r.spared + Retention <= stored
  /\ r.pc # "prune" => r.doomed = 0
  /\ r.pc \notin {"prune", "status"} => r.spared = 0

IInv == TypeOK /\ DownOnlyWhileRestoring /\ PruningInv

\* The initial states are well typed, scaled up and have nothing to prune.
LEMMA InitInv == Init => IInv
BY RetentionAssumption, BoundsAssumption
   DEF Init, IInv, TypeOK, DownOnlyWhileRestoring, PruningInv, Idle, Run, Spec_, Note,
       Time, Never, Object, Restoring

\* Reporting a status ends the backup and leaves what was pruned alone.
LEMMA ReportSets ==
  ASSUME r \in Run, NEW time \in Time, Report(time)
  PROVE  /\ r' \in Run /\ r'.pc = "status"
         /\ r'.doomed = r.doomed /\ r'.spared = r.spared
BY DEF Report, Run

\* A reconcile starts on the cached object with nothing to prune.
LEMMA BeginSets ==
  ASSUME cache \in Object, Begin
  PROVE  /\ r' \in Run /\ r'.pc \in {"down", "apply"}
         /\ r'.doomed = 0 /\ r'.spared = 0
<1>1. cache.spec \in Spec_ /\ cache.note \in Note /\ cache.last \in Time
  BY DEF Object
<1>2. r' = [pc |-> IF cache.note \in {"gone", "stored"} THEN "down" ELSE "apply",
            spec |-> cache.spec, note |-> cache.note, last |-> cache.last,
            done |-> FALSE, doomed |-> 0, spared |-> 0, next |-> Never]
  BY DEF Begin, Idle
<1>3. Never \in Time
  BY BoundsAssumption DEF Never, Time
<1> QED
  BY <1>1, <1>2, <1>3 DEF Run, Restoring

\* A backup that could not be deleted moves from the doomed to the spared ones.
LEMMA SparedSets ==
  ASSUME r \in Run, r.doomed > 0,
         r' = [r EXCEPT !.doomed = @ - 1, !.spared = @ + 1]
  PROVE  /\ r' \in Run /\ r'.pc = r.pc
         /\ r'.doomed = r.doomed - 1 /\ r'.spared = r.spared + 1
<1>1. r.doomed - 1 \in Nat /\ r.spared + 1 \in Nat
  BY DEF Run
<1> QED
  BY <1>1, Zenon DEF Run

\* A step of the environment changes neither the replicas nor the reconcile and
\* only ever adds backups.
LEMMA EnvironmentKeeps == IInv /\ Environment => IInv'
<1> SUFFICES ASSUME IInv, Environment PROVE IInv'
  OBVIOUS
<1> USE RetentionAssumption, BoundsAssumption
    DEF IInv, TypeOK, DownOnlyWhileRestoring, PruningInv, Object, Edit,
        Run, object, app, bounds
<1>1. CASE EditSpec
  BY <1>1 DEF EditSpec
<1>2. CASE Annotate
  BY <1>2 DEF Annotate
<1>3. CASE Fire
  BY <1>3 DEF Fire
<1>4. CASE Deliver
  BY <1>4 DEF Deliver
<1>5. CASE PodMoves
  BY <1>5 DEF PodMoves
<1>6. CASE OwnBackup
  BY <1>6 DEF OwnBackup
<1> QED
  BY <1>1, <1>2, <1>3, <1>4, <1>5, <1>6 DEF Environment

\* A call that fails, and a crash, keep the invariant: they count a fault.
LEMMA FaultKeeps == IInv /\ FailedCall => IInv'
<1> SUFFICES ASSUME IInv, FailedCall PROVE IInv'
  OBVIOUS
<1> USE RetentionAssumption, BoundsAssumption
    DEF IInv, TypeOK, DownOnlyWhileRestoring, PruningInv, Object, Run, Restoring,
        Fault, Goto, AfterScaleUp, object, app
<1>1. CASE ScaleDownFails
  BY <1>1 DEF ScaleDownFails
<1>2. CASE WaitGivesUp
  BY <1>2 DEF WaitGivesUp
<1>3. CASE RestoreFails
  BY <1>3 DEF RestoreFails
<1>4. CASE ScaleUpFails
  BY <1>4 DEF ScaleUpFails
<1>5. CASE UnmarkFails
  BY <1>5 DEF UnmarkFails
<1>6. CASE KeyFails
  <2>1. Report(Never) /\ Never \in Time
    BY <1>6 DEF KeyFails, Never, Time
  <2>2. r' \in Run /\ r'.pc = "status" /\ r'.doomed = r.doomed
    BY <2>1, ReportSets
  <2> QED
    BY <1>6, <2>2 DEF KeyFails
<1>7. CASE Abort
  BY <1>7 DEF Abort, Idle, Spec_, Note, Never, Time
<1> QED
  BY <1>1, <1>2, <1>3, <1>4, <1>5, <1>6, <1>7 DEF FailedCall

\* Every step of the restore and of the apply that follows it.
LEMMA RestoreKeeps ==
  /\ IInv
  /\ Begin \/ ScaleDown \/ WaitDown \/ RestoreCall \/ ScaleUp \/ Unmark
     \/ ApplyDeployment
  => IInv'
<1> SUFFICES ASSUME IInv,
                    Begin \/ ScaleDown \/ WaitDown \/ RestoreCall \/ ScaleUp
                    \/ Unmark \/ ApplyDeployment
             PROVE  IInv'
  OBVIOUS
<1> USE RetentionAssumption, BoundsAssumption
    DEF IInv, TypeOK, DownOnlyWhileRestoring, PruningInv, Object, Run, Restoring,
        Goto, object, app, bounds
<1>1. CASE Begin
  <2>1. r' \in Run /\ r'.pc \in {"down", "apply"} /\ r'.doomed = 0 /\ r'.spared = 0
    BY <1>1, BeginSets
  <2> QED
    BY <1>1, <2>1 DEF Begin
<1>2. CASE ScaleDown
  BY <1>2 DEF ScaleDown
<1>3. CASE WaitDown
  BY <1>3 DEF WaitDown
<1>4. CASE RestoreCall
  BY <1>4 DEF RestoreCall
<1>5. CASE ScaleUp
  BY <1>5 DEF ScaleUp, AfterScaleUp
<1>6. CASE Unmark
  BY <1>6 DEF Unmark, Note
<1>7. CASE ApplyDeployment
  BY <1>7 DEF ApplyDeployment, AppliedReplicas
<1> QED
  BY <1>1, <1>2, <1>3, <1>4, <1>5, <1>6, <1>7

\* Every step of the backup and of the status write.
LEMMA BackupKeeps ==
  /\ IInv
  /\ ReadKey \/ CreateBackup \/ CreateFails \/ ListBackups \/ ListFails \/ Prune
     \/ PruneFails \/ PruneEnds \/ WriteStatus
  => IInv'
<1> SUFFICES ASSUME IInv,
                    ReadKey \/ CreateBackup \/ CreateFails \/ ListBackups
                    \/ ListFails \/ Prune \/ PruneFails \/ PruneEnds \/ WriteStatus
             PROVE  IInv'
  OBVIOUS
<1> USE RetentionAssumption, BoundsAssumption
    DEF IInv, TypeOK, DownOnlyWhileRestoring, PruningInv, Object, Run, Restoring,
        Goto, object, app, bounds
<1>1. CASE ReadKey
  <2>1. CASE Goto("create")
    BY <1>1, <2>1 DEF ReadKey, Goto
  <2>2. CASE \E time \in Time : Report(time)
    <3>1. r' \in Run /\ r'.pc = "status" /\ r'.doomed = r.doomed /\ r'.spared = r.spared
      BY <2>2, ReportSets
    <3> QED
      BY <1>1, <3>1 DEF ReadKey
  <2>3. Never \in Time /\ r.last \in Time
    BY DEF Never, Time, Run
  <2> QED
    BY <1>1, <2>1, <2>2, <2>3 DEF ReadKey, NotDueReport
<1>2. CASE CreateBackup
  BY <1>2 DEF CreateBackup
<1>3. CASE CreateFails
  <2>1. FailureTime \in Time /\ stored' \in Nat /\ stored <= stored'
    BY <1>3 DEF CreateFails, FailureTime, Time, Never
  <2>2. r' \in Run /\ r'.pc = "status" /\ r'.doomed = r.doomed /\ r'.spared = r.spared
    BY <1>3, <2>1, ReportSets DEF CreateFails
  <2> QED
    BY <1>3, <2>1, <2>2 DEF CreateFails, Fault
<1>4. CASE ListBackups
  <2>1. /\ Excess \in Nat
        /\ Excess > 0 => Excess + Retention = stored
    BY DEF Excess
  <2>2. /\ r' \in Run /\ r'.pc = "prune"
        /\ r'.doomed = Excess /\ r'.spared = 0
    BY <1>4, <2>1 DEF ListBackups, Run
  <2> QED
    BY <1>4, <2>1, <2>2 DEF ListBackups
<1>5. CASE ListFails
  BY <1>5 DEF ListFails, Fault
<1>6. CASE Prune
  BY <1>6 DEF Prune
<1>7. CASE PruneFails
  <2>1. CASE UNCHANGED stored
    <3>1. r.pc = "prune" /\ r.doomed \in Nat \ {0} /\ r.spared \in Nat
      BY <1>7 DEF PruneFails, Run
    <3>2. CASE r' = [r EXCEPT !.doomed = @ - 1, !.spared = @ + 1]
      <4>1. /\ r' \in Run /\ r'.pc = "prune"
            /\ r'.doomed = r.doomed - 1 /\ r'.spared = r.spared + 1
        BY <3>1, <3>2, SparedSets
      <4> QED
        BY <1>7, <2>1, <3>1, <4>1 DEF PruneFails, Fault
    <3>3. r' = [r EXCEPT !.doomed = @ - 1, !.spared = @ + 1]
      BY <1>7, <2>1 DEF PruneFails
    <3> QED
      BY <3>2, <3>3
  <2>2. CASE stored' = stored - 1 /\ r' = [r EXCEPT !.doomed = @ - 1]
    <3>1. /\ r' \in Run /\ r'.pc = "prune" /\ r.pc = "prune" /\ r.doomed \in Nat \ {0}
          /\ r'.doomed = r.doomed - 1 /\ r'.spared = r.spared
      BY <1>7, <2>2 DEF PruneFails, Run
    <3> QED
      BY <1>7, <2>2, <3>1 DEF PruneFails, Fault, Run
  <2> QED
    BY <1>7, <2>1, <2>2 DEF PruneFails
<1>8. CASE PruneEnds
  <2>1. r' \in Run /\ r'.pc = "status" /\ r'.doomed = 0
    BY <1>8, ReportSets DEF PruneEnds, Time
  <2> QED
    BY <1>8, <2>1 DEF PruneEnds
<1>9. CASE WriteStatus
  BY <1>9 DEF WriteStatus, Idle, Spec_, Note, Time, Never
<1> QED
  BY <1>1, <1>2, <1>3, <1>4, <1>5, <1>6, <1>7, <1>8, <1>9

\* The invariant is inductive.
LEMMA NextKeeps == IInv /\ [Next]_vars => IInv'
<1> SUFFICES ASSUME IInv, [Next]_vars PROVE IInv'
  OBVIOUS
<1>1. CASE Environment
  BY <1>1, EnvironmentKeeps
<1>2. CASE FailedCall
  BY <1>2, FaultKeeps
<1>3. CASE Handler
  BY <1>3, RestoreKeeps, BackupKeeps DEF Handler
<1>4. CASE UNCHANGED vars
  BY <1>4 DEF vars, IInv, TypeOK, DownOnlyWhileRestoring, PruningInv
<1> QED
  BY <1>1, <1>2, <1>3, <1>4 DEF Next

LEMMA Invariance == Spec => []IInv
BY InitInv, NextKeeps, PTL DEF Spec

\* Every reachable state of the backup and restore sequences is well typed; in
\* particular the number of backups to prune never goes below zero.
THEOREM TypeCorrect == Spec => []TypeOK
BY Invariance, PTL DEF IInv

\* The Deployment is at zero replicas only during a restore or, after a failed call
\* or a crash, before the next apply; no backup is ever asked of a scaled-down app.
THEOREM NeverLeftDown == Spec => []DownOnlyWhileRestoring
BY Invariance, PTL DEF IInv

\* Only the pruning loop deletes backups, and never one of the Retention newest.
LEMMA DeletesOnlySurplus ==
  IInv /\ [Next]_vars => [stored' < stored => stored - Victim >= Retention]_vars
<1> SUFFICES ASSUME IInv, Next, stored' < stored
             PROVE  stored - Victim >= Retention
  BY DEF vars, IInv, TypeOK
<1> USE DEF IInv, TypeOK
<1>1. Prune \/ PruneFails
  <2>1. stored' # stored
    OBVIOUS
  <2>2. ~Environment
    BY DEF Environment, EditSpec, Annotate, Fire, Deliver, PodMoves, OwnBackup, app
  <2>3. ~FailedCall
    BY <2>1, Zenon
       DEF FailedCall, ScaleDownFails, WaitGivesUp, RestoreFails, ScaleUpFails,
           UnmarkFails, KeyFails, Abort, app
  <2>4. ~(Begin \/ ScaleDown \/ WaitDown \/ RestoreCall \/ ScaleUp \/ Unmark
          \/ ApplyDeployment \/ ReadKey)
    BY <2>1, Zenon
       DEF Begin, ScaleDown, WaitDown, RestoreCall, ScaleUp, Unmark,
           ApplyDeployment, ReadKey, app
  <2>5. ~(CreateBackup \/ CreateFails \/ ListBackups \/ ListFails \/ PruneEnds
          \/ WriteStatus)
    BY DEF CreateBackup, CreateFails, ListBackups, ListFails, PruneEnds,
           WriteStatus, app
  <2> QED
    BY <2>2, <2>3, <2>4, <2>5 DEF Next, Handler
<1>2. r.doomed > 0
  BY <1>1 DEF Prune, PruneFails
<1> QED
  BY <1>2, RetentionAssumption DEF PruningInv, Run, Victim

\* However deletions fail and whatever the app stores meanwhile, the Retention
\* newest backups are never pruned.
THEOREM NewestSurvive == Spec => NewestKept
<1>1. Spec => [][stored' < stored => stored - Victim >= Retention]_vars
  BY Invariance, DeletesOnlySurplus, PTL DEF Spec
<1> QED
  BY <1>1 DEF NewestKept
=============================================================================
