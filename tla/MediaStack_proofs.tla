-------------------------- MODULE MediaStack_proofs --------------------------
(***************************************************************************)
(* MediaStack keeps its types, never hands a volume that a live orphan had *)
(* to the garbage collector, creates a child only behind the gate of the   *)
(* lower tiers, reports no child ready and bypassed, and implements the    *)
(* contract Rollout.                                                       *)
(***************************************************************************)
EXTENDS MediaStack, TLAPS

\* At most one child is being cleaned up.
OneChild ==
  r.pc \in {"detach", "delete"} => \A c, d \in r.child : c = d

\* A kept volume is detached by the time its child is deleted, and stays so.
DetachedFirst(c, v) ==
  /\ child[c] # "live" => pvc[c][v] = "detached"
  /\ r.pc = "delete" /\ c \in r.child => pvc[c][v] = "detached"
  /\ r.pc = "detach" /\ c \in r.child /\ v \notin r.volumes /\ ~r.failed
       => pvc[c][v] = "detached"

VolumeInv ==
  /\ OneChild
  /\ KeptVolumesSurvive
  /\ \A x \in kept : DetachedFirst(x[1], x[2])

-----------------------------------------------------------------------------
\* The handler's calls once the wanted children are known.
Working  == {"loop", "detach", "delete", "apply", "read"}
InTier   == {"apply", "read"}
InFlight == IF r.pc = "read" THEN r.child ELSE {}

\* The wanted children that the tier loop is done with.
Handled == r.want \ (r.todo \union r.queue \union InFlight)

GateInv ==
  /\ r.pc \notin InTier => r.queue = {}
  /\ r.pc = "read" => \A c, d \in r.child : c = d
  /\ r.pc \in Working /\ r.clear => Handled \subseteq r.seen \union r.bypassed
  /\ r.pc \in InTier =>
       /\ \A c \in r.queue \union InFlight : Tier[c] = r.tier
       /\ \A d \in r.want : Tier[d] < r.tier => d \in r.seen \union r.bypassed

-----------------------------------------------------------------------------
(* Types. *)

LEMMA DefaultStatusType == DefaultStatus \in Status
BY TimeoutAssumption DEF DefaultStatus, Status, NoTier, NoTimer

LEMMA IdleType == Idle \in Run
BY DefaultStatusType DEF Idle, Run, Spec_, NoTier, NfsObjects

LEMMA InitType == Init => TypeOK
<1> SUFFICES ASSUME Init PROVE TypeOK
  OBVIOUS
<1>1. spec \in Spec_
  BY AppAssumption DEF Init, Spec_
<1>2. status \in Status
  BY DefaultStatusType DEF Init
<1>3. cache \in Stack
  BY <1>1, <1>2 DEF Init, Stack
<1> QED
  BY <1>1, <1>2, <1>3, IdleType, BoundsAssumption DEF Init, TypeOK, PvcState

LEMMA AgedType == \A s \in Status : Aged(s) \in Status
BY TimeoutAssumption DEF Aged, Status

LEMMA EnvironmentTypes == TypeOK /\ Environment => TypeOK'
<1> SUFFICES ASSUME TypeOK, Environment PROVE TypeOK'
  OBVIOUS
<1> USE DEF cluster, bounds
<1>1. CASE EditSpec
  <2>1. spec' \in Spec_
    <3>1. spec \in Spec_ /\ (~spec.valid) \in BOOLEAN /\ (~spec.nfs) \in BOOLEAN
      BY DEF TypeOK
    <3>2. [spec EXCEPT !.valid = ~@] \in Spec_ /\ [spec EXCEPT !.nfs = ~@] \in Spec_
      BY <3>1 DEF Spec_
    <3>3. ASSUME NEW c \in App
          PROVE  [spec EXCEPT !.enabled = IF c \in @ THEN @ \ {c} ELSE @ \union {c}] \in Spec_
      BY <3>1 DEF Spec_
    <3> QED
      BY <1>1, <3>2, <3>3 DEF EditSpec
  <2> QED
    BY <1>1, <2>1, BoundsAssumption DEF EditSpec, TypeOK
<1>2. CASE Deliver
  BY <1>2 DEF Deliver, TypeOK, Stack
<1>3. CASE Tick
  <2>1. status' \in Status
    BY <1>3, AgedType DEF Tick, TypeOK
  <2>2. cache' \in Stack
    BY <1>3, AgedType DEF Tick, TypeOK, Stack
  <2>3. Aged(r.prev) \in Status
    BY AgedType DEF TypeOK, Run
  <2>4. r' \in Run
    BY <1>3, <2>3 DEF Tick, TypeOK, Run
  <2> QED
    BY <1>3, <2>1, <2>2, <2>4 DEF Tick, TypeOK
<1>4. ASSUME NEW c \in App, ChildReady(c) \/ ChildUnready(c) \/ ChildGone(c)
      PROVE  TypeOK'
  BY <1>4, BoundsAssumption
  DEF ChildReady, ChildUnready, ChildGone, Disowned, TypeOK, PvcState
<1>5. ASSUME NEW c \in App, NEW v \in Volume, ChildProvision(c, v) \/ Collect(c, v)
      PROVE  TypeOK'
  BY <1>5 DEF ChildProvision, Collect, TypeOK, PvcState
<1> QED
  BY <1>1, <1>2, <1>3, <1>4, <1>5 DEF Environment

\* The steps before the cleanup of orphans.
LEMMA PreludeTypes ==
  TypeOK /\ (Begin \/ NfsCall \/ NfsDeleteFails \/ RejectSpec \/ ListChildren) => TypeOK'
<1> SUFFICES ASSUME TypeOK, Begin \/ NfsCall \/ NfsDeleteFails \/ RejectSpec \/ ListChildren
             PROVE  TypeOK'
  OBVIOUS
<1> USE DEF cluster, bounds
<1>1. CASE Begin
  <2>1. r' \in Run
    BY <1>1, IdleType DEF Begin, TypeOK, Run, Stack
  <2> QED
    BY <1>1, <2>1 DEF Begin, TypeOK
<1>2. NfsDone(r.nfsTodo \ {NfsNext}) \in Run
  BY DEF NfsDone, TypeOK, Run
<1>3. CASE NfsCall
  BY <1>2, <1>3 DEF NfsCall, NfsAfter, NfsNext, NfsObjects, TypeOK
<1>4. CASE NfsDeleteFails
  BY <1>2, <1>4, BoundsAssumption DEF NfsDeleteFails, TypeOK
<1>5. CASE RejectSpec
  <2>1. status' \in Status
    BY <1>5, DefaultStatusType DEF RejectSpec, Status
  <2> QED
    BY <1>5, <2>1, IdleType DEF RejectSpec, TypeOK
<1>6. CASE ListChildren
  <2>1. r.spec.enabled \in SUBSET App /\ Orphans \in SUBSET App
    BY DEF Orphans, TypeOK, Run, Spec_
  <2>2. r' \in Run
    BY <1>6, <2>1 DEF ListChildren, TypeOK, Run
  <2>3. kept' \in SUBSET (App \X Volume)
    BY <1>6, <2>1 DEF ListChildren, TypeOK
  <2> QED
    BY <1>6, <2>2, <2>3 DEF ListChildren, TypeOK
<1> QED
  BY <1>1, <1>3, <1>4, <1>5, <1>6

LEMMA FaultType ==
  TypeOK /\ faults < MaxFaults /\ faults' = faults + 1 => faults' \in 0..MaxFaults
BY BoundsAssumption DEF TypeOK

\* The steps of the cleanup of orphans.
Cleanup ==
  \/ DetachEnds \/ DeleteFails
  \/ \E c \in App : PickOrphan(c) \/ DeleteOrphan(c) \/ \E v \in Volume : Detach(c, v)
  \/ \E v \in Volume : DetachFails(v)

LEMMA CleanupTypes == TypeOK /\ Cleanup => TypeOK'
<1> SUFFICES ASSUME TypeOK, Cleanup PROVE TypeOK'
  OBVIOUS
<1> USE DEF cluster, bounds
<1>1. ASSUME NEW c \in App, PickOrphan(c) PROVE TypeOK'
  <2>1. r' \in Run
    BY <1>1 DEF PickOrphan, TypeOK, Run
  <2> QED
    BY <1>1, <2>1 DEF PickOrphan, TypeOK
<1>2. ASSUME NEW c \in App, NEW v \in Volume, Detach(c, v) PROVE TypeOK'
  <2>1. r' \in Run
    BY <1>2 DEF Detach, TypeOK, Run
  <2>2. pvc' \in [App -> [Volume -> PvcState]]
    BY <1>2 DEF Detach, TypeOK, PvcState
  <2> QED
    BY <1>2, <2>1, <2>2 DEF Detach, TypeOK
<1>3. ASSUME NEW v \in Volume, DetachFails(v) PROVE TypeOK'
  <2>1. r' \in Run
    BY <1>3 DEF DetachFails, TypeOK, Run
  <2>2. faults' \in 0..MaxFaults
    BY <1>3, FaultType DEF DetachFails
  <2>3. UNCHANGED <<spec, status, cache, cluster, edits, flaps, kept>>
    BY <1>3 DEF DetachFails
  <2> QED
    BY <2>1, <2>2, <2>3 DEF TypeOK
<1>4. CASE DetachEnds
  <2>1. r' \in Run
    BY <1>4 DEF DetachEnds, TypeOK, Run
  <2> QED
    BY <1>4, <2>1 DEF DetachEnds, TypeOK
<1>5. ASSUME NEW c \in App, DeleteOrphan(c) PROVE TypeOK'
  <2>1. r' \in Run
    BY <1>5 DEF DeleteOrphan, TypeOK, Run
  <2>2. /\ child' \in [App -> {"absent", "live", "terminating"}]
        /\ ready' \in SUBSET App
        /\ pvc' \in [App -> [Volume -> PvcState]]
    <3>1. Disowned(c) \in [App -> [Volume -> PvcState]]
      BY DEF Disowned, TypeOK, PvcState
    <3>2. CASE pvc' = Disowned(c) /\ child' = [child EXCEPT ![c] = "absent"]
                 /\ ready' = ready \ {c}
      BY <3>1, <3>2 DEF TypeOK
    <3>3. CASE child' = [child EXCEPT ![c] = "terminating"] /\ UNCHANGED <<ready, pvc>>
      BY <3>3 DEF TypeOK
    <3> QED
      BY <1>5, <3>2, <3>3 DEF DeleteOrphan
  <2> QED
    BY <1>5, <2>1, <2>2 DEF DeleteOrphan, TypeOK
<1>6. CASE DeleteFails
  <2>1. r' \in Run
    BY <1>6 DEF DeleteFails, TypeOK, Run
  <2> QED
    BY <1>6, <2>1, BoundsAssumption DEF DeleteFails, TypeOK
<1> QED
  BY <1>1, <1>2, <1>3, <1>4, <1>5, <1>6 DEF Cleanup

\* The steps of the loop over the tiers, and the ends of a reconcile.
TierLoop ==
  \/ SkipTier \/ EnterTier \/ WriteStatus \/ Abort
  \/ \E c \in App : ApplyChild(c) \/ ApplyRejected(c) \/ ReadChild(c) \/ ReadFails(c)

LEMMA RecordType ==
  ASSUME TypeOK, NEW c \in App, NEW up \in BOOLEAN, Record(c, up)
  PROVE  r' \in Run
BY DEF Record, StillBypassed, TypeOK, Run

\* What one answer changes in the running reconcile.
LEMMA RecordFields ==
  ASSUME TypeOK, NEW c \in App, NEW up \in BOOLEAN, Record(c, up)
  PROVE  /\ r'.pc = IF r.queue = {} THEN "loop" ELSE "apply"
         /\ r'.want = r.want /\ r'.todo = r.todo /\ r'.queue = r.queue /\ r'.tier = r.tier
         /\ r'.seen = IF up THEN r.seen \union {c} ELSE r.seen
         /\ r'.bypassed = IF StillBypassed(c, up) THEN r.bypassed \union {c} ELSE r.bypassed
         /\ r'.clear <=> r.clear /\ (up \/ c \in r.prev.bypassed)
BY DEF Record, TypeOK, Run

LEMMA ReadRecords ==
  \A c \in App : ReadChild(c) \/ ReadFails(c) =>
    /\ \E up \in BOOLEAN : Record(c, up)
    /\ r.pc = "read" /\ c \in r.child
<1> SUFFICES ASSUME NEW c \in App, ReadChild(c) \/ ReadFails(c)
             PROVE  (\E up \in BOOLEAN : Record(c, up)) /\ r.pc = "read" /\ c \in r.child
  OBVIOUS
<1>1. (c \in ready) \in BOOLEAN /\ FALSE \in BOOLEAN
  OBVIOUS
<1>2. Record(c, c \in ready) \/ Record(c, FALSE)
  BY DEF ReadChild, ReadFails
<1> HIDE DEF Record
<1>3. \E up \in BOOLEAN : Record(c, up)
  BY <1>1, <1>2, Zenon
<1> QED
  BY <1>3 DEF ReadChild, ReadFails

LEMMA NextTimerType == TypeOK => NextTimer \in -1..Timeout
BY TimeoutAssumption DEF NextTimer, NoTimer, TypeOK, Run, Status

LEMMA TierLoopTypes == TypeOK /\ TierLoop => TypeOK'
<1> SUFFICES ASSUME TypeOK, TierLoop PROVE TypeOK'
  OBVIOUS
<1> USE DEF cluster, bounds
<1>1. CASE SkipTier
  <2>1. r' \in Run
    <3>1. PICK todo \in SUBSET r.todo : r' = [r EXCEPT !.todo = todo]
      BY <1>1 DEF SkipTier
    <3> QED
      BY <3>1 DEF TypeOK, Run
  <2> QED
    BY <1>1, <2>1 DEF SkipTier, TypeOK
<1>2. CASE EnterTier
  <2>1. PICK c \in r.todo :
          r' = [r EXCEPT
                  !.pc = "apply",
                  !.tier = CurrentTier(c),
                  !.clear = @ \/ Blocked(Tier[c]),
                  !.bypassed = IF Blocked(Tier[c]) THEN GivenUp ELSE @,
                  !.queue = {d \in r.todo : Tier[d] = Tier[c]},
                  !.todo = {d \in r.todo : Tier[d] # Tier[c]}]
    BY <1>2 DEF EnterTier
  <2> DEFINE clear == r.clear \/ Blocked(Tier[c])
             bypassed == IF Blocked(Tier[c]) THEN GivenUp ELSE r.bypassed
             queue == {d \in r.todo : Tier[d] = Tier[c]}
             todo == {d \in r.todo : Tier[d] # Tier[c]}
  <2>2. r \in Run /\ c \in App
    BY DEF TypeOK, Run
  <2>3. CurrentTier(c) \in -1..3 /\ clear \in BOOLEAN
    BY <2>2, TierAssumption DEF CurrentTier
  <2>4. bypassed \in SUBSET App /\ queue \in SUBSET App /\ todo \in SUBSET App
    BY <2>2 DEF GivenUp, Run
  <2>5. r' \in Run
    <3>1. r' = [r EXCEPT !.pc = "apply", !.tier = CurrentTier(c), !.clear = clear,
                         !.bypassed = bypassed, !.queue = queue, !.todo = todo]
      BY <2>1
    <3> HIDE DEF clear, bypassed, queue, todo
    <3> QED
      BY <2>2, <2>3, <2>4, <3>1 DEF Run
  <2> QED
    BY <1>2, <2>5 DEF EnterTier, TypeOK
<1>3. CASE WriteStatus
  <2>1. /\ NextTimer \in -1..Timeout
        /\ Phase \in {"Pending", "RollingOut", "Ready", "Degraded"}
        /\ r.tier \in -1..3 /\ r.bypassed \in SUBSET App
        /\ r.seen \in SUBSET App /\ r.stuck \in SUBSET App
    BY NextTimerType DEF Phase, TypeOK, Run
  <2>2. status' \in Status
    BY <1>3, <2>1 DEF WriteStatus, Status
  <2> QED
    BY <1>3, <2>2, IdleType DEF WriteStatus, TypeOK
<1>4. CASE Abort
  BY <1>4, FaultType, IdleType DEF Abort, TypeOK
<1>5. ASSUME NEW c \in App, ApplyChild(c) PROVE TypeOK'
  <2>1. r' \in Run
    BY <1>5 DEF ApplyChild, TypeOK, Run
  <2>2. child' \in [App -> {"absent", "live", "terminating"}]
    BY <1>5 DEF ApplyChild, TypeOK
  <2> QED
    BY <1>5, <2>1, <2>2 DEF ApplyChild, TypeOK
<1>6. ASSUME NEW c \in App, ApplyRejected(c) PROVE TypeOK'
  BY <1>6, IdleType DEF ApplyRejected, TypeOK
<1>7. ASSUME NEW c \in App, ReadChild(c) PROVE TypeOK'
  <2>1. Record(c, c \in ready) /\ (c \in ready) \in BOOLEAN
    BY <1>7 DEF ReadChild
  <2>2. r' \in Run
    BY <2>1, RecordType
  <2> QED
    BY <1>7, <2>2 DEF ReadChild, TypeOK
<1>8. ASSUME NEW c \in App, ReadFails(c) PROVE TypeOK'
  <2>1. r' \in Run /\ faults' \in 0..MaxFaults
    BY <1>8, RecordType, FaultType DEF ReadFails
  <2> QED
    BY <1>8, <2>1 DEF ReadFails, TypeOK
<1> QED
  BY <1>1, <1>2, <1>3, <1>4, <1>5, <1>6, <1>7, <1>8 DEF TierLoop

LEMMA NextGroups ==
  Next => \/ Environment \/ Cleanup \/ TierLoop
          \/ Begin \/ NfsCall \/ NfsDeleteFails \/ RejectSpec \/ ListChildren
BY DEF Next, Handler, Fault, Cleanup, TierLoop

LEMMA NextType == TypeOK /\ [Next]_vars => TypeOK'
<1>1. TypeOK /\ UNCHANGED vars => TypeOK'
  BY DEF TypeOK, vars
<1> QED
  BY <1>1, NextGroups, EnvironmentTypes, PreludeTypes, CleanupTypes, TierLoopTypes

\* Every variable of the model keeps its type.
THEOREM TypeCorrect == Spec => []TypeOK
BY InitType, NextType, PTL DEF Spec

-----------------------------------------------------------------------------
(* The volumes of orphans. *)

LEMMA EnvironmentKeepsVolumes == TypeOK /\ VolumeInv /\ Environment => VolumeInv'
<1> SUFFICES ASSUME TypeOK, VolumeInv, Environment PROVE VolumeInv'
  OBVIOUS
<1> USE DEF VolumeInv, OneChild, KeptVolumesSurvive, DetachedFirst, TypeOK, cluster, bounds
<1>1. CASE EditSpec \/ Deliver
  BY <1>1 DEF EditSpec, Deliver
<1>2. CASE Tick
  <2>1. /\ r'.pc = r.pc /\ r'.child = r.child
        /\ r'.volumes = r.volumes /\ r'.failed = r.failed
    BY <1>2 DEF Tick, Run
  <2> QED
    BY <1>2, <2>1 DEF Tick
<1>3. ASSUME NEW c \in App, ChildReady(c) \/ ChildUnready(c) PROVE VolumeInv'
  BY <1>3 DEF ChildReady, ChildUnready
<1>4. ASSUME NEW c \in App, ChildGone(c) PROVE VolumeInv'
  <2>1. \A x \in kept : pvc'[x[1]][x[2]] = pvc[x[1]][x[2]]
    BY <1>4 DEF ChildGone, Disowned
  <2>2. \A d \in App : child'[d] # "live" => child[d] # "live"
    BY <1>4 DEF ChildGone
  <2> QED
    BY <1>4, <2>1, <2>2 DEF ChildGone
<1>5. ASSUME NEW c \in App, NEW v \in Volume, ChildProvision(c, v) \/ Collect(c, v)
      PROVE  VolumeInv'
  <2>1. \A x \in kept : pvc'[x[1]][x[2]] = pvc[x[1]][x[2]]
    BY <1>5 DEF ChildProvision, Collect
  <2> QED
    BY <1>5, <2>1 DEF ChildProvision, Collect
<1> QED
  BY <1>1, <1>2, <1>3, <1>4, <1>5 DEF Environment

\* Before the cleanup starts nothing is detached; volumes become kept there.
LEMMA PreludeKeepsVolumes ==
  TypeOK /\ VolumeInv /\ (Begin \/ NfsCall \/ NfsDeleteFails \/ RejectSpec \/ ListChildren)
    => VolumeInv'
<1> SUFFICES ASSUME TypeOK, VolumeInv,
                    Begin \/ NfsCall \/ NfsDeleteFails \/ RejectSpec \/ ListChildren
             PROVE  VolumeInv'
  OBVIOUS
<1>1. r'.pc \notin {"detach", "delete"} /\ UNCHANGED <<child, pvc>>
  <2>1. UNCHANGED <<child, pvc>>
    BY DEF Begin, NfsCall, NfsDeleteFails, RejectSpec, ListChildren, cluster
  <2>2. CASE Begin
    BY <2>1, <2>2, IdleType DEF Begin, Run
  <2>3. CASE RejectSpec
    BY <2>1, <2>3 DEF RejectSpec, Idle
  <2>4. CASE NfsCall \/ NfsDeleteFails
    <3>1. r' = NfsDone(r.nfsTodo \ {NfsNext})
      BY <2>4 DEF NfsCall, NfsDeleteFails
    <3> QED
      BY <2>1, <3>1 DEF NfsDone, TypeOK, Run
  <2>5. CASE ListChildren
    <3>1. r' = [r EXCEPT !.pc = "loop", !.want = r.spec.enabled, !.todo = r.spec.enabled,
                         !.orphans = Orphans]
      BY <2>5 DEF ListChildren
    <3> QED
      BY <2>1, <3>1 DEF TypeOK, Run
  <2> QED
    BY <2>2, <2>3, <2>4, <2>5
<1>2. CASE UNCHANGED kept
  BY <1>1, <1>2 DEF VolumeInv, OneChild, KeptVolumesSurvive, DetachedFirst
<1>3. CASE kept' = kept \union {x \in Orphans \X Volume :
             /\ child[x[1]] = "live"
             /\ pvc[x[1]][x[2]] \in {"owned", "detached"}}
  <2>1. \A x \in kept' : \/ x \in kept
                         \/ /\ child[x[1]] = "live"
                            /\ pvc[x[1]][x[2]] \in {"owned", "detached"}
    BY <1>3
  <2>2. KeptVolumesSurvive' /\ OneChild'
    BY <1>1, <2>1 DEF VolumeInv, KeptVolumesSurvive, OneChild
  <2>3. ASSUME NEW x \in kept' PROVE DetachedFirst(x[1], x[2])'
    BY <1>1, <2>1 DEF VolumeInv, DetachedFirst
  <2> QED
    BY <2>2, <2>3 DEF VolumeInv
<1> QED
  BY <1>2, <1>3 DEF Begin, NfsCall, NfsDeleteFails, RejectSpec, ListChildren

\* The heart: a child is deleted only after the detach of each claim succeeded.
LEMMA CleanupKeepsVolumes == TypeOK /\ VolumeInv /\ Cleanup => VolumeInv'
<1> SUFFICES ASSUME TypeOK, VolumeInv, Cleanup PROVE VolumeInv'
  OBVIOUS
<1> USE DEF VolumeInv, OneChild, KeptVolumesSurvive, DetachedFirst, cluster
<1>0. kept \subseteq App \X Volume /\ r \in Run
      /\ child \in [App -> {"absent", "live", "terminating"}]
      /\ pvc \in [App -> [Volume -> PvcState]]
  BY DEF TypeOK
<1>1. ASSUME NEW c \in App, PickOrphan(c) PROVE VolumeInv'
  <2>1. r'.pc = "detach" /\ r'.child = {c} /\ r'.volumes = Volume
    BY <1>0, <1>1 DEF PickOrphan, Run
  <2> QED
    BY <1>0, <1>1, <2>1 DEF PickOrphan
<1>2. ASSUME NEW c \in App, NEW v \in Volume, Detach(c, v) PROVE VolumeInv'
  <2>1. /\ r'.pc = "detach" /\ r'.child = r.child /\ r'.failed = r.failed
        /\ r'.volumes = r.volumes \ {v} /\ r.pc = "detach" /\ c \in r.child
    BY <1>0, <1>2 DEF Detach, Run
  <2>2. \A x \in kept : pvc'[x[1]][x[2]] =
          IF x = <<c, v>> THEN "detached" ELSE pvc[x[1]][x[2]]
    BY <1>0, <1>2 DEF Detach
  <2>3. UNCHANGED <<kept, child>>
    BY <1>2 DEF Detach
  <2>4. \A x \in kept : x[1] = c /\ x[2] = v => x = <<c, v>>
    BY <1>0
  <2> QED
    BY <1>0, <2>1, <2>2, <2>3, <2>4
<1>3. ASSUME NEW v \in Volume, DetachFails(v) PROVE VolumeInv'
  <2>1. r'.pc = "detach" /\ r'.child = r.child /\ r'.failed /\ r.pc = "detach"
    BY <1>0, <1>3 DEF DetachFails, Run
  <2>2. UNCHANGED <<kept, child, pvc>>
    BY <1>3 DEF DetachFails
  <2> QED
    BY <2>1, <2>2
<1>4. CASE DetachEnds
  <2>1. r.pc = "detach" /\ r.volumes = {} /\ UNCHANGED <<kept, child, pvc>>
    BY <1>4 DEF DetachEnds
  <2>2. \/ r'.pc = "loop"
        \/ r'.pc = "delete" /\ r'.child = r.child /\ ~r.failed
    BY <1>0, <1>4 DEF DetachEnds, DetachFailed, Run
  <2> QED
    BY <1>0, <2>1, <2>2
<1>5. ASSUME NEW c \in App, DeleteOrphan(c) PROVE VolumeInv'
  <2>1. r'.pc = "loop" /\ r.pc = "delete" /\ c \in r.child /\ UNCHANGED kept
    BY <1>0, <1>5 DEF DeleteOrphan, Run
  <2>2. \A x \in kept : x[1] = c => pvc[x[1]][x[2]] = "detached"
    BY <2>1
  <2>3. \A x \in kept : pvc'[x[1]][x[2]] = pvc[x[1]][x[2]]
    BY <1>0, <1>5, <2>2 DEF DeleteOrphan, Disowned
  <2>4. \A d \in App : d # c => child'[d] = child[d]
    BY <1>0, <1>5 DEF DeleteOrphan
  <2> QED
    BY <1>0, <2>1, <2>2, <2>3, <2>4
<1>6. CASE DeleteFails
  <2>1. r'.pc = "loop" /\ UNCHANGED <<kept, child, pvc>>
    BY <1>0, <1>6 DEF DeleteFails, Run
  <2> QED
    BY <2>1
<1> QED
  BY <1>1, <1>2, <1>3, <1>4, <1>5, <1>6 DEF Cleanup

\* The tier loop touches no claim; it only brings absent children back to life.
LEMMA TierLoopKeepsVolumes == TypeOK /\ VolumeInv /\ TierLoop => VolumeInv'
<1> SUFFICES ASSUME TypeOK, VolumeInv, TierLoop PROVE VolumeInv'
  OBVIOUS
<1>1. UNCHANGED <<kept, pvc>>
  BY DEF TierLoop, SkipTier, EnterTier, WriteStatus, Abort, ApplyChild, ApplyRejected, ReadChild,
         ReadFails, cluster
<1>2. \A c \in App : child'[c] # "live" => child[c] # "live"
  BY DEF TierLoop, SkipTier, EnterTier, WriteStatus, Abort, ApplyChild, ApplyRejected, ReadChild,
         ReadFails, cluster, TypeOK
<1>3. r'.pc \notin {"detach", "delete"}
  <2> USE DEF TypeOK, Run
  <2>1. CASE SkipTier \/ EnterTier
    BY <2>1 DEF SkipTier, EnterTier, InTierLoop
  <2>2. CASE WriteStatus \/ Abort \/ \E c \in App : ApplyRejected(c)
    BY <2>2 DEF WriteStatus, Abort, ApplyRejected, Idle
  <2>3. CASE \E c \in App : ApplyChild(c)
    BY <2>3 DEF ApplyChild
  <2>4. CASE \E c \in App : ReadChild(c) \/ ReadFails(c)
    BY <2>4, ReadRecords, RecordFields
  <2> QED
    BY <2>1, <2>2, <2>3, <2>4 DEF TierLoop
<1> QED
  BY <1>1, <1>2, <1>3 DEF VolumeInv, OneChild, KeptVolumesSurvive, DetachedFirst, TypeOK

\* Whatever fails, crashes or is edited: a volume that a live orphan had when a
\* reconcile listed it never loses its claim to the garbage collector.
THEOREM VolumesSurvive == Spec => []KeptVolumesSurvive
<1>1. Init => VolumeInv
  BY DEF Init, Idle, VolumeInv, OneChild, KeptVolumesSurvive, DetachedFirst
<1>2. TypeOK /\ VolumeInv /\ [Next]_vars => VolumeInv'
  <2>1. VolumeInv /\ UNCHANGED vars => VolumeInv'
    BY DEF VolumeInv, OneChild, KeptVolumesSurvive, DetachedFirst, vars
  <2> QED
    BY <2>1, NextGroups, EnvironmentKeepsVolumes, PreludeKeepsVolumes, CleanupKeepsVolumes,
       TierLoopKeepsVolumes
<1>3. VolumeInv => KeptVolumesSurvive
  BY DEF VolumeInv
<1> QED
  BY <1>1, <1>2, <1>3, InitType, NextType, PTL DEF Spec

-----------------------------------------------------------------------------
(* The gate between tiers. *)

\* Everything the gate's invariant says is about these parts of the reconcile.
SameGate ==
  /\ r'.pc \in Working \ InTier /\ r.pc \in Working \ InTier
  /\ r'.want = r.want /\ r'.todo = r.todo /\ r'.queue = r.queue
  /\ r'.seen = r.seen /\ r'.bypassed = r.bypassed /\ r'.clear = r.clear

LEMMA SameGateKeeps == GateInv /\ SameGate => GateInv'
BY DEF GateInv, SameGate, Working, InTier, InFlight, Handled

LEMMA EnvironmentKeepsGate == TypeOK /\ GateInv /\ Environment => GateInv'
<1> SUFFICES ASSUME TypeOK, GateInv, Environment PROVE GateInv'
  OBVIOUS
<1>1. CASE Tick
  <2>1. /\ r'.pc = r.pc /\ r'.child = r.child /\ r'.tier = r.tier
        /\ r'.want = r.want /\ r'.todo = r.todo /\ r'.queue = r.queue
        /\ r'.seen = r.seen /\ r'.bypassed = r.bypassed /\ r'.clear = r.clear
    BY <1>1 DEF Tick, TypeOK, Run
  <2> QED
    BY <2>1 DEF GateInv, InFlight, Handled
<1>2. CASE UNCHANGED r
  BY <1>2 DEF GateInv, InFlight, Handled
<1> QED
  BY <1>1, <1>2
  DEF Environment, EditSpec, Deliver, ChildReady, ChildUnready, ChildGone, ChildProvision, Collect

LEMMA PreludeKeepsGate ==
  TypeOK /\ GateInv /\ (Begin \/ NfsCall \/ NfsDeleteFails \/ RejectSpec \/ ListChildren)
    => GateInv'
<1> SUFFICES ASSUME TypeOK, GateInv,
                    Begin \/ NfsCall \/ NfsDeleteFails \/ RejectSpec \/ ListChildren
             PROVE  GateInv'
  OBVIOUS
<1> USE DEF GateInv, Working, InTier
<1>1. CASE Begin
  <2>1. r'.pc = "nfs" /\ r'.queue = {}
    BY <1>1 DEF Begin, Idle
  <2> QED
    BY <2>1
<1>2. CASE RejectSpec
  BY <1>2 DEF RejectSpec, Idle
<1>3. CASE NfsCall \/ NfsDeleteFails
  <2>1. r' = NfsDone(r.nfsTodo \ {NfsNext}) /\ r.pc = "nfs"
    BY <1>3 DEF NfsCall, NfsDeleteFails
  <2>2. r'.pc \in {"nfs", "validate"} /\ r'.queue = r.queue
    BY <2>1 DEF NfsDone, TypeOK, Run
  <2> QED
    BY <2>1, <2>2
<1>4. CASE ListChildren
  <2>1. /\ r' = [r EXCEPT !.pc = "loop", !.want = r.spec.enabled, !.todo = r.spec.enabled,
                          !.orphans = Orphans]
        /\ r.pc = "validate"
    BY <1>4 DEF ListChildren
  <2>2. r'.pc = "loop" /\ r'.want = r'.todo /\ r'.queue = r.queue
    BY <2>1 DEF TypeOK, Run
  <2> QED
    BY <2>1, <2>2 DEF Handled
<1> QED
  BY <1>1, <1>2, <1>3, <1>4

LEMMA CleanupKeepsGate == TypeOK /\ GateInv /\ Cleanup => GateInv'
<1> SUFFICES ASSUME TypeOK, Cleanup PROVE SameGate
  BY SameGateKeeps
<1> USE DEF SameGate, Working, InTier, TypeOK, Run
<1>1. ASSUME NEW c \in App, PickOrphan(c) PROVE SameGate
  BY <1>1 DEF PickOrphan
<1>2. ASSUME NEW c \in App, NEW v \in Volume, Detach(c, v) PROVE SameGate
  BY <1>2 DEF Detach
<1>3. ASSUME NEW v \in Volume, DetachFails(v) PROVE SameGate
  BY <1>3 DEF DetachFails
<1>4. CASE DetachEnds
  BY <1>4 DEF DetachEnds
<1>5. ASSUME NEW c \in App, DeleteOrphan(c) PROVE SameGate
  BY <1>5 DEF DeleteOrphan
<1>6. CASE DeleteFails
  BY <1>6 DEF DeleteFails
<1> QED
  BY <1>1, <1>2, <1>3, <1>4, <1>5, <1>6 DEF Cleanup

\* Entering a tier: either every app reported so far is ready or bypassed, or
\* the tier is the lowest there is, or all that are not ready are given up on.
LEMMA EnterTierKeepsGate ==
  ASSUME TypeOK, GateInv, EnterTier
  PROVE  GateInv'
<1>1. PICK c \in r.todo :
        /\ InNextTier(c)
        /\ r' = [r EXCEPT
                   !.pc = "apply",
                   !.tier = CurrentTier(c),
                   !.clear = @ \/ Blocked(Tier[c]),
                   !.bypassed = IF Blocked(Tier[c]) THEN GivenUp ELSE @,
                   !.queue = {d \in r.todo : Tier[d] = Tier[c]},
                   !.todo = {d \in r.todo : Tier[d] # Tier[c]}]
  BY DEF EnterTier
<1>2. r \in Run /\ c \in App /\ r.pc = "loop" /\ r.queue = {}
  BY DEF EnterTier, InTierLoop, TypeOK, Run, GateInv, InTier
<1>3. /\ r'.pc = "apply" /\ r'.tier = Tier[c] /\ r'.want = r.want /\ r'.seen = r.seen
      /\ r'.queue = {d \in r.todo : Tier[d] = Tier[c]}
      /\ r'.todo = {d \in r.todo : Tier[d] # Tier[c]}
      /\ r'.bypassed = IF Blocked(Tier[c]) THEN GivenUp ELSE r.bypassed
      /\ r'.clear <=> r.clear \/ Blocked(Tier[c])
  BY <1>1, <1>2 DEF CurrentTier, Run
<1>4. Handled' = r.want \ r.todo /\ Handled = r.want \ r.todo /\ InFlight' = {}
  BY <1>2, <1>3 DEF Handled, InFlight
<1>5. ASSUME r.clear \/ Blocked(Tier[c])
      PROVE  r.want \ r.todo \subseteq r'.seen \union r'.bypassed
  <2>1. CASE Blocked(Tier[c])
    BY <1>3, <2>1 DEF GivenUp
  <2>2. CASE ~Blocked(Tier[c]) /\ r.clear
    BY <1>2, <1>3, <1>4, <2>2 DEF GateInv, Working
  <2> QED
    BY <1>5, <2>1, <2>2
<1>6. ASSUME NEW d \in r.want, Tier[d] < Tier[c]
      PROVE  d \in r'.seen \union r'.bypassed
  <2>1. d \in App /\ Tier[d] \in 0..3 /\ Tier[c] \in 0..3
    BY <1>2, TierAssumption DEF Run
  <2>2. d \notin r.todo
    BY <1>1, <1>6, <2>1 DEF InNextTier
  <2>3. r.clear \/ Blocked(Tier[c])
    BY <1>6, <2>1 DEF Blocked
  <2> QED
    BY <1>5, <2>2, <2>3
<1> QED
  BY <1>3, <1>4, <1>5, <1>6 DEF GateInv, Working, InTier

LEMMA TierLoopKeepsGate == TypeOK /\ GateInv /\ TierLoop => GateInv'
<1> SUFFICES ASSUME TypeOK, GateInv, TierLoop PROVE GateInv'
  OBVIOUS
<1>1. CASE SkipTier
  <2>1. PICK todo \in SUBSET r.todo : r' = [r EXCEPT !.todo = todo]
    BY <1>1 DEF SkipTier
  <2>2. r.pc = "loop" /\ ~r.clear
    BY <1>1 DEF SkipTier, InTierLoop, Blocked
  <2>3. r'.pc = "loop" /\ r'.clear = r.clear /\ r'.queue = r.queue
    BY <2>1, <2>2 DEF TypeOK, Run
  <2> QED
    BY <2>2, <2>3 DEF GateInv, InTier
<1>2. CASE EnterTier
  BY <1>2, EnterTierKeepsGate
<1>3. CASE r' = Idle
  BY <1>3 DEF Idle, GateInv, Working, InTier
<1>4. ASSUME NEW c \in App, ApplyChild(c) PROVE GateInv'
  <2>1. /\ r.pc = "apply" /\ c \in r.queue
        /\ r'.pc = "read" /\ r'.child = {c} /\ r'.queue = r.queue \ {c} /\ r'.todo = r.todo
        /\ r'.want = r.want /\ r'.tier = r.tier /\ r'.clear = r.clear
        /\ r'.seen = r.seen /\ r'.bypassed = r.bypassed
    BY <1>4 DEF ApplyChild, TypeOK, Run
  <2>2. r'.queue \union InFlight' = r.queue /\ r.queue \union InFlight = r.queue
    BY <2>1 DEF InFlight
  <2>3. Handled' = Handled
    BY <2>1, <2>2 DEF Handled
  <2> QED
    BY <2>1, <2>2, <2>3 DEF GateInv, Working, InTier
<1>5. ASSUME NEW c \in App, ReadChild(c) \/ ReadFails(c) PROVE GateInv'
  <2>1. PICK up \in BOOLEAN : Record(c, up)
    BY <1>5, ReadRecords
  <2>2. /\ r'.pc = IF r.queue = {} THEN "loop" ELSE "apply"
        /\ r'.want = r.want /\ r'.todo = r.todo /\ r'.queue = r.queue /\ r'.tier = r.tier
        /\ r'.seen = IF up THEN r.seen \union {c} ELSE r.seen
        /\ r'.bypassed = IF StillBypassed(c, up) THEN r.bypassed \union {c} ELSE r.bypassed
        /\ r'.clear <=> r.clear /\ (up \/ c \in r.prev.bypassed)
    BY <2>1, RecordFields
  <2>3. r.pc = "read" /\ r.child = {c}
    BY <1>5, ReadRecords DEF GateInv
  <2>4. Handled' \subseteq Handled \union {c} /\ InFlight' = {} /\ InFlight = {c}
    BY <2>2, <2>3 DEF Handled, InFlight
  <2>5. ASSUME r'.clear PROVE Handled' \subseteq r'.seen \union r'.bypassed
    <3>1. Handled \subseteq r.seen \union r.bypassed
      BY <2>2, <2>3, <2>5 DEF GateInv, Working
    <3>2. c \in r'.seen \union r'.bypassed
      BY <2>2, <2>5 DEF StillBypassed
    <3> QED
      BY <2>2, <2>4, <3>1, <3>2
  <2>6. r.seen \union r.bypassed \subseteq r'.seen \union r'.bypassed
    BY <2>2
  <2> QED
    BY <2>2, <2>3, <2>4, <2>5, <2>6 DEF GateInv, Working, InTier
<1> QED
  BY <1>1, <1>2, <1>3, <1>4, <1>5 DEF TierLoop, WriteStatus, Abort, ApplyRejected

LEMMA InitGate == Init => GateInv
BY DEF Init, Idle, GateInv, Working, InTier

LEMMA NextKeepsGate == TypeOK /\ GateInv /\ [Next]_vars => GateInv'
<1>1. GateInv /\ UNCHANGED vars => GateInv'
  BY DEF GateInv, InFlight, Handled, vars
<1> QED
  BY <1>1, NextGroups, EnvironmentKeepsGate, PreludeKeepsGate, CleanupKeepsGate,
     TierLoopKeepsGate

\* Only the apply of a child of the current tier brings it into being.
LEMMA OnlyApplyCreates ==
  ASSUME TypeOK, Next, NEW c \in App, child[c] = "absent", child'[c] = "live"
  PROVE  ApplyChild(c)
<1>1. CASE Environment
  BY <1>1
  DEF Environment, EditSpec, Deliver, Tick, ChildReady, ChildUnready, ChildGone,
      ChildProvision, Collect, cluster, TypeOK
<1>2. CASE Begin \/ NfsCall \/ NfsDeleteFails \/ RejectSpec \/ ListChildren
  BY <1>2 DEF Begin, NfsCall, NfsDeleteFails, RejectSpec, ListChildren, cluster
<1>3. CASE Cleanup
  BY <1>3
  DEF Cleanup, PickOrphan, Detach, DetachFails, DetachEnds, DeleteOrphan, DeleteFails,
      cluster, TypeOK
<1>4. CASE TierLoop
  BY <1>4
  DEF TierLoop, SkipTier, EnterTier, WriteStatus, Abort, ApplyChild, ApplyRejected, ReadChild,
      ReadFails, cluster, TypeOK
<1> QED
  BY <1>1, <1>2, <1>3, <1>4, NextGroups

\* Whatever the timeouts, flaps and failures: a child is created only when the
\* same reconcile saw every wanted app of a lower tier ready or gave up on it.
THEOREM CreationIsGated == Spec => CreatedBehindGate
<1> DEFINE Gated == \A c \in App : (child[c] = "absent" /\ child'[c] = "live") =>
                      \A d \in r.want : Tier[d] < Tier[c] => d \in r.seen \union r.bypassed
<1>1. TypeOK /\ GateInv /\ [Next]_vars => [Gated]_vars
  <2> SUFFICES ASSUME TypeOK, GateInv, Next PROVE Gated
    OBVIOUS
  <2>1. SUFFICES ASSUME NEW c \in App, child[c] = "absent", child'[c] = "live",
                        NEW d \in r.want, Tier[d] < Tier[c]
                 PROVE  d \in r.seen \union r.bypassed
    OBVIOUS
  <2>2. r.pc = "apply" /\ c \in r.queue
    BY <2>1, OnlyApplyCreates DEF ApplyChild
  <2> QED
    BY <2>1, <2>2 DEF GateInv, InTier
<1> QED
  BY <1>1, InitGate, NextKeepsGate, InitType, NextType, PTL DEF Spec, CreatedBehindGate

-----------------------------------------------------------------------------
(* The contract of a rollout. *)

\* The wanted children that the pass has yet to settle.
Open == r.todo \union r.queue \union InFlight

PassInv ==
  /\ r.pc \notin Working => r.want = {}
  /\ r.pc \notin InTier => r.queue = {}
  /\ Open \union r.seen \union r.bypassed \subseteq r.want
  /\ Open \cap (r.seen \union r.bypassed) = {}
  /\ r.todo \cap r.queue = {} /\ InFlight \cap (r.todo \union r.queue) = {}
  /\ r.pc = "read" => \A c, d \in r.child : c = d
  /\ r.orphans \cap r.want = {}
  /\ r.pc \in {"detach", "delete"} => r.child \cap r.want = {}
  /\ r.seen \cap r.bypassed = {}
  /\ \A c \in ready : child[c] # "absent"
  /\ BypassCleared

\* What the invariant says of the reconcile is about these parts of it.
SamePass ==
  /\ r'.pc = r.pc /\ r'.want = r.want /\ r'.todo = r.todo /\ r'.queue = r.queue
  /\ r'.child = r.child /\ r'.orphans = r.orphans
  /\ r'.seen = r.seen /\ r'.bypassed = r.bypassed

LEMMA SamePassKeeps ==
  ASSUME PassInv, SamePass, UNCHANGED <<status.ready, status.bypassed>>,
         \A c \in ready' : child'[c] # "absent"
  PROVE  PassInv'
BY DEF PassInv, SamePass, InTier, Working, InFlight, Open, BypassCleared

LEMMA PassEnds ==
  ASSUME PassInv, r' = Idle, UNCHANGED <<child, ready>>, BypassCleared'
  PROVE  PassInv'
BY DEF PassInv, Idle, InTier, Working, InFlight, Open

LEMMA EnvironmentKeepsPass == TypeOK /\ PassInv /\ Environment => PassInv'
<1> SUFFICES ASSUME TypeOK, PassInv, Environment PROVE PassInv'
  OBVIOUS
<1> USE DEF cluster, bounds
<1>1. SamePass
  <2>1. CASE Tick
    BY <2>1 DEF Tick, SamePass, TypeOK, Run
  <2>2. CASE UNCHANGED r
    BY <2>2 DEF SamePass
  <2> QED
    BY <2>1, <2>2
    DEF Environment, EditSpec, Deliver, ChildReady, ChildUnready, ChildGone,
        ChildProvision, Collect
<1>2. UNCHANGED <<status.ready, status.bypassed>>
  <2>1. CASE Tick
    BY <2>1 DEF Tick, Aged, TypeOK, Status
  <2>2. CASE UNCHANGED status
    BY <2>2
  <2> QED
    BY <2>1, <2>2
    DEF Environment, EditSpec, Deliver, ChildReady, ChildUnready, ChildGone,
        ChildProvision, Collect
<1>3. \A c \in ready' : child'[c] # "absent"
  <2>1. ASSUME NEW c \in App, ChildReady(c) \/ ChildUnready(c) \/ ChildGone(c)
        PROVE  \A d \in ready' : child'[d] # "absent"
    BY <2>1 DEF ChildReady, ChildUnready, ChildGone, PassInv, TypeOK
  <2>2. CASE UNCHANGED <<child, ready>>
    BY <2>2 DEF PassInv
  <2> QED
    BY <2>1, <2>2 DEF Environment, EditSpec, Deliver, Tick, ChildProvision, Collect
<1> QED
  BY <1>1, <1>2, <1>3, SamePassKeeps

LEMMA PreludeKeepsPass ==
  TypeOK /\ PassInv /\ (Begin \/ NfsCall \/ NfsDeleteFails \/ RejectSpec \/ ListChildren)
    => PassInv'
<1> SUFFICES ASSUME TypeOK, PassInv,
                    Begin \/ NfsCall \/ NfsDeleteFails \/ RejectSpec \/ ListChildren
             PROVE  PassInv'
  OBVIOUS
<1> USE DEF cluster, bounds
<1>1. CASE Begin
  <2>1. /\ r'.pc = "nfs" /\ r'.want = {} /\ r'.todo = {} /\ r'.queue = {} /\ r'.orphans = {}
        /\ r'.seen = {} /\ r'.bypassed = {}
    BY <1>1 DEF Begin, Idle
  <2> QED
    BY <1>1, <2>1 DEF Begin, PassInv, Working, InTier, InFlight, Open, BypassCleared
<1>2. CASE RejectSpec
  <2>1. BypassCleared'
    BY <1>2 DEF RejectSpec, BypassCleared, DefaultStatus
  <2> QED
    BY <1>2, <2>1, PassEnds DEF RejectSpec
<1>3. CASE NfsCall \/ NfsDeleteFails
  <2>1. r' = NfsDone(r.nfsTodo \ {NfsNext}) /\ r.pc = "nfs" /\ UNCHANGED <<child, ready, status>>
    BY <1>3 DEF NfsCall, NfsDeleteFails
  <2>2. /\ r'.pc \in {"nfs", "validate"} /\ r'.want = r.want /\ r'.todo = r.todo
        /\ r'.queue = r.queue /\ r'.child = r.child /\ r'.orphans = r.orphans
        /\ r'.seen = r.seen /\ r'.bypassed = r.bypassed
    BY <2>1 DEF NfsDone, TypeOK, Run
  <2> QED
    BY <2>1, <2>2 DEF PassInv, Working, InTier, InFlight, Open, BypassCleared
<1>4. CASE ListChildren
  <2>1. r.pc = "validate" /\ r.want = {} /\ UNCHANGED <<child, ready, status>>
    BY <1>4 DEF ListChildren, PassInv, Working
  <2>2. /\ r'.pc = "loop" /\ r'.want = r.spec.enabled /\ r'.todo = r.spec.enabled
        /\ r'.queue = r.queue /\ r'.orphans = Orphans
        /\ r'.seen = r.seen /\ r'.bypassed = r.bypassed
    BY <1>4 DEF ListChildren, TypeOK, Run
  <2>3. r.queue = {} /\ r.seen = {} /\ r.bypassed = {}
    BY <2>1 DEF PassInv, InTier
  <2>4. Orphans \cap r.spec.enabled = {}
    BY DEF Orphans
  <2> QED
    BY <2>1, <2>2, <2>3, <2>4 DEF PassInv, Working, InTier, InFlight, Open, BypassCleared
<1> QED
  BY <1>1, <1>2, <1>3, <1>4

LEMMA CleanupKeepsPass == TypeOK /\ PassInv /\ Cleanup => PassInv'
<1> SUFFICES ASSUME TypeOK, PassInv, Cleanup PROVE PassInv'
  OBVIOUS
<1> USE DEF cluster, bounds
<1>1. /\ r.pc \in Working \ InTier /\ r'.pc \in Working \ InTier
      /\ r'.want = r.want /\ r'.todo = r.todo /\ r'.queue = r.queue
      /\ r'.seen = r.seen /\ r'.bypassed = r.bypassed
      /\ r'.orphans \subseteq r.orphans
      /\ r'.child \subseteq r.child \union r.orphans
      /\ r'.pc \in {"detach", "delete"} =>
           r'.child \subseteq r.orphans \/ (r.pc \in {"detach", "delete"} /\ r'.child = r.child)
  <2> USE DEF Working, InTier, TypeOK, Run
  <2>1. CASE \E c \in App : PickOrphan(c)
    BY <2>1 DEF PickOrphan
  <2>2. CASE \E c \in App, v \in Volume : Detach(c, v)
    BY <2>2 DEF Detach
  <2>3. CASE \E v \in Volume : DetachFails(v)
    BY <2>3 DEF DetachFails
  <2>4. CASE DetachEnds
    BY <2>4 DEF DetachEnds
  <2>5. CASE \E c \in App : DeleteOrphan(c)
    BY <2>5 DEF DeleteOrphan
  <2>6. CASE DeleteFails
    BY <2>6 DEF DeleteFails
  <2> QED
    BY <2>1, <2>2, <2>3, <2>4, <2>5, <2>6 DEF Cleanup
<1>2. UNCHANGED status
  BY DEF Cleanup, PickOrphan, Detach, DetachFails, DetachEnds, DeleteOrphan, DeleteFails
<1>3. \A c \in ready' : child'[c] # "absent"
  <2>1. ASSUME NEW c \in App, DeleteOrphan(c) PROVE \A d \in ready' : child'[d] # "absent"
    BY <2>1 DEF DeleteOrphan, PassInv, TypeOK
  <2>2. CASE UNCHANGED <<child, ready>>
    BY <2>2 DEF PassInv
  <2> QED
    BY <2>1, <2>2 DEF Cleanup, PickOrphan, Detach, DetachFails, DetachEnds, DeleteFails
<1> QED
  BY <1>1, <1>2, <1>3 DEF PassInv, Working, InTier, InFlight, Open, BypassCleared

\* What entering a tier changes in the running reconcile.
LEMMA EnterTierFields ==
  ASSUME TypeOK, EnterTier
  PROVE  \E c \in r.todo :
           /\ r.pc = "loop" /\ r'.pc = "apply"
           /\ r'.want = r.want /\ r'.seen = r.seen
           /\ r'.child = r.child /\ r'.orphans = r.orphans
           /\ r'.queue = {d \in r.todo : Tier[d] = Tier[c]}
           /\ r'.todo = {d \in r.todo : Tier[d] # Tier[c]}
           /\ r'.bypassed \in {r.bypassed, GivenUp}
<1>1. PICK c \in r.todo :
        r' = [r EXCEPT
                !.pc = "apply",
                !.tier = CurrentTier(c),
                !.clear = @ \/ Blocked(Tier[c]),
                !.bypassed = IF Blocked(Tier[c]) THEN GivenUp ELSE @,
                !.queue = {d \in r.todo : Tier[d] = Tier[c]},
                !.todo = {d \in r.todo : Tier[d] # Tier[c]}]
  BY DEF EnterTier
<1>2. r.pc = "loop"
  BY DEF EnterTier, InTierLoop
<1> QED
  BY <1>1, <1>2 DEF TypeOK, Run

LEMMA TierLoopKeepsPass == TypeOK /\ PassInv /\ TierLoop => PassInv'
<1> SUFFICES ASSUME TypeOK, PassInv, TierLoop PROVE PassInv'
  OBVIOUS
<1> USE DEF cluster, bounds
<1>1. CASE SkipTier
  <2>1. PICK todo \in SUBSET r.todo : r' = [r EXCEPT !.todo = todo]
    BY <1>1 DEF SkipTier
  <2>2. /\ r'.pc = r.pc /\ r'.want = r.want /\ r'.todo \subseteq r.todo /\ r'.queue = r.queue
        /\ r'.child = r.child /\ r'.orphans = r.orphans
        /\ r'.seen = r.seen /\ r'.bypassed = r.bypassed
    BY <2>1 DEF TypeOK, Run
  <2> QED
    BY <1>1, <2>2 DEF SkipTier, PassInv, InTier, Working, InFlight, Open, BypassCleared
<1>2. CASE EnterTier
  <2>1. PICK c \in r.todo :
          /\ r.pc = "loop" /\ r'.pc = "apply"
          /\ r'.want = r.want /\ r'.seen = r.seen
          /\ r'.child = r.child /\ r'.orphans = r.orphans
          /\ r'.queue = {d \in r.todo : Tier[d] = Tier[c]}
          /\ r'.todo = {d \in r.todo : Tier[d] # Tier[c]}
          /\ r'.bypassed \in {r.bypassed, GivenUp}
    BY <1>2, EnterTierFields
  <2>2. /\ GivenUp \subseteq r.want /\ GivenUp \cap r.seen = {}
        /\ GivenUp \cap r.todo = {}
    BY DEF GivenUp, PassInv, Open
  <2>3. UNCHANGED <<child, ready, status>>
    BY <1>2 DEF EnterTier
  <2> QED
    BY <2>1, <2>2, <2>3 DEF PassInv, InTier, Working, InFlight, Open, BypassCleared
<1>3. CASE WriteStatus
  <2>1. BypassCleared'
    BY <1>3 DEF WriteStatus, BypassCleared, PassInv
  <2> QED
    BY <1>3, <2>1, PassEnds DEF WriteStatus
<1>4. CASE Abort \/ \E c \in App : ApplyRejected(c)
  BY <1>4, PassEnds DEF Abort, ApplyRejected, PassInv, BypassCleared
<1>5. ASSUME NEW c \in App, ApplyChild(c) PROVE PassInv'
  <2>1. /\ r.pc = "apply" /\ c \in r.queue /\ r'.pc = "read" /\ r'.child = {c}
        /\ r'.queue = r.queue \ {c} /\ r'.todo = r.todo /\ r'.want = r.want
        /\ r'.orphans = r.orphans /\ r'.seen = r.seen /\ r'.bypassed = r.bypassed
    BY <1>5 DEF ApplyChild, TypeOK, Run
  <2>2. \A d \in ready' : child'[d] # "absent"
    BY <1>5 DEF ApplyChild, PassInv, TypeOK
  <2>3. UNCHANGED status
    BY <1>5 DEF ApplyChild
  <2> QED
    BY <2>1, <2>2, <2>3 DEF PassInv, InTier, Working, InFlight, Open, BypassCleared
<1>6. ASSUME NEW c \in App, ReadChild(c) \/ ReadFails(c) PROVE PassInv'
  <2>1. PICK up \in BOOLEAN : Record(c, up)
    BY <1>6, ReadRecords
  <2>2. /\ r'.pc = IF r.queue = {} THEN "loop" ELSE "apply"
        /\ r'.want = r.want /\ r'.todo = r.todo /\ r'.queue = r.queue
        /\ r'.seen = IF up THEN r.seen \union {c} ELSE r.seen
        /\ r'.bypassed = IF StillBypassed(c, up) THEN r.bypassed \union {c} ELSE r.bypassed
    BY <2>1, RecordFields
  <2>3. r'.orphans = r.orphans
    BY <2>1 DEF Record, TypeOK, Run
  <2>4. r.pc = "read" /\ r.child = {c}
    BY <1>6, ReadRecords DEF PassInv
  <2>5. UNCHANGED <<child, ready, status>>
    BY <1>6 DEF ReadChild, ReadFails
  <2> QED
    BY <2>2, <2>3, <2>4, <2>5
    DEF PassInv, InTier, Working, InFlight, Open, BypassCleared, StillBypassed
<1> QED
  BY <1>1, <1>2, <1>3, <1>4, <1>5, <1>6 DEF TierLoop

LEMMA InitPass == Init => PassInv
BY DEF Init, Idle, DefaultStatus, PassInv, InTier, Working, InFlight, Open, BypassCleared

LEMMA NextKeepsPass == TypeOK /\ PassInv /\ [Next]_vars => PassInv'
<1>1. PassInv /\ UNCHANGED vars => PassInv'
  BY DEF PassInv, InFlight, Open, BypassCleared, vars
<1> QED
  BY <1>1, NextGroups, EnvironmentKeepsPass, PreludeKeepsPass, CleanupKeepsPass,
     TierLoopKeepsPass

\* However stale the status a reconcile starts from, whatever times out, and
\* although apps turn ready and unready while it looks at them one by one: the
\* status it writes says of no app that it is ready and bypassed.
THEOREM BypassesCleared == Spec => []BypassCleared
<1>1. PassInv => BypassCleared
  BY DEF PassInv
<1> QED
  BY <1>1, InitType, NextType, InitPass, NextKeepsPass, PTL DEF Spec

-----------------------------------------------------------------------------
(* The refinement of Rollout: every step is one of its steps, or a stutter. *)

SameStatus == status'.ready = status.ready /\ status'.bypassed = status.bypassed
SameReport == r'.want = r.want /\ r'.seen = r.seen /\ r'.bypassed = r.bypassed

PromisedStep == [Promised!Next]_(Promised!vars)

LEMMA Stutters ==
  ASSUME SameStatus, SameReport, UNCHANGED <<child, ready>>
  PROVE  PromisedStep
BY DEF PromisedStep, SameStatus, SameReport, Promised!vars, Promised!pass

LEMMA EnvironmentPromised == TypeOK /\ PassInv /\ Environment => PromisedStep
<1> SUFFICES ASSUME TypeOK, PassInv, Environment PROVE PromisedStep
  OBVIOUS
<1> USE DEF cluster, bounds
<1>1. CASE EditSpec \/ Deliver \/ \E c \in App, v \in Volume : ChildProvision(c, v) \/ Collect(c, v)
  BY <1>1, Stutters DEF EditSpec, Deliver, ChildProvision, Collect, SameStatus, SameReport
<1>2. CASE Tick
  <2>1. SameStatus /\ SameReport
    BY <1>2 DEF Tick, Aged, TypeOK, Status, Run, SameStatus, SameReport
  <2> QED
    BY <1>2, <2>1, Stutters DEF Tick
<1>3. ASSUME NEW c \in App, ChildReady(c) \/ ChildUnready(c) PROVE PromisedStep
  <2>1. Promised!Turn(c)
    BY <1>3 DEF ChildReady, ChildUnready, Promised!Turn, Promised!pass
  <2> QED
    BY <2>1 DEF PromisedStep, Promised!Next
<1>4. ASSUME NEW c \in App, ChildGone(c) PROVE PromisedStep
  <2>1. Promised!Gone(c)
    BY <1>4 DEF ChildGone, Promised!Gone, Promised!Leave, Promised!pass
  <2> QED
    BY <2>1 DEF PromisedStep, Promised!Next
<1> QED
  BY <1>1, <1>2, <1>3, <1>4 DEF Environment

\* A pass starts when the children are listed; a spec that is not valid is rejected
\* before that.
LEMMA PreludePromised ==
  TypeOK /\ PassInv /\ (Begin \/ NfsCall \/ NfsDeleteFails \/ RejectSpec \/ ListChildren)
    => PromisedStep
<1> SUFFICES ASSUME TypeOK, PassInv,
                    Begin \/ NfsCall \/ NfsDeleteFails \/ RejectSpec \/ ListChildren
             PROVE  PromisedStep
  OBVIOUS
<1> USE DEF cluster, bounds
<1>1. r.pc \notin Working /\ r.want = {} /\ r.seen = {} /\ r.bypassed = {}
  BY DEF Begin, NfsCall, NfsDeleteFails, RejectSpec, ListChildren, PassInv, Working
<1>2. CASE Begin
  <2>1. SameStatus /\ SameReport
    BY <1>1, <1>2 DEF Begin, Idle, SameStatus, SameReport
  <2> QED
    BY <1>2, <2>1, Stutters DEF Begin
<1>3. CASE NfsCall \/ NfsDeleteFails
  <2>1. r' = NfsDone(r.nfsTodo \ {NfsNext}) /\ UNCHANGED <<child, ready, status>>
    BY <1>3 DEF NfsCall, NfsDeleteFails
  <2>2. SameStatus /\ SameReport
    BY <2>1 DEF NfsDone, TypeOK, Run, SameStatus, SameReport
  <2> QED
    BY <2>1, <2>2, Stutters
<1>4. CASE RejectSpec
  <2>1. /\ status'.ready = {} /\ status'.bypassed = {}
        /\ r'.want = {} /\ r'.seen = {} /\ r'.bypassed = {}
    BY <1>4 DEF RejectSpec, DefaultStatus, Idle
  <2>2. Promised!Reject
    BY <1>1, <1>4, <2>1
    DEF RejectSpec, Promised!Reject, Promised!Nothing, Promised!pass
  <2> QED
    BY <2>2 DEF PromisedStep, Promised!Next
<1>5. CASE ListChildren
  <2>1. r'.want = r.spec.enabled /\ r'.seen = r.seen /\ r'.bypassed = r.bypassed
    BY <1>5 DEF ListChildren, TypeOK, Run
  <2>2. r.spec.enabled \in SUBSET App
    BY DEF TypeOK, Run, Spec_
  <2>3. Promised!Start(r.spec.enabled)
    BY <1>1, <1>5, <2>1 DEF ListChildren, Promised!Start
  <2> QED
    BY <2>2, <2>3 DEF PromisedStep, Promised!Next
<1> QED
  BY <1>2, <1>3, <1>4, <1>5

\* Cleanup removes children, and only those that the pass does not want.
LEMMA CleanupPromised == TypeOK /\ PassInv /\ Cleanup => PromisedStep
<1> SUFFICES ASSUME TypeOK, PassInv, Cleanup PROVE PromisedStep
  OBVIOUS
<1> USE DEF cluster, bounds
<1>1. UNCHANGED status /\ SameReport
  <2> USE DEF SameReport, TypeOK, Run
  <2>1. CASE \E c \in App : PickOrphan(c) \/ DeleteOrphan(c)
    BY <2>1 DEF PickOrphan, DeleteOrphan
  <2>2. CASE \E c \in App, v \in Volume : Detach(c, v)
    BY <2>2 DEF Detach
  <2>3. CASE \E v \in Volume : DetachFails(v)
    BY <2>3 DEF DetachFails
  <2>4. CASE DetachEnds
    <3>1. UNCHANGED status /\ DetachEnds
      BY <2>4 DEF DetachEnds
    <3> QED
      BY <3>1 DEF DetachEnds
  <2>5. CASE DeleteFails
    BY <2>5 DEF DeleteFails
  <2> QED
    BY <2>1, <2>2, <2>3, <2>4, <2>5 DEF Cleanup
<1>2. CASE UNCHANGED <<child, ready>>
  BY <1>1, <1>2, Stutters DEF SameStatus
<1>3. ASSUME NEW c \in App, DeleteOrphan(c) PROVE PromisedStep
  <2>1. c \notin r.want
    BY <1>3 DEF DeleteOrphan, PassInv
  <2>2. CASE child[c] = "live"
    <3>1. Promised!Remove(c)
      BY <1>1, <1>3, <2>1, <2>2
      DEF DeleteOrphan, SameReport, Promised!Remove, Promised!Leave, Promised!pass
    <3> QED
      BY <3>1 DEF PromisedStep, Promised!Next
  <2>3. CASE child[c] # "live"
    <3>1. child' = [child EXCEPT ![c] = child[c]] /\ ready' \in {ready, ready \ {c}}
      BY <1>3, <2>3 DEF DeleteOrphan, TypeOK
    <3>2. child' = child
      BY <3>1 DEF TypeOK
    <3>3. CASE child[c] = "absent"
      <4>1. c \notin ready
        BY <3>3 DEF PassInv
      <4> QED
        BY <1>2, <3>1, <3>2, <4>1
    <3>4. CASE child[c] = "terminating"
      <4>1. ready' = ready
        BY <1>3, <3>4 DEF DeleteOrphan
      <4> QED
        BY <1>2, <3>2, <4>1
    <3> QED
      BY <2>3, <3>3, <3>4 DEF TypeOK
  <2> QED
    BY <2>2, <2>3
<1> QED
  BY <1>2, <1>3 DEF Cleanup, PickOrphan, Detach, DetachFails, DetachEnds, DeleteFails

\* The loop creates what the gate lets through, settles what it reads or gives up
\* on, and reports at its end.
LEMMA TierLoopPromised ==
  TypeOK /\ PassInv /\ GateInv /\ TierLoop => PromisedStep
<1> SUFFICES ASSUME TypeOK, PassInv, GateInv, TierLoop PROVE PromisedStep
  OBVIOUS
<1> USE DEF cluster, bounds
<1>1. CASE SkipTier
  <2>1. PICK todo \in SUBSET r.todo : r' = [r EXCEPT !.todo = todo]
    BY <1>1 DEF SkipTier
  <2>2. SameReport
    BY <2>1 DEF TypeOK, Run, SameReport
  <2> QED
    BY <1>1, <2>2, Stutters DEF SkipTier, SameStatus
<1>2. CASE EnterTier
  <2>1. /\ r'.want = r.want /\ r'.seen = r.seen
        /\ r'.bypassed \in {r.bypassed, r.bypassed \union (GivenUp \ r.bypassed)}
    BY <1>2, EnterTierFields DEF GivenUp
  <2> DEFINE S == IF r'.bypassed = r.bypassed THEN {} ELSE GivenUp \ r.bypassed
  <2>2. r'.bypassed = r.bypassed \union S /\ S \subseteq r.want \ r.seen
    BY <2>1 DEF GivenUp
  <2>3. S \in SUBSET App
    BY <2>2 DEF TypeOK, Run
  <2> HIDE DEF S
  <2>4. Promised!GiveUp(S)
    BY <1>2, <2>1, <2>2 DEF EnterTier, Promised!GiveUp
  <2> QED
    BY <2>3, <2>4 DEF PromisedStep, Promised!Next
<1>3. CASE WriteStatus
  <2>1. /\ status'.ready = r.seen /\ status'.bypassed = r.bypassed
        /\ r'.want = {} /\ r'.seen = {} /\ r'.bypassed = {}
    BY <1>3 DEF WriteStatus, Idle
  <2>2. Promised!Report
    BY <1>3, <2>1 DEF WriteStatus, Promised!Report, Promised!Over
  <2> QED
    BY <2>2 DEF PromisedStep, Promised!Next
<1>4. CASE Abort \/ \E c \in App : ApplyRejected(c)
  <2>1. r' = Idle /\ UNCHANGED <<child, ready, status>>
    BY <1>4 DEF Abort, ApplyRejected
  <2>2. Promised!Abandon
    BY <2>1 DEF Idle, Promised!Abandon, Promised!Over
  <2> QED
    BY <2>2 DEF PromisedStep, Promised!Next
<1>5. ASSUME NEW c \in App, ApplyChild(c) PROVE PromisedStep
  <2>1. /\ r.pc = "apply" /\ c \in r.queue /\ UNCHANGED <<ready, status>>
        /\ child' = [child EXCEPT ![c] = IF @ = "absent" THEN "live" ELSE @]
        /\ SameReport
    BY <1>5 DEF ApplyChild, TypeOK, Run, SameReport
  <2>2. CASE child[c] = "absent"
    <3>1. \A d \in r.want : Tier[d] < Tier[c] => d \in r.seen \union r.bypassed
      BY <2>1 DEF GateInv, InTier
    <3>2. c \in r.want
      BY <2>1 DEF PassInv, Open
    <3>3. Promised!Create(c)
      BY <2>1, <2>2, <3>1, <3>2
      DEF SameReport, TypeOK, Promised!Create, Promised!Settled, Promised!pass
    <3> QED
      BY <3>3 DEF PromisedStep, Promised!Next
  <2>3. CASE child[c] # "absent"
    <3>1. UNCHANGED child
      BY <2>1, <2>3 DEF TypeOK
    <3> QED
      BY <2>1, <3>1, Stutters DEF SameStatus
  <2> QED
    BY <2>2, <2>3
<1>6. ASSUME NEW c \in App, NEW up \in BOOLEAN, Record(c, up), up => c \in ready,
             r.pc = "read", c \in r.child, UNCHANGED <<child, ready, status>>
      PROVE  PromisedStep
  <2>1. /\ r'.want = r.want
        /\ r'.seen = IF up THEN r.seen \union {c} ELSE r.seen
        /\ r'.bypassed = IF StillBypassed(c, up) THEN r.bypassed \union {c} ELSE r.bypassed
    BY <1>6, RecordFields
  <2>2. c \in r.want /\ c \notin r.seen /\ c \notin r.bypassed
    BY <1>6 DEF PassInv, Open, InFlight
  <2>3. CASE up
    <3>1. r'.seen = r.seen \union {c} /\ r'.bypassed = r.bypassed
      BY <2>1, <2>3 DEF StillBypassed
    <3>2. Promised!FindReady(c)
      BY <1>6, <2>1, <2>2, <2>3, <3>1 DEF Promised!FindReady
    <3> QED
      BY <3>2 DEF PromisedStep, Promised!Next
  <2>4. CASE ~up /\ StillBypassed(c, up)
    <3>1. Promised!GiveUp({c})
      BY <1>6, <2>1, <2>2, <2>4 DEF Promised!GiveUp
    <3> QED
      BY <3>1 DEF PromisedStep, Promised!Next
  <2>5. CASE ~up /\ ~StillBypassed(c, up)
    BY <1>6, <2>1, <2>5, Stutters DEF SameStatus, SameReport
  <2> QED
    BY <2>3, <2>4, <2>5
<1>7. ASSUME NEW c \in App, ReadChild(c) PROVE PromisedStep
  <2>1. /\ Record(c, c \in ready) /\ (c \in ready) \in BOOLEAN
        /\ r.pc = "read" /\ c \in r.child /\ UNCHANGED <<child, ready, status>>
    BY <1>7 DEF ReadChild
  <2> QED
    BY <1>6, <2>1
<1>8. ASSUME NEW c \in App, ReadFails(c) PROVE PromisedStep
  <2>1. /\ Record(c, FALSE) /\ r.pc = "read" /\ c \in r.child
        /\ UNCHANGED <<child, ready, status>>
    BY <1>8 DEF ReadFails
  <2> QED
    BY <1>6, <2>1
<1> QED
  BY <1>1, <1>2, <1>3, <1>4, <1>5, <1>7, <1>8 DEF TierLoop

LEMMA InitPromised == Init => Promised!Init
BY AppAssumption DEF Init, Idle, DefaultStatus, Promised!Init, Promised!Nothing

\* The controller, with its stale cache, its timers, its failed calls and crashes,
\* and with children that come and go between any two of its calls, implements the
\* contract: a pass creates behind the gate, removes only what it does not want, and
\* reports what it found out.
THEOREM RolloutKept == Spec => KeepsRollout
<1>1. TypeOK /\ PassInv /\ GateInv /\ [Next]_vars => PromisedStep
  <2>1. UNCHANGED vars => PromisedStep
    BY Stutters DEF vars, SameStatus, SameReport
  <2> QED
    BY <2>1, NextGroups, EnvironmentPromised, PreludePromised, CleanupPromised,
       TierLoopPromised
<1> QED
  BY <1>1, InitPromised, InitGate, InitType, NextType, InitPass, NextKeepsPass, NextKeepsGate, PTL
  DEF Spec, KeepsRollout, Promised!Spec, PromisedStep
=============
