------------------------ MODULE AppReconcile_proofs ------------------------
(***************************************************************************)
(* Proofs about AppReconcile for any variants of the spec and any number   *)
(* of edits and mishaps.                                                   *)
(***************************************************************************)
EXTENDS AppReconcile, TLAPS

\* The Deployment a reconcile is about to delete is its app's own and has another
\* selector, if it is still the one it looked at; a later one has a later uid.
SeenOwned ==
  /\ r.uid =< deploy.uid
  /\ r.pc = "delete" /\ deploy.there /\ deploy.uid = r.uid
       => "app" \in deploy.owners /\ deploy.name # r.spec.variant.name

Good(o, s, held) ==
  Wanted(o, s.variant) => held[o].there /\ (o \in CreateOnly \/ held[o].gen = s.gen)

\* Unless a user interferes, what the reconcile has been through is as its spec
\* says, and the route it is at is the one its spec wants.
PassedIsBuilt ==
  /\ r.pc = "TcpRoute" => TcpWanted(r.spec.variant)
  /\ r.pc = "HttpRoute" => ~TcpWanted(r.spec.variant)
  /\ tampers = 0 => \A o \in Passed(r.pc) : Good(o, r.spec, objs)
  /\ tampers = 0 /\ r.pc \notin {"idle", "get", "delete", "apply"}
       => deploy.template = Template(r.spec, deploy.template)

IInv == TypeOK /\ SeenOwned /\ PassedIsBuilt

\* A reconcile that is over has passed and measured nothing.
LEMMA IdleIsRun ==
  ASSUME cache \in Object
  PROVE  /\ Idle \in Runs /\ Idle.pc = "idle" /\ Idle.uid = 0
         /\ ~Idle.ready /\ Idle.health = NoHealth
         /\ Passed("idle") = {} /\ Passed("get") = {}
<1>1. NoHealth \in Health
  BY DEF NoHealth, Health
<1>2. "idle" \in Steps
  BY DEF Steps
<1>3. Idle = [pc |-> "idle", spec |-> cache, uid |-> 0, ready |-> FALSE, health |-> NoHealth]
  BY DEF Idle
<1>4. Idle \in Runs
  BY <1>1, <1>2, <1>3 DEF Runs
<1> QED
  BY <1>3, <1>4 DEF Passed

\* An applied Deployment is there, is the app's, and holds the template.
LEMMA AppliedHolds ==
  ASSUME TypeOK, NEW s \in Object
  PROVE  /\ Applied(deploy, s) \in Deployments
         /\ Applied(deploy, s).uid >= deploy.uid
         /\ Applied(deploy, s).template = [gen |-> s.gen, order |-> 0]
<1>1. deploy \in Deployments /\ deploy.uid \in Nat /\ deploy.owners \in SUBSET Owners
  BY DEF TypeOK, Deployments
<1>2. s.gen \in 0 .. MaxEdits + 1 /\ s.variant.name \in {"old", "new"}
  BY VariantAssumption, BoundsAssumption DEF Object, Gen, Variant
<1>3. \A last : Template(s, last) = [gen |-> s.gen, order |-> 0]
  BY DEF Template
<1>4. [gen |-> s.gen, order |-> 0] \in Templates
  BY <1>2 DEF Templates
<1>5. CASE deploy.there
  <2>1. Applied(deploy, s) = [deploy EXCEPT !.owners = @ \cup {"app"},
                                            !.template = [gen |-> s.gen, order |-> 0]]
    BY <1>3, <1>5 DEF Applied
  <2>2. deploy.owners \cup {"app"} \in SUBSET Owners
    BY <1>1 DEF Owners
  <2>3. Applied(deploy, s) \in Deployments
    BY <1>1, <1>4, <2>1, <2>2 DEF Deployments
  <2>4. /\ Applied(deploy, s).uid = deploy.uid
        /\ Applied(deploy, s).template = [gen |-> s.gen, order |-> 0]
    BY <1>1, <2>1 DEF Deployments
  <2> QED
    BY <1>1, <2>3, <2>4
<1>6. CASE ~deploy.there
  <2>1. Applied(deploy, s) = [there |-> TRUE, uid |-> deploy.uid + 1, owners |-> {"app"},
          name |-> s.variant.name, template |-> [gen |-> s.gen, order |-> 0],
          extra |-> FALSE]
    BY <1>3, <1>6 DEF Applied
  <2>2. {"app"} \in SUBSET Owners
    BY DEF Owners
  <2> QED
    BY <1>1, <1>2, <1>4, <2>1, <2>2 DEF Deployments
<1> QED
  BY <1>5, <1>6

\* What is deleted keeps its uid.
LEMMA NoDeploymentTyped ==
  ASSUME NEW u \in Nat
  PROVE  /\ NoDeployment(u) \in Deployments
         /\ NoDeployment(u).uid = u /\ ~NoDeployment(u).there
<1>1. NoTemplate \in Templates
  BY BoundsAssumption DEF NoTemplate, Templates
<1> QED
  BY <1>1 DEF NoDeployment, Deployments, Owners

\* At first there is no Deployment, or one of somebody else.
LEMMA InitDeployment ==
  ASSUME Init
  PROVE  \/ deploy = NoDeployment(0)
         \/ \E n \in {"old", "new"} :
              deploy = [there |-> TRUE, uid |-> 0, owners |-> {"other"}, name |-> n,
                        template |-> NoTemplate, extra |-> FALSE]
<1>1. CASE deploy = NoDeployment(0)
  BY <1>1
<1>2. CASE deploy # NoDeployment(0)
  <2>1. deploy \in [there : {TRUE}, uid : {0}, owners : {{"other"}}, name : {"old", "new"},
                    template : {NoTemplate}, extra : {FALSE}]
    BY <1>2 DEF Init
  <2> QED
    BY <2>1
<1> QED
  BY <1>1, <1>2

LEMMA InitInv == Init => IInv
<1> SUFFICES ASSUME Init PROVE IInv
  OBVIOUS
<1>1. spec \in Object /\ cache \in Object
  BY BoundsAssumption DEF Init, Object, Gen
<1>2. NoTemplate \in Templates /\ NoHealth \in Health
  BY BoundsAssumption DEF NoTemplate, Templates, NoHealth, Health
<1>3. deploy \in Deployments
  <2>1. CASE deploy = NoDeployment(0)
    BY <2>1, NoDeploymentTyped
  <2>2. CASE deploy # NoDeployment(0)
    <3>1. PICK n \in {"old", "new"} :
             deploy = [there |-> TRUE, uid |-> 0, owners |-> {"other"}, name |-> n,
                       template |-> NoTemplate, extra |-> FALSE]
      BY <2>2, InitDeployment
    <3>2. {"other"} \in SUBSET Owners
      BY DEF Owners
    <3> QED
      BY <3>1, <3>2, <1>2 DEF Deployments
  <2> QED
    BY <2>1, <2>2
<1>4. objs \in [Objects -> Held] /\ pod \in Pods /\ status \in Statuses /\ well \in BOOLEAN
  BY <1>2, BoundsAssumption DEF Init, Held, Pods, Statuses
<1>5. r \in Runs /\ r.pc = "idle" /\ r.uid = 0 /\ ~r.ready /\ r.health = NoHealth
  BY <1>1, IdleIsRun DEF Init
<1>6. edits = 0 /\ tampers = 0 /\ faults = 0 /\ spec.gen = 1
  BY DEF Init
<1>7. TypeOK
  BY <1>1, <1>3, <1>4, <1>5, <1>6, BoundsAssumption DEF TypeOK
<1>8. deploy.uid \in Nat
  BY <1>3 DEF Deployments
<1>9. SeenOwned /\ PassedIsBuilt
  BY <1>1, <1>5, <1>8, IdleIsRun DEF SeenOwned, PassedIsBuilt
<1> QED
  BY <1>7, <1>9 DEF IInv

\* The invariant after a step that leaves the cluster alone and ends the
\* reconcile.
LEMMA StopKeeps ==
  ASSUME IInv, Stops(r.pc), UNCHANGED <<spec, cache, cluster, edits>>, status' \in Statuses,
         tampers' \in Nat, faults' \in Nat, tampers' + faults' =< MaxMishaps
  PROVE  IInv'
<1>1. r' = Idle
  BY DEF Stops
<1>2. r' \in Runs /\ r'.pc = "idle" /\ r'.uid = 0 /\ ~r'.ready /\ r'.health = NoHealth
  BY <1>1, IdleIsRun DEF IInv, TypeOK
<1>3. TypeOK'
  BY <1>2 DEF IInv, TypeOK, cluster
<1>4. deploy.uid \in Nat
  BY DEF IInv, TypeOK, Deployments
<1>5. SeenOwned' /\ PassedIsBuilt'
  BY <1>2, <1>4, IdleIsRun DEF SeenOwned, PassedIsBuilt, IInv, TypeOK, cluster
<1> QED
  BY <1>3, <1>5 DEF IInv

\* The invariant after a step of the reconcile to pc that measures nothing.
LEMMA GotoKeeps ==
  ASSUME IInv, NEW pc \in (Steps \cup Objects) \ {"read", "status", "delete"}, Goto(pc),
         r.pc \notin {"read", "status"},
         UNCHANGED <<spec, cache, pod, well, status, bounds>>,
         deploy' \in Deployments, deploy'.uid >= deploy.uid, objs' \in [Objects -> Held],
         pc = "TcpRoute" => TcpWanted(r.spec.variant),
         pc = "HttpRoute" => ~TcpWanted(r.spec.variant),
         tampers = 0 => \A o \in Passed(pc) : Good(o, r.spec, objs'),
         tampers = 0 /\ pc \notin {"idle", "get", "delete", "apply"}
           => deploy'.template = Template(r.spec, deploy'.template)
  PROVE  IInv'
<1>1. /\ r' \in Runs /\ r'.pc = pc /\ r'.spec = r.spec /\ r'.uid = r.uid
      /\ r'.ready = r.ready /\ r'.health = r.health
  BY DEF IInv, TypeOK, Goto, Runs
<1>2. TypeOK'
  BY <1>1 DEF IInv, TypeOK, bounds
<1>3. deploy.uid \in Nat /\ deploy'.uid \in Nat /\ r.uid \in Nat
  BY DEF IInv, TypeOK, Deployments, Runs
<1>4. SeenOwned'
  BY <1>1, <1>3 DEF IInv, SeenOwned
<1>5. PassedIsBuilt'
  BY <1>1 DEF PassedIsBuilt, bounds
<1> QED
  BY <1>2, <1>4, <1>5 DEF IInv

-----------------------------------------------------------------------------
(* Users, the watch and the cluster.                                       *)

\* What users change does not reach the reconcile, and a Deployment of their own
\* has a later uid.
LEMMA UserKeeps ==
  ASSUME IInv, EditSpec \/ TamperObject \/ TamperDeployment \/ HealthChanges
  PROVE  IInv'
<1>1. deploy \in Deployments /\ deploy.uid \in Nat /\ r.uid \in Nat
  BY DEF IInv, TypeOK, Deployments, Runs
<1>2. CASE EditSpec
  <2>1. PICK v \in Variants : spec' = [variant |-> v, gen |-> spec.gen + 1]
    BY <1>2 DEF EditSpec
  <2>2. spec.gen = edits + 1 /\ edits \in Nat /\ edits < MaxEdits /\ edits' = edits + 1
    BY <1>2 DEF IInv, TypeOK, EditSpec
  <2>3. spec' \in Object /\ spec'.gen = edits' + 1 /\ edits' \in 0 .. MaxEdits
    BY <2>1, <2>2, BoundsAssumption DEF Object, Gen
  <2>4. UNCHANGED <<cache, deploy, objs, pod, well, status, r, tampers, faults>>
    BY <1>2 DEF EditSpec, cluster
  <2> QED
    BY <2>3, <2>4 DEF IInv, TypeOK, SeenOwned, PassedIsBuilt
<1>3. ASSUME Tampering, deploy' \in Deployments, deploy'.uid >= deploy.uid,
             deploy'.there /\ deploy'.uid = deploy.uid
               => deploy.there /\ deploy'.owners = deploy.owners /\ deploy'.name = deploy.name,
             objs' \in [Objects -> Held], well' \in BOOLEAN
      PROVE  IInv'
  <2>1. /\ tampers' = tampers + 1 /\ tampers' \in Nat /\ tampers' # 0
        /\ tampers' + faults =< MaxMishaps
        /\ UNCHANGED <<spec, cache, pod, status, r, edits, faults>>
    BY <1>3, BoundsAssumption DEF Tampering, IInv, TypeOK
  <2>2. TypeOK'
    BY <1>3, <2>1 DEF IInv, TypeOK
  <2>3. deploy'.uid \in Nat
    BY <1>3 DEF Deployments
  <2>4. SeenOwned'
    BY <1>1, <1>3, <2>1, <2>3 DEF IInv, SeenOwned
  <2>5. PassedIsBuilt'
    BY <2>1 DEF IInv, PassedIsBuilt
  <2> QED
    BY <2>2, <2>4, <2>5 DEF IInv
<1>4. CASE TamperObject
  <2>1. PICK o \in Objects : \/ objs' = [objs EXCEPT ![o].gen = 0]
                            \/ objs' = [objs EXCEPT ![o].there = FALSE]
    BY <1>4 DEF TamperObject
  <2>2. objs \in [Objects -> Held] /\ 0 \in 0 .. MaxEdits + 1
    BY BoundsAssumption DEF IInv, TypeOK
  <2>3. objs' \in [Objects -> Held]
    BY <2>1, <2>2 DEF Held
  <2> QED
    BY <1>1, <1>3, <1>4, <2>3 DEF TamperObject, IInv, TypeOK
<1>5. CASE TamperDeployment
  <2>1. NoTemplate \in Templates /\ {"other"} \in SUBSET Owners
    BY BoundsAssumption DEF NoTemplate, Templates, Owners
  <2>2. deploy.there /\ objs' = objs /\ well' = well /\ Tampering
    BY <1>5 DEF TamperDeployment
  <2>3. CASE deploy' = [deploy EXCEPT !.template = NoTemplate]
    <3>1. deploy' \in Deployments /\ deploy'.uid = deploy.uid
          /\ deploy'.owners = deploy.owners /\ deploy'.name = deploy.name
      BY <1>1, <2>1, <2>3 DEF Deployments
    <3> QED
      BY <1>1, <1>3, <2>2, <3>1 DEF IInv, TypeOK
  <2>4. CASE deploy' = [deploy EXCEPT !.extra = TRUE]
    <3>1. deploy' \in Deployments /\ deploy'.uid = deploy.uid
          /\ deploy'.owners = deploy.owners /\ deploy'.name = deploy.name
      BY <1>1, <2>4 DEF Deployments
    <3> QED
      BY <1>1, <1>3, <2>2, <3>1 DEF IInv, TypeOK
  <2>5. CASE deploy' = NoDeployment(deploy.uid)
    BY <1>1, <1>3, <2>2, <2>5, NoDeploymentTyped DEF IInv, TypeOK
  <2>6. CASE deploy' = [NoDeployment(deploy.uid + 1) EXCEPT !.there = TRUE, !.owners = {"other"}]
    <3>1. NoDeployment(deploy.uid + 1) \in Deployments
          /\ NoDeployment(deploy.uid + 1).uid = deploy.uid + 1
      BY <1>1, NoDeploymentTyped
    <3>2. deploy' \in Deployments /\ deploy'.uid = deploy.uid + 1
      BY <2>1, <2>6, <3>1 DEF Deployments
    <3> QED
      BY <1>1, <1>3, <2>2, <3>2 DEF IInv, TypeOK
  <2> QED
    BY <1>5, <2>3, <2>4, <2>5, <2>6 DEF TamperDeployment
<1>6. CASE HealthChanges
  <2>1. Tampering /\ UNCHANGED <<deploy, objs>> /\ well' = ~well
    BY <1>6 DEF HealthChanges
  <2>2. well' \in BOOLEAN
    BY <2>1, Zenon
  <2> QED
    BY <1>1, <1>3, <2>1, <2>2 DEF IInv, TypeOK
<1> QED
  BY <1>2, <1>4, <1>5, <1>6

\* The watch, the cluster and the clock.
LEMMA ClusterKeeps ==
  ASSUME IInv, Deliver \/ PodMoves \/ PodReady \/ Ages
  PROVE  IInv'
<1>1. CASE Deliver
  BY <1>1 DEF Deliver, cluster, bounds, IInv, TypeOK, SeenOwned, PassedIsBuilt
<1>2. ASSUME pod' \in Pods,
             UNCHANGED <<spec, cache, deploy, objs, well, status, r, bounds>>
      PROVE  IInv'
  BY <1>2 DEF bounds, IInv, TypeOK, SeenOwned, PassedIsBuilt
<1>3. CASE PodMoves
  <2>1. deploy.template \in Templates /\ NoTemplate \in Templates
    BY BoundsAssumption DEF IInv, TypeOK, Deployments, NoTemplate, Templates
  <2>2. \/ pod' = [there |-> TRUE, up |-> FALSE, template |-> deploy.template]
        \/ pod' = [there |-> FALSE, up |-> FALSE, template |-> NoTemplate]
    BY <1>3 DEF PodMoves
  <2>3. \A t \in Templates, there \in BOOLEAN :
          [there |-> there, up |-> FALSE, template |-> t] \in Pods
    BY DEF Pods
  <2>4. pod' \in Pods
    BY <2>1, <2>2, <2>3
  <2> QED
    BY <1>2, <1>3, <2>4 DEF PodMoves
<1>4. CASE PodReady
  <2>1. pod' \in Pods
    BY <1>4 DEF PodReady, Pods, IInv, TypeOK
  <2> QED
    BY <1>2, <1>4, <2>1 DEF PodReady
<1>5. CASE Ages
  <2>1. /\ status' = [status EXCEPT !.health.fresh = FALSE]
        /\ r' = [r EXCEPT !.health.fresh = FALSE]
        /\ UNCHANGED <<spec, cache, deploy, objs, pod, well, edits, tampers, faults>>
    BY <1>5 DEF Ages, cluster, bounds
  <2>2. status' \in Statuses
    BY <2>1 DEF IInv, TypeOK, Statuses, Health
  <2>3. r' \in Runs /\ r'.pc = r.pc /\ r'.spec = r.spec /\ r'.uid = r.uid /\ r'.ready = r.ready
    BY <2>1 DEF IInv, TypeOK, Runs, Health
  <2>4. r.health = NoHealth => r'.health = NoHealth
    <3>1. r.health \in Health /\ r'.health = [r.health EXCEPT !.fresh = FALSE]
      BY <2>1 DEF IInv, TypeOK, Runs
    <3>2. r.health = NoHealth => r.health.fresh = FALSE
      BY DEF NoHealth
    <3> QED
      BY <3>1, <3>2 DEF Health
  <2>5. TypeOK'
    BY <2>1, <2>2, <2>3, <2>4 DEF IInv, TypeOK
  <2>6. SeenOwned' /\ PassedIsBuilt'
    BY <2>1, <2>3 DEF IInv, SeenOwned, PassedIsBuilt
  <2> QED
    BY <2>5, <2>6 DEF IInv
<1> QED
  BY <1>1, <1>3, <1>4, <1>5

-----------------------------------------------------------------------------
(* The reconcile.                                                          *)

\* A reconcile starts, or ends without an answer.
LEMMA StartKeeps ==
  ASSUME IInv, Begin \/ CallFails
  PROVE  IInv'
<1>1. CASE Begin
  <2>1. /\ r' = [Idle EXCEPT !.pc = "get"]
        /\ UNCHANGED <<spec, cache, deploy, objs, pod, well, status, edits, tampers, faults>>
    BY <1>1 DEF Begin, cluster, bounds
  <2>2. /\ r' \in Runs /\ r'.pc = "get" /\ r'.uid = 0 /\ ~r'.ready
        /\ r'.health = NoHealth
    BY <2>1, IdleIsRun DEF IInv, TypeOK, Runs, Steps
  <2>3. Passed("get") = {} /\ deploy.uid \in Nat
    BY DEF Passed, IInv, TypeOK, Deployments
  <2> QED
    BY <2>1, <2>2, <2>3 DEF IInv, TypeOK, SeenOwned, PassedIsBuilt
<1>2. CASE CallFails
  <2>1. /\ Stops(r.pc) /\ UNCHANGED <<spec, cache, cluster, status, edits, tampers>>
        /\ faults' = faults + 1 /\ tampers + faults < MaxMishaps
    BY <1>2 DEF CallFails, Fault
  <2>2. status' \in Statuses /\ tampers' \in Nat /\ faults' \in Nat
        /\ tampers' + faults' =< MaxMishaps
    BY <2>1, BoundsAssumption DEF IInv, TypeOK
  <2> QED
    BY <2>1, <2>2, StopKeeps
<1> QED
  BY <1>1, <1>2

\* Stopping without a fault.
LEMMA StopsQuietly ==
  ASSUME IInv, Stops(r.pc), UNCHANGED <<spec, cache, deploy, objs, pod, well, status, bounds>>
  PROVE  IInv'
<1>1. /\ status' \in Statuses /\ tampers' \in Nat /\ faults' \in Nat
      /\ tampers' + faults' =< MaxMishaps
  BY DEF bounds, IInv, TypeOK
<1> QED
  BY <1>1, StopKeeps DEF cluster, bounds

\* The Deployment is looked at, deleted, applied and read back.
LEMMA DeploymentKeeps ==
  ASSUME IInv, \/ GetDeployment \/ DeleteDeployment \/ CheckDrift
               \/ ApplyDeployment("apply", "drift") \/ ApplyDeployment("reapply", "Service")
  PROVE  IInv'
<1> DEFINE D == Applied(deploy, r.spec)
<1>1. /\ deploy \in Deployments /\ deploy.uid \in Nat /\ r \in Runs /\ r.spec \in Object
      /\ objs \in [Objects -> Held]
  BY DEF IInv, TypeOK, Deployments, Runs
<1>2. /\ Passed("apply") = {} /\ Passed("drift") = {} /\ Passed("reapply") = {}
      /\ Passed("Service") = {} /\ Passed("delete") = {}
      /\ {"apply", "drift", "reapply", "Service"} \subseteq
           (Steps \cup Objects) \ {"read", "status", "delete"}
  BY DEF Passed, Steps, Objects
<1>3. CASE GetDeployment
  <2>1. PICK pc \in {"delete", "apply"} :
          /\ r' = [r EXCEPT !.pc = pc, !.uid = deploy.uid]
          /\ pc = "delete" => "app" \in deploy.owners /\ deploy.name # r.spec.variant.name
    BY <1>3 DEF GetDeployment, Stale
  <2>2. /\ r.pc = "get" /\ UNCHANGED <<spec, cache, deploy, objs, pod, well, status, bounds>>
    BY <1>3 DEF GetDeployment, cluster
  <2>3. /\ r' \in Runs /\ r'.pc = pc /\ r'.uid = deploy.uid /\ r'.spec = r.spec
        /\ r'.ready = r.ready /\ r'.health = r.health
    BY <1>1, <2>1 DEF Runs, Steps
  <2>4. TypeOK'
    BY <2>2, <2>3 DEF IInv, TypeOK, bounds
  <2> QED
    BY <1>1, <1>2, <2>1, <2>2, <2>3, <2>4 DEF IInv, SeenOwned, PassedIsBuilt, bounds
<1>4. CASE DeleteDeployment
  <2>1. r.pc = "delete" /\ UNCHANGED <<spec, cache, objs, pod, well, status, bounds>>
    BY <1>4 DEF DeleteDeployment
  <2>2. CASE deploy.there
    <3>1. deploy' = NoDeployment(deploy.uid) /\ Goto("apply")
      BY <1>4, <2>2 DEF DeleteDeployment
    <3>2. deploy' \in Deployments /\ deploy'.uid = deploy.uid
      BY <1>1, <3>1, NoDeploymentTyped
    <3> QED
      BY <1>1, <1>2, <2>1, <3>1, <3>2, GotoKeeps
  <2>3. CASE ~deploy.there
    BY <1>4, <2>1, <2>3, StopsQuietly DEF DeleteDeployment
  <2> QED
    BY <2>2, <2>3
<1>5. ASSUME NEW pc \in {"apply", "reapply"}, NEW next \in {"drift", "Service"},
             ApplyDeployment(pc, next)
      PROVE  IInv'
  <2>1. r.pc = pc /\ UNCHANGED <<spec, cache, objs, pod, well, status, bounds>>
    BY <1>5 DEF ApplyDeployment
  <2>2. CASE deploy.there /\ deploy.name # r.spec.variant.name
    BY <1>5, <2>1, <2>2, StopsQuietly DEF ApplyDeployment
  <2>3. CASE ~(deploy.there /\ deploy.name # r.spec.variant.name)
    <3>1. deploy' = D /\ Goto(next)
      BY <1>5, <2>3 DEF ApplyDeployment
    <3>2. /\ D \in Deployments /\ D.uid >= deploy.uid
          /\ D.template = Template(r.spec, D.template)
      BY <1>1, AppliedHolds DEF IInv, Template
    <3> HIDE DEF D
    <3> QED
      BY <1>1, <1>2, <2>1, <3>1, <3>2, GotoKeeps
  <2> QED
    BY <2>2, <2>3
<1>6. CASE CheckDrift
  <2>1. r.pc = "drift" /\ UNCHANGED <<spec, cache, deploy, objs, pod, well, status, bounds>>
    BY <1>6 DEF CheckDrift, cluster
  <2>2. CASE ~deploy.there
    BY <1>6, <2>1, <2>2, StopsQuietly DEF CheckDrift
  <2>3. CASE deploy.there
    <3>1. PICK pc \in {"Service", "reapply"} : Goto(pc)
      BY <1>6, <2>3 DEF CheckDrift
    <3>2. tampers = 0 => deploy.template = Template(r.spec, deploy.template)
      BY <2>1 DEF IInv, PassedIsBuilt
    <3> QED
      BY <1>1, <1>2, <2>1, <3>1, <3>2, GotoKeeps
  <2> QED
    BY <2>2, <2>3
<1> QED
  BY <1>3, <1>4, <1>5, <1>6

\* An object that was applied or ensured is as the spec says, and the others are
\* as they were.
LEMMA ObjectStep ==
  ASSUME IInv, NEW o \in Objects, NEW next \in (Steps \cup Objects) \ {"read", "status", "delete"},
         Apply(o, next) \/ (o \in CreateOnly /\ Ensure(o, next)),
         next \notin {"idle", "get", "apply", "TcpRoute", "HttpRoute"},
         \A p \in Passed(next) : p # o => p \in Passed(o) \/ ~Wanted(p, r.spec.variant)
  PROVE  IInv'
<1> DEFINE held == [there |-> TRUE, gen |-> r.spec.gen]
<1>1. /\ r.pc = o /\ Goto(next)
      /\ UNCHANGED <<spec, cache, deploy, pod, well, status, bounds>>
  BY DEF Apply, Ensure
<1>2. objs \in [Objects -> Held] /\ r \in Runs /\ r.spec.gen \in 0 .. MaxEdits + 1
      /\ deploy \in Deployments /\ deploy.uid \in Nat
  BY BoundsAssumption DEF IInv, TypeOK, Runs, Object, Gen, Deployments
<1>3. held \in Held
  BY <1>2 DEF Held
<1>4. objs' = objs \/ objs' = [objs EXCEPT ![o] = held]
  BY DEF Apply, Ensure
<1>5. objs' \in [Objects -> Held]
  BY <1>2, <1>3, <1>4
<1>6. Good(o, r.spec, objs')
  <2>1. CASE Apply(o, next)
    <3>1. Wanted(o, r.spec.variant) => objs' = [objs EXCEPT ![o] = held]
      BY <2>1 DEF Apply
    <3>2. Wanted(o, r.spec.variant) => objs'[o] = held
      BY <1>2, <3>1
    <3> QED
      BY <3>2 DEF Good
  <2>2. CASE o \in CreateOnly /\ Ensure(o, next)
    <3>1. objs'[o].there
      BY <1>2, <2>2 DEF Ensure
    <3> QED
      BY <2>2, <3>1 DEF Good
  <2> QED
    BY <2>1, <2>2
<1>7. \A p \in Objects : p # o => objs'[p] = objs[p]
  BY <1>2, <1>4
<1>8. o \notin {"read", "status", "idle", "get", "delete", "apply"} /\ Passed(next) \subseteq Objects
  BY DEF Objects, Passed
<1>9. tampers = 0 => \A p \in Passed(next) : Good(p, r.spec, objs')
  <2> SUFFICES ASSUME tampers = 0, NEW p \in Passed(next) PROVE Good(p, r.spec, objs')
    OBVIOUS
  <2>1. CASE p = o
    BY <1>6, <2>1
  <2>2. CASE p # o /\ p \in Passed(o)
    <3>1. Good(p, r.spec, objs)
      BY <1>1, <2>2 DEF IInv, PassedIsBuilt
    <3> QED
      BY <1>7, <1>8, <2>2, <3>1 DEF Good
  <2>3. CASE ~Wanted(p, r.spec.variant)
    BY <2>3 DEF Good
  <2> QED
    BY <2>1, <2>2, <2>3
<1>10. tampers = 0 => deploy.template = Template(r.spec, deploy.template)
  BY <1>1, <1>8 DEF IInv, PassedIsBuilt
<1> HIDE DEF held
<1> QED
  BY <1>1, <1>2, <1>5, <1>8, <1>9, <1>10, GotoKeeps

LEMMA ObjectsKeep ==
  ASSUME IInv, \/ ApplyService \/ EnsureClaim \/ ApplyPolicy \/ ApplyConfig \/ EnsureKey
               \/ PickRoute \/ ApplyTcpRoute \/ ApplyHttpRoute \/ ApplyCertificate
  PROVE  IInv'
<1> DEFINE Nexts == (Steps \cup Objects) \ {"read", "status", "delete"}
<1>1. Objects \cup {"Route", "health"} \subseteq Nexts
  BY DEF Steps, Objects
<1>2. CASE ApplyService
  BY <1>1, <1>2, ObjectStep DEF ApplyService, Passed, Objects
<1>3. CASE EnsureClaim
  BY <1>1, <1>3, ObjectStep DEF EnsureClaim, Passed, Objects, CreateOnly
<1>4. CASE ApplyPolicy
  BY <1>1, <1>4, ObjectStep DEF ApplyPolicy, Passed, Objects
<1>5. CASE ApplyConfig
  BY <1>1, <1>5, ObjectStep DEF ApplyConfig, Passed, Objects
<1>6. CASE EnsureKey
  BY <1>1, <1>6, ObjectStep DEF EnsureKey, Passed, Objects, CreateOnly
<1>7. CASE PickRoute
  <2>1. /\ r.pc = "Route" /\ UNCHANGED <<spec, cache, deploy, objs, pod, well, status, bounds>>
        /\ Goto(IF TcpWanted(r.spec.variant) THEN "TcpRoute" ELSE "HttpRoute")
    BY <1>7 DEF PickRoute, cluster
  <2>2. Passed("TcpRoute") = Passed("Route") /\ Passed("HttpRoute") = Passed("Route")
    BY DEF Passed
  <2>3. tampers = 0 => deploy.template = Template(r.spec, deploy.template)
    BY <2>1 DEF IInv, PassedIsBuilt
  <2>4. tampers = 0 => \A o \in Passed("Route") : Good(o, r.spec, objs)
    BY <2>1 DEF IInv, PassedIsBuilt
  <2>5. deploy \in Deployments /\ deploy.uid \in Nat /\ objs \in [Objects -> Held]
    BY DEF IInv, TypeOK, Deployments
  <2>6. PICK pc \in {"TcpRoute", "HttpRoute"} :
          /\ Goto(pc)
          /\ pc = "TcpRoute" => TcpWanted(r.spec.variant)
          /\ pc = "HttpRoute" => ~TcpWanted(r.spec.variant)
    BY <2>1
  <2>7. pc \in Nexts
    BY <1>1 DEF Objects
  <2> QED
    BY <2>1, <2>2, <2>3, <2>4, <2>5, <2>6, <2>7, GotoKeeps
<1>8. CASE ApplyTcpRoute
  <2>1. r.pc = "TcpRoute" /\ ~Wanted("HttpRoute", r.spec.variant)
    BY <1>8 DEF ApplyTcpRoute, Apply, IInv, PassedIsBuilt, Wanted, TcpWanted, HttpWanted
  <2> QED
    BY <1>1, <1>8, <2>1, ObjectStep DEF ApplyTcpRoute, Passed, Objects
<1>9. CASE ApplyHttpRoute
  <2>1. r.pc = "HttpRoute" /\ ~Wanted("TcpRoute", r.spec.variant)
    BY <1>9 DEF ApplyHttpRoute, Apply, IInv, PassedIsBuilt, Wanted
  <2> QED
    BY <1>1, <1>9, <2>1, ObjectStep DEF ApplyHttpRoute, Passed, Objects
<1>10. CASE ApplyCertificate
  BY <1>1, <1>10, ObjectStep DEF ApplyCertificate, Passed, Objects
<1> QED
  BY <1>2, <1>3, <1>4, <1>5, <1>6, <1>7, <1>8, <1>9, <1>10

\* The tail of the reconcile measures and reports.
LEMMA ReportKeeps ==
  ASSUME IInv, CheckHealth \/ ReadReplicas \/ WriteStatus
  PROVE  IInv'
<1>1. /\ status \in Statuses /\ status.health \in Health /\ r \in Runs
      /\ r.health \in Health /\ r.ready \in BOOLEAN /\ r.spec \in Object
      /\ r.spec.gen \in 0 .. MaxEdits + 1 /\ pod.up \in BOOLEAN /\ deploy.there \in BOOLEAN
  BY BoundsAssumption DEF IInv, TypeOK, Statuses, Runs, Object, Gen, Pods, Deployments
<1>2. Passed("health") = Passed("read") /\ Passed("read") = Passed("status")
  BY DEF Passed
<1>3. ASSUME NEW pc \in {"read", "status"}, NEW h \in Health, NEW ready \in BOOLEAN,
             r' = [r EXCEPT !.pc = pc, !.health = h, !.ready = ready],
             r.pc \in {"health", "read"}, pc = "read" => ~ready,
             UNCHANGED <<spec, cache, cluster, status, edits, tampers>>,
             faults' \in Nat, tampers + faults' =< MaxMishaps
      PROVE  IInv'
  <2>1. /\ r' \in Runs /\ r'.pc = pc /\ r'.spec = r.spec /\ r'.uid = r.uid
        /\ r'.health = h /\ r'.ready = ready
    BY <1>1, <1>3 DEF Runs, Steps
  <2>2. TypeOK'
    BY <1>3, <2>1 DEF IInv, TypeOK, cluster
  <2>3. SeenOwned'
    BY <1>3, <2>1 DEF IInv, SeenOwned, cluster
  <2>4. PassedIsBuilt'
    BY <1>2, <1>3, <2>1 DEF IInv, PassedIsBuilt, cluster
  <2> QED
    BY <2>2, <2>3, <2>4 DEF IInv
<1>4. faults \in Nat /\ tampers \in Nat /\ tampers + faults =< MaxMishaps
      /\ (Fault => faults' \in Nat /\ tampers + faults' =< MaxMishaps)
  BY BoundsAssumption DEF IInv, TypeOK, Fault
<1>5. CASE CheckHealth
  <2>1. /\ r.pc = "health" /\ UNCHANGED <<spec, cache, cluster, status, edits, tampers>>
        /\ faults' = faults \/ Fault
    BY <1>5 DEF CheckHealth
  <2>2. Answer \in {"Unknown", "True", "False"}
    BY DEF Answer
  <2>3. PICK h \in Health : r' = [r EXCEPT !.pc = "read", !.health = h]
    BY <1>1, <1>5, <2>2 DEF CheckHealth, Health
  <2>4. ~r.ready /\ r' = [r EXCEPT !.pc = "read", !.health = h, !.ready = FALSE]
    BY <1>1, <2>1, <2>3 DEF IInv, TypeOK, Runs
  <2> QED
    BY <1>3, <1>4, <2>1, <2>3, <2>4
<1>6. CASE ReadReplicas
  <2>1. /\ r.pc = "read" /\ UNCHANGED <<spec, cache, cluster, status, edits, tampers>>
        /\ faults' = faults \/ Fault
    BY <1>6 DEF ReadReplicas
  <2>2. PICK ready \in BOOLEAN : r' = [r EXCEPT !.pc = "status", !.ready = ready]
    BY <1>1, <1>6 DEF ReadReplicas
  <2>3. r' = [r EXCEPT !.pc = "status", !.health = r.health, !.ready = ready]
    BY <1>1, <2>2 DEF Runs
  <2> QED
    BY <1>1, <1>3, <1>4, <2>1, <2>2, <2>3
<1>7. CASE WriteStatus
  <2>1. /\ r' = Idle /\ UNCHANGED <<spec, cache, cluster, bounds>>
        /\ status' = [gen |-> r.spec.gen, ready |-> r.ready, health |-> r.health]
    BY <1>7 DEF WriteStatus
  <2>2. status' \in Statuses
    BY <1>1, <2>1 DEF Statuses
  <2> QED
    BY <1>4, <2>1, <2>2, StopKeeps DEF Stops, bounds
<1> QED
  BY <1>5, <1>6, <1>7

\* Every step of the system preserves the invariant.
LEMMA StepKeeps == IInv /\ [Next]_vars => IInv'
<1> SUFFICES ASSUME IInv, [Next]_vars PROVE IInv'
  OBVIOUS
<1>1. CASE UNCHANGED vars
  BY <1>1 DEF vars, cluster, bounds, IInv, TypeOK, SeenOwned, PassedIsBuilt
<1>2. CASE Environment
  BY <1>2, UserKeeps, ClusterKeeps DEF Environment
<1>3. CASE CallFails
  BY <1>3, StartKeeps
<1>4. CASE Handler
  BY <1>4, StartKeeps, DeploymentKeeps, ObjectsKeep, ReportKeeps DEF Handler
<1> QED
  BY <1>1, <1>2, <1>3, <1>4 DEF Next

\* The invariant holds in every reachable state.
THEOREM Invariant == Spec => []IInv
<1> QED
  BY InitInv, StepKeeps, PTL DEF Spec

\* Every reachable state of the app, its objects and its reconcile is well typed,
\* and a reconcile holds only what it measured itself.
THEOREM TypeCorrect == Spec => []TypeOK
<1>1. IInv => TypeOK
  BY DEF IInv
<1> QED
  BY <1>1, Invariant, PTL

\* While no user interferes, a step that changes the generation in the status
\* comes after everything its spec wants was applied, wherever calls failed.
THEOREM ReportIsBuilt == Spec => ObservedIsBuilt
<1>1. ASSUME IInv, [Next]_vars, status'.gen # status.gen, tampers = 0
      PROVE  Built(r.spec) /\ deploy.template = Template(r.spec, deploy.template)
  <2>1. WriteStatus
    <3>1. status' # status /\ status'.gen # status.gen
      BY <1>1
    <3>2. ~Environment
      <4>1. ~Ages
        <5>1. status \in Statuses
          BY <1>1 DEF IInv, TypeOK
        <5> QED
          BY <1>1, <5>1 DEF Ages, Statuses
      <4> QED
        BY <3>1, <4>1 DEF Environment, EditSpec, Deliver, Tampering, TamperObject,
             TamperDeployment, HealthChanges, PodMoves, PodReady
    <3>3. ~CallFails /\ ~UNCHANGED vars
      BY <3>1 DEF CallFails, vars
    <3> QED
      BY <1>1, <3>1, <3>2, <3>3 DEF Next, Handler, Begin, GetDeployment, DeleteDeployment,
           ApplyDeployment, CheckDrift, ApplyService, EnsureClaim, ApplyPolicy, ApplyConfig,
           EnsureKey, PickRoute, ApplyTcpRoute, ApplyHttpRoute, ApplyCertificate, Apply,
           Ensure, CheckHealth, ReadReplicas
  <2>2. r.pc = "status" /\ Passed("status") = Objects
    BY <2>1 DEF WriteStatus, Passed
  <2> QED
    BY <1>1, <2>2 DEF IInv, PassedIsBuilt, Good, Built
<1>2. IInv /\ [Next]_vars =>
        [status'.gen # status.gen /\ tampers = 0
           => Built(r.spec) /\ deploy.template = Template(r.spec, deploy.template)]_vars
  BY <1>1
<1> QED
  BY <1>2, Invariant, PTL DEF Spec, ObservedIsBuilt

\* However users replace the Deployment between the reconcile's look and its
\* delete, what it deletes is the app's own or not the one it looked at.
THEOREM ForeignKept == Spec => ForeignSurvives
<1>1. IInv => [r.pc = "delete" /\ deploy.there /\ ~deploy'.there /\ tampers' = tampers
                 => "app" \in deploy.owners \/ deploy.uid # r.uid]_vars
  BY DEF IInv, SeenOwned
<1> QED
  BY <1>1, Invariant, PTL DEF ForeignSurvives

-----------------------------------------------------------------------------
(* The contract.  Each step of the system is a step of Upkeep or a stutter. *)

PromisedStep == [Promised!Next]_(Promised!vars)

\* What the contract sees of the cluster, and of the reconcile.
SameCluster == UNCHANGED <<HeldObjects, HeldDeployment, deploy.uid>>
SamePass == UNCHANGED <<Pass, Target, Done>>

LEMMA Stutters ==
  ASSUME UNCHANGED <<spec, cache>>, SameCluster, SamePass, UNCHANGED status.gen
  PROVE  PromisedStep
BY DEF SameCluster, SamePass, PromisedStep, Promised!vars, Promised!cluster, Promised!own

\* What the contract sees is a function of the objects, and of the step, the spec and the
\* uid of the reconcile.
LEMMA SeenCluster ==
  ASSUME UNCHANGED <<deploy, objs>> PROVE SameCluster
BY DEF SameCluster, HeldObjects, HeldDeployment

LEMMA SeenPass ==
  ASSUME r'.pc = r.pc, r'.spec = r.spec, r'.uid = r.uid
  PROVE  SamePass
BY DEF SamePass, Pass, Target, Done

\* A reconcile that ends, without a report, is a pass that does.
LEMMA IdleIsOver ==
  ASSUME TypeOK, r' = Idle
  PROVE  Pass' = {} /\ Target' = {} /\ Done' = {}
<1>1. r'.pc = "idle" /\ Passed("idle") = {}
  BY IdleIsRun DEF TypeOK
<1> QED
  BY <1>1 DEF Pass, Target, Done

LEMMA StopsPromised ==
  ASSUME TypeOK, Stops(r.pc), UNCHANGED <<spec, cache, deploy, objs, status>>
  PROVE  PromisedStep
<1>1. Pass' = {} /\ Target' = {} /\ Done' = {}
  BY IdleIsOver DEF Stops
<1>2. SameCluster
  BY SeenCluster
<1>3. Promised!Abandon
  BY <1>1, <1>2 DEF SameCluster, Promised!Abandon, Promised!Over, Promised!cluster
<1> QED
  BY <1>3 DEF PromisedStep, Promised!Next

\* Users.
LEMMA UserPromised ==
  ASSUME TypeOK, EditSpec \/ TamperObject \/ TamperDeployment \/ HealthChanges
  PROVE  PromisedStep
<1>1. ASSUME r' = r PROVE SamePass
  BY <1>1 DEF SamePass, Pass, Target, Done
<1>2. CASE EditSpec
  <2>1. PICK v \in Variants : spec' = [variant |-> v, gen |-> spec.gen + 1]
    BY <1>2 DEF EditSpec
  <2>2. SameCluster /\ SamePass /\ UNCHANGED <<cache, status>>
    BY <1>1, <1>2, SeenCluster DEF EditSpec, cluster
  <2>3. Promised!Edit
    BY <2>1, <2>2 DEF SameCluster, SamePass, Promised!Edit, Promised!cluster, Promised!own
  <2> QED
    BY <2>3 DEF PromisedStep, Promised!Next
<1>3. ASSUME Tampering PROVE SamePass /\ UNCHANGED <<spec, cache, status>>
  BY <1>1, <1>3 DEF Tampering
<1>4. CASE TamperObject
  <2>1. PICK o \in Objects :
          /\ objs[o].there
          /\ \/ objs' = [objs EXCEPT ![o].gen = 0]
             \/ objs' = [objs EXCEPT ![o].there = FALSE]
    BY <1>4 DEF TamperObject
  <2>2. objs \in [Objects -> Held]
    BY DEF TypeOK
  <2>3. HeldObjects[o] # {}
    BY <2>1 DEF HeldObjects
  <2>4. \/ HeldObjects' = [HeldObjects EXCEPT ![o] = {0}]
        \/ HeldObjects' = [HeldObjects EXCEPT ![o] = {}]
    BY <2>1, <2>2 DEF HeldObjects, Held
  <2>5. UNCHANGED <<HeldDeployment, deploy.uid>>
    BY <1>4 DEF TamperObject, HeldDeployment
  <2>6. SamePass /\ UNCHANGED <<spec, cache, status>>
    BY <1>3, <1>4 DEF TamperObject
  <2>7. Promised!MeddleObject(o)
    BY <2>3, <2>4, <2>5, <2>6 DEF SamePass, Promised!MeddleObject, Promised!own
  <2> QED
    BY <2>7 DEF PromisedStep, Promised!Next
<1>5. CASE TamperDeployment
  <2>1. /\ deploy.there /\ UNCHANGED objs /\ SamePass /\ UNCHANGED <<spec, cache, status>>
        /\ deploy \in Deployments /\ deploy.uid \in Nat
    BY <1>3, <1>5 DEF TamperDeployment, TypeOK, Deployments
  <2>2. HeldObjects' = HeldObjects
    BY <2>1 DEF HeldObjects
  <2>3. HeldDeployment # {}
    BY <2>1 DEF HeldDeployment
  <2>4. ASSUME deploy'.uid = deploy.uid,
               HeldDeployment' \in {{[d EXCEPT !.gen = 0] : d \in HeldDeployment}, {}}
        PROVE  PromisedStep
    <3>1. Promised!MeddleDeployment
      BY <2>1, <2>2, <2>3, <2>4 DEF SamePass, Promised!MeddleDeployment, Promised!own
    <3> QED
      BY <3>1 DEF PromisedStep, Promised!Next
  <2>5. CASE deploy' = [deploy EXCEPT !.template = NoTemplate]
    <3>1. HeldDeployment' = {[d EXCEPT !.gen = 0] : d \in HeldDeployment}
      BY <2>1, <2>5 DEF HeldDeployment, Deployments, NoTemplate
    <3> QED
      BY <2>1, <2>4, <2>5, <3>1 DEF Deployments
  <2>6. CASE deploy' = [deploy EXCEPT !.extra = TRUE]
    <3>1. HeldDeployment' = HeldDeployment /\ deploy'.uid = deploy.uid
      BY <2>1, <2>6 DEF HeldDeployment, Deployments
    <3> QED
      BY <2>1, <2>2, <3>1, Stutters DEF SameCluster
  <2>7. CASE deploy' = NoDeployment(deploy.uid)
    <3>1. HeldDeployment' = {} /\ deploy'.uid = deploy.uid
      BY <2>7 DEF HeldDeployment, NoDeployment
    <3> QED
      BY <2>4, <3>1
  <2>8. CASE deploy' = [NoDeployment(deploy.uid + 1) EXCEPT !.there = TRUE, !.owners = {"other"}]
    <3>1. /\ deploy'.uid = deploy.uid + 1 /\ deploy'.there /\ deploy'.owners = {"other"}
          /\ deploy'.name = "old" /\ deploy'.template.gen = 0
      BY <2>8 DEF NoDeployment, NoTemplate
    <3>2. ("app" \in deploy'.owners) = FALSE
      BY <3>1
    <3>3. HeldDeployment' = {Promised!Deployed(deploy'.uid, FALSE, "old", 0)}
      BY <3>1, <3>2 DEF HeldDeployment, Promised!Deployed
    <3>4. Promised!MeddleDeployment
      BY <2>1, <2>2, <2>3, <3>1, <3>3 DEF SamePass, Promised!MeddleDeployment, Promised!own
    <3> QED
      BY <3>4 DEF PromisedStep, Promised!Next
  <2> QED
    BY <1>5, <2>5, <2>6, <2>7, <2>8 DEF TamperDeployment
<1>6. CASE HealthChanges
  BY <1>3, <1>6, SeenCluster, Stutters DEF HealthChanges
<1> QED
  BY <1>2, <1>4, <1>5, <1>6

\* The watch, the cluster and the clock.
LEMMA ClusterPromised ==
  ASSUME TypeOK, Deliver \/ PodMoves \/ PodReady \/ Ages
  PROVE  PromisedStep
<1>1. ASSUME r' = r PROVE SamePass
  BY <1>1, SeenPass
<1>2. CASE Deliver
  <2>1. cache' = spec /\ SameCluster /\ SamePass /\ UNCHANGED <<spec, status>>
    BY <1>1, <1>2, SeenCluster DEF Deliver, cluster
  <2>2. Promised!Learn
    BY <2>1 DEF SameCluster, SamePass, Promised!Learn, Promised!cluster, Promised!own
  <2> QED
    BY <2>2 DEF PromisedStep, Promised!Next
<1>3. CASE PodMoves \/ PodReady
  BY <1>1, <1>3, SeenCluster, Stutters DEF PodMoves, PodReady
<1>4. CASE Ages
  <2>1. /\ status' = [status EXCEPT !.health.fresh = FALSE]
        /\ r' = [r EXCEPT !.health.fresh = FALSE]
        /\ UNCHANGED <<spec, cache, deploy, objs>>
    BY <1>4 DEF Ages, cluster
  <2>2. status'.gen = status.gen /\ r'.pc = r.pc /\ r'.spec = r.spec /\ r'.uid = r.uid
    BY <2>1 DEF TypeOK, Statuses, Runs
  <2> QED
    BY <2>1, <2>2, SeenCluster, SeenPass, Stutters
<1> QED
  BY <1>2, <1>3, <1>4

LEMMA StartPromised ==
  ASSUME TypeOK, Begin \/ CallFails
  PROVE  PromisedStep
<1>1. CASE Begin
  <2>1. /\ r.pc = "idle" /\ r' = [Idle EXCEPT !.pc = "get"]
        /\ UNCHANGED <<spec, cache, deploy, objs, status>>
    BY <1>1 DEF Begin, cluster
  <2>2. r'.pc = "get" /\ r'.spec = cache
    BY <2>1 DEF Idle
  <2>3. Passed("get") = {} /\ Passed("idle") = {}
    BY DEF Passed
  <2>4. Pass = {} /\ Pass' = {cache} /\ UNCHANGED <<Target, Done>>
    BY <2>1, <2>2, <2>3 DEF Pass, Target, Done
  <2>5. Promised!Start
    BY <2>1, <2>4, SeenCluster DEF SameCluster, Promised!Start, Promised!cluster
  <2> QED
    BY <2>5 DEF PromisedStep, Promised!Next
<1>2. CASE CallFails
  BY <1>2, StopsPromised DEF CallFails, cluster
<1> QED
  BY <1>1, <1>2

\* The Deployment is looked at, deleted, applied and read back.
LEMMA DeploymentPromised ==
  ASSUME IInv, \/ GetDeployment \/ DeleteDeployment \/ CheckDrift
               \/ ApplyDeployment("apply", "drift") \/ ApplyDeployment("reapply", "Service")
  PROVE  PromisedStep
<1>1. /\ TypeOK /\ r \in Runs /\ r.spec \in Object /\ r.spec.variant \in Variants
      /\ deploy \in Deployments /\ deploy.uid \in Nat
  BY DEF IInv, TypeOK, Runs, Object, Deployments
<1>2. \A pc \in {"get", "delete", "apply", "drift", "reapply", "Service"} : Passed(pc) = {}
  BY DEF Passed
<1>3. CASE GetDeployment
  <2>1. /\ r.pc = "get" /\ UNCHANGED <<spec, cache, deploy, objs, status>>
        /\ r' = [r EXCEPT !.pc = IF Stale(deploy, r.spec.variant) THEN "delete" ELSE "apply",
                          !.uid = deploy.uid]
    BY <1>3 DEF GetDeployment, cluster
  <2>2. UNCHANGED <<Pass, Done>> /\ Pass # {} /\ Target = {}
    BY <1>1, <1>2, <2>1 DEF Pass, Done, Target, Runs
  <2>3. CASE Stale(deploy, r.spec.variant)
    <3>1. Target' = {deploy.uid} /\ deploy.there
      BY <1>1, <2>1, <2>3 DEF Target, Stale, Runs
    <3>2. Target' = {d.uid : d \in HeldDeployment}
      BY <3>1 DEF HeldDeployment
    <3>3. Promised!Condemn
      BY <2>1, <2>2, <3>2, SeenCluster DEF SameCluster, Promised!Condemn, Promised!cluster
    <3> QED
      BY <3>3 DEF PromisedStep, Promised!Next
  <2>4. CASE ~Stale(deploy, r.spec.variant)
    <3>1. Target' = {}
      BY <1>1, <2>1, <2>4 DEF Target, Runs
    <3> QED
      BY <2>1, <2>2, <3>1, SeenCluster, Stutters DEF SamePass
  <2> QED
    BY <2>3, <2>4
<1>4. CASE DeleteDeployment
  <2>1. r.pc = "delete" /\ UNCHANGED <<spec, cache, objs, status>>
    BY <1>4 DEF DeleteDeployment
  <2>2. CASE deploy.there
    <3>1. deploy' = NoDeployment(deploy.uid) /\ r' = [r EXCEPT !.pc = "apply"]
      BY <1>4, <2>2 DEF DeleteDeployment, Goto
    <3>2. /\ Target = {r.uid} /\ Target' = {} /\ Pass = {r.spec} /\ Pass' = {r.spec}
          /\ Done' = Done
      BY <1>1, <1>2, <2>1, <3>1 DEF Target, Pass, Done, Runs
    <3>3. /\ HeldDeployment' = {} /\ deploy'.uid = deploy.uid
          /\ HeldObjects' = HeldObjects
      BY <2>1, <3>1 DEF HeldDeployment, HeldObjects, NoDeployment
    <3>4. \A d \in HeldDeployment :
            d.uid \in Target => d.mine /\ d.label # Label[r.spec.variant]
      <4>1. deploy.uid = r.uid => ("app" \in deploy.owners) = TRUE
        BY <2>1, <2>2 DEF IInv, SeenOwned
      <4>2. deploy.uid = r.uid => deploy.name # Label[r.spec.variant]
        BY <1>1, <2>1, <2>2 DEF IInv, SeenOwned, Label
      <4>3. \A d \in HeldDeployment :
              /\ d.uid = deploy.uid /\ d.label = deploy.name
              /\ d.mine = ("app" \in deploy.owners)
        BY DEF HeldDeployment
      <4> QED
        BY <3>2, <4>1, <4>2, <4>3
    <3>5. Promised!Remove
      BY <2>1, <3>2, <3>3, <3>4 DEF Promised!Remove
    <3> QED
      BY <3>5 DEF PromisedStep, Promised!Next
  <2>3. CASE ~deploy.there
    BY <1>1, <1>4, <2>1, <2>3, StopsPromised DEF DeleteDeployment
  <2> QED
    BY <2>2, <2>3
<1>5. ASSUME NEW pc \in {"apply", "reapply"}, NEW next \in {"drift", "Service"},
             ApplyDeployment(pc, next)
      PROVE  PromisedStep
  <2>1. r.pc = pc /\ UNCHANGED <<spec, cache, objs, status>>
    BY <1>5 DEF ApplyDeployment
  <2>2. CASE deploy.there /\ deploy.name # r.spec.variant.name
    BY <1>1, <1>5, <2>1, <2>2, StopsPromised DEF ApplyDeployment
  <2>3. CASE ~(deploy.there /\ deploy.name # r.spec.variant.name)
    <3>1. deploy' = Applied(deploy, r.spec) /\ r' = [r EXCEPT !.pc = next]
      BY <1>5, <2>3 DEF ApplyDeployment, Goto
    <3>2. /\ deploy'.there /\ "app" \in deploy'.owners /\ deploy'.name = r.spec.variant.name
          /\ deploy'.template.gen = r.spec.gen
          /\ deploy'.uid = IF deploy.there THEN deploy.uid ELSE deploy.uid + 1
      BY <1>1, <2>3, <3>1 DEF Applied, Template, Deployments
    <3>3. ("app" \in deploy'.owners) = TRUE
      BY <3>2
    <3>4. HeldDeployment' =
            {Promised!Deployed(deploy'.uid, TRUE, Label[r.spec.variant], r.spec.gen)}
      BY <1>1, <3>2, <3>3 DEF HeldDeployment, Label, Promised!Deployed
    <3>5. /\ Target = {} /\ Target' = {} /\ r.spec \in Pass /\ Pass' = Pass
          /\ Done' = Done \cup {"Deployment"}
      BY <1>1, <1>2, <2>1, <3>1 DEF Target, Pass, Done, Runs
    <3>6. HeldObjects' = HeldObjects
      BY <2>1 DEF HeldObjects
    <3>7. /\ \A d \in HeldDeployment : d.label = Label[r.spec.variant]
          /\ HeldDeployment = {} <=> ~deploy.there
      <4>1. \A d \in HeldDeployment : deploy.there /\ d.label = deploy.name
        BY DEF HeldDeployment
      <4>2. Label[r.spec.variant] = r.spec.variant.name
        BY <1>1 DEF Label
      <4>3. HeldDeployment = {} <=> ~deploy.there
        BY DEF HeldDeployment
      <4> QED
        BY <2>3, <4>1, <4>2, <4>3
    <3>8. Promised!Deploy(r.spec)
      BY <2>1, <3>2, <3>4, <3>5, <3>6, <3>7 DEF Promised!Deploy
    <3> QED
      BY <3>5, <3>8 DEF PromisedStep, Promised!Next
  <2> QED
    BY <2>2, <2>3
<1>6. CASE CheckDrift
  <2>1. r.pc = "drift" /\ UNCHANGED <<spec, cache, deploy, objs, status>>
    BY <1>6 DEF CheckDrift, cluster
  <2>2. CASE ~deploy.there
    BY <1>1, <1>6, <2>1, <2>2, StopsPromised DEF CheckDrift
  <2>3. CASE deploy.there
    <3>1. PICK pc \in {"Service", "reapply"} : r' = [r EXCEPT !.pc = pc]
      BY <1>6, <2>3 DEF CheckDrift, Goto
    <3>2. SamePass
      BY <1>1, <1>2, <2>1, <3>1 DEF SamePass, Pass, Target, Done, Runs
    <3> QED
      BY <2>1, <3>2, SeenCluster, Stutters
  <2> QED
    BY <2>2, <2>3
<1> QED
  BY <1>3, <1>4, <1>5, <1>6

\* An object that the spec wants is built; at one that it does not want nothing happens.
LEMMA ObjectPromised ==
  ASSUME TypeOK, NEW o \in Objects, NEW next \in (Steps \cup Objects) \ {"idle", "get", "delete", "apply"},
         (o \notin CreateOnly /\ Apply(o, next)) \/ (o \in CreateOnly /\ Ensure(o, next)),
         {p \in Passed(next) : Wanted(p, r.spec.variant)} =
           {p \in Passed(o) \cup {o} : Wanted(p, r.spec.variant)}
  PROVE  PromisedStep
<1> DEFINE wanted == Wanted(o, r.spec.variant)
<1>1. /\ r \in Runs /\ r.spec.variant \in Variants /\ objs \in [Objects -> Held]
  BY DEF TypeOK, Runs, Object
<1>2. /\ r.pc = o /\ r' = [r EXCEPT !.pc = next]
      /\ UNCHANGED <<spec, cache, deploy, status>>
  BY DEF Apply, Ensure, Goto
<1>3. o \notin {"idle", "get", "delete", "apply"}
  BY DEF Objects
<1>4. /\ UNCHANGED <<Pass, Target>> /\ r.spec \in Pass
      /\ Done' = Done \cup {p \in {o} : Wanted(p, r.spec.variant)}
  BY <1>1, <1>2, <1>3 DEF Pass, Target, Done, Runs
<1>5. UNCHANGED <<HeldDeployment, deploy.uid, status.gen>>
  BY <1>2 DEF HeldDeployment
<1>6. o \in CreateOnly => wanted
  BY DEF CreateOnly, Wanted
<1>7. CASE wanted
  <2>1. objs' = IF o \in CreateOnly /\ objs[o].there THEN objs
                ELSE [objs EXCEPT ![o] = [there |-> TRUE, gen |-> r.spec.gen]]
    BY <1>7 DEF Apply, Ensure
  <2>2. HeldObjects' = [HeldObjects EXCEPT
                          ![o] = IF o \in CreateOnly /\ @ # {} THEN @ ELSE {r.spec.gen}]
    <3>1. HeldObjects[o] # {} <=> objs[o].there
      BY DEF HeldObjects
    <3>2. CASE o \in CreateOnly /\ objs[o].there
      BY <2>1, <3>1, <3>2 DEF HeldObjects
    <3>3. CASE ~(o \in CreateOnly /\ objs[o].there)
      BY <1>1, <2>1, <3>1, <3>3 DEF HeldObjects
    <3> QED
      BY <3>2, <3>3
  <2>3. o \in WantedBy[r.spec.variant]
    BY <1>1, <1>7 DEF WantedBy
  <2>4. Done' = Done \cup {o}
    BY <1>4, <1>7
  <2> HIDE DEF wanted
  <2>5. Promised!Build(r.spec, o)
    BY <1>2, <1>4, <1>5, <2>2, <2>3, <2>4 DEF Promised!Build
  <2> QED
    BY <1>4, <2>5 DEF PromisedStep, Promised!Next
<1>8. CASE ~wanted
  <2>1. objs' = objs
    BY <1>6, <1>8 DEF Apply
  <2>2. Done' = Done
    BY <1>4, <1>8
  <2> QED
    BY <1>2, <1>4, <2>1, <2>2, SeenCluster, Stutters DEF SamePass
<1> QED
  BY <1>7, <1>8

LEMMA ObjectsPromised ==
  ASSUME IInv, \/ ApplyService \/ EnsureClaim \/ ApplyPolicy \/ ApplyConfig \/ EnsureKey
               \/ PickRoute \/ ApplyTcpRoute \/ ApplyHttpRoute \/ ApplyCertificate
  PROVE  PromisedStep
<1> DEFINE Nexts == (Steps \cup Objects) \ {"idle", "get", "delete", "apply"}
<1>1. Objects \cup {"Route", "health"} \subseteq Nexts /\ TypeOK
  BY DEF Steps, Objects, IInv
<1>2. CASE ApplyService
  BY <1>1, <1>2, ObjectPromised DEF ApplyService, Passed, Objects, CreateOnly
<1>3. CASE EnsureClaim
  BY <1>1, <1>3, ObjectPromised DEF EnsureClaim, Passed, Objects, CreateOnly
<1>4. CASE ApplyPolicy
  BY <1>1, <1>4, ObjectPromised DEF ApplyPolicy, Passed, Objects, CreateOnly
<1>5. CASE ApplyConfig
  BY <1>1, <1>5, ObjectPromised DEF ApplyConfig, Passed, Objects, CreateOnly
<1>6. CASE EnsureKey
  BY <1>1, <1>6, ObjectPromised DEF EnsureKey, Passed, Objects, CreateOnly
<1>7. CASE PickRoute
  <2>1. r.pc = "Route" /\ UNCHANGED <<spec, cache, deploy, objs, status>>
    BY <1>7 DEF PickRoute, cluster
  <2>2. PICK pc \in {"TcpRoute", "HttpRoute"} : r' = [r EXCEPT !.pc = pc]
    BY <1>7 DEF PickRoute, Goto
  <2>3. r'.pc = pc /\ r'.spec = r.spec /\ r'.uid = r.uid
    BY <1>1, <2>2 DEF TypeOK, Runs
  <2>4. Passed(pc) = Passed("Route")
    BY DEF Passed
  <2>5. SamePass
    BY <2>1, <2>3, <2>4 DEF SamePass, Pass, Target, Done
  <2> QED
    BY <2>1, <2>5, SeenCluster, Stutters
<1>8. CASE ApplyTcpRoute
  <2>1. r.pc = "TcpRoute" /\ ~Wanted("HttpRoute", r.spec.variant)
    BY <1>8 DEF ApplyTcpRoute, Apply, IInv, PassedIsBuilt, Wanted, TcpWanted, HttpWanted
  <2>2. {p \in Passed("Certificate") : Wanted(p, r.spec.variant)} =
          {p \in Passed("TcpRoute") \cup {"TcpRoute"} : Wanted(p, r.spec.variant)}
    BY <2>1 DEF Passed, Objects
  <2> QED
    BY <1>1, <1>8, <2>2, ObjectPromised DEF ApplyTcpRoute, Objects, CreateOnly
<1>9. CASE ApplyHttpRoute
  <2>1. r.pc = "HttpRoute" /\ ~Wanted("TcpRoute", r.spec.variant)
    BY <1>9 DEF ApplyHttpRoute, Apply, IInv, PassedIsBuilt, Wanted
  <2>2. {p \in Passed("Certificate") : Wanted(p, r.spec.variant)} =
          {p \in Passed("HttpRoute") \cup {"HttpRoute"} : Wanted(p, r.spec.variant)}
    BY <2>1 DEF Passed, Objects
  <2> QED
    BY <1>1, <1>9, <2>2, ObjectPromised DEF ApplyHttpRoute, Objects, CreateOnly
<1>10. CASE ApplyCertificate
  BY <1>1, <1>10, ObjectPromised DEF ApplyCertificate, Passed, Objects, CreateOnly
<1> QED
  BY <1>2, <1>3, <1>4, <1>5, <1>6, <1>7, <1>8, <1>9, <1>10

LEMMA ReportPromised ==
  ASSUME TypeOK, CheckHealth \/ ReadReplicas \/ WriteStatus
  PROVE  PromisedStep
<1>1. /\ Passed("health") = Objects /\ Passed("read") = Objects /\ Passed("status") = Objects
      /\ r \in Runs /\ r.spec.variant \in Variants
  BY DEF Passed, TypeOK, Runs, Object
<1>2. CASE CheckHealth \/ ReadReplicas
  <2>1. /\ r.pc \in {"health", "read"} /\ r'.pc \in {"read", "status"}
        /\ r'.spec = r.spec /\ UNCHANGED <<spec, cache, deploy, objs, status>>
    BY <1>1, <1>2 DEF CheckHealth, ReadReplicas, Runs, cluster
  <2>2. SamePass
    BY <1>1, <2>1 DEF SamePass, Pass, Target, Done
  <2> QED
    BY <2>1, <2>2, SeenCluster, Stutters
<1>3. CASE WriteStatus
  <2>1. /\ r.pc = "status" /\ status'.gen = r.spec.gen /\ r' = Idle
        /\ UNCHANGED <<spec, cache, deploy, objs>>
    BY <1>3 DEF WriteStatus, cluster
  <2>2. r.spec \in Pass /\ {"Deployment"} \cup WantedBy[r.spec.variant] \subseteq Done
    BY <1>1, <2>1 DEF Pass, Done, WantedBy
  <2>3. Pass' = {} /\ Target' = {} /\ Done' = {}
    BY <2>1, IdleIsOver
  <2>4. Promised!Report(r.spec)
    BY <2>1, <2>2, <2>3, SeenCluster
    DEF SameCluster, Promised!Report, Promised!Over, Promised!cluster
  <2> QED
    BY <2>2, <2>4 DEF PromisedStep, Promised!Next
<1> QED
  BY <1>2, <1>3

LEMMA InitPromised == Init => Promised!Init
<1> SUFFICES ASSUME Init PROVE Promised!Init
  OBVIOUS
<1>1. /\ \E v \in Variants : spec = [variant |-> v, gen |-> 1]
      /\ cache = spec /\ status.gen = 0 /\ r.pc = "idle" /\ Passed("idle") = {}
  BY DEF Init, Idle, Passed
<1>2. Pass = {} /\ Target = {} /\ Done = {}
  BY <1>1 DEF Pass, Target, Done
<1>3. HeldObjects = [o \in Objects |-> {}]
  BY DEF Init, HeldObjects
<1>4. /\ deploy.uid = 0
      /\ HeldDeployment = {} \/ \E l \in {"old", "new"} :
                                  HeldDeployment = {Promised!Deployed(0, FALSE, l, 0)}
  <2>1. CASE deploy = NoDeployment(0)
    BY <2>1 DEF NoDeployment, HeldDeployment
  <2>2. CASE deploy # NoDeployment(0)
    <3>1. /\ deploy.there /\ deploy.uid = 0 /\ deploy.name \in {"old", "new"}
          /\ deploy.owners = {"other"} /\ deploy.template.gen = 0
      BY <2>2, InitDeployment DEF NoTemplate
    <3>2. ("app" \in deploy.owners) = FALSE
      BY <3>1
    <3>3. HeldDeployment = {Promised!Deployed(0, FALSE, deploy.name, 0)}
      BY <3>1, <3>2 DEF HeldDeployment, Promised!Deployed
    <3> QED
      BY <3>1, <3>3
  <2> QED
    BY <2>1, <2>2
<1> QED
  BY <1>1, <1>2, <1>3, <1>4 DEF Promised!Init

\* The reconcile, on a lagging copy of its app, with users and faults between any two of
\* its calls, implements the contract: a status names the generation that the reconcile
\* worked by, and only when it has been through all that spec wants.
THEOREM UpkeepKept == Spec => KeepsUpkeep
<1>1. IInv /\ [Next]_vars => PromisedStep
  <2> SUFFICES ASSUME IInv, [Next]_vars PROVE PromisedStep
    OBVIOUS
  <2>1. TypeOK
    BY DEF IInv
  <2>2. CASE UNCHANGED vars
    BY <2>2, SeenCluster, SeenPass, Stutters DEF vars, cluster
  <2>3. CASE Environment
    BY <2>1, <2>3, UserPromised, ClusterPromised DEF Environment
  <2>4. CASE CallFails
    BY <2>1, <2>4, StartPromised
  <2>5. CASE Handler
    BY <2>1, <2>5, StartPromised, DeploymentPromised, ObjectsPromised, ReportPromised DEF Handler
  <2> QED
    BY <2>2, <2>3, <2>4, <2>5 DEF Next
<1> QED
  BY <1>1, InitPromised, Invariant, PTL DEF Spec, KeepsUpkeep, Promised!Spec, PromisedStep

-----------------------------------------------------------------------------
(* The cache lags, and the reconcile holds its copy of the app for many    *)
(* calls; still no step goes back to an older spec.                        *)

InOrder ==
  /\ status.gen =< r.spec.gen /\ r.spec.gen =< cache.gen /\ cache.gen =< spec.gen
  /\ deploy.template.gen =< r.spec.gen
  /\ \A o \in Objects : objs[o].gen =< r.spec.gen

\* Where a generation in the next state comes from: it was there, or it is that of the
\* reconcile; a user who interferes leaves none.
GensFrom ==
  /\ spec'.gen >= spec.gen /\ cache'.gen \in {cache.gen, spec.gen}
  /\ r'.spec.gen \in {r.spec.gen, cache.gen}
  /\ status'.gen \in {status.gen, r.spec.gen}
  /\ deploy'.template.gen \in {deploy.template.gen, r.spec.gen, 0}
  /\ deploy'.there /\ deploy'.template.gen = 0 /\ tampers' = tampers => deploy.template.gen = 0
  /\ \A o \in Objects :
       /\ objs'[o].gen \in {objs[o].gen, r.spec.gen, 0}
       /\ objs'[o].gen = 0 /\ tampers' = tampers => objs[o].gen = 0

LEMMA GensTyped ==
  ASSUME TypeOK
  PROVE  /\ spec.gen \in Gen /\ cache.gen \in Gen /\ r.spec.gen \in Gen
         /\ status.gen \in 0 .. MaxEdits + 1 /\ deploy.template.gen \in 0 .. MaxEdits + 1
         /\ \A o \in Objects : objs[o].gen \in 0 .. MaxEdits + 1
         /\ Gen \subseteq Nat \ {0} /\ 0 .. MaxEdits + 1 \subseteq Nat
BY BoundsAssumption DEF TypeOK, Object, Runs, Statuses, Deployments, Templates, Held, Gen

LEMMA UserGens ==
  ASSUME TypeOK, EditSpec \/ TamperObject \/ TamperDeployment \/ HealthChanges
  PROVE  GensFrom
<1>1. CASE EditSpec
  <2>1. spec'.gen = spec.gen + 1 /\ UNCHANGED <<cache, deploy, objs, status, r, tampers>>
    BY <1>1 DEF EditSpec, cluster
  <2> QED
    BY <2>1, GensTyped DEF GensFrom
<1>2. ASSUME Tampering
      PROVE  tampers' # tampers /\ UNCHANGED <<spec, cache, status, r>>
  BY <1>2 DEF Tampering, TypeOK
<1>3. CASE TamperObject
  <2>1. PICK o \in Objects :
          \/ objs' = [objs EXCEPT ![o].gen = 0]
          \/ objs' = [objs EXCEPT ![o].there = FALSE]
    BY <1>3 DEF TamperObject
  <2>2. \A p \in Objects : objs'[p].gen \in {objs[p].gen, 0}
    BY <2>1 DEF TypeOK, Held
  <2>3. tampers' # tampers /\ UNCHANGED <<spec, cache, status, r, deploy>>
    BY <1>2, <1>3 DEF TamperObject
  <2> QED
    BY <2>2, <2>3, GensTyped DEF GensFrom
<1>4. CASE TamperDeployment
  <2>1. tampers' # tampers /\ UNCHANGED <<spec, cache, status, r, objs>>
    BY <1>2, <1>4 DEF TamperDeployment
  <2>2. deploy'.template.gen \in {deploy.template.gen, 0}
    <3>1. deploy.template \in Templates /\ NoTemplate.gen = 0
      BY DEF TypeOK, Deployments, NoTemplate
    <3>2. CASE deploy' \in {[deploy EXCEPT !.template = NoTemplate], [deploy EXCEPT !.extra = TRUE]}
      BY <3>1, <3>2 DEF TypeOK, Deployments
    <3>3. CASE deploy' = NoDeployment(deploy.uid)
      BY <3>1, <3>3 DEF NoDeployment
    <3>4. CASE deploy' = [NoDeployment(deploy.uid + 1) EXCEPT !.there = TRUE, !.owners = {"other"}]
      BY <3>1, <3>4 DEF NoDeployment
    <3> QED
      BY <1>4, <3>2, <3>3, <3>4 DEF TamperDeployment
  <2> QED
    BY <2>1, <2>2, GensTyped DEF GensFrom
<1>5. CASE HealthChanges
  BY <1>2, <1>5, GensTyped DEF HealthChanges, GensFrom
<1> QED
  BY <1>1, <1>3, <1>4, <1>5

LEMMA ClusterGens ==
  ASSUME TypeOK, Deliver \/ PodMoves \/ PodReady \/ Ages \/ UNCHANGED vars
  PROVE  GensFrom
<1>1. /\ UNCHANGED <<spec, deploy, objs, tampers>> /\ cache' \in {cache, spec}
      /\ r'.spec = r.spec /\ status'.gen = status.gen
  <2>1. CASE Ages
    BY <2>1 DEF Ages, cluster, bounds, TypeOK, Runs, Statuses
  <2>2. CASE Deliver \/ PodMoves \/ PodReady \/ UNCHANGED vars
    BY <2>2 DEF Deliver, PodMoves, PodReady, vars, cluster, bounds
  <2> QED
    BY <2>1, <2>2
<1> QED
  BY <1>1, GensTyped DEF GensFrom

LEMMA HandlerGens ==
  ASSUME TypeOK, Handler \/ CallFails
  PROVE  GensFrom
<1>1. /\ UNCHANGED <<spec, cache, tampers>> /\ r'.spec \in {r.spec, cache}
      /\ status'.gen \in {status.gen, r.spec.gen}
  <2>1. r \in Runs /\ r.spec \in Object /\ Idle.spec = cache /\ [Idle EXCEPT !.pc = "get"].spec = cache
    BY DEF TypeOK, Runs, Idle
  <2>2. CASE Begin
    BY <2>1, <2>2 DEF Begin, Idle, bounds
  <2>3. CASE CallFails \/ WriteStatus
    BY <2>1, <2>3 DEF CallFails, WriteStatus, Stops, Idle, bounds
  <2>4. CASE GetDeployment \/ CheckHealth \/ ReadReplicas \/ PickRoute
    BY <2>1, <2>4 DEF GetDeployment, CheckHealth, ReadReplicas, PickRoute, Goto, Runs, bounds
  <2>5. CASE DeleteDeployment \/ CheckDrift
    BY <2>1, <2>5 DEF DeleteDeployment, CheckDrift, Stops, Goto, Runs, bounds
  <2>6. CASE ApplyDeployment("apply", "drift") \/ ApplyDeployment("reapply", "Service")
    BY <2>1, <2>6 DEF ApplyDeployment, Stops, Goto, Runs, bounds
  <2>7. CASE \/ ApplyService \/ EnsureClaim \/ ApplyPolicy \/ ApplyConfig \/ EnsureKey
             \/ ApplyTcpRoute \/ ApplyHttpRoute \/ ApplyCertificate
    BY <2>1, <2>7 DEF ApplyService, EnsureClaim, ApplyPolicy, ApplyConfig, EnsureKey,
       ApplyTcpRoute, ApplyHttpRoute, ApplyCertificate, Apply, Ensure, Goto, Runs, bounds
  <2> QED
    BY <2>2, <2>3, <2>4, <2>5, <2>6, <2>7 DEF Handler
<1>2. \/ UNCHANGED deploy
      \/ deploy'.template.gen = r.spec.gen
      \/ ~deploy'.there /\ deploy'.template.gen = 0
  <2>1. CASE ApplyDeployment("apply", "drift") \/ ApplyDeployment("reapply", "Service")
    <3>1. r.spec \in Object
      BY DEF TypeOK, Runs
    <3>2. deploy' = Applied(deploy, r.spec)
            => deploy'.template = [gen |-> r.spec.gen, order |-> 0]
      BY <3>1, AppliedHolds
    <3> QED
      BY <2>1, <3>2 DEF ApplyDeployment
  <2>2. CASE DeleteDeployment
    BY <2>2 DEF DeleteDeployment, NoDeployment, NoTemplate
  <2>3. CASE \/ Begin \/ CallFails \/ WriteStatus \/ GetDeployment \/ CheckHealth
             \/ ReadReplicas \/ PickRoute \/ CheckDrift
    BY <2>3 DEF Begin, CallFails, WriteStatus, GetDeployment, CheckHealth, ReadReplicas,
       PickRoute, CheckDrift, cluster
  <2>4. CASE \/ ApplyService \/ EnsureClaim \/ ApplyPolicy \/ ApplyConfig \/ EnsureKey
             \/ ApplyTcpRoute \/ ApplyHttpRoute \/ ApplyCertificate
    BY <2>4 DEF ApplyService, EnsureClaim, ApplyPolicy, ApplyConfig, EnsureKey,
       ApplyTcpRoute, ApplyHttpRoute, ApplyCertificate, Apply, Ensure
  <2> QED
    BY <2>1, <2>2, <2>3, <2>4 DEF Handler
<1>3. \A p \in Objects : objs'[p].gen \in {objs[p].gen, r.spec.gen}
  <2>1. CASE UNCHANGED objs
    BY <2>1
  <2>2. ASSUME NEW o \in Objects, objs' = [objs EXCEPT ![o] = [there |-> TRUE, gen |-> r.spec.gen]]
        PROVE  \A p \in Objects : objs'[p].gen \in {objs[p].gen, r.spec.gen}
    BY <2>2 DEF TypeOK
  <2>3. ASSUME NEW o \in Objects, NEW next, Apply(o, next) \/ Ensure(o, next)
        PROVE  \A p \in Objects : objs'[p].gen \in {objs[p].gen, r.spec.gen}
    BY <2>1, <2>2, <2>3 DEF Apply, Ensure
  <2>4. CASE \/ ApplyService \/ EnsureClaim \/ ApplyPolicy \/ ApplyConfig \/ EnsureKey
             \/ ApplyTcpRoute \/ ApplyHttpRoute \/ ApplyCertificate
    BY <2>3, <2>4 DEF ApplyService, EnsureClaim, ApplyPolicy, ApplyConfig, EnsureKey,
       ApplyTcpRoute, ApplyHttpRoute, ApplyCertificate, Objects
  <2>5. CASE \/ Begin \/ CallFails \/ WriteStatus \/ GetDeployment \/ DeleteDeployment
             \/ ApplyDeployment("apply", "drift") \/ ApplyDeployment("reapply", "Service")
             \/ CheckHealth \/ ReadReplicas \/ PickRoute \/ CheckDrift
    BY <2>1, <2>5 DEF Begin, CallFails, WriteStatus, GetDeployment, DeleteDeployment,
       ApplyDeployment, CheckHealth, ReadReplicas, PickRoute, CheckDrift, cluster
  <2> QED
    BY <2>4, <2>5 DEF Handler
<1> QED
  BY <1>1, <1>2, <1>3, GensTyped DEF GensFrom

LEMMA StepGens ==
  ASSUME TypeOK, [Next]_vars PROVE GensFrom
BY UserGens, ClusterGens, HandlerGens DEF Next, Environment

\* However far the cache lags and however long a reconcile takes, neither the status nor
\* the Deployment nor any other object goes back to an older spec than it was at, unless
\* a user writes over it or deletes it.
THEOREM NothingGoesBack ==
  Spec => [][/\ status'.gen >= status.gen
             /\ tampers' = tampers =>
                  /\ deploy'.there => deploy'.template.gen >= deploy.template.gen
                  /\ \A o \in Objects : objs'[o].gen >= objs[o].gen]_vars
<1>1. Init => InOrder
  <2> SUFFICES ASSUME Init PROVE InOrder
    OBVIOUS
  <2>1. spec.gen = 1 /\ cache.gen = 1 /\ r.spec.gen = 1 /\ status.gen = 0
    BY DEF Init, Idle
  <2>2. deploy.template = NoTemplate
    BY InitDeployment DEF NoDeployment
  <2> QED
    BY <2>1, <2>2 DEF Init, InOrder, NoTemplate
<1>2. TypeOK /\ TypeOK' /\ InOrder /\ [Next]_vars => InOrder'
  <2> SUFFICES ASSUME TypeOK, TypeOK', InOrder, [Next]_vars PROVE InOrder'
    OBVIOUS
  <2>1. GensFrom
    BY StepGens
  <2>2. /\ spec.gen \in Nat /\ cache.gen \in Nat /\ r.spec.gen \in Nat /\ status.gen \in Nat
        /\ deploy.template.gen \in Nat /\ \A o \in Objects : objs[o].gen \in Nat
    BY GensTyped
  <2>3. /\ spec'.gen \in Nat /\ r'.spec.gen \in Nat /\ r'.spec.gen >= r.spec.gen
        /\ r'.spec.gen =< cache'.gen /\ cache'.gen =< spec'.gen
    <3>1. spec'.gen \in Nat
      <4>1. spec' \in Object
        BY DEF TypeOK
      <4> QED
        BY <4>1, BoundsAssumption DEF Object, Gen
    <3> QED
      BY <2>1, <2>2, <3>1 DEF InOrder, GensFrom
  <2>4. status'.gen =< r'.spec.gen /\ deploy'.template.gen =< r'.spec.gen
    BY <2>1, <2>2, <2>3 DEF InOrder, GensFrom
  <2>5. \A o \in Objects : objs'[o].gen =< r'.spec.gen
    BY <2>1, <2>2, <2>3 DEF InOrder, GensFrom
  <2> QED
    BY <2>3, <2>4, <2>5 DEF InOrder
<1>3. TypeOK /\ InOrder /\ [Next]_vars =>
        /\ status'.gen >= status.gen
        /\ tampers' = tampers =>
             /\ deploy'.there => deploy'.template.gen >= deploy.template.gen
             /\ \A o \in Objects : objs'[o].gen >= objs[o].gen
  BY StepGens, GensTyped DEF InOrder, GensFrom
<1> QED
  BY <1>1, <1>2, <1>3, TypeCorrect, PTL DEF Spec
=============================================================================
