---------------------------- MODULE AppReconcile ----------------------------
(***************************************************************************)
(* One ServarrApp and the objects the reconcile builds from it: the        *)
(* Deployment, which is deleted and built anew when its immutable selector *)
(* changed, and behind it, in the order of the code, Service, claims,      *)
(* NetworkPolicy, ConfigMaps, API key, route, certificate, and the status. *)
(* Users edit the app and tamper with the objects, calls fail, and the     *)
(* operator may crash between any two of them.                             *)
(*                                                                         *)
(* What an object holds is the generation of the spec it was built from; 0 *)
(* is what a user wrote over it.                                           *)
(***************************************************************************)
EXTENDS Naturals, FiniteSets

CONSTANTS Variants,    \* the specs a user gives the app
          MaxEdits,    \* edits of the spec
          MaxMishaps   \* what users do to the objects, changes of the app's health,
                       \* failed calls and crashes, together

Toggle == {"unset", "true", "false"}
Routes == {"http", "tcp"}

\* What the reconcile looks at: the name label of the selector, both network
\* policy fields, and the gateway.
Variant == [name : {"old", "new"}, policy : Toggle, policyConfig : BOOLEAN,
            gateway : BOOLEAN, route : Routes, tls : BOOLEAN, issuer : BOOLEAN]

ASSUME VariantAssumption == Variants \subseteq Variant /\ Variants # {}
ASSUME BoundsAssumption ==
  /\ MaxEdits \in Nat
  /\ MaxMishaps \in Nat

VARIABLES
  spec,    \* the ServarrApp: its variant and generation
  cache,   \* the copy the operator's watch has delivered
  deploy,  \* the Deployment
  objs,    \* the other objects
  pod,     \* the pod, and the template it was started from
  status,  \* the app's status
  well,    \* does the app's own API answer healthy
  r,       \* the reconcile
  edits, tampers, faults

cluster == <<deploy, objs, pod, well>>
bounds == <<edits, tampers, faults>>
vars == <<spec, cache, cluster, status, r, bounds>>

Gen == 1 .. MaxEdits + 1
Object == [variant : Variants, gen : Gen]

Objects == {"Service", "Claim", "Policy", "Config", "Key", "TcpRoute", "HttpRoute",
            "Certificate"}

\* Objects that are created when they are missing and never touched again.
CreateOnly == {"Claim", "Key"}

PolicyWanted(v) == v.policyConfig \/ v.policy # "false"
TcpWanted(v) == v.gateway /\ (v.route = "tcp" \/ v.tls)
HttpWanted(v) == v.gateway /\ ~(v.route = "tcp" \/ v.tls)
CertificateWanted(v) == v.gateway /\ v.tls /\ v.issuer

Wanted(o, v) ==
  /\ o = "Policy" => PolicyWanted(v)
  /\ o = "TcpRoute" => TcpWanted(v)
  /\ o = "HttpRoute" => HttpWanted(v)
  /\ o = "Certificate" => CertificateWanted(v)

\* Mutant: the checksum annotation hashes the config in the order of a hash map.
TemplateUnsorted(s, last) == [gen |-> s.gen, order |-> 1 - last.order]

\* The pod template: a function of the spec alone, since the config it is
\* stamped with is hashed in the order of its keys.
Template(s, last) == [gen |-> s.gen, order |-> 0]

Templates == [gen : 0 .. MaxEdits + 1, order : {0, 1}]
NoTemplate == [gen |-> 0, order |-> 0]

Owners == {"app", "other"}
Deployments == [there : BOOLEAN, uid : Nat, owners : SUBSET Owners,
                name : {"old", "new"}, template : Templates, extra : BOOLEAN]
NoDeployment(uid) == [there |-> FALSE, uid |-> uid, owners |-> {}, name |-> "old",
                      template |-> NoTemplate, extra |-> FALSE]

Health == [is : {"none", "True", "False", "Unknown"}, fresh : BOOLEAN]
NoHealth == [is |-> "none", fresh |-> FALSE]

Steps == {"idle", "get", "delete", "apply", "drift", "reapply", "Route", "health", "read",
          "status"}

Runs == [pc : Steps \cup Objects, spec : Object, uid : Nat, ready : BOOLEAN,
         health : Health]
Held == [there : BOOLEAN, gen : 0 .. MaxEdits + 1]
Pods == [there : BOOLEAN, up : BOOLEAN, template : Templates]
Statuses == [gen : 0 .. MaxEdits + 1, ready : BOOLEAN, health : Health]

\* Every variable has its type, and a reconcile holds only what it measured itself.
TypeOK ==
  /\ spec \in Object /\ spec.gen = edits + 1
  /\ cache \in Object
  /\ deploy \in Deployments
  /\ objs \in [Objects -> Held]
  /\ pod \in Pods
  /\ status \in Statuses
  /\ well \in BOOLEAN
  /\ r \in Runs
  /\ r.pc \notin {"read", "status"} => r.health = NoHealth
  /\ r.pc # "status" => ~r.ready
  /\ edits \in 0 .. MaxEdits
  /\ tampers \in Nat /\ faults \in Nat
  /\ tampers + faults <= MaxMishaps

Idle == [pc |-> "idle", spec |-> cache, uid |-> 0, ready |-> FALSE, health |-> NoHealth]

\* The app was just created, and maybe somebody else's Deployment has its name.
Init ==
  /\ spec \in [variant : Variants, gen : {1}]
  /\ cache = spec
  /\ deploy \in {NoDeployment(0)} \cup
       [there : {TRUE}, uid : {0}, owners : {{"other"}}, name : {"old", "new"},
        template : {NoTemplate}, extra : {FALSE}]
  /\ objs = [o \in Objects |-> [there |-> FALSE, gen |-> 0]]
  /\ pod = [there |-> FALSE, up |-> FALSE, template |-> NoTemplate]
  /\ status = [gen |-> 0, ready |-> FALSE, health |-> NoHealth]
  /\ well = TRUE
  /\ r = Idle
  /\ edits = 0 /\ tampers = 0 /\ faults = 0

-----------------------------------------------------------------------------
(* Users, the watch and the cluster.                                       *)

EditSpec ==
  /\ edits < MaxEdits
  /\ edits' = edits + 1
  /\ \E v \in Variants : spec' = [variant |-> v, gen |-> spec.gen + 1]
  /\ UNCHANGED <<cache, cluster, status, r, tampers, faults>>

Deliver ==
  /\ cache # spec
  /\ cache' = spec
  /\ UNCHANGED <<spec, cluster, status, r, bounds>>

Tampering ==
  /\ tampers + faults < MaxMishaps
  /\ tampers' = tampers + 1
  /\ UNCHANGED <<spec, cache, pod, status, r, edits, faults>>

\* A user writes over an object, or deletes it.
TamperObject ==
  /\ Tampering
  /\ \E o \in {p \in Objects : objs[p].there} :
       \/ objs' = [objs EXCEPT ![o].gen = 0]
       \/ objs' = [objs EXCEPT ![o].there = FALSE]
  /\ UNCHANGED <<deploy, well>>

\* A user writes over a field of the Deployment, adds an entry of his own to a
\* list of it, deletes it, or deletes it and creates one of his own.
TamperDeployment ==
  /\ Tampering
  /\ deploy.there
  /\ deploy' \in {[deploy EXCEPT !.template = NoTemplate],
                  [deploy EXCEPT !.extra = TRUE],
                  NoDeployment(deploy.uid),
                  [NoDeployment(deploy.uid + 1) EXCEPT !.there = TRUE, !.owners = {"other"}]}
  /\ UNCHANGED <<objs, well>>

\* The app becomes ill, or well.
HealthChanges ==
  /\ Tampering
  /\ well' = ~well
  /\ UNCHANGED <<deploy, objs>>

\* A pod is started from the current template, and stopped with its Deployment.
PodMoves ==
  /\ \/ /\ deploy.there
        /\ ~pod.there \/ pod.template # deploy.template
        /\ pod' = [there |-> TRUE, up |-> FALSE, template |-> deploy.template]
     \/ /\ ~deploy.there
        /\ pod.there
        /\ pod' = [there |-> FALSE, up |-> FALSE, template |-> NoTemplate]
  /\ UNCHANGED <<spec, cache, deploy, objs, well, status, r, bounds>>

\* It becomes ready once the claim, the ConfigMaps and the key it mounts exist.
PodReady ==
  /\ pod.there /\ ~pod.up
  /\ pod.template = deploy.template
  /\ \A o \in {"Claim", "Config", "Key"} : objs[o].there
  /\ pod' = [pod EXCEPT !.up = TRUE]
  /\ UNCHANGED <<spec, cache, deploy, objs, well, status, r, bounds>>

\* The poll interval of the health check passes.
Ages ==
  /\ status.health.fresh \/ r.health.fresh
  /\ status' = [status EXCEPT !.health.fresh = FALSE]
  /\ r' = [r EXCEPT !.health.fresh = FALSE]
  /\ UNCHANGED <<spec, cache, cluster, bounds>>

-----------------------------------------------------------------------------
(* The reconcile.                                                          *)

Goto(pc) == r' = [r EXCEPT !.pc = pc]

Fault ==
  /\ tampers + faults < MaxMishaps
  /\ faults' = faults + 1

\* A reconcile starts on the cached app, when it is due or something it watches
\* changed.
Begin ==
  /\ r.pc = "idle"
  /\ r' = [Idle EXCEPT !.pc = "get"]
  /\ UNCHANGED <<spec, cache, cluster, status, bounds>>

\* Mutant: a step that fails is only logged.
StopsLogged(pc) == r' = [r EXCEPT !.pc = "health"]

\* A reconcile that fails stops where it is; it is retried from the start.
Stops(pc) == r' = Idle

\* A call is refused, or the operator crashes.
CallFails ==
  /\ r.pc # "idle"
  /\ Fault
  /\ Stops(r.pc)
  /\ UNCHANGED <<spec, cache, cluster, status, edits, tampers>>

\* Mutants: the selector is not looked at; any Deployment of that name counts as
\* the app's own.
StaleNever(d, v) == FALSE
StaleAny(d, v) == d.there /\ d.name # v.name

\* The app's own Deployment selects by a label that the app no longer has.
Stale(d, v) == d.there /\ "app" \in d.owners /\ d.name # v.name

GetDeployment ==
  /\ r.pc = "get"
  /\ r' = [r EXCEPT !.pc = IF Stale(deploy, r.spec.variant) THEN "delete" ELSE "apply",
                    !.uid = deploy.uid]
  /\ UNCHANGED <<spec, cache, cluster, status, bounds>>

\* A Deployment that is gone by now fails the reconcile.
DeleteDeployment ==
  /\ r.pc = "delete"
  /\ IF deploy.there
     THEN deploy' = NoDeployment(deploy.uid) /\ Goto("apply")
     ELSE Stops(r.pc) /\ UNCHANGED deploy
  /\ UNCHANGED <<spec, cache, objs, pod, well, status, bounds>>

\* Server-side apply, with force: it creates the Deployment or takes over every
\* field it names, leaves alone what others added to a list, and is refused when
\* it would change the selector.
Applied(d, s) ==
  IF d.there
  THEN [d EXCEPT !.owners = @ \cup {"app"}, !.template = Template(s, d.template)]
  ELSE [there |-> TRUE, uid |-> d.uid + 1, owners |-> {"app"}, name |-> s.variant.name,
        template |-> Template(s, d.template), extra |-> FALSE]

ApplyDeployment(pc, next) ==
  /\ r.pc = pc
  /\ IF deploy.there /\ deploy.name # r.spec.variant.name
     THEN Stops(r.pc) /\ UNCHANGED deploy
     ELSE deploy' = Applied(deploy, r.spec) /\ Goto(next)
  /\ UNCHANGED <<spec, cache, objs, pod, well, status, bounds>>

\* Does the Deployment hold every field that was applied?  A list that somebody
\* lengthened does not count as holding it.
Subset(d, s) == d.template = Template(s, d.template) /\ ~d.extra

CheckDrift ==
  /\ r.pc = "drift"
  /\ IF deploy.there
     THEN Goto(IF Subset(deploy, r.spec) THEN "Service" ELSE "reapply")
     ELSE Stops(r.pc)
  /\ UNCHANGED <<spec, cache, cluster, status, bounds>>

\* Applies object o, if the spec wants it; what it does not want is left alone.
Apply(o, next) ==
  /\ r.pc = o
  /\ objs' = IF Wanted(o, r.spec.variant)
             THEN [objs EXCEPT ![o] = [there |-> TRUE, gen |-> r.spec.gen]]
             ELSE objs
  /\ Goto(next)
  /\ UNCHANGED <<spec, cache, deploy, pod, well, status, bounds>>

Ensure(o, next) ==
  /\ r.pc = o
  /\ objs' = IF objs[o].there
             THEN objs
             ELSE [objs EXCEPT ![o] = [there |-> TRUE, gen |-> r.spec.gen]]
  /\ Goto(next)
  /\ UNCHANGED <<spec, cache, deploy, pod, well, status, bounds>>

ApplyService == Apply("Service", "Claim")
EnsureClaim == Ensure("Claim", "Policy")
ApplyPolicy == Apply("Policy", "Config")
ApplyConfig == Apply("Config", "Key")
EnsureKey == Ensure("Key", "Route")

\* TCPRoute and HTTPRoute exclude each other.
PickRoute ==
  /\ r.pc = "Route"
  /\ Goto(IF TcpWanted(r.spec.variant) THEN "TcpRoute" ELSE "HttpRoute")
  /\ UNCHANGED <<spec, cache, cluster, status, bounds>>

ApplyTcpRoute == Apply("TcpRoute", "Certificate")
ApplyHttpRoute == Apply("HttpRoute", "Certificate")
ApplyCertificate == Apply("Certificate", "health")

\* A healthy answer is kept while the poll interval runs; any other is asked for
\* again.
Throttled(h) == h.is = "True" /\ h.fresh

\* What the app says of itself; no answer, or no key to ask with, is unknown.
Answer ==
  CASE ~pod.up \/ ~objs["Key"].there -> "Unknown"
    [] OTHER -> IF well THEN "True" ELSE "False"

CheckHealth ==
  /\ r.pc = "health"
  /\ \/ /\ r' = [r EXCEPT !.pc = "read",
                          !.health = IF Throttled(status.health) THEN status.health
                                     ELSE [is |-> Answer, fresh |-> TRUE]]
        /\ UNCHANGED faults
     \/ /\ ~Throttled(status.health)
        /\ Fault
        /\ r' = [r EXCEPT !.pc = "read", !.health = [is |-> "Unknown", fresh |-> TRUE]]
  /\ UNCHANGED <<spec, cache, cluster, status, edits, tampers>>

\* The ready replicas; a Deployment that cannot be read counts as not ready.
ReadReplicas ==
  /\ r.pc = "read"
  /\ \/ /\ r' = [r EXCEPT !.pc = "status", !.ready = deploy.there /\ pod.up]
        /\ UNCHANGED faults
     \/ /\ Fault
        /\ r' = [r EXCEPT !.pc = "status", !.ready = FALSE]
  /\ UNCHANGED <<spec, cache, cluster, status, edits, tampers>>

\* Mutant: the status names the generation the app has by now.
WriteStatusLatest ==
  /\ r.pc = "status"
  /\ status' = [gen |-> cache.gen, ready |-> r.ready, health |-> r.health]
  /\ r' = Idle
  /\ UNCHANGED <<spec, cache, cluster, bounds>>

WriteStatus ==
  /\ r.pc = "status"
  /\ status' = [gen |-> r.spec.gen, ready |-> r.ready, health |-> r.health]
  /\ r' = Idle
  /\ UNCHANGED <<spec, cache, cluster, bounds>>

-----------------------------------------------------------------------------
Handler ==
  \/ Begin
  \/ GetDeployment
  \/ DeleteDeployment
  \/ ApplyDeployment("apply", "drift")
  \/ CheckDrift
  \/ ApplyDeployment("reapply", "Service")
  \/ ApplyService
  \/ EnsureClaim
  \/ ApplyPolicy
  \/ ApplyConfig
  \/ EnsureKey
  \/ PickRoute
  \/ ApplyTcpRoute
  \/ ApplyHttpRoute
  \/ ApplyCertificate
  \/ CheckHealth
  \/ ReadReplicas
  \/ WriteStatus

Environment ==
  \/ EditSpec
  \/ Deliver
  \/ TamperObject
  \/ TamperDeployment
  \/ HealthChanges
  \/ PodMoves
  \/ PodReady
  \/ Ages

Next == Handler \/ CallFails \/ Environment

Spec == Init /\ [][Next]_vars

\* A reconcile is requeued whatever its outcome, the watch delivers, time passes,
\* and the cluster starts and stops pods; users and faults owe nothing.
FairSpec ==
  /\ Spec
  /\ WF_vars(Handler)
  /\ WF_vars(Deliver)
  /\ WF_vars(PodMoves)
  /\ WF_vars(PodReady)
  /\ WF_vars(Ages)

-----------------------------------------------------------------------------
(* Properties.                                                             *)

\* Every object the spec s wants was made from it, or exists if it is only
\* ever created.
Built(s) ==
  \A o \in Objects :
    Wanted(o, s.variant) => objs[o].there /\ (o \in CreateOnly \/ objs[o].gen = s.gen)

\* A status names the generation of a spec only after every object that spec
\* wants was applied: a step that fails, at any place of the reconcile, keeps it
\* from being reported as observed.
ObservedIsBuilt ==
  [][status'.gen # status.gen /\ tampers = 0
       => Built(r.spec) /\ deploy.template = Template(r.spec, deploy.template)]_vars

\* What the reconcile deletes is the app's own: a Deployment of somebody else is
\* only ever deleted in place of the one the reconcile had looked at before.
ForeignSurvives ==
  [][r.pc = "delete" /\ deploy.there /\ ~deploy'.there /\ tampers' = tampers
       => "app" \in deploy.owners \/ deploy.uid # r.uid]_vars

\* The objects a reconcile that is at step pc has been through.
Passed(pc) ==
  CASE pc = "Claim" -> {"Service"}
    [] pc = "Policy" -> {"Service", "Claim"}
    [] pc = "Config" -> {"Service", "Claim", "Policy"}
    [] pc = "Key" -> {"Service", "Claim", "Policy", "Config"}
    [] pc \in {"Route", "TcpRoute", "HttpRoute"} -> Objects \ {"TcpRoute", "HttpRoute", "Certificate"}
    [] pc = "Certificate" -> Objects \ {"Certificate"}
    [] pc \in {"health", "read", "status"} -> Objects
    [] OTHER -> {}

\* What there is, and where the reconcile is, in the terms of Upkeep.
WantedBy == [v \in Variants |-> {o \in Objects : Wanted(o, v)}]
Label == [v \in Variants |-> v.name]
HeldObjects == [o \in Objects |-> IF objs[o].there THEN {objs[o].gen} ELSE {}]
HeldDeployment ==
  IF deploy.there
  THEN {[uid |-> deploy.uid, mine |-> "app" \in deploy.owners, label |-> deploy.name,
         gen |-> deploy.template.gen]}
  ELSE {}
Pass == IF r.pc = "idle" THEN {} ELSE {r.spec}
Target == IF r.pc = "delete" THEN {r.uid} ELSE {}
Done ==
  (IF r.pc \in {"idle", "get", "delete", "apply"} THEN {} ELSE {"Deployment"})
  \cup {o \in Passed(r.pc) : Wanted(o, r.spec.variant)}

\* The reconcile keeps the contract of Upkeep, whatever users, a lagging watch, failed
\* calls and crashes do in between: it reports the generation of the spec it worked by
\* and only when it has been through all of it, builds nothing that the spec does not
\* want, touches no object that it only creates, and deletes no Deployment that it
\* looked at and that is not the app's own or has the right selector.
Promised == INSTANCE Upkeep WITH
  Once <- CreateOnly, Wants <- WantedBy, Labels <- {"old", "new"},
  app <- spec, known <- cache, held <- HeldObjects, main <- HeldDeployment,
  last <- deploy.uid, pass <- Pass, target <- Target, done <- Done, report <- status.gen
KeepsUpkeep == Promised!Spec

\* A Deployment of somebody else with another selector holds the name.
NameTaken == deploy.there /\ deploy.name # spec.variant.name /\ "app" \notin deploy.owners

\* Whatever users write over, delete or rename, and wherever the operator crashes,
\* in the end every object is as the spec says, the pod runs the current template
\* and the status says so, unless the name is taken.
Converges ==
  \/ []<>NameTaken
  \/ <>[](/\ Built(spec) /\ deploy.there /\ deploy.template = Template(spec, deploy.template)
          /\ pod.up /\ pod.template = deploy.template
          /\ status.gen = spec.gen /\ status.ready
          /\ status.health.is = IF well THEN "True" ELSE "False")

\* Reconciles that find nothing to change do not replace the pod.
PodsSettle == <>[][pod' = pod]_vars
=============================================================================
