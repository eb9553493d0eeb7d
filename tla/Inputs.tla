------------------------------- MODULE Inputs -------------------------------
(***************************************************************************)
(* From what users write to what runs: ServarrApps are checked by the      *)
(* webhook and stored, by users or by the reconcile of a MediaStack; the   *)
(* reconcile of each applies its Deployment and then the objects the pod   *)
(* mounts; the cluster starts a pod and replaces it when the template      *)
(* changed.                                                                *)
(*                                                                         *)
(* A create is checked before it is stored, and others are stored in       *)
(* between.  A reconcile may fail after the Deployment and before the      *)
(* rest, and pods start at any time.  The pod of the NFS server moves, and *)
(* an upgrade of the operator may leave a stored spec that it cannot read. *)
(* Which children a stack creates when, and which orphans it deletes, is   *)
(* in MediaStack.                                                          *)
(***************************************************************************)
EXTENDS Admission, StackExpansion

CONSTANTS
  AppNames,        \* names of ServarrApps
  Wishes,          \* what may happen in a namespace: the apps and the stacks its users
                   \* may ask for, how often, and the number of mishaps
  ImageOverrides,  \* the operator's image settings: an optional image for each kind
  Addresses        \* of the NFS server's pod

ASSUME WishesAssumption ==
  \A w \in Wishes :
    /\ w.edits \in Nat /\ w.mishaps \in Nat
    /\ \A a \in w.apps : a.name \in AppNames /\ a.spec.app \in Kinds

\* The operator does not start unless it has defaults for every kind of app.
ASSUME DefaultsAssumption == ValidateAll

Stacks == UNION {s : s \in UNION {w.stacks : w \in Wishes}}

\* Specs and NFS servers as they are deserialized: every field is there, an option holds
\* one value at most, mounts and paths are lists.
IsOption(o) == o = None \/ o = Some(Given(o))
IsSpec(spec) ==
  /\ spec = [f \in DOMAIN BlankSpec("") |-> spec[f]]
  /\ IsOption(spec.instance) /\ IsOption(spec.persistence)
  /\ \A p \in spec.persistence : p.nfs \in Seq(ToSet(p.nfs))
IsNfsServer(nfs) ==
  /\ nfs = [f \in DOMAIN NfsServer |-> nfs[f]]
  /\ nfs.root \in Seq(STRING) /\ nfs.dirs \in [Media -> Seq(STRING)]

ASSUME StacksAssumption ==
  \A s \in Stacks :
    /\ IsSpec(s.defaults)
    /\ \A entry \in ToSet(s.apps) :
         IsSpec(entry.spec) /\ IsOption(entry.overrides) /\ \A o \in entry.overrides : IsSpec(o)
    /\ IsOption(s.nfs) /\ \A nfs \in s.nfs : IsNfsServer(nfs)

VARIABLES
  wish,     \* what may happen in this namespace
  store,    \* the ServarrApps: a spec, and can this operator read it
  review,   \* creates that were checked and are not stored yet
  built,    \* the spec whose Deployment was applied last
  rest,     \* the spec whose other objects were applied last
  pod,      \* the spec the pod's template was made of, and that of what it mounted
  stack,    \* the MediaStack
  plan,     \* the children its reconcile last computed, by where they come from
  address,  \* of the NFS server's pod, once it runs
  raced,    \* pairs of apps of which one was stored while the other was in review
  edits, mishaps

cluster == <<store, review, built, rest, pod, raced>>
stacks == <<stack, plan, address>>
bounds == <<edits, mishaps>>
vars == <<wish, cluster, stacks, bounds>>

Init ==
  /\ wish \in Wishes
  /\ store = [n \in AppNames |-> None]
  /\ review = [n \in AppNames |-> None]
  /\ built = [n \in AppNames |-> None]
  /\ rest = [n \in AppNames |-> None]
  /\ pod = [n \in AppNames |-> None]
  /\ stack = None /\ plan = <<>> /\ address = None
  /\ raced = {}
  /\ edits = 0 /\ mishaps = 0

Stored == {n \in AppNames : store[n] # None}
SpecOf(n) == Given(store[n]).spec
Legible == \A n \in Stored : Given(store[n]).legible

\* What is computed from a spec, or from a stack and the address, depends on nothing
\* else and is computed once for each of them.
ChildrenOf ==
  [s \in Stacks |-> [a \in {None} \cup {Some(x) : x \in Addresses} |-> Children(s, a)]]
Specs ==
  {a.spec : a \in UNION {w.apps : w \in Wishes}}
  \cup {c.spec : c \in UNION {Range(children) : children \in UNION {Range(ChildrenOf[s]) : s \in Stacks}}}

ValidStacks == {s \in Stacks : ValidStack(s)}
Clean == {spec \in Specs : ~Rejected(spec)}
Buildables == {spec \in Specs : Buildable(spec)}
Template == [spec \in Buildables |-> Deployment(spec, ImageOverrides[spec.app])]

-----------------------------------------------------------------------------
(* Admission.  Typed lists fail as a whole when one stored spec cannot be  *)
(* read.                                                                   *)

Existing == IF Legible THEN Some({SpecOf(n) : n \in Stored}) ELSE None

\* A create passes the checks; what is listed is what is stored now.
Check(n, spec) ==
  /\ store[n] = None /\ review[n] = None
  /\ spec \in Clean /\ ~Duplicate(spec, Existing)
  /\ review' = [review EXCEPT ![n] = Some([spec |-> spec, seen |-> Stored])]
  /\ UNCHANGED <<store, built, rest, pod, raced>>

\* An update is checked against the object it replaces.
Replace(n, spec) ==
  /\ store[n] # None
  /\ spec # SpecOf(n)
  /\ spec \in Clean
  /\ ~IdentityChanged(spec, Some(IF Given(store[n]).legible THEN Some(SpecOf(n)) ELSE None))
  /\ store' = [store EXCEPT ![n] = Some([spec |-> spec, legible |-> TRUE])]
  /\ UNCHANGED <<review, built, rest, pod, raced>>

Put(n, spec) == Check(n, spec) \/ Replace(n, spec)

\* The API server stores what was admitted.
StoreChecked(n) ==
  /\ review[n] # None
  /\ LET checked == Given(review[n])
     IN  /\ store' = [store EXCEPT ![n] = Some([spec |-> checked.spec, legible |-> TRUE])]
         /\ raced' = raced \cup {{n, m} : m \in Stored \ checked.seen}
  /\ review' = [review EXCEPT ![n] = None]
  /\ UNCHANGED <<wish, built, rest, pod, stacks, bounds>>

-----------------------------------------------------------------------------
(* Users, and what happens to the cluster.                                 *)

Edit ==
  /\ edits < wish.edits
  /\ edits' = edits + 1
  /\ UNCHANGED <<wish, plan, address, mishaps>>

PutApp ==
  /\ Edit
  /\ \E a \in wish.apps : Put(a.name, a.spec)
  /\ UNCHANGED stack

\* The app goes with everything it owns.  One that is put back under its name is another.
DeleteApp ==
  /\ Edit
  /\ \E n \in Stored :
       /\ store' = [store EXCEPT ![n] = None]
       /\ built' = [built EXCEPT ![n] = None]
       /\ rest' = [rest EXCEPT ![n] = None]
       /\ pod' = [pod EXCEPT ![n] = None]
       /\ review' = [m \in AppNames |-> {[r EXCEPT !.seen = @ \ {n}] : r \in review[m]}]
       /\ raced' = {pair \in raced : n \notin pair}
  /\ UNCHANGED stack

PutStack ==
  /\ Edit
  /\ \E s \in wish.stacks : s # stack /\ stack' = s
  /\ UNCHANGED cluster

Mishap ==
  /\ mishaps < wish.mishaps
  /\ mishaps' = mishaps + 1
  /\ UNCHANGED <<wish, review, built, rest, pod, raced, stack, plan, edits>>

\* The NFS server's pod starts, or is replaced.
NfsPodMoves ==
  /\ Mishap
  /\ \E s \in stack : \E nfs \in s.nfs : DeployInCluster(nfs)
  /\ \E a \in Addresses : address # Some(a) /\ address' = Some(a)
  /\ UNCHANGED store

\* The next version of the operator no longer knows a field of the spec.
Upgrade ==
  /\ Mishap
  /\ \E n \in Stored : store' = [store EXCEPT ![n] = Some([Given(@) EXCEPT !.legible = FALSE])]
  /\ UNCHANGED address

-----------------------------------------------------------------------------
(* The reconciles.                                                         *)

\* The stack's reconcile reads the address first and computes its children with it.
PlanStack ==
  /\ \E s \in stack \cap ValidStacks : plan' = ChildrenOf[s][address]
  /\ plan' # plan
  /\ UNCHANGED <<wish, cluster, stack, address, bounds>>

ApplyChild ==
  /\ \E p \in DOMAIN plan : Put(plan[p].name, plan[p].spec)
  /\ UNCHANGED <<wish, stacks, bounds>>

\* The API server's own checks of what is applied, which treats lists as maps.
WellFormed(t, servicePorts) ==
  LET containers == <<t.main>> \o t.init
      named(s) == IsInjective(MapSeq(s, LAMBDA x : x.name))
      ports(s, Number(_)) == IsInjective(MapSeq(s, LAMBDA p : <<Number(p), p.protocol>>))
  IN  /\ named(t.volumes) /\ named(containers) /\ named(t.ports)
      /\ ports(t.ports, LAMBDA p : Given(p.containerPort))
      /\ \A i \in DOMAIN containers :
           LET c == containers[i]
           IN  /\ IsInjective(MapSeq(c.mounts, LAMBDA m : m.path))
               /\ Names(c.mounts) \subseteq Names(t.volumes)
               /\ named(c.env)
      /\ named(servicePorts) /\ ports(servicePorts, LAMBDA p : p.port)

Deployable == {spec \in Buildables : WellFormed(Template[spec], ServicePorts(spec))}

ApplyDeployment(n) ==
  /\ Legible /\ n \in Stored
  /\ built[n] # Some(SpecOf(n))
  /\ SpecOf(n) \in Deployable
  /\ built' = [built EXCEPT ![n] = Some(SpecOf(n))]
  /\ UNCHANGED <<wish, store, review, rest, pod, raced, stacks, bounds>>

\* ConfigMaps, claims and Secrets come after the Deployment.
ApplyRest(n) ==
  /\ rest[n] # built[n]
  /\ rest' = [rest EXCEPT ![n] = built[n]]
  /\ UNCHANGED <<wish, store, review, built, pod, raced, stacks, bounds>>

\* The app's own objects: those applied for spec, and the Secrets ensured beside them.
Own(spec) ==
  {[kind |-> "ConfigMap", name |-> n] : n \in ConfigMaps(spec)}
  \cup {[kind |-> "Claim", name |-> n] : n \in Claims(spec)}
  \cup {[kind |-> "Secret", name |-> n] :
          n \in AuthorizedKeysSecret(spec)
                \cup {Child("api-key") : a \in {spec.app} \cap {"Bazarr"}}
                \cup {Child("rpc-password") : x \in spec.adminCredentials}}

\* What users bring themselves is there.
Brought(spec) ==
  {[kind |-> "Secret", name |-> n] : n \in spec.adminCredentials}
  \cup UNION {{[kind |-> "Claim", name |-> c] : c \in v.claim} :
                v \in UNION {ToSet(p.volumes) : p \in spec.persistence}}

References(template) ==
  {r \in UNION {v.refs : v \in ToSet(template.volumes)} : r.kind # "Nfs"}

\* A container that must not run as root does not start as root.
RootRefused(template) ==
  \E c \in ToSet(<<template.main>> \o template.init) :
    c.security.nonRoot /\ c.security.user = Some(0)

Starts(template, objects) == References(template) \subseteq objects /\ ~RootRefused(template)

\* Of two specs: the objects of the second are enough for the pod of the first.
Startable ==
  {pair \in Deployable \X Deployable :
     Starts(Template[pair[1]], Own(pair[2]) \cup Brought(pair[1]))}

\* A pod is started from a new template once everything it mounts is there.
StartPod(n) ==
  /\ \E spec \in built[n], mounted \in rest[n] :
       /\ \A p \in pod[n] : Template[p.spec] # Template[spec]
       /\ <<spec, mounted>> \in Startable
       /\ pod' = [pod EXCEPT ![n] = Some([spec |-> spec, mounted |-> mounted])]
  /\ UNCHANGED <<wish, store, review, built, rest, raced, stacks, bounds>>

-----------------------------------------------------------------------------
Next ==
  \/ PutApp \/ DeleteApp \/ PutStack \/ NfsPodMoves \/ Upgrade
  \/ PlanStack \/ ApplyChild
  \/ \E n \in AppNames :
       StoreChecked(n) \/ ApplyDeployment(n) \/ ApplyRest(n) \/ StartPod(n)

Spec == Init /\ [][Next]_vars

\* Requests come to an end, reconciles recur and are retried, and the cluster starts
\* pods; users and mishaps owe nothing.
FairSpec ==
  /\ Spec
  /\ WF_vars(PlanStack) /\ WF_vars(ApplyChild)
  /\ \A n \in AppNames :
       /\ WF_vars(StoreChecked(n)) /\ WF_vars(ApplyDeployment(n))
       /\ WF_vars(ApplyRest(n)) /\ WF_vars(StartPod(n))

-----------------------------------------------------------------------------
(* Properties.                                                             *)

PolicyOn(spec) == spec.policyConfig # None \/ spec.policy # Some(FALSE)

\* The Service leads to ports that the container opens and the policy lets in.
Reachable(spec) ==
  LET opened == {<<Given(p.containerPort), p.protocol>> : p \in ToSet(ContainerPorts(spec))}
      served == PolicyPorts(ServicePorts(spec))
      letIn == UNION {rule.ports : rule \in Ingress(spec)}
  IN  served \subseteq opened /\ (PolicyOn(spec) => served \subseteq letIn)

\* No mount of a container hides another one.
Apart(template) ==
  \A c \in ToSet(<<template.main>> \o template.init) :
    IsInjective(MapSeq(c.mounts, LAMBDA m : Normalize(m.path)))

(* What the rules admit although it cannot run as it is written. *)

\* A default volume is removed that an init container mounts.
Needs(spec) ==
  CASE spec.app \in {"Transmission", "Bazarr", "Unpackerr"} -> {"config"}
    [] spec.app = "Sabnzbd" -> {"config" : c \in {c \in spec.appConfig : c.whitelist # <<>>}}
    [] spec.app = "Seerr" ->
         {"config" : x \in {x \in {spec} : x.uid = None /\ x.gid = None /\ x.security = None}}
    [] spec.app = "SshBastion" -> {"host-keys" : c \in spec.appConfig}
    [] OTHER -> {}
NeededRemoved(spec) == ~(Needs(spec) \subseteq Names(Resolved(spec).volumes))

\* A variable of the user's has the name of one that the operator adds after them.
Added(spec) ==
  CASE spec.app \in DOMAIN KeyVariable -> {KeyVariable[spec.app] : k \in spec.apiKeySecret}
    [] spec.app = "Transmission" -> Names(TransmissionLogin(spec))
    [] spec.app = "SshBastion" -> {"MOTD" : c \in {c \in spec.appConfig : c.motd # ""}}
    [] OTHER -> {}
VariableTaken(spec) == Names(spec.env) \cap Added(spec) # {}

\* The mounts of two SSH users, or of one and a volume of the user's, are in each
\* other's way.
UserTaken(spec) ==
  \E c \in Config(spec, "SshBastion") :
    LET mounts == FlattenSeq(MapSeq(c.users, UserMounts))
        p == Resolved(spec)
    IN  \/ ~IsInjective(MapSeq(mounts, LAMBDA m : m.path))
        \/ \E m \in ToSet(mounts) :
             \/ \E v \in ToSet(p.volumes) : m.name = v.name
             \/ \E v \in ToSet(p.volumes) \cup ToSet(p.nfs) : Normalize(v.path) = m.path

\* Two ports have one name or one number, or the peer port that of another one.
PortTaken(spec) ==
  LET all == ContainerPorts(spec)
  IN  \/ ~IsInjective(MapSeq(all, LAMBDA p : p.name))
      \/ ~IsInjective(MapSeq(all, LAMBDA p : <<p.containerPort, p.protocol>>))
      \/ ~IsInjective(MapSeq(all, LAMBDA p : <<p.port, p.protocol>>))

\* The Service names no target port: it leads to a container port of its own number.
PortElsewhere(spec) ==
  \E ports \in spec.service : \E i \in DOMAIN ports : ports[i].containerPort \notin {None, Some(ports[i].port)}

\* A profile that refuses root, with the user root.
RefusesItself(spec) ==
  LET s == SecurityContext(spec)
  IN  s.nonRoot /\ (s.user = Some(0) \/ (UserUid(spec) = 0 /\ spec.app \in {"Transmission", "Bazarr", "Unpackerr"}))

Exempt(spec) ==
  \/ NeededRemoved(spec) \/ VariableTaken(spec) \/ UserTaken(spec)
  \/ PortTaken(spec) \/ PortElsewhere(spec) \/ RefusesItself(spec)

Runs(n, spec) ==
  /\ pod[n] # None
  /\ Template[Given(pod[n]).spec] = Template[spec]
  /\ Apart(Template[spec]) /\ Reachable(spec)

\* What the webhook admitted runs: the API server takes what is built from it, the
\* pod finds everything it mounts, nothing hides anything, and the Service leads to
\* it.  What does not is exactly what is listed above.
AdmittedRuns ==
  \A n \in AppNames :
    \/ []<>(store[n] = None \/ ~Legible)
    \/ <>[](store[n] # None /\ (Runs(n, SpecOf(n)) <=> ~Exempt(SpecOf(n))))

\* Two apps have one identity only when one of them was stored while the other was
\* between its check and its storing: no update, and no failed or old list, lets a
\* second one in.
TwinsRaced ==
  \A n, m \in Stored :
    n # m /\ Identity(SpecOf(n)) = Identity(SpecOf(m)) => {n, m} \in raced

\* What an object that the pod mounts holds.
Content(object, spec) ==
  CASE object \in {Child(""), Child("sabnzbd-config")} -> AppConfigMap(spec)
    [] object = Child("prowlarr-definitions") -> Definitions(spec)
    [] object = Child("restricted-rsync") -> RsyncScripts(spec)
    [] object = Child("tar-unpack") -> TarUnpack(spec)
    [] object = Child("authorized-keys") -> AuthorizedKeys(spec)
    [] object = Child("init") -> InitScript(spec)
    [] OTHER -> {}
Contents == [spec \in Deployable |->
  {<<r.name, Content(r.name, spec)>> : r \in References(Template[spec])}]

\* A pod that is not replaced holds what its ConfigMaps and Secrets hold, although it
\* reads them only when it starts: unless it was started before they were applied.
ConfigReaches ==
  \A n \in AppNames : \A p \in pod[n] :
    p.mounted = p.spec /\ built[n] = rest[n] /\ Template[Given(built[n])] = Template[p.spec]
      => Contents[p.spec] = Contents[Given(rest[n])]

Mounts(spec) == UNION {ToSet(p.nfs) : p \in spec.persistence}
Written(s) ==
  Mounts(s.defaults)
  \cup UNION {Mounts(entry.spec) \cup UNION {Mounts(o) : o \in entry.overrides} :
               entry \in ToSet(s.apps)}

\* The user gives the two instances of a split app one directory.
OneDirectory(s, app) ==
  \E nfs \in s.nfs, m \in ToSet(Mounted(app)) : nfs.dirs[m] = nfs.dirs[Media4k[m]]

\* A child of an instance that is the empty string has no name that Kubernetes accepts.
Distinct(one, two) ==
  Some("") \in {one.instance, two.instance} \/ Identity(one) # Identity(two)

DirectoriesApart(s, one, two) ==
  \A v \in Mounts(one) \ Written(s), w \in Mounts(two) \ Written(s) :
    v.path = w.path => v.dir # w.dir

\* Two children of one kind have different identities; and where a 4K instance and
\* another one mount the media server at one path, they mount different directories of
\* it, unless a user wrote the mount or gave both instances one directory.
PairApart ==
  \A s \in stack : plan = ChildrenOf[s][address] =>
    \A p, q \in DOMAIN plan :
      p # q /\ plan[p].spec.app = plan[q].spec.app =>
        /\ Distinct(plan[p].spec, plan[q].spec)
        /\ ~p[2] /\ q[2] /\ ~OneDirectory(s, plan[p].spec.app) =>
             DirectoriesApart(s, plan[p].spec, plan[q].spec)

\* Once the NFS server's pod stays where it is, the pods of the stack mount what their
\* specs say, from its address and no other unless a user wrote the mount.
ServerFollows ==
  \A s \in ValidStacks :
    \/ []<>(stack # Some(s) \/ ~Legible)
    \/ <>[](\A i \in DOMAIN ChildrenOf[s][address] :
              LET c == ChildrenOf[s][address][i]
              IN  c.spec \in Clean /\ ~Exempt(c.spec) =>
                    \E p \in pod[c.name] :
                      /\ Mounts(p.spec) = Mounts(c.spec)
                      /\ \A nfs \in s.nfs, a \in address : DeployInCluster(nfs) =>
                           {v.server : v \in Mounts(p.spec) \ Written(s)} \subseteq {a})
=============================================================================
