------------------------------ MODULE Admission ------------------------------
(***************************************************************************)
(* The rules of the validating webhook.  A rule is a predicate that holds  *)
(* of the specs it rejects.                                                *)
(*                                                                         *)
(* Of a string the rules only tell whether it is one of Unclean: empty, or *)
(* with a character that the rule does not allow.                          *)
(***************************************************************************)
EXTENDS Manifests

Unclean == {"", "not clean"}

ConfigMismatch(spec) == \E c \in spec.appConfig : c.kind # spec.app

OutOfRange(port) == port \notin 1 .. 65535

PortOutOfRange(spec) ==
  \/ \E ports \in spec.service : \E i \in DOMAIN ports :
       \/ OutOfRange(ports[i].port)
       \/ \E p \in ports[i].containerPort \cup ports[i].hostPort : OutOfRange(p)
  \/ \E c \in Config(spec, "Transmission") : \E peer \in c.peer : OutOfRange(peer.port)

\* A quantity that is empty or does not parse is 0 here and compared with nothing.
Below(limit, request) == limit # 0 /\ request # 0 /\ limit < request

LimitBelowRequest(spec) ==
  \E r \in spec.resources :
    \/ Below(r.limits.cpu, r.requests.cpu)
    \/ Below(r.limits.memory, r.requests.memory)

WrongHosts(spec) ==
  \E g \in spec.gateway :
    GatewayEnabled(g) /\ (RouteType(g, spec.app) = "Http" <=> g.hosts = <<>>)

PersistenceCollision(spec) == ~Buildable(spec)

UnknownRemoved(spec) ==
  \E p \in spec.persistence : ~(p.removed \subseteq Names(DefaultVolumes(spec.app)))

ManagedSettings ==
  {"rpc-authentication-required", "rpc-username", "rpc-password", "rpc-bind-address",
   "peer-port", "peer-port-random-on-start", "peer-port-random-low", "peer-port-random-high",
   "watch-dir", "watch-dir-enabled"}

ManagedSetting(spec) ==
  \E c \in Config(spec, "Transmission") : c.settings \cap ManagedSettings # {}

NothingRetained(spec) == \E b \in spec.backup : b.enabled /\ b.retention = 0

UncleanDefinition(spec) ==
  \E c \in Config(spec, "Prowlarr") : \E i \in DOMAIN c.definitions : c.definitions[i][1] \in Unclean

RestrictedShell(spec) ==
  \E c \in Config(spec, "SshBastion") : \E i \in DOMAIN c.users :
    c.users[i].mode = "RestrictedRsync" /\ c.users[i].shell # None

EmptyAdminSecret(spec) == "" \in spec.adminCredentials

\* The Secret the operator derives from the admin Secret must not be that Secret.
DerivedAdminSecret(spec) ==
  spec.app = "Transmission" /\ Child("rpc-password") \in spec.adminCredentials

\* Five fields, or more with seconds and a year; "?" is a field that does not parse.
WrongSchedule(spec) ==
  \E b \in spec.backup :
    b.schedule # <<>> /\ (Len(b.schedule) \notin 5 .. 7 \/ "?" \in ToSet(b.schedule))

SshSecurity(spec) ==
  Config(spec, "SshBastion") # None /\
  \E s \in spec.security :
    \/ /\ s.readOnly = Some(TRUE)
       /\ ~ \E p \in spec.persistence : "authorized-keys" \in Names(p.volumes)
    \/ s.nonRoot = Some(TRUE) /\ s.add \cap {"CHOWN", "chown"} = {}

UncleanSsh(spec) ==
  \E c \in Config(spec, "SshBastion") : \E i \in DOMAIN c.users :
    LET u == c.users[i]
    IN  \/ u.name \in Unclean
        \/ \E paths \in u.paths : paths \cap Unclean # {}
        \/ u.shell \cap Unclean # {}

\* A spec has at most one member of its kind in a namespace.
Identity(spec) == <<spec.app, OrElse(spec.instance, "")>>

\* On a create, against the apps that the list of the namespace returned: a list that
\* fails rejects.
Duplicate(spec, existing) ==
  existing = None \/ \E other \in Given(existing) : Identity(other) = Identity(spec)

\* Mutant: a stored spec that does not parse is taken for no stored spec at all.
IdentityChangedOpen(spec, old) ==
  \E known \in old : \E was \in known : was.app # spec.app \/ was.instance # spec.instance

\* On an update: old is the stored object if the request has one, and that is its spec,
\* or None when it does not parse.
IdentityChanged(spec, old) ==
  \E known \in old :
    known = None \/ \E was \in known : was.app # spec.app \/ was.instance # spec.instance

\* What is wrong with a spec by itself.
Rejected(spec) ==
  \/ ConfigMismatch(spec)
  \/ PortOutOfRange(spec)
  \/ LimitBelowRequest(spec)
  \/ WrongHosts(spec)
  \/ PersistenceCollision(spec)
  \/ UnknownRemoved(spec)
  \/ ManagedSetting(spec)
  \/ NothingRetained(spec)
  \/ UncleanDefinition(spec)
  \/ RestrictedShell(spec)
  \/ EmptyAdminSecret(spec)
  \/ DerivedAdminSecret(spec)
  \/ WrongSchedule(spec)
  \/ SshSecurity(spec)
  \/ UncleanSsh(spec)
=============================================================================
