------------------------------- MODULE AppSpec -------------------------------
(***************************************************************************)
(* What a user writes in a ServarrApp, the defaults compiled into the      *)
(* operator, and how the two are merged.                                   *)
(*                                                                         *)
(* An optional field is a set with at most one member, and so is the       *)
(* result of a function that may fail.  A mount path is the sequence of    *)
(* its segments: /run//watch is <<"run", "", "watch">>.  Quantities,       *)
(* images and scripts are reduced to what the checks look at.              *)
(***************************************************************************)
EXTENDS Integers, Sequences, FiniteSets, SequencesExt, FiniteSetsExt, Functions

None == {}
Some(x) == {x}
Given(o) == CHOOSE x \in o : TRUE
OrElse(o, default) == IF o = None THEN default ELSE Given(o)

Kinds == {"Sonarr", "Radarr", "Lidarr", "Prowlarr", "Sabnzbd", "Transmission",
          "Tautulli", "Seerr", "Maintainerr", "Jackett", "Bazarr", "Subgen",
          "Unpackerr", "Cleanuparr", "Houndarr", "Jellyfin", "Plex", "SshBastion"}

(* ------------------------------ the spec ------------------------------ *)

Image(repository, tag) ==
  [repository |-> repository, tag |-> tag, digest |-> "", pull |-> "IfNotPresent"]

Pvc(name, path) == [name |-> name, path |-> path, claim |-> None]

Nfs(name, server, dir, path) ==
  [name |-> name, server |-> server, dir |-> dir, path |-> path, readOnly |-> FALSE]

Persistence(volumes, nfs) == [volumes |-> volumes, nfs |-> nfs, removed |-> {}]

Port(name, number) ==
  [name |-> name, port |-> number, protocol |-> "TCP",
   containerPort |-> None, hostPort |-> None]

Probe(type, path, delay, period) ==
  [type |-> type, path |-> path, command |-> <<>>, delay |-> delay, period |-> period,
   timeout |-> 5, failures |-> 5]

Security(type, user, group) ==
  [type |-> type, user |-> user, group |-> group, nonRoot |-> None,
   readOnly |-> None, escalate |-> None, add |-> {}, drop |-> {}]

Gateway == [enabled |-> None, route |-> None, refs |-> {}, hosts |-> <<>>, tls |-> None]

Tls(enabled, issuer) == [enabled |-> enabled, issuer |-> issuer, secret |-> None]

\* The policy with every field as serde fills it in.
Policy == [sameNamespace |-> TRUE, dns |-> TRUE, internet |-> FALSE,
           denied |-> {}, custom |-> <<>>]

Backup == [enabled |-> FALSE, schedule |-> <<>>, retention |-> 5]

Gpu(nvidia, intel, amd) == [nvidia |-> nvidia, intel |-> intel, amd |-> amd]

\* The part of a spec that belongs to one kind of app.
TransmissionConfig ==
  [kind |-> "Transmission", settings |-> {}, peer |-> None, auth |-> None]
PeerPort(number) ==
  [port |-> number, hostPort |-> FALSE, random |-> FALSE, low |-> 49152, high |-> 65535]
SabnzbdConfig == [kind |-> "Sabnzbd", whitelist |-> <<>>, tarUnpack |-> FALSE]
ProwlarrConfig == [kind |-> "Prowlarr", definitions |-> <<>>]
Unpacked == {"sonarr", "radarr", "lidarr", "readarr"}
UnpackerrConfig == [kind |-> "Unpackerr", instances |-> [a \in Unpacked |-> None]]
SshBastionConfig ==
  [kind |-> "SshBastion", users |-> <<>>, passwords |-> FALSE, forwarding |-> FALSE,
   gatewayPorts |-> FALSE, motd |-> "", noSftp |-> FALSE, chroot |-> "%h"]
\* keys: the public keys, "" for none.
SshUser(name, mode, keys) ==
  [name |-> name, uid |-> 1001, gid |-> 1001, mode |-> mode, paths |-> None,
   shell |-> None, keys |-> keys]

\* A spec that names the app and leaves everything else to the defaults.
BlankSpec(app) ==
  [app |-> app, instance |-> None, image |-> None, uid |-> None, gid |-> None,
   security |-> None, service |-> None, serviceName |-> None, gateway |-> None,
   resources |-> None, persistence |-> None, env |-> <<>>, probes |-> None, selector |-> {},
   policy |-> None, policyConfig |-> None, appConfig |-> None, apiKeySecret |-> None,
   backup |-> None, annotations |-> {}, gpu |-> None, adminCredentials |-> None]

Config(spec, kind) == {c \in spec.appConfig : c.kind = kind}

(* ------------------------------ defaults ------------------------------ *)

\* image-defaults.toml
Family(app) ==
  CASE app = "SshBastion" -> "sshd"
    [] app \in {"Seerr", "Maintainerr", "Subgen", "Unpackerr", "Cleanuparr", "Houndarr"}
         -> "nonroot"
    [] OTHER -> "linuxserver"

Downloading == {"Sonarr", "Radarr", "Lidarr", "Sabnzbd", "Transmission", "Unpackerr",
                "Cleanuparr"}

DefaultPort ==
  [Sonarr |-> 8989, Radarr |-> 7878, Lidarr |-> 8686, Prowlarr |-> 9696, Sabnzbd |-> 8080,
   Transmission |-> 9091, Tautulli |-> 8181, Seerr |-> 5055, Maintainerr |-> 6246,
   Jackett |-> 9117, Bazarr |-> 6767, Subgen |-> 9000, Unpackerr |-> 5656,
   Cleanuparr |-> 11011, Houndarr |-> 8877, Jellyfin |-> 8096, Plex |-> 32400,
   SshBastion |-> 2222]

ProbePath(app) ==
  CASE app \in {"Tautulli", "Subgen"} -> "/status"
    [] app = "Seerr" -> "/api/v1/settings/public"
    [] app = "Jackett" -> "/health"
    [] app = "Bazarr" -> "/api/system/ping"
    [] app = "Plex" -> "/identity"
    [] OTHER -> "/"

ConfigPath(app) ==
  CASE app = "Maintainerr" -> <<"opt", "data">>
    [] app = "Seerr" -> <<"app", "config">>
    [] app = "Houndarr" -> <<"data">>
    [] OTHER -> <<"config">>

DefaultVolumes(app) ==
  IF app = "SshBastion" THEN <<Pvc("host-keys", <<"etc", "ssh", "keys">>)>>
  ELSE <<Pvc("config", ConfigPath(app))>>
       \o (IF app \in Downloading THEN <<Pvc("downloads", <<"downloads">>)>> ELSE <<>>)
       \o (IF app = "Subgen" THEN <<Pvc("models", <<"subgen", "models">>)>> ELSE <<>>)

HttpProbes(path) == [liveness |-> Probe("Http", path, 30, 10),
                     readiness |-> Probe("Http", path, 10, 5)]
TcpProbes == [liveness |-> Probe("Tcp", "/", 30, 10), readiness |-> Probe("Tcp", "/", 10, 5)]

Nobody == 65534

DefaultUser(app) ==
  CASE app = "SshBastion" -> 0 [] app = "Seerr" -> 1000 [] OTHER -> Nobody

DefaultSecurity(app) ==
  CASE Family(app) = "sshd" ->
         [Security("Custom", 0, 0) EXCEPT
            !.nonRoot = Some(FALSE), !.readOnly = Some(FALSE), !.escalate = Some(FALSE),
            !.add = {"CHOWN", "SETGID", "SETUID", "NET_BIND_SERVICE", "SYS_CHROOT"},
            !.drop = {"ALL"}]
    [] Family(app) = "nonroot" -> Security("NonRoot", DefaultUser(app), DefaultUser(app))
    [] OTHER -> Security("LinuxServer", Nobody, Nobody)

\* Millicores and mebibytes.
Resources(cpuLimit, memLimit, cpu, mem) ==
  [limits |-> [cpu |-> cpuLimit, memory |-> memLimit],
   requests |-> [cpu |-> cpu, memory |-> mem]]

DefaultResources(app) ==
  CASE app = "SshBastion" -> Resources(500, 256, 100, 128)
    [] app \in {"Subgen", "Maintainerr"} -> Resources(1000, 2048, 100, 512)
    [] app \in Downloading -> Resources(1000, 1024, 100, 256)
    [] OTHER -> Resources(1000, 512, 100, 128)

Env(name, value) == [name |-> name, value |-> value]

DefaultEnv(app) ==
  <<Env("TZ", "UTC")>>
  \o (IF app = "Subgen" THEN <<Env("TRANSCRIBE_DEVICE", "cpu"), Env("WHISPER_MODEL", "medium")>>
      ELSE <<>>)

TryForApp(app) ==
  [image |-> Image(app, "pinned"),
   ports |-> <<Port(IF app = "SshBastion" THEN "ssh" ELSE "http", DefaultPort[app])>>,
   security |-> DefaultSecurity(app),
   persistence |-> Persistence(DefaultVolumes(app), <<>>),
   probes |-> IF app = "SshBastion" THEN TcpProbes ELSE HttpProbes(ProbePath(app)),
   resources |-> DefaultResources(app),
   uid |-> DefaultUser(app), gid |-> DefaultUser(app),
   env |-> DefaultEnv(app),
   appConfig |-> IF app = "Transmission" THEN Some(TransmissionConfig) ELSE None]

\* An app without an entry in the table stops the operator before its first reconcile.
ValidateAll == \A app \in Kinds : app \in DOMAIN DefaultPort

(* ------------------------------ merging ------------------------------- *)

MergeImage(user, default) ==
  [user EXCEPT !.repository = IF @ = "" THEN default.repository ELSE @,
               !.tag = IF @ = "" THEN default.tag ELSE @]

\* A field a user's probe leaves empty or zero comes from the default; its type never does.
MergeProbe(user, default) ==
  LET unset == [path |-> "", command |-> <<>>, delay |-> 0, period |-> 0, timeout |-> 0,
                failures |-> 0]
  IN  [f \in DOMAIN user |->
         IF f \in DOMAIN unset /\ user[f] = unset[f] THEN default[f] ELSE user[f]]

MergeProbes(user, default) ==
  [f \in DOMAIN user |-> MergeProbe(user[f], default[f])]

GatewayEnabled(g) == OrElse(g.enabled, FALSE)

RouteType(g, app) == IF app = "SshBastion" THEN "Tcp" ELSE OrElse(g.route, "Http")

MergeTls(user, default) ==
  [user EXCEPT !.issuer = IF @ = "" THEN default.issuer ELSE @,
               !.secret = IF @ = None THEN default.secret ELSE @]

MergeGateway(user, default) ==
  [user EXCEPT
     !.enabled = IF @ = None THEN Some(GatewayEnabled(default)) ELSE @,
     !.route = IF @ = None THEN default.route ELSE @,
     !.refs = IF @ = {} THEN default.refs ELSE @,
     !.tls = IF @ = None THEN default.tls
             ELSE IF default.tls = None THEN @
             ELSE Some(MergeTls(Given(@), Given(default.tls)))]

\* A map that keeps the order of insertion: the last entry of a name, at the place of
\* its first.
ByName(entries) ==
  LET firsts == {i \in DOMAIN entries :
                   \A j \in 1 .. i - 1 : entries[j].name # entries[i].name}
      inOrder == CHOOSE f \in [1 .. Cardinality(firsts) -> firsts] :
                   \A a, b \in DOMAIN f : a < b => f[a] < f[b]
      last(n) == CHOOSE i \in DOMAIN entries :
                   /\ entries[i].name = n
                   /\ \A j \in i + 1 .. Len(entries) : entries[j].name # n
  IN  [k \in DOMAIN inOrder |-> entries[last(entries[inOrder[k]].name)]]

MergePersistence(user, base) ==
  [volumes |-> IF user.volumes = <<>> THEN base.volumes ELSE user.volumes,
   nfs |-> ByName(base.nfs \o user.nfs),
   removed |-> base.removed \cup user.removed]

(* --------------------- paths and names of volumes --------------------- *)

Names(entries) == {entries[i].name : i \in DOMAIN entries}

Segment(path, s) ==
  IF s \in {"", "."} THEN path
  ELSE IF s # ".." THEN Append(path, s)
  ELSE IF path = <<>> THEN path
  ELSE Front(path)

\* The images link /var/run to /run and /var/lock to /run/lock.
ResolveAlias(path) ==
  CASE IsPrefix(<<"var", "run">>, path) -> <<"run">> \o SubSeq(path, 3, Len(path))
    [] IsPrefix(<<"var", "lock">>, path) -> <<"run", "lock">> \o SubSeq(path, 3, Len(path))
    [] OTHER -> path

Normalize(path) == ResolveAlias(FoldLeft(Segment, <<>>, path))

Reserved(path, name) == [path |-> path, name |-> name]

HasKeys(users) == \E i \in DOMAIN users : users[i].keys # ""
HasMode(users, modes) == \E i \in DOMAIN users : users[i].mode \in modes

\* What the operator mounts in the app's container besides the persistence.
ReservedMounts(spec) ==
  (IF spec.app = "Transmission"
   THEN {Reserved(<<"watch">>, "watch")}
        \cup (IF spec.adminCredentials = None THEN {}
              ELSE {Reserved(<<"run", "secrets", "admin">>, "admin-credentials"),
                    Reserved(<<"custom-cont-init.d", "99-transmission-auth.sh">>, "scripts")})
   ELSE {})
  \cup {Reserved(<<"config", "Definitions", "Custom">>, "prowlarr-definitions") :
          c \in {c \in Config(spec, "Prowlarr") : c.definitions # <<>>}}
  \cup UNION {{Reserved(<<"etc", "authorized_keys.src">>, "authorized-keys-src"),
               Reserved(<<"etc", "authorized_keys">>, "authorized-keys")} :
          c \in {c \in Config(spec, "SshBastion") : HasKeys(c.users)}}

\* Mutant: only the volumes that are mounted in the app's container are reserved.
ReservedNamesMounted(spec) == {}

\* The volumes whose mount is somewhere else, or only there in some specs.
ReservedNames(spec) ==
  (CASE spec.app = "Transmission" -> {"scripts"}
     [] spec.app = "Bazarr" -> {"bazarr-init-scripts", "bazarr-api-key"}
     [] spec.app = "Unpackerr" -> {"unpackerr-init-scripts"}
     [] OTHER -> {})
  \cup {"tar-unpack-scripts" : c \in {c \in Config(spec, "Sabnzbd") : c.tarUnpack}}
  \cup {"sabnzbd-scripts" : c \in {c \in Config(spec, "Sabnzbd") : c.whitelist # <<>>}}
  \cup {"restricted-rsync" : c \in {c \in Config(spec, "SshBastion") :
                                      HasMode(c.users, {"RestrictedRsync", "Rsync"})}}

MountPathCollision(p, reserved) ==
  LET paths == [i \in DOMAIN p.volumes |-> Normalize(p.volumes[i].path)]
               \o [i \in DOMAIN p.nfs |-> Normalize(p.nfs[i].path)]
  IN  \/ ~IsInjective(paths)
      \/ \E e \in reserved : Normalize(e.path) \in ToSet(paths)

NfsVolume(name) == "nfs-" \o name

VolumeNameCollision(p, reserved) ==
  LET names == [i \in DOMAIN p.volumes |-> p.volumes[i].name]
               \o [i \in DOMAIN p.nfs |-> NfsVolume(p.nfs[i].name)]
  IN  ~IsInjective(names) \/ ToSet(names) \cap reserved # {}

HasParentSegment(path) == ".." \in ToSet(path)

DuplicateNames(p) ==
  \/ ~IsInjective([i \in DOMAIN p.volumes |-> p.volumes[i].name])
  \/ ~IsInjective([i \in DOMAIN p.nfs |-> p.nfs[i].name])

\* The volumes an app runs with: a default volume a user's list leaves out is put back
\* unless the user removed it and did not list it again.
Resolved(spec) ==
  LET default == Persistence(DefaultVolumes(spec.app), <<>>)
      user == OrElse(spec.persistence, Persistence(<<>>, <<>>))
      merged == IF spec.persistence = None THEN default ELSE MergePersistence(user, default)
      restored == merged.volumes
                  \o SelectSeq(default.volumes, LAMBDA v : v.name \notin Names(merged.volumes))
      isRemoved(name) == name \in user.removed /\ name \notin Names(user.volumes)
  IN  [merged EXCEPT !.volumes = SelectSeq(restored, LAMBDA v : ~isRemoved(v.name))]

Collides(p, mounts, names) ==
  \/ MountPathCollision(p, mounts)
  \/ VolumeNameCollision(p, names \cup {e.name : e \in mounts})
  \/ \E i \in DOMAIN p.volumes : HasParentSegment(p.volumes[i].path)
  \/ \E i \in DOMAIN p.nfs : HasParentSegment(p.nfs[i].path)

ResolvePersistence(spec) ==
  IF \/ \E user \in spec.persistence : DuplicateNames(user)
     \/ Collides(Resolved(spec), ReservedMounts(spec), ReservedNames(spec))
  THEN None ELSE Some(Resolved(spec))
=============================================================================
