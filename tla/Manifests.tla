------------------------------ MODULE Manifests ------------------------------
(***************************************************************************)
(* The objects the operator builds from a ServarrApp: what is in the pod,  *)
(* what the pod refers to, and the objects beside the Deployment.          *)
(*                                                                         *)
(* A name that starts with "@" is that of one of the app's own objects:    *)
(* @config is <app>-config, @ alone is the app's name.                     *)
(***************************************************************************)
EXTENDS AppSpec

Child(suffix) == "@" \o suffix

Optional(cond, s) == IF cond THEN s ELSE <<>>
MapSeq(s, Op(_)) == [i \in DOMAIN s |-> Op(s[i])]

UserUid(spec) == OrElse(spec.uid, TryForApp(spec.app).uid)
UserGid(spec) == OrElse(spec.gid, TryForApp(spec.app).gid)
Ports(spec) == OrElse(spec.service, TryForApp(spec.app).ports)
Profile(spec) == OrElse(spec.security, TryForApp(spec.app).security)

IsRsync(u) == u.mode \in {"RestrictedRsync", "Rsync"}
IsShell(u) == u.mode = "Shell"

(* ------------------------------ the pod ------------------------------- *)

Peers(configs) == UNION {c.peer : c \in configs}

PeerPorts(configs) ==
  FlattenSeq(SetToSeq(
    {<<Port("peer-tcp", peer.port), [Port("peer-udp", peer.port) EXCEPT !.protocol = "UDP"]>> :
       peer \in Peers(configs)}))

ContainerPorts(spec) ==
  LET configs == Config(spec, "Transmission")
      exposed == \E peer \in Peers(configs) : peer.hostPort
  IN  MapSeq(Ports(spec), LAMBDA p : [p EXCEPT !.containerPort = Some(OrElse(@, p.port))])
      \o MapSeq(PeerPorts(configs),
                LAMBDA p : [p EXCEPT !.containerPort = Some(p.port),
                                     !.hostPort = IF exposed THEN Some(p.port) ELSE None])

Mount(name, path) == [name |-> name, path |-> path]

SshHome(u) == Mount("ssh-home-" \o u.name, <<"home", u.name, ".ssh">>)
RsyncScript(u) == Mount("restricted-rsync",
                        <<"usr", "local", "bin", "restricted-rsync-" \o u.name>>)

UserMounts(u) == Optional(IsRsync(u), <<RsyncScript(u)>>) \o Optional(IsShell(u), <<SshHome(u)>>)

KeyMounts == <<Mount("authorized-keys-src", <<"etc", "authorized_keys.src">>),
               Mount("authorized-keys", <<"etc", "authorized_keys">>)>>

Admin == Mount("admin-credentials", <<"run", "secrets", "admin">>)

VolumeMounts(spec, p) ==
  MapSeq(p.volumes, LAMBDA v : Mount(v.name, v.path))
  \o MapSeq(p.nfs, LAMBDA m : Mount(NfsVolume(m.name), m.path))
  \o Optional(spec.app = "Transmission",
       <<Mount("watch", <<"watch">>)>>
       \o Optional(spec.adminCredentials # None,
            <<Admin, Mount("scripts", <<"custom-cont-init.d", "99-transmission-auth.sh">>)>>))
  \o Optional(\E c \in Config(spec, "Prowlarr") : c.definitions # <<>>,
       <<Mount("prowlarr-definitions", <<"config", "Definitions", "Custom">>)>>)
  \o FlattenSeq(SetToSeq(
       {Optional(HasKeys(c.users), KeyMounts) \o FlattenSeq(MapSeq(c.users, UserMounts)) :
          c \in Config(spec, "SshBastion")}))

\* A volume and the objects it needs.
Volume(name, kind, refs) == [name |-> name, refs |-> {[kind |-> kind, name |-> r] : r \in refs}]

UserHome(u) == Optional(IsShell(u), <<Volume(SshHome(u).name, "Claim", {Child(SshHome(u).name)})>>)

TransmissionVolumes(spec) ==
  <<Volume("scripts", "ConfigMap", {Child("")}), Volume("watch", "Empty", {})>>
  \o Optional(spec.adminCredentials # None,
       <<Volume("admin-credentials", "Secret", spec.adminCredentials \cup {Child("rpc-password")})>>)

SshVolumes(c) ==
  Optional(HasKeys(c.users),
    <<Volume("authorized-keys-src", "Secret", {Child("authorized-keys")}),
      Volume("authorized-keys", "Empty", {})>>)
  \o Optional(HasMode(c.users, {"RestrictedRsync", "Rsync"}),
       <<Volume("restricted-rsync", "ConfigMap", {Child("restricted-rsync")})>>)
  \o FlattenSeq(MapSeq(c.users, UserHome))

ScriptVolumes(spec) ==
  Optional(spec.app = "Bazarr",
    <<Volume("bazarr-init-scripts", "ConfigMap", {Child("init")}),
      Volume("bazarr-api-key", "Secret", {Child("api-key")})>>)
  \o Optional(spec.app = "Unpackerr",
       <<Volume("unpackerr-init-scripts", "ConfigMap", {Child("init")})>>)
  \o Optional(\E c \in Config(spec, "Sabnzbd") : c.tarUnpack,
       <<Volume("tar-unpack-scripts", "ConfigMap", {Child("tar-unpack")})>>)
  \o Optional(spec.app = "Sabnzbd" /\ \E c \in Config(spec, "Sabnzbd") : c.whitelist # <<>>,
       <<Volume("sabnzbd-scripts", "ConfigMap", {Child("sabnzbd-config")})>>)
  \o Optional(\E c \in Config(spec, "Prowlarr") : c.definitions # <<>>,
       <<Volume("prowlarr-definitions", "ConfigMap", {Child("prowlarr-definitions")})>>)

Volumes(spec, p) ==
  MapSeq(p.volumes, LAMBDA v : Volume(v.name, "Claim", {OrElse(v.claim, Child(v.name))}))
  \o MapSeq(p.nfs, LAMBDA m : Volume(NfsVolume(m.name), "Nfs", {ToString(<<m.server, m.dir>>)}))
  \o Optional(spec.app = "Transmission", TransmissionVolumes(spec))
  \o ScriptVolumes(spec)
  \o FlattenSeq(SetToSeq({SshVolumes(c) : c \in Config(spec, "SshBastion")}))

\* A later entry of a name replaces an earlier one.
Overridden(env, e) == Append(SelectSeq(env, LAMBDA x : x.name # e.name), e)

SshManaged == {"SSH_USERS", "SSH_ENABLE_PASSWORD_AUTH", "TCP_FORWARDING", "GATEWAY_PORTS",
               "SFTP_MODE", "SFTP_CHROOT"}

LoginShell(u) ==
  OrElse(u.shell, IF IsRsync(u) THEN "restricted-rsync-" \o u.name ELSE "/bin/sh")

SshEnv(c) ==
  <<Env("SSH_USERS", ToString(MapSeq(c.users, LAMBDA u : <<u.name, u.uid, u.gid, LoginShell(u)>>)))>>
  \o Optional(~c.passwords, <<Env("SSH_ENABLE_PASSWORD_AUTH", "false")>>)
  \o Optional(c.forwarding, <<Env("TCP_FORWARDING", "true")>>)
  \o Optional(c.gatewayPorts, <<Env("GATEWAY_PORTS", "true")>>)
  \o Optional(c.noSftp, <<Env("SFTP_MODE", "false")>>)
  \o Optional(c.chroot # "%h", <<Env("SFTP_CHROOT", c.chroot)>>)
  \o Optional(c.motd # "", <<Env("MOTD", c.motd)>>)

\* The value is read from a Secret when the container starts.
FromSecret(name, secret) == Env(name, "from " \o secret)

KeyVariable == [Sonarr |-> "SONARR__AUTH__APIKEY", Radarr |-> "RADARR__AUTH__APIKEY",
                Lidarr |-> "LIDARR__AUTH__APIKEY", Prowlarr |-> "PROWLARR__AUTH__APIKEY"]

Login(secret) == <<FromSecret("USER", secret), FromSecret("PASS", secret)>>

\* The legacy auth block stands back when there are admin credentials.
TransmissionLogin(spec) ==
  IF spec.adminCredentials # None
  THEN <<Env("FILE__USER", "username"), Env("FILE__PASS", "password")>>
       \o Login(Given(spec.adminCredentials))
  ELSE FlattenSeq(SetToSeq({Login(s) : s \in UNION {c.auth : c \in Config(spec, "Transmission")}}))

DataDir(p) ==
  LET config == {i \in DOMAIN p.volumes : p.volumes[i].name = "config"}
  IN  IF config = {} THEN <<"opt", "data">> ELSE p.volumes[Given(config)].path

EnvVars(spec, p) ==
  LET defaults ==
        Optional(Profile(spec).type = "LinuxServer",
          <<Env("PUID", ToString(UserUid(spec))), Env("PGID", ToString(UserGid(spec)))>>)
        \o DefaultEnv(spec.app)
        \o Optional(spec.app = "Maintainerr", <<Env("DATA_DIR", ToString(DataDir(p)))>>)
      users == SelectSeq(spec.env,
                 LAMBDA e : ~(spec.app = "SshBastion" /\ e.name \in SshManaged))
  IN  FoldLeft(Overridden, defaults, users)
      \o FlattenSeq(SetToSeq({SshEnv(c) : c \in Config(spec, "SshBastion")}))
      \o Optional(spec.app \in DOMAIN KeyVariable /\ spec.apiKeySecret # None,
           <<FromSecret(KeyVariable[spec.app], Given(spec.apiKeySecret))>>)
      \o Optional(spec.app = "Transmission", TransmissionLogin(spec))

\* Who a container runs as: an unset user is the image's own, root as a rule.
SecurityContextOf(s) ==
  CASE s.type = "LinuxServer" ->
         [user |-> None, group |-> None, nonRoot |-> FALSE, readOnly |-> FALSE,
          escalate |-> FALSE, drop |-> {"ALL"},
          add |-> {"CHOWN", "FOWNER", "SETGID", "SETUID"}]
    [] s.type = "NonRoot" ->
         [user |-> Some(s.user), group |-> Some(s.group), nonRoot |-> TRUE,
          readOnly |-> FALSE, escalate |-> FALSE, drop |-> {"ALL"}, add |-> {}]
    [] OTHER ->
         [user |-> Some(s.user), group |-> Some(s.group),
          nonRoot |-> OrElse(s.nonRoot, TRUE), readOnly |-> OrElse(s.readOnly, FALSE),
          escalate |-> OrElse(s.escalate, FALSE),
          drop |-> IF s.drop = {} THEN {"ALL"} ELSE s.drop, add |-> s.add]

SecurityContext(spec) == SecurityContextOf(Profile(spec))

FsGroup(spec) == IF Profile(spec).type = "LinuxServer" THEN UserGid(spec) ELSE Profile(spec).group

AsApp(spec) ==
  [SecurityContext(spec) EXCEPT !.user = Some(UserUid(spec)), !.group = Some(UserGid(spec))]

AsRoot(spec) ==
  [SecurityContext(spec) EXCEPT
     !.user = Some(0), !.group = Some(0), !.nonRoot = FALSE, !.escalate = FALSE,
     !.drop = {"ALL"}, !.add = {"CHOWN", "FOWNER", "SETGID", "SETUID"}]

Container(name, security, mounts, env) ==
  [name |-> name, security |-> security, mounts |-> mounts, env |-> env]

ConfigMount == Mount("config", <<"config">>)
Scripts(volume) == Mount(volume, <<"scripts">>)

Instances(spec) == OrElse(Config(spec, "Unpackerr"), UnpackerrConfig).instances

InstanceEnv(instance, key, url) ==
  Optional(instance # None,
    <<FromSecret(key, Given(instance).secret), Env(url, Given(instance).url)>>)

UnpackerrEnv(spec) ==
  LET of == Instances(spec)
  IN  InstanceEnv(of["sonarr"], "UNPACKERR_SONARR_0_APIKEY", "UNPACKERR_SONARR_0_URL")
      \o InstanceEnv(of["radarr"], "UNPACKERR_RADARR_0_APIKEY", "UNPACKERR_RADARR_0_URL")
      \o InstanceEnv(of["lidarr"], "UNPACKERR_LIDARR_0_APIKEY", "UNPACKERR_LIDARR_0_URL")
      \o InstanceEnv(of["readarr"], "UNPACKERR_READARR_0_APIKEY", "UNPACKERR_READARR_0_URL")

\* Only a config volume of the operator's own may be chowned as root.
UsesExistingClaim(spec) ==
  \E p \in spec.persistence : \E i \in DOMAIN p.volumes :
    p.volumes[i].name = "config" /\ p.volumes[i].claim # None

ApplySettings(spec) ==
  Optional(spec.app = "Transmission",
    <<Container("apply-settings", AsApp(spec),
        <<ConfigMount, Scripts("scripts")>>
        \o Optional(spec.adminCredentials # None, <<Admin>>), <<>>)>>)

BazarrInit(spec) ==
  Optional(spec.app = "Bazarr",
    <<Container("bazarr-init", AsApp(spec),
        <<ConfigMount, Scripts("bazarr-init-scripts"),
          Mount("bazarr-api-key", <<"run", "secrets", "api-key">>)>>,
        <<FromSecret("BAZARR_API_KEY", Child("api-key"))>>)>>)

UnpackerrInit(spec) ==
  Optional(spec.app = "Unpackerr",
    <<Container("unpackerr-init", AsApp(spec),
        <<ConfigMount, Scripts("unpackerr-init-scripts")>>, UnpackerrEnv(spec))>>)

SabnzbdInit(spec) ==
  LET plain == SecurityContext(spec)
      sab == Config(spec, "Sabnzbd")
  IN  Optional(\E c \in sab : c.tarUnpack,
        <<Container("install-tar-tools", plain,
            <<Mount("tar-unpack-scripts", <<"tar-scripts">>)>>, <<>>)>>)
      \o Optional(\E c \in sab : c.whitelist # <<>>,
        <<Container("apply-whitelist", plain,
            <<ConfigMount, Mount("sabnzbd-scripts", <<"sabnzbd-scripts">>)>>,
            \* the list is an argument of the command
            <<Env("arg", ToString({c.whitelist : c \in sab}))>>)>>)

\* An image that changed its user takes over the files of the old one, as root, unless
\* the user says who owns them or brings the volume.
MigrateOwnership(spec) ==
  Optional(/\ spec.app = "Seerr"
           /\ spec.uid = None /\ spec.gid = None /\ spec.security = None
           /\ ~UsesExistingClaim(spec),
    <<Container("migrate-config-ownership", AsRoot(spec),
        <<Mount("config", <<"app", "config">>)>>, <<>>)>>)

InitContainers(spec) ==
  ApplySettings(spec) \o BazarrInit(spec) \o UnpackerrInit(spec) \o SabnzbdInit(spec)
  \o MigrateOwnership(spec)

\* The packages of the shells that users ask for.
ShellPackage ==
  [s \in {"/bin/bash", "/usr/bin/bash"} |-> "bash"]
  @@ [s \in {"/bin/zsh", "/usr/bin/zsh"} |-> "zsh"]
  @@ [s \in {"/bin/fish", "/usr/bin/fish", "/usr/local/bin/fish"} |-> "fish"]

Packages(users) ==
  {"rsync" : i \in {i \in DOMAIN users : IsRsync(users[i])}}
  \cup {ShellPackage[s] : s \in (UNION {users[i].shell : i \in DOMAIN users}) \cap DOMAIN ShellPackage}

SshInitContainers(spec) ==
  LET plain == SecurityContext(spec)
      bastion(c) ==
        <<Container("generate-host-keys", plain,
            <<Mount("host-keys", <<"etc", "ssh", "keys">>)>>, <<>>)>>
        \o Optional(HasKeys(c.users), <<Container("copy-authorized-keys", plain, KeyMounts, <<>>)>>)
        \o <<Container("patch-entry", plain, <<>>, <<Env("packages", ToString(Packages(c.users)))>>)>>
        \o Optional(HasMode(c.users, {"Shell"}),
             <<Container("setup-ssh-home", plain, MapSeq(SelectSeq(c.users, IsShell), SshHome),
                <<Env("owners", ToString(MapSeq(SelectSeq(c.users, IsShell),
                                                LAMBDA u : <<u.name, u.uid, u.gid>>)))>>)>>)
  IN  Optional(spec.app = "SshBastion",
        FlattenSeq(SetToSeq({bastion(c) : c \in Config(spec, "SshBastion")})))

\* With a login to present, Transmission is probed by a command that presents it.
ProbesForAuth(spec, probes) ==
  LET login == spec.adminCredentials # None
               \/ \E c \in Config(spec, "Transmission") : c.auth # None
      curl(p) == [p EXCEPT !.type = "Exec", !.path = "/", !.command = <<"curl">>]
  IN  IF spec.app = "Transmission" /\ login /\ probes.liveness.type # "Exec"
      THEN [f \in DOMAIN probes |-> curl(probes[f])]
      ELSE probes

\* A probe asks the first port by its name.
BuiltProbe(probe, ports) ==
  [probe |-> probe, port |-> IF ports = <<>> THEN "http" ELSE ports[1].name]

StartupProbe(liveness, ports) ==
  BuiltProbe([liveness EXCEPT !.delay = 0, !.period = 10, !.timeout = 5, !.failures = 60], ports)

\* Device plugins: limits and requests alike, and a node that has the device.
Devices(spec) ==
  UNION {{<<d, Given(g[d])>> : d \in {d \in DOMAIN g : \E n \in g[d] : n > 0}} : g \in spec.gpu}

ImageRef(image) == <<image.repository, IF image.digest # "" THEN image.digest ELSE image.tag>>

(* ----------------- what is copied at the start of a pod --------------- *)

AuthorizedKeys(spec) ==
  IF spec.app # "SshBastion" THEN {}
  ELSE UNION {{<<c.users[i].name, c.users[i].keys>> :
                 i \in {i \in DOMAIN c.users : c.users[i].keys # ""}} : c \in Config(spec, "SshBastion")}

RsyncScripts(spec) ==
  UNION {{<<c.users[i].name, ToString(c.users[i].paths)>> :
            i \in {i \in DOMAIN c.users : IsRsync(c.users[i])}} : c \in Config(spec, "SshBastion")}

Definitions(spec) == UNION {ToSet(c.definitions) : c \in Config(spec, "Prowlarr")}

\* The app's own ConfigMap: Transmission's settings or SABnzbd's list of hosts.
AppConfigMap(spec) ==
  CASE spec.app = "Transmission" ->
         {<<"settings", ToString({c.settings : c \in Config(spec, "Transmission")})>>,
          <<"owner", ToString(<<OrElse(spec.uid, Nobody), OrElse(spec.gid, Nobody)>>)>>}
    [] spec.app = "Sabnzbd" ->
         {<<"whitelist", ToString(c.whitelist)>> : c \in {c \in Config(spec, "Sabnzbd") : c.whitelist # <<>>}}
    [] OTHER -> {}

TarUnpack(spec) == {<<"tar-unpack", "scripts">> : c \in {c \in Config(spec, "Sabnzbd") : c.tarUnpack}}

\* Unpackerr's script has a block for each instance, which names the variables that the
\* key and the address are in; Bazarr's is the same for every spec.
InitScript(spec) ==
  IF spec.app # "Unpackerr" THEN {} ELSE {a \in Unpacked : Instances(spec)[a] # None}

\* Mutant: the scripts of restricted users are left out of the checksum.
ConfigChecksumNoRsync(spec) ==
  <<AppConfigMap(spec), Definitions(spec), {}, TarUnpack(spec), AuthorizedKeys(spec)>>

\* A hash without collisions is what it hashes.
ConfigChecksum(spec) ==
  <<AppConfigMap(spec), Definitions(spec), RsyncScripts(spec), TarUnpack(spec),
    AuthorizedKeys(spec)>>

\* Without data there is no checksum.
NoData == <<{}, {}, {}, {}, {}>>

(* ----------------------------- Deployment ----------------------------- *)

NodeSelector(spec) == spec.selector \cup {d[1] : d \in Devices(spec)}

\* Two pods cannot hold one port of the host.
Strategy(spec) ==
  IF \E p \in ToSet(ContainerPorts(spec)) : p.hostPort # None THEN "Recreate" ELSE "RollingUpdate"

\* The operator's own keys win over the user's.  Own values are kept apart from theirs,
\* as no user writes the hash.
PodAnnotations(spec, p) ==
  LET checksum == {ConfigChecksum(spec)} \ {NoData}
      excludes == {Names(p.nfs)} \ {{}}
      own == {"config-checksum" : c \in checksum} \cup {"backup-volumes-excludes" : e \in excludes}
  IN  [checksum |-> checksum, excludes |-> excludes,
       others |-> {a \in spec.annotations : a.key \notin own}]

\* override: the image an operator setting gives this kind of app, if any.
Deployment(spec, override) ==
  LET d == TryForApp(spec.app)
      default == IF override = None THEN d.image ELSE MergeImage(Given(override), d.image)
      image == IF spec.image = None THEN default ELSE MergeImage(Given(spec.image), default)
      p == Given(ResolvePersistence(spec))
      probes == ProbesForAuth(spec, IF spec.probes = None THEN d.probes
                                    ELSE MergeProbes(Given(spec.probes), d.probes))
      ports == Ports(spec)
  IN  [image |-> ImageRef(image), pull |-> image.pull,
       args |-> IF spec.app # "SshBastion" THEN <<>>
                ELSE <<"-p", IF ports = <<>> THEN 22 ELSE ports[1].port>>,
       main |-> Container(spec.app, SecurityContext(spec), VolumeMounts(spec, p), EnvVars(spec, p)),
       init |-> InitContainers(spec) \o SshInitContainers(spec),
       ports |-> ContainerPorts(spec), volumes |-> Volumes(spec, p), fsGroup |-> FsGroup(spec),
       probes |-> [liveness |-> BuiltProbe(probes.liveness, ports),
                   readiness |-> BuiltProbe(probes.readiness, ports),
                   startup |-> StartupProbe(probes.liveness, ports)],
       resources |-> OrElse(spec.resources, d.resources), devices |-> Devices(spec),
       selector |-> NodeSelector(spec), strategy |-> Strategy(spec),
       annotations |-> PodAnnotations(spec, p)]

\* A user whose persistence does not resolve gets no Deployment and no claim.
Buildable(spec) == ResolvePersistence(spec) # None

(* -------------------------- the other objects ------------------------- *)

ConfigMaps(spec) ==
  {Child("") : x \in {x \in {spec} : spec.app = "Transmission"}}
  \cup {Child("sabnzbd-config") :
          c \in {c \in Config(spec, "Sabnzbd") : spec.app = "Sabnzbd" /\ c.whitelist # <<>>}}
  \cup {Child("restricted-rsync") : x \in RsyncScripts(spec)}
  \cup {Child("prowlarr-definitions") : x \in Definitions(spec)}
  \cup {Child("tar-unpack") : x \in TarUnpack(spec)}
  \cup {Child("init") : x \in {x \in {spec} : spec.app \in {"Bazarr", "Unpackerr"}}}

Claims(spec) ==
  LET p == Given(ResolvePersistence(spec))
  IN  {Child(v.name) : v \in {v \in ToSet(p.volumes) : v.claim = None}}
      \cup UNION {{Child(SshHome(u).name) : u \in {u \in ToSet(c.users) : IsShell(u)}} :
                    c \in Config(spec, "SshBastion")}

ServicePorts(spec) ==
  LET configs == IF spec.appConfig = None THEN TryForApp(spec.app).appConfig ELSE spec.appConfig
  IN  MapSeq(Ports(spec), LAMBDA p : [p EXCEPT !.containerPort = None, !.hostPort = None])
      \o Optional(spec.app = "Transmission",
           PeerPorts({c \in configs : c.kind = "Transmission"}))

AuthorizedKeysSecret(spec) == {Child("authorized-keys") : x \in AuthorizedKeys(spec)}

PolicyPorts(ports) == {<<ports[i].port, ports[i].protocol>> : i \in DOMAIN ports}

\* Who may reach which ports of the pod.
Ingress(spec) ==
  LET policy == OrElse(spec.policyConfig, Policy)
      rule(from) == [from |-> from, ports |-> PolicyPorts(Ports(spec))]
  IN  {rule("same namespace") : x \in {x \in {policy} : x.sameNamespace}}
      \cup UNION {{rule(n) : n \in g.refs \ {""}} : g \in {g \in spec.gateway : GatewayEnabled(g)}}
      \cup {rule("anywhere") : x \in {x \in {spec} : spec.app = "SshBastion"}}
      \cup UNION {{[from |-> "anywhere", ports |-> {<<peer.port, "TCP">>, <<peer.port, "UDP">>}] :
                     peer \in c.peer} : c \in Config(spec, "Transmission")}
=============================================================================
