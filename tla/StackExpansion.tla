---------------------------- MODULE StackExpansion ----------------------------
(***************************************************************************)
(* What a MediaStack makes of its apps: each entry, with the defaults of   *)
(* the stack merged in and the media directories of its NFS server         *)
(* mounted, is one ServarrApp, and two when the entry is split into a      *)
(* standard and a 4K instance.                                             *)
(***************************************************************************)
EXTENDS AppSpec

\* An entry: the spec it writes down, and what it adds to that.
StackApp(spec) ==
  [spec |-> spec, enabled |-> TRUE, split |-> FALSE, overrides |-> None]

\* What a split entry may give its 4K instance: a spec of which these fields count.
Overridable == {"image", "resources", "persistence", "service", "serviceName", "gateway",
                "adminCredentials"}

Media == {"movies", "tv", "music", "movies-4k", "tv-4k"}
Media4k == [movies |-> "movies-4k", tv |-> "tv-4k"]

NfsServer ==
  [enabled |-> TRUE, external |-> None, root |-> <<>>, dirs |-> [m \in Media |-> <<m>>]]

DeployInCluster(nfs) == nfs.external = None /\ nfs.enabled

ServerAddress(nfs) ==
  IF nfs.external # None THEN nfs.external
  ELSE IF nfs.enabled THEN Some("nfs-server.svc") ELSE None

NfsPath(nfs, dir) == IF nfs.external # None THEN nfs.root \o dir ELSE dir

\* Mutant: an in-cluster server is mounted by the name of its Service.
EffectiveNamed(nfs, podIp) == nfs

\* An in-cluster server is mounted by the address of its pod once that is known: the
\* kubelet may not resolve the Service.
Effective(nfs, podIp) ==
  IF nfs.external = None /\ podIp # None
  THEN [nfs EXCEPT !.external = podIp, !.root = <<>>] ELSE nfs

ChildName(app, instance) == IF instance = None THEN app ELSE app \o "-" \o Given(instance)

Split4kValid(app) == app \in {"Sonarr", "Radarr"}

MergeAnnotations(defaults, own) ==
  {a \in defaults : \A b \in own : b.key # a.key} \cup own

ToServarrSpec(a, d) ==
  [a EXCEPT
     !.uid = IF @ = None THEN d.uid ELSE @,
     !.gid = IF @ = None THEN d.gid ELSE @,
     !.security = IF @ = None THEN d.security ELSE @,
     !.gateway = IF @ = None THEN d.gateway
                 ELSE IF d.gateway = None THEN @
                 ELSE Some(MergeGateway(Given(@), Given(d.gateway))),
     !.resources = IF @ = None THEN d.resources ELSE @,
     !.persistence = IF @ = None THEN d.persistence
                     ELSE IF d.persistence = None THEN @
                     ELSE Some(MergePersistence(Given(@), Given(d.persistence))),
     !.env = ByName(d.env \o @),
     !.selector = IF @ = {} THEN d.selector ELSE @,
     !.policy = IF @ = None THEN d.policy ELSE @,
     !.policyConfig = IF @ = None THEN d.policyConfig ELSE @,
     !.annotations = MergeAnnotations(d.annotations, @),
     !.adminCredentials = IF @ = None THEN d.adminCredentials ELSE @]

\* The directories an app of a kind is given; a split pair mounts two directories at one
\* path.
Mounted(app) ==
  CASE app = "Sonarr" -> <<"tv">>
    [] app = "Radarr" -> <<"movies">>
    [] app = "Lidarr" -> <<"music">>
    [] app \in {"Sabnzbd", "Transmission", "Plex", "Jellyfin"} ->
         <<"movies", "tv", "music", "movies-4k", "tv-4k">>
    [] app = "Maintainerr" -> <<"movies", "tv">>
    [] app = "SshBastion" -> <<"movies", "tv", "music">>
    [] OTHER -> <<>>

\* Mutant: the 4K instance is given the directory of the standard one.
ServedShared(media, app, is4k) == media

Served(media, app, is4k) == IF is4k /\ Split4kValid(app) THEN Media4k[media] ELSE media

InjectNfs(spec, nfs, is4k) ==
  LET media == Mounted(spec.app)
      mount(m) == Nfs(m, Given(ServerAddress(nfs)),
                      NfsPath(nfs, nfs.dirs[Served(m, spec.app, is4k)]), nfs.dirs[m])
      injected == Persistence(<<>>, [i \in DOMAIN media |-> mount(media[i])])
  IN  IF media = <<>> \/ ServerAddress(nfs) = None THEN spec
      ELSE [spec EXCEPT !.persistence =
              IF @ = None THEN Some(injected)
              ELSE Some(MergePersistence(Given(@), injected))]

FourK(entry) ==
  LET base == [entry.spec EXCEPT !.instance = Some("4k")]
      o == Given(entry.overrides)
  IN  IF entry.overrides = None THEN base
      ELSE [f \in DOMAIN base |->
              IF f \in Overridable /\ o[f] # None THEN o[f]
              ELSE IF f = "env" /\ o.env # <<>> THEN ByName(base.env \o o.env)
              ELSE base[f]]

\* Where the children come from: an entry that is enabled, and its 4K instance (TRUE) when
\* it is split.
Places(ms) ==
  {p \in (DOMAIN ms.apps) \X BOOLEAN : ms.apps[p[1]].enabled /\ (p[2] => ms.apps[p[1]].split)}

Expand(entry, is4k, defaults, nfs) ==
  LET spec == IF is4k THEN FourK(entry) ELSE entry.spec
      merged == ToServarrSpec(spec, defaults)
  IN  [name |-> ChildName(spec.app, spec.instance),
       spec |-> IF nfs = None THEN merged ELSE InjectNfs(merged, Given(nfs), is4k)]

Children(ms, podIp) ==
  LET nfs == {Effective(n, podIp) : n \in ms.nfs}
  IN  [p \in Places(ms) |-> Expand(ms.apps[p[1]], p[2], ms.defaults, nfs)]

\* What the reconcile turns down as a whole: a split of another app, one name twice.
ValidStack(ms) ==
  /\ \A p \in Places(ms) : p[2] => Split4kValid(ms.apps[p[1]].spec.app)
  /\ LET children == Children(ms, None)
     IN  IsInjective([p \in Places(ms) |-> children[p].name])
=============================================================================
