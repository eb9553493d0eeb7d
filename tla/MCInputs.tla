------------------------------ MODULE MCInputs ------------------------------
EXTENDS Inputs

Own1(app, field, value) == [BlankSpec(app) EXCEPT ![field] = Some(value)]
WithVolumes(app, volumes) == Own1(app, "persistence", Persistence(volumes, <<>>))
Bastion(users) ==
  Own1("SshBastion", "appConfig", [SshBastionConfig EXCEPT !.users = users])

\* What is worth trying with any kind of app.
Common(app) ==
  {BlankSpec(app),
   WithVolumes(app, <<Pvc("media", <<"media">>), [Pvc("config", <<"config">>) EXCEPT !.claim = Some("mine")]>>),
   WithVolumes(app, <<Pvc("scripts", <<"x">>)>>),
   WithVolumes(app, <<Pvc("other", <<"var", "run", "..", "config">>)>>),
   WithVolumes(app, <<Pvc("other", <<"", "config", "">>)>>),
   WithVolumes(app, <<Pvc("bazarr-api-key", <<"x">>), Pvc("authorized-keys", <<"y">>)>>),
   Own1(app, "persistence", Persistence(<<Pvc("nfs-tv", <<"x">>)>>, <<Nfs("tv", "nas", <<"tv">>, <<"tv">>)>>)),
   Own1(app, "persistence", [Persistence(<<>>, <<>>) EXCEPT !.removed = Names(DefaultVolumes(app))]),
   [BlankSpec(app) EXCEPT !.env = <<Env("TZ", "CET"), Env("PUID", "0"), Env("TZ", "EST")>>],
   [BlankSpec(app) EXCEPT !.uid = Some(0)],
   Own1(app, "security", Security("NonRoot", 0, 0)),
   Own1(app, "security", Security("Custom", 1000, 1000)),
   Own1(app, "service", <<Port("http", 80), Port("http", 81)>>),
   Own1(app, "service", <<[Port("http", 80) EXCEPT !.containerPort = Some(8080)]>>),
   Own1(app, "service", <<>>),
   Own1(app, "policy", FALSE),
   Own1(app, "backup", [Backup EXCEPT !.enabled = TRUE, !.schedule = <<"0", "3", "*", "*", "*">>]),
   Own1(app, "backup", [Backup EXCEPT !.enabled = TRUE, !.retention = 0]),
   Own1(app, "gateway", [Gateway EXCEPT !.enabled = Some(TRUE), !.hosts = <<"host">>, !.refs = {"edge"}]),
   Own1(app, "gateway", [Gateway EXCEPT !.enabled = Some(TRUE), !.route = Some("Tcp")]),
   Own1(app, "resources", Resources(100, 512, 200, 256)),
   Own1(app, "probes", [liveness |-> Probe("Tcp", "", 0, 3), readiness |-> Probe("Http", "/up", 1, 1)]),
   Own1(app, "gpu", Gpu(Some(1), None, Some(0))),
   Own1(app, "image", Image("", "newer")),
   Own1(app, "appConfig", [SabnzbdConfig EXCEPT !.whitelist = <<"a">>]),
   [BlankSpec(app) EXCEPT !.adminCredentials = Some("admin")],
   [BlankSpec(app) EXCEPT !.apiKeySecret = Some("key")]}

Particular ==
  {[BlankSpec("Transmission") EXCEPT
      !.appConfig = Some([TransmissionConfig EXCEPT !.auth = a, !.peer = p]), !.adminCredentials = c] :
     a \in {None, Some("login")}, p \in {None, Some(PeerPort(51413)), Some(PeerPort(9091))},
     c \in {None, Some("admin"), Some(Child("rpc-password"))}}
  \cup {Own1("Transmission", "appConfig", [TransmissionConfig EXCEPT !.settings = s]) :
          s \in {{"ratio"}, {"watch-dir"}}}
  \cup {WithVolumes("Transmission", <<Pvc("x", <<"watch">>)>>),
         [WithVolumes("Transmission", <<Pvc("x", <<"var", "run", "secrets", "admin">>)>>) EXCEPT
            !.adminCredentials = Some("admin")],
         [WithVolumes("Prowlarr", <<Pvc("x", <<"config", "Definitions", ".", "Custom">>)>>) EXCEPT
            !.appConfig = Some([ProwlarrConfig EXCEPT !.definitions = <<<<"x", "1">>>>])]}
  \cup {[BlankSpec("Transmission") EXCEPT !.env = <<Env(v, "x")>>, !.adminCredentials = Some("admin")] :
          v \in {"USER", "FILE__PASS"}}
  \cup {Own1("Sabnzbd", "appConfig", [SabnzbdConfig EXCEPT !.whitelist = w, !.tarUnpack = t]) :
          w \in {<<>>, <<"a">>, <<"b">>}, t \in BOOLEAN}
  \cup {Own1("Prowlarr", "appConfig", [ProwlarrConfig EXCEPT !.definitions = d]) :
          d \in {<<<<"x", "1">>>>, <<<<"x", "2">>>>, <<<<"", "1">>>>}}
  \cup {Own1("Unpackerr", "appConfig", [UnpackerrConfig EXCEPT !.instances = i @@ @]) :
          i \in {a :> Some([secret |-> "key", url |-> u]) : a \in {"sonarr", "radarr"}, u \in {"u", "v"}}}
  \cup {Bastion(<<SshUser("ann", m, k)>>) :
          m \in {"Shell", "Sftp", "Rsync", "RestrictedRsync"}, k \in {"", "old", "new"}}
  \cup {Bastion(<<[SshUser("ann", "RestrictedRsync", "old") EXCEPT !.paths = Some({p})]>>) :
          p \in {"/a", "/b"}}
  \cup {Bastion(<<SshUser("ann", "Shell", "old"), SshUser(n, "Shell", "old")>>) : n \in {"ann", "bob"}}
  \cup {[Bastion(<<SshUser("ann", "Shell", "old")>>) EXCEPT
           !.persistence = Some(Persistence(<<v>>, <<>>))] :
          v \in {Pvc("ssh-home-ann", <<"x">>), Pvc("x", <<"home", "ann", ".ssh">>),
                 Pvc("x", <<"etc", "authorized_keys">>)}}
  \cup {[Own1("SshBastion", "appConfig", [SshBastionConfig EXCEPT !.motd = "hi"]) EXCEPT
           !.env = <<Env("MOTD", "ho"), Env("SSH_USERS", "x")>>]}
  \cup {[BlankSpec("Sonarr") EXCEPT !.env = <<Env("SONARR__AUTH__APIKEY", "x")>>, !.apiKeySecret = k] :
          k \in {None, Some("key")}}

ForKind(app) == Common(app) \cup {s \in Particular : s.app = app}

App(name, spec) == [name |-> name, spec |-> spec]

\* Any spec of a kind, and any other in its place.
OneApp == {[apps |-> {App("a", s) : s \in ForKind(k)}, stacks |-> {}, edits |-> 2, mishaps |-> 0] :
             k \in Kinds}

\* Three names and two identities.
Instance(app, i) == [BlankSpec(app) EXCEPT !.instance = i]
Rivals ==
  {[apps |-> {App(n, Instance("Sonarr", i)) : n \in {"a", "b"}, i \in {None, Some("4k")}}
             \cup {App("a", Instance("Radarr", None)), App("b", Instance("Sonarr", Some("")))},
    stacks |-> {}, edits |-> 4, mishaps |-> 1]}

Defaults == [BlankSpec("") EXCEPT !.env = <<Env("TZ", "CET")>>]
OneStack(entries, nfs) == [apps |-> entries, defaults |-> Defaults, nfs |-> nfs]
Plain(app) == StackApp(BlankSpec(app))

\* The stack says which gateway and which issuer, the entry which host.
Edge(entry, nfs) ==
  [OneStack(<<entry>>, nfs) EXCEPT
     !.defaults.gateway = Some([Gateway EXCEPT !.enabled = Some(TRUE), !.refs = {"edge"},
                                               !.tls = Some(Tls(TRUE, "issuer"))])]
Hosted(app) ==
  StackApp([BlankSpec(app) EXCEPT
    !.gateway = Some([Gateway EXCEPT !.hosts = <<"host">>, !.tls = Some(Tls(TRUE, ""))])])

Split(app) == [Plain(app) EXCEPT !.split = TRUE]
Nas == Persistence(<<>>, <<Nfs("tv", "nas", <<"series">>, <<"tv">>)>>)
Overridden4k == [Split("Sonarr") EXCEPT
                   !.overrides = Some([BlankSpec("Sonarr") EXCEPT !.persistence = Some(Nas),
                                                                  !.env = <<Env("FOUR", "k")>>])]

Pairs == {OneStack(<<Split("Sonarr")>>, Some(NfsServer)),
          OneStack(<<Overridden4k>>, Some(NfsServer)),
          OneStack(<<Split("Lidarr")>>, Some(NfsServer))}
Single == {OneStack(<<Plain("Transmission")>>, Some(NfsServer)),
           Edge(Hosted("Transmission"), Some([NfsServer EXCEPT !.external = Some("nas"),
                                                               !.root = <<"pool">>])),
           OneStack(<<Plain("Transmission"), Plain("Transmission")>>, None)}
\* A third instance beside the pair.
Anime == OneStack(<<Split("Sonarr"), StackApp(Instance("Sonarr", Some("anime")))>>, Some(NfsServer))

Stacked ==
  {[apps |-> {}, stacks |-> {None} \cup {Some(s) : s \in Pairs}, edits |-> 2, mishaps |-> 1],
   [apps |-> {}, stacks |-> {None} \cup {Some(s) : s \in Single}, edits |-> 2, mishaps |-> 2],
   [apps |-> {}, stacks |-> {Some(Anime)}, edits |-> 1, mishaps |-> 0]}

MCWishes == OneApp \cup Rivals \cup Stacked
MCAddresses == {"10.0.0.1", "10.0.0.2"}
MCNames == {"a", "b", "Sonarr", "Sonarr-4k", "Sonarr-anime", "Transmission"}

MCOverrides == [k \in Kinds |-> IF k = "Sonarr" THEN Some(Image("", "nightly")) ELSE None]
=============================================================================
