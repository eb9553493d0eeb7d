---------------------------- MODULE Credentials ----------------------------
(***************************************************************************)
(* The admin credentials of one app: the user's Secret, the salted form of *)
(* its password that a Transmission pod mounts, the checksum annotation    *)
(* that rolls the pods of a Servarr v3 app, and the calls that push the    *)
(* credentials into the running app.  The reconcile reads user name and    *)
(* password in two calls, and pushes them in one call or in several, so a  *)
(* rotation, a restart of the pod, a lost answer or a crash may come       *)
(* between any two of them.                                                *)
(*                                                                         *)
(* A user name or a password is the number of the edit of the Secret that  *)
(* wrote it, and so is a resourceVersion; 0 is what the app was born with. *)
(***************************************************************************)
EXTENDS Naturals

CONSTANTS Kinds,         \* the app types of the instance
          MaxRotations,  \* edits of the user's Secret
          MaxRestarts,   \* restarts of the pod that no rollout asks for
          MaxFaults      \* failed reads and calls, lost answers, crashes

AllKinds == {"Servarr", "Sabnzbd", "Bazarr", "Tautulli", "Seerr",
             "Jellyfin", "Transmission"}

ASSUME KindAssumption == Kinds \subseteq AllKinds
ASSUME BoundsAssumption ==
  /\ MaxRotations \in Nat
  /\ MaxRestarts \in Nat
  /\ MaxFaults \in Nat

VARIABLES
  app,      \* what it is: its kind, and whether apiKeySecret is set
  admin,    \* the user's Secret: user name, password, resourceVersion
  hash,     \* the derived Secret of Transmission: the password it was made of and its salt
  deploy,   \* the Deployment: does it exist, its checksum annotation
  pod,      \* is the app up, and the annotation its pod was started with
  live,     \* the app's own settings: user, password, is authentication on, is the wizard pending
  cond,     \* the AdminCredentialsConfigured condition
  r,        \* the reconcile
  restarts, \* restarts so far
  faults    \* faults so far

vars == <<app, admin, hash, deploy, pod, live, cond, r, restarts, faults>>

Versions == 0 .. MaxRotations + 1
None == "none"

\* Kinds whose pods are rolled when the Secret changes.
NeedsRollout == {"Servarr"}

\* Kinds whose API key comes from a Secret.
NeedsKey == {"Sabnzbd", "Seerr"}
UsesKey == NeedsKey \cup {"Servarr", "Bazarr"}

\* Kinds that take user name and password in one call.
OneCall == {"Bazarr", "Tautulli", "Seerr"}

Pair(c) == [user |-> c.user, pass |-> c.pass]
Pairs == [user : Versions, pass : Versions]

Salts == {0, 1}
Hashes == [there : BOOLEAN, pass : Versions, salt : Salts]
NoHash == [there |-> FALSE, pass |-> 0, salt |-> 0]

Clients == [there : BOOLEAN, as : Pairs]
NoClient == [there |-> FALSE, as |-> [user |-> 0, pass |-> 0]]

Results == {"True", "False", "Unknown", None}

Idle == [pc |-> "idle", since |-> [user |-> 0, pass |-> 0], shared |-> NoClient,
         user |-> 0, pass |-> 0, rv |-> 0, result |-> None]

PCs == {"idle", "rpcRead", "rpcWrite", "deploy", "sumRead", "sumWrite",
        "share", "sharePass", "user", "pass", "key", "push", "pushPass",
        "wizardUser", "wizardEnd", "status"}

TypeOK ==
  /\ app \in [kind : Kinds, keyed : BOOLEAN]
  /\ admin \in [user : Versions, pass : Versions, rv : Versions]
  /\ hash \in Hashes
  /\ deploy \in [there : BOOLEAN, sum : Versions]
  /\ pod \in [up : BOOLEAN, sum : Versions]
  /\ live \in [user : Versions, pass : Versions, auth : BOOLEAN, wizard : BOOLEAN]
  /\ cond \in Results
  /\ r \in [pc : PCs, since : Pairs, shared : Clients, user : Versions,
            pass : Versions, rv : Versions, result : Results]
  /\ restarts \in 0 .. MaxRestarts
  /\ faults \in 0 .. MaxFaults

\* The Secret exists before the app that names it.
Init ==
  /\ app \in [kind : Kinds, keyed : BOOLEAN]
  /\ admin = [user |-> 1, pass |-> 1, rv |-> 1]
  /\ hash = NoHash
  /\ deploy = [there |-> FALSE, sum |-> 0]
  /\ pod = [up |-> FALSE, sum |-> 0]
  /\ live = [user |-> 0, pass |-> 0, auth |-> FALSE, wizard |-> app.kind = "Jellyfin"]
  /\ cond = None
  /\ r = Idle
  /\ restarts = 0
  /\ faults = 0

-----------------------------------------------------------------------------
(* The environment.                                                        *)

\* A user changes the password, or user name and password, of the Secret.
Rotate ==
  /\ admin.rv =< MaxRotations
  /\ LET n == admin.rv + 1
     IN \E u \in {admin.user, n} : admin' = [user |-> u, pass |-> n, rv |-> n]
  /\ UNCHANGED <<app, hash, deploy, pod, live, cond, r, restarts, faults>>

\* What a Transmission finds in settings.json when its container starts: the
\* mounted user name and salted password, unless the image's own init script
\* switched authentication off after the operator's script ran.
AtStart(on) ==
  IF app.kind = "Transmission"
  THEN [live EXCEPT !.user = IF on THEN admin.user ELSE @,
                    !.pass = IF on THEN hash.pass ELSE @,
                    !.auth = on]
  ELSE live

\* The pod starts once what it mounts exists.
PodStarts ==
  /\ deploy.there
  /\ ~pod.up
  /\ app.kind = "Transmission" => hash.there
  /\ \E on \in BOOLEAN : live' = AtStart(on)
  /\ pod' = [up |-> TRUE, sum |-> deploy.sum]
  /\ UNCHANGED <<app, admin, hash, deploy, cond, r, restarts, faults>>

\* The rollout of a changed pod template stops the old pod.
PodRolls ==
  /\ pod.up
  /\ pod.sum # deploy.sum
  /\ pod' = [pod EXCEPT !.up = FALSE]
  /\ UNCHANGED <<app, admin, hash, deploy, live, cond, r, restarts, faults>>

\* The pod is evicted, or restarted by a user.
PodRestarts ==
  /\ pod.up
  /\ restarts < MaxRestarts
  /\ pod' = [pod EXCEPT !.up = FALSE]
  /\ restarts' = restarts + 1
  /\ UNCHANGED <<app, admin, hash, deploy, live, cond, r, faults>>

-----------------------------------------------------------------------------
(* The reconcile, up to the push.                                          *)

Goto(pc) == r' = [r EXCEPT !.pc = pc]

\* A result is reported by the status that ends the reconcile.
Report(result) == r' = [r EXCEPT !.pc = "status", !.result = result]

Fault ==
  /\ faults < MaxFaults
  /\ faults' = faults + 1

Begin ==
  /\ r.pc = "idle"
  /\ r' = [Idle EXCEPT !.pc = IF app.kind = "Transmission" THEN "rpcRead" ELSE "deploy",
                       !.since = Pair(admin)]
  /\ UNCHANGED <<app, admin, hash, deploy, pod, live, cond, restarts, faults>>

\* The reconcile stops: an error returned by ?, a failed apply, or a crash.
Abort ==
  /\ r.pc # "idle"
  /\ Fault
  /\ r' = Idle
  /\ UNCHANGED <<app, admin, hash, deploy, pod, live, cond, restarts>>

\* The admin password for the salted form; a Secret that is missing or
\* malformed skips the write (RpcSkipped), any other error is Abort.
RpcRead ==
  /\ r.pc = "rpcRead"
  /\ r' = [r EXCEPT !.pc = "rpcWrite", !.pass = admin.pass]
  /\ UNCHANGED <<app, admin, hash, deploy, pod, live, cond, restarts, faults>>

RpcSkipped ==
  /\ r.pc = "rpcRead"
  /\ Fault
  /\ Goto("deploy")
  /\ UNCHANGED <<app, admin, hash, deploy, pod, live, cond, restarts>>

\* Mutant: the hash is never made again.
DesiredHashKept(existing, pass) ==
  IF existing.there THEN existing ELSE [there |-> TRUE, pass |-> pass, salt |-> 1 - existing.salt]

\* A hash that was made from this password stays, else a new salt is drawn.
DesiredHash(existing, pass) ==
  IF existing.there /\ existing.pass = pass
  THEN existing
  ELSE [there |-> TRUE, pass |-> pass, salt |-> 1 - existing.salt]

RpcWrite ==
  /\ r.pc = "rpcWrite"
  /\ hash' = DesiredHash(hash, r.pass)
  /\ Goto("deploy")
  /\ UNCHANGED <<app, admin, deploy, pod, live, cond, restarts, faults>>

\* Mutant: the annotation is written by the field manager of the main apply.
AppliedStripping(d) == [there |-> TRUE, sum |-> 0]

\* The Deployment is applied by the main field manager, which does not own
\* the checksum annotation and so leaves it alone.
Applied(d) == [d EXCEPT !.there = TRUE]

ApplyDeployment ==
  /\ r.pc = "deploy"
  /\ deploy' = Applied(deploy)
  /\ Goto(IF app.kind \in NeedsRollout THEN "sumRead" ELSE "share")
  /\ UNCHANGED <<app, admin, hash, pod, live, cond, restarts, faults>>

\* The checksum is made from the resourceVersion of the Secret; a Secret that
\* cannot be read is only logged.
SumRead ==
  /\ r.pc = "sumRead"
  /\ r' = [r EXCEPT !.pc = "sumWrite", !.rv = admin.rv]
  /\ UNCHANGED <<app, admin, hash, deploy, pod, live, cond, restarts, faults>>

SumSkipped ==
  /\ r.pc = "sumRead"
  /\ Fault
  /\ Goto("share")
  /\ UNCHANGED <<app, admin, hash, deploy, pod, live, cond, restarts>>

SumWrite ==
  /\ r.pc = "sumWrite"
  /\ deploy' = [deploy EXCEPT !.sum = r.rv]
  /\ Goto("share")
  /\ UNCHANGED <<app, admin, hash, pod, live, cond, restarts, faults>>

\* With apiHealthCheck, a Transmission client is built before the health checks
\* from a user name and a password that are read in two calls, and shared with
\* the push; incomplete credentials or no health check leave none.
ShareUser ==
  /\ r.pc = "share"
  /\ app.kind = "Transmission"
  /\ r' = [r EXCEPT !.pc = "sharePass",
                    !.shared = [there |-> FALSE, as |-> [user |-> admin.user, pass |-> 0]]]
  /\ UNCHANGED <<app, admin, hash, deploy, pod, live, cond, restarts, faults>>

SharePassword ==
  /\ r.pc = "sharePass"
  /\ LET client == [there |-> TRUE, as |-> [user |-> r.shared.as.user, pass |-> admin.pass]]
     IN r' = [r EXCEPT !.pc = "user", !.shared = client]
  /\ UNCHANGED <<app, admin, hash, deploy, pod, live, cond, restarts, faults>>

ShareNone ==
  /\ \/ r.pc = "share" /\ UNCHANGED faults
     \/ r.pc = "sharePass" /\ Fault
  /\ r' = [r EXCEPT !.pc = "user", !.shared = NoClient]
  /\ UNCHANGED <<app, admin, hash, deploy, pod, live, cond, restarts>>

ReadUser ==
  /\ r.pc = "user"
  /\ r' = [r EXCEPT !.pc = "pass", !.user = admin.user]
  /\ UNCHANGED <<app, admin, hash, deploy, pod, live, cond, restarts, faults>>

ReadPassword ==
  /\ r.pc = "pass"
  /\ r' = [r EXCEPT !.pc = "key", !.pass = admin.pass]
  /\ UNCHANGED <<app, admin, hash, deploy, pod, live, cond, restarts, faults>>

\* A read of the Secret, or of the key Secret, that fails is reported.
ReadFails ==
  /\ \/ r.pc \in {"user", "pass"}
     \/ r.pc = "key" /\ app.kind \in UsesKey /\ (app.keyed \/ app.kind = "Bazarr")
  /\ Fault
  /\ Report("Unknown")
  /\ UNCHANGED <<app, admin, hash, deploy, pod, live, cond, restarts>>

\* SABnzbd and Seerr cannot be reached without a key.
ReadKey ==
  /\ r.pc = "key"
  /\ IF app.kind \in NeedsKey /\ ~app.keyed THEN Report("False") ELSE Goto("push")
  /\ UNCHANGED <<app, admin, hash, deploy, pod, live, cond, restarts, faults>>

-----------------------------------------------------------------------------
(* The push.                                                               *)

Pushing == {"push", "pushPass", "wizardUser", "wizardEnd"}

\* A call that changes the app's settings to l: it is answered, or done and
\* its answer lost.
Call(l, pc, result) ==
  /\ pod.up
  /\ live' = l
  /\ \/ /\ r' = [r EXCEPT !.pc = pc, !.result = result]
        /\ UNCHANGED faults
     \/ /\ Report("False")
        /\ Fault
  /\ UNCHANGED <<app, admin, hash, deploy, pod, cond, restarts>>

\* The app does not answer, because it is down or because the call fails.
CallFails ==
  /\ r.pc \in Pushing
  /\ \/ ~pod.up /\ UNCHANGED faults
     \/ Fault
  /\ Report("False")
  /\ UNCHANGED <<app, admin, hash, deploy, pod, live, cond, restarts>>

Configured(l) == [l EXCEPT !.user = r.user, !.pass = r.pass, !.auth = TRUE]

\* Bazarr, Tautulli, Seerr: one call.
PushOneCall ==
  /\ r.pc = "push"
  /\ app.kind \in OneCall
  /\ Call(Configured(live), "status", "True")

\* SABnzbd: the user name, then the password.
PushUser ==
  /\ r.pc = "push"
  /\ app.kind = "Sabnzbd"
  /\ Call([live EXCEPT !.user = r.user], "pushPass", None)

PushPass ==
  /\ r.pc = "pushPass"
  /\ Call([live EXCEPT !.pass = r.pass, !.auth = TRUE], "status", "True")

\* Sonarr, Radarr, Lidarr, Prowlarr: read config/host, put it back changed.
\* Without a key this works only until authentication is on; the 401 that
\* comes then leaves no condition.
PushHostConfig ==
  /\ r.pc = "push"
  /\ app.kind = "Servarr"
  /\ app.keyed \/ ~live.auth
  /\ Call(Configured(live), "status", "True")

HostConfigRefused ==
  /\ r.pc = "push"
  /\ app.kind = "Servarr"
  /\ ~app.keyed /\ live.auth
  /\ Call(live, "status", None)

\* Mutant: a 401 is taken to mean that the credentials are in place.
AcceptedAny(used) == TRUE

\* Transmission: session-set without credentials; a 401 says that
\* authentication is on, and the credentials are then verified with the shared
\* client if there is one.
Accepted(used) == used = Pair(live)

PushSession ==
  /\ r.pc = "push"
  /\ app.kind = "Transmission"
  /\ ~live.auth
  /\ Call(Configured(live), "status", "True")

VerifySession ==
  /\ r.pc = "push"
  /\ app.kind = "Transmission"
  /\ live.auth
  /\ LET used == IF r.shared.there THEN r.shared.as ELSE Pair(r)
     IN Call(live, "status", IF Accepted(used) THEN "True" ELSE "False")

\* Jellyfin: while the startup wizard is pending, it creates the admin user
\* and then ends the wizard; afterwards the operator logs in with the
\* credentials of the Secret and sets the password to the one it logged in with.
WizardStarts ==
  /\ r.pc = "push"
  /\ app.kind = "Jellyfin"
  /\ live.wizard
  /\ Call(live, "wizardUser", None)

WizardUser ==
  /\ r.pc = "wizardUser"
  /\ Call(Configured(live), "wizardEnd", None)

WizardEnds ==
  /\ r.pc = "wizardEnd"
  /\ Call([live EXCEPT !.wizard = FALSE], "status", "True")

Login ==
  /\ r.pc = "push"
  /\ app.kind = "Jellyfin"
  /\ ~live.wizard
  /\ Call(live, "status", IF Accepted(Pair(r)) THEN "True" ELSE "False")

\* The conditions are rebuilt, so no result means no condition.  The reconcile
\* requeues itself, after 30 s if the condition is not True, else after 300 s.
WriteStatus ==
  /\ r.pc = "status"
  /\ cond' = r.result
  /\ r' = Idle
  /\ UNCHANGED <<app, admin, hash, deploy, pod, live, restarts, faults>>

-----------------------------------------------------------------------------
Push ==
  \/ PushOneCall
  \/ PushUser
  \/ PushPass
  \/ PushHostConfig
  \/ HostConfigRefused
  \/ PushSession
  \/ VerifySession
  \/ WizardStarts
  \/ WizardUser
  \/ WizardEnds
  \/ Login
  \/ CallFails

Handler ==
  \/ Begin
  \/ RpcRead
  \/ RpcSkipped
  \/ RpcWrite
  \/ ApplyDeployment
  \/ SumRead
  \/ SumSkipped
  \/ SumWrite
  \/ ShareUser
  \/ SharePassword
  \/ ShareNone
  \/ ReadUser
  \/ ReadPassword
  \/ ReadFails
  \/ ReadKey
  \/ Push
  \/ WriteStatus
  \/ Abort

Next ==
  \/ Handler
  \/ Rotate
  \/ PodStarts
  \/ PodRolls
  \/ PodRestarts

Spec == Init /\ [][Next]_vars

\* Every outcome of a reconcile requeues it, and the kubelet and the
\* Deployment controller do their work; users and faults owe nothing.
FairSpec ==
  /\ Spec
  /\ WF_vars(Handler)
  /\ WF_vars(PodStarts)
  /\ WF_vars(PodRolls)

-----------------------------------------------------------------------------
(* Properties.                                                             *)

\* A reconcile that ends with AdminCredentialsConfigured=True found or made the
\* app hold credentials no older than those of its own start, with
\* authentication on, although it reads the Secret in up to four separate calls
\* and may verify with a client it built earlier.
TrueMeansApplied ==
  [][(r'.result = "True" /\ r.result # "True")
       => /\ live'.user >= r.since.user
          /\ live'.pass >= r.since.pass
          /\ live'.auth]_vars

\* The main apply and the checksum patch do not undo each other: pods stop
\* being rolled once the Secret stops changing.
RollsSettle == <>[][pod' = pod]_vars

\* What the app holds is what the Secret says.
InEffect == live.user = admin.user /\ live.pass = admin.pass /\ live.auth

\* A rotated Secret reaches the app in the end, wherever the rotation falls
\* between two reads or two calls of a push.  Not Jellyfin, nor a Servarr app or
\* a SABnzbd without a key; a Transmission whose authentication is on keeps what
\* it started with until its pod restarts, and what waits for that restart is the
\* salted form of the current password.
RotationReaches ==
  <>[](/\ app.kind \in {"Servarr", "Sabnzbd", "Seerr"} /\ app.keyed => InEffect
       /\ app.kind \in {"Bazarr", "Tautulli"} => InEffect
       /\ app.kind = "Transmission" => live.auth /\ hash.pass = admin.pass)
=============================================================================
