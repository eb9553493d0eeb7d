------------------------ MODULE Credentials_proofs ------------------------
(***************************************************************************)
(* Proofs about Credentials for any set of app kinds and any number of     *)
(* rotations, restarts and faults.                                         *)
(***************************************************************************)
EXTENDS Credentials, TLAPS

\* Versions of the Secret only grow, and the reconcile started at one of them.
SecretGrows ==
  /\ admin.user =< admin.rv /\ admin.pass =< admin.rv
  /\ r.since.user =< admin.user /\ r.since.pass =< admin.pass

\* What the reconcile has read is no older than its start, and neither is what
\* its shared client was built from.
ReadIsFresh ==
  /\ r.pc \in {"pass", "key"} \cup Pushing => r.since.user =< r.user
  /\ r.pc \in {"key"} \cup Pushing => r.since.pass =< r.pass
  /\ r.pc = "sharePass" => r.since.user =< r.shared.as.user
  /\ r.shared.there => /\ r.since.user =< r.shared.as.user
                       /\ r.since.pass =< r.shared.as.pass

\* What a push in several calls has done so far is still there: the kinds it is
\* done for do not lose settings when their pod restarts.
HalfPushed ==
  /\ r.pc = "pushPass" => app.kind = "Sabnzbd" /\ live.user = r.user
  /\ r.pc \in {"wizardUser", "wizardEnd"} => app.kind = "Jellyfin"
  /\ r.pc = "wizardEnd" => live.user = r.user /\ live.pass = r.pass /\ live.auth
  /\ app.kind = "Jellyfin" /\ ~live.wizard => live.auth

IInv == TypeOK /\ SecretGrows /\ ReadIsFresh /\ HalfPushed

\* The fields of the reconcile.
Run == [pc : PCs, since : Pairs, shared : Clients, user : Versions,
        pass : Versions, rv : Versions, result : Results]

Live == [user : Versions, pass : Versions, auth : BOOLEAN, wizard : BOOLEAN]

\* The reconcile at rest is well typed and has read nothing.
LEMMA IdleIsRun ==
  /\ Idle \in Run /\ Idle.pc = "idle" /\ ~Idle.shared.there
  /\ Idle.since.user = 0 /\ Idle.since.pass = 0 /\ Idle.result # "True"
<1>1. 0 \in Versions
  BY BoundsAssumption DEF Versions
<1>2. [user |-> 0, pass |-> 0] \in Pairs /\ NoClient \in Clients /\ ~NoClient.there
  BY <1>1 DEF Pairs, Clients, NoClient
<1>3. None \in Results /\ None # "True" /\ "idle" \in PCs
  BY DEF None, Results, PCs
<1> QED
  BY <1>1, <1>2, <1>3 DEF Idle, Run

\* The Secret starts with version 1, and the reconcile knows nothing.
LEMMA InitInv == Init => IInv
<1> SUFFICES ASSUME Init PROVE IInv
  OBVIOUS
<1>1. 0 \in Versions /\ 1 \in Versions
  BY BoundsAssumption DEF Versions
<1>2. TypeOK
  BY <1>1, IdleIsRun, BoundsAssumption
     DEF Init, TypeOK, Run, NoHash, Hashes, Salts, Results, None
<1>3. SecretGrows /\ ReadIsFresh
  BY IdleIsRun DEF Init, SecretGrows, ReadIsFresh, Pushing
<1>4. app.kind = "Jellyfin" => live.wizard
  <2>1. live.wizard = (app.kind = "Jellyfin")
    BY DEF Init
  <2> QED
    BY <2>1, Zenon
<1>5. HalfPushed
  BY <1>4, IdleIsRun DEF Init, HalfPushed
<1> QED
  BY <1>2, <1>3, <1>5 DEF IInv

\* Steps of the Secret, the pod and its kubelet.
LEMMA EnvironmentKeeps ==
  ASSUME IInv, Rotate \/ PodStarts \/ PodRolls \/ PodRestarts
  PROVE  IInv'
<1> USE BoundsAssumption
    DEF IInv, TypeOK, SecretGrows, ReadIsFresh, HalfPushed, Versions
<1>1. CASE Rotate
  <2>1. PICK u \in {admin.user, admin.rv + 1} :
           admin' = [user |-> u, pass |-> admin.rv + 1, rv |-> admin.rv + 1]
    BY <1>1 DEF Rotate
  <2>2. /\ admin.rv =< MaxRotations
        /\ UNCHANGED <<app, hash, deploy, pod, live, cond, r, restarts, faults>>
    BY <1>1 DEF Rotate
  <2>3. admin.user \in Nat /\ admin.pass \in Nat /\ admin.rv \in Nat
    OBVIOUS
  <2>4. /\ admin'.user = u /\ admin'.pass = admin.rv + 1 /\ admin'.rv = admin.rv + 1
        /\ u \in 0 .. MaxRotations + 1
        /\ admin.rv + 1 \in 0 .. MaxRotations + 1
    BY <2>1, <2>2, <2>3
  <2>5. admin' \in [user : Versions, pass : Versions, rv : Versions]
    BY <2>1, <2>4
  <2>6. r.since.user \in Nat /\ r.since.pass \in Nat
    BY DEF Pairs
  <2>7. SecretGrows'
    BY <2>2, <2>3, <2>4, <2>6
  <2> QED
    BY <2>2, <2>5, <2>7
<1>2. CASE PodStarts
  <2>1. /\ deploy.there /\ pod' = [up |-> TRUE, sum |-> deploy.sum]
        /\ UNCHANGED <<app, admin, hash, deploy, cond, r, restarts, faults>>
    BY <1>2 DEF PodStarts
  <2>2. PICK on \in BOOLEAN : live' = AtStart(on)
    BY <1>2 DEF PodStarts
  <2>3. hash.pass \in Versions
    BY DEF Hashes
  <2>4. live' \in Live /\ (app.kind # "Transmission" => live' = live)
    BY <2>2, <2>3 DEF AtStart, Live
  <2> QED
    BY <2>1, <2>4 DEF Live
<1>3. CASE PodRolls
  BY <1>3 DEF PodRolls
<1>4. CASE PodRestarts
  <2>1. /\ pod' = [pod EXCEPT !.up = FALSE] /\ restarts' \in 0 .. MaxRestarts
        /\ UNCHANGED <<app, admin, hash, deploy, live, cond, r, faults>>
    BY <1>4 DEF PodRestarts
  <2> QED
    BY <2>1
<1> QED
  BY <1>1, <1>2, <1>3, <1>4

\* A reconcile at rest, or one that has just started on the current Secret,
\* satisfies the invariant.
LEMMA FreshKeeps ==
  ASSUME IInv, UNCHANGED <<app, admin, hash, deploy, pod, live, restarts>>,
         cond' \in Results, faults' \in 0 .. MaxFaults,
         r' \in Run, r'.pc \in {"idle", "rpcRead", "deploy"}, ~r'.shared.there,
         r'.since.user =< admin.user, r'.since.pass =< admin.pass
  PROVE  IInv'
<1>1. TypeOK'
  BY DEF IInv, TypeOK, Run
<1>2. SecretGrows'
  BY DEF IInv, SecretGrows
<1>3. ReadIsFresh' /\ HalfPushed'
  BY DEF IInv, ReadIsFresh, HalfPushed, Pushing
<1> QED
  BY <1>1, <1>2, <1>3 DEF IInv

\* A step that ends or abandons the reconcile, or begins the next one.
LEMMA StopKeeps ==
  ASSUME IInv, Begin \/ Abort \/ WriteStatus
  PROVE  IInv'
<1>1. /\ admin.user \in 0 .. MaxRotations + 1 /\ admin.pass \in 0 .. MaxRotations + 1
      /\ faults \in 0 .. MaxFaults /\ cond \in Results /\ r.result \in Results
  BY DEF IInv, TypeOK, Versions
<1>2. CASE Begin
  <2> DEFINE pc == IF app.kind = "Transmission" THEN "rpcRead" ELSE "deploy"
  <2>1. pc \in PCs /\ pc \in {"idle", "rpcRead", "deploy"}
    BY DEF PCs
  <2>2. Pair(admin) \in Pairs
    BY <1>1 DEF Pair, Pairs, Versions
  <2>3. r' = [Idle EXCEPT !.pc = pc, !.since = Pair(admin)]
    BY <1>2 DEF Begin
  <2> HIDE DEF pc
  <2>4. /\ r' \in Run /\ r'.pc = pc /\ r'.since = Pair(admin)
        /\ r'.shared = Idle.shared
    BY <2>1, <2>2, <2>3, IdleIsRun DEF Run
  <2>5. r'.since.user = admin.user /\ r'.since.pass = admin.pass
    BY <2>4 DEF Pair
  <2> QED
    BY <1>1, <1>2, <2>1, <2>4, <2>5, IdleIsRun, BoundsAssumption, FreshKeeps DEF Begin
<1>3. CASE Abort
  BY <1>1, <1>3, IdleIsRun, BoundsAssumption, FreshKeeps DEF Abort, Fault
<1>4. CASE WriteStatus
  BY <1>1, <1>4, IdleIsRun, BoundsAssumption, FreshKeeps DEF WriteStatus
<1> QED
  BY <1>2, <1>3, <1>4

\* The steps before the credentials are read change neither the app nor the Secret.
LEMMA PreparationKeeps ==
  ASSUME IInv,
         \/ RpcRead \/ RpcSkipped \/ RpcWrite \/ ApplyDeployment
         \/ SumRead \/ SumSkipped \/ SumWrite
  PROVE  IInv'
<1> USE BoundsAssumption
    DEF IInv, TypeOK, SecretGrows, ReadIsFresh, HalfPushed, Pushing, PCs, Goto, Fault
<1>1. CASE RpcRead
  BY <1>1 DEF RpcRead
<1>2. CASE RpcSkipped
  BY <1>2 DEF RpcSkipped
<1>3. CASE RpcWrite
  <2>1. hash.pass \in Versions /\ hash.salt \in Salts
    BY DEF Hashes
  <2>2. DesiredHash(hash, r.pass) \in Hashes
    BY <2>1 DEF DesiredHash, Hashes, Salts
  <2> QED
    BY <1>3, <2>2 DEF RpcWrite
<1>4. CASE ApplyDeployment
  BY <1>4 DEF ApplyDeployment, Applied
<1>5. CASE SumRead
  BY <1>5 DEF SumRead
<1>6. CASE SumSkipped
  BY <1>6 DEF SumSkipped
<1>7. CASE SumWrite
  BY <1>7 DEF SumWrite
<1> QED
  BY <1>1, <1>2, <1>3, <1>4, <1>5, <1>6, <1>7

\* A report: only the next step and the result of the reconcile change.
LEMMA ReportKeeps ==
  ASSUME IInv, NEW result \in Results, Report(result),
         UNCHANGED <<app, admin, hash, deploy, pod, live, cond, restarts>>,
         faults' \in 0 .. MaxFaults
  PROVE  IInv'
<1>1. "status" \in PCs /\ "status" \notin Pushing
  BY DEF PCs, Pushing
<1>2. r' = [r EXCEPT !.pc = "status", !.result = result] /\ r \in Run
  BY DEF Report, IInv, TypeOK, Run
<1>3. /\ r' \in Run /\ r'.pc = "status"
      /\ r'.since = r.since /\ r'.shared = r.shared /\ r'.user = r.user /\ r'.pass = r.pass
  BY <1>1, <1>2 DEF Run
<1>4. TypeOK'
  BY <1>3 DEF IInv, TypeOK, Run
<1>5. SecretGrows'
  BY <1>3 DEF IInv, SecretGrows
<1>6. ReadIsFresh' /\ HalfPushed'
  BY <1>1, <1>3 DEF IInv, ReadIsFresh, HalfPushed
<1> QED
  BY <1>4, <1>5, <1>6 DEF IInv

\* The reads of the Secret, each at a version no older than the start.
LEMMA ReadsKeep ==
  ASSUME IInv,
         \/ ShareUser \/ SharePassword \/ ShareNone
         \/ ReadUser \/ ReadPassword \/ ReadFails \/ ReadKey
  PROVE  IInv'
<1> USE BoundsAssumption
    DEF IInv, TypeOK, SecretGrows, ReadIsFresh, HalfPushed, Pushing, PCs, Goto, Fault,
        Report, Results
<1>1. /\ r.since.user \in Versions /\ r.since.pass \in Versions
      /\ r.shared.there \in BOOLEAN
      /\ r.shared.as.user \in Versions /\ r.shared.as.pass \in Versions
      /\ 0 \in Versions
  BY DEF Pairs, Clients, Versions
<1>2. CASE ShareUser
  <2> DEFINE client == [there |-> FALSE, as |-> [user |-> admin.user, pass |-> 0]]
  <2>1. client \in Clients /\ ~client.there /\ client.as.user = admin.user
    BY <1>1 DEF Clients, Pairs
  <2>2. r' = [r EXCEPT !.pc = "sharePass", !.shared = client]
    BY <1>2 DEF ShareUser
  <2> HIDE DEF client
  <2> QED
    BY <1>2, <2>1, <2>2 DEF ShareUser
<1>3. CASE SharePassword
  <2> DEFINE client == [there |-> TRUE, as |-> [user |-> r.shared.as.user, pass |-> admin.pass]]
  <2>1. /\ client \in Clients
        /\ client.as.user = r.shared.as.user /\ client.as.pass = admin.pass
    BY <1>1 DEF Clients, Pairs
  <2>2. r' = [r EXCEPT !.pc = "user", !.shared = client]
    BY <1>3 DEF SharePassword
  <2> HIDE DEF client
  <2> QED
    BY <1>3, <2>1, <2>2 DEF SharePassword
<1>4. CASE ShareNone
  <2>1. NoClient \in Clients /\ ~NoClient.there
    BY <1>1 DEF NoClient, Clients, Pairs
  <2>2. r' = [r EXCEPT !.pc = "user", !.shared = NoClient] /\ faults' \in 0 .. MaxFaults
    BY <1>4 DEF ShareNone
  <2>3. UNCHANGED <<app, admin, hash, deploy, pod, live, cond, restarts>>
    BY <1>4 DEF ShareNone
  <2> QED
    BY <2>1, <2>2, <2>3
<1>5. CASE ReadUser
  BY <1>5 DEF ReadUser
<1>6. CASE ReadPassword
  BY <1>6 DEF ReadPassword
<1>7. CASE ReadFails
  <2>1. /\ Report("Unknown") /\ faults' \in 0 .. MaxFaults
        /\ UNCHANGED <<app, admin, hash, deploy, pod, live, cond, restarts>>
    BY <1>7 DEF ReadFails
  <2> QED
    BY <2>1, ReportKeeps
<1>8. CASE ReadKey
  <2>1. CASE Report("False")
    BY <1>8, <2>1, ReportKeeps DEF ReadKey
  <2>2. CASE r' = [r EXCEPT !.pc = "push"] /\ r.pc = "key"
    <3>1. UNCHANGED <<app, admin, hash, deploy, pod, live, cond, restarts, faults>>
      BY <1>8 DEF ReadKey
    <3> QED
      BY <2>2, <3>1
  <2> QED
    BY <1>8, <2>1, <2>2 DEF ReadKey
<1> QED
  BY <1>2, <1>3, <1>4, <1>5, <1>6, <1>7, <1>8

\* What a call leaves behind: the settings l, the next step or a report.
LEMMA CallSets ==
  ASSUME IInv, NEW l \in Live, NEW pc \in PCs, NEW result \in Results, Call(l, pc, result)
  PROVE  /\ live' = l /\ UNCHANGED <<app, admin, hash, deploy, pod, cond, restarts>>
         /\ faults' \in 0 .. MaxFaults
         /\ \/ r' = [r EXCEPT !.pc = pc, !.result = result]
            \/ r' = [r EXCEPT !.pc = "status", !.result = "False"]
BY BoundsAssumption DEF IInv, TypeOK, Call, Report, Fault

\* A call after which no further call of the push comes keeps the invariant.
LEMMA LastCallKeeps ==
  ASSUME IInv, NEW l \in Live, NEW result \in Results, Call(l, "status", result),
         app.kind = "Jellyfin" /\ ~l.wizard => l.auth
  PROVE  IInv'
<1>1. /\ live' = l /\ UNCHANGED <<app, admin, hash, deploy, pod, cond, restarts>>
      /\ faults' \in 0 .. MaxFaults
  BY CallSets DEF PCs
<1>2. PICK res \in Results : r' = [r EXCEPT !.pc = "status", !.result = res]
  BY CallSets DEF PCs, Results
<1> QED
  BY <1>1, <1>2 DEF IInv, TypeOK, SecretGrows, ReadIsFresh, HalfPushed, Pushing, PCs, Live

\* A call that is followed by another one of the push keeps the invariant.
LEMMA NextCallKeeps ==
  ASSUME IInv, NEW l \in Live, NEW pc \in Pushing, Call(l, pc, None), r.pc \in Pushing,
         app.kind = "Jellyfin" /\ ~l.wizard => l.auth,
         pc = "pushPass" => app.kind = "Sabnzbd" /\ l.user = r.user,
         pc \in {"wizardUser", "wizardEnd"} => app.kind = "Jellyfin",
         pc = "wizardEnd" => l.user = r.user /\ l.pass = r.pass /\ l.auth
  PROVE  IInv'
<1>1. pc \in PCs /\ None \in Results /\ "status" \in PCs /\ "False" \in Results
  BY DEF Pushing, PCs, Results
<1>2. /\ live' = l /\ UNCHANGED <<app, admin, hash, deploy, pod, cond, restarts>>
      /\ faults' \in 0 .. MaxFaults
  BY <1>1, CallSets
<1>3. PICK q \in {pc, "status"}, res \in Results :
        r' = [r EXCEPT !.pc = q, !.result = res]
  BY <1>1, CallSets
<1>4. r \in Run
  BY DEF IInv, TypeOK, Run
<1>5. /\ r' \in Run /\ r'.pc = q
      /\ r'.since = r.since /\ r'.shared = r.shared /\ r'.user = r.user /\ r'.pass = r.pass
  BY <1>1, <1>3, <1>4 DEF Run
<1>6. TypeOK'
  BY <1>2, <1>5 DEF IInv, TypeOK, Run, Live
<1>7. SecretGrows'
  BY <1>2, <1>5 DEF IInv, SecretGrows
<1>8. ReadIsFresh'
  BY <1>2, <1>5 DEF IInv, ReadIsFresh, Pushing
<1>9. HalfPushed'
  BY <1>2, <1>5 DEF IInv, HalfPushed
<1> QED
  BY <1>6, <1>7, <1>8, <1>9 DEF IInv

\* The settings a push writes are well typed.
LEMMA ConfiguredIsLive ==
  ASSUME IInv
  PROVE  /\ Configured(live) \in Live
         /\ Configured(live).user = r.user /\ Configured(live).pass = r.pass
         /\ Configured(live).auth
BY DEF IInv, TypeOK, Configured, Live

\* Each call of a push.
LEMMA PushKeeps == ASSUME IInv, Push PROVE IInv'
<1>1. live \in Live
  BY DEF IInv, TypeOK, Live
<1>2. \A b \in BOOLEAN : (IF b THEN "True" ELSE "False") \in Results
  BY DEF Results
<1>3. {"True", "False", None} \subseteq Results
  BY DEF Results
<1>4. CASE PushOneCall \/ PushHostConfig \/ PushSession
  <2>1. Call(Configured(live), "status", "True")
    BY <1>4 DEF PushOneCall, PushHostConfig, PushSession
  <2> QED
    BY <1>3, <2>1, ConfiguredIsLive, LastCallKeeps
<1>5. CASE HostConfigRefused
  BY <1>1, <1>3, <1>5, LastCallKeeps DEF HostConfigRefused, IInv, HalfPushed
<1>6. CASE VerifySession
  <2> DEFINE used == IF r.shared.there THEN r.shared.as ELSE Pair(r)
             result == IF Accepted(used) THEN "True" ELSE "False"
  <2>1. result \in Results
    BY DEF Results
  <2>2. Call(live, "status", result) /\ app.kind = "Transmission"
    BY <1>6 DEF VerifySession
  <2> HIDE DEF result
  <2> QED
    BY <1>1, <2>1, <2>2, LastCallKeeps
<1>7. CASE Login
  <2> DEFINE result == IF Accepted(Pair(r)) THEN "True" ELSE "False"
  <2>1. result \in Results
    BY DEF Results
  <2>2. Call(live, "status", result)
    BY <1>7 DEF Login
  <2>3. app.kind = "Jellyfin" /\ ~live.wizard => live.auth
    BY DEF IInv, HalfPushed
  <2> HIDE DEF result
  <2> QED
    BY <1>1, <2>1, <2>2, <2>3, LastCallKeeps
<1>8. CASE PushPass
  <2> DEFINE l == [live EXCEPT !.pass = r.pass, !.auth = TRUE]
  <2>1. l \in Live /\ l.auth
    BY DEF IInv, TypeOK, Live
  <2>2. Call(l, "status", "True")
    BY <1>8 DEF PushPass
  <2> HIDE DEF l
  <2> QED
    BY <1>3, <2>1, <2>2, LastCallKeeps
<1>9. CASE WizardEnds
  <2> DEFINE l == [live EXCEPT !.wizard = FALSE]
  <2>1. l \in Live /\ l.auth
    BY <1>9 DEF WizardEnds, IInv, TypeOK, HalfPushed, Live
  <2>2. Call(l, "status", "True")
    BY <1>9 DEF WizardEnds
  <2> HIDE DEF l
  <2> QED
    BY <1>3, <2>1, <2>2, LastCallKeeps
<1>10. CASE PushUser
  <2> DEFINE l == [live EXCEPT !.user = r.user]
  <2>1. /\ l \in Live /\ l.user = r.user
        /\ app.kind = "Sabnzbd" => ~(app.kind = "Jellyfin" /\ ~l.wizard)
    BY DEF IInv, TypeOK, Live
  <2>2. Call(l, "pushPass", None) /\ app.kind = "Sabnzbd" /\ r.pc = "push"
    BY <1>10 DEF PushUser
  <2>3. "pushPass" \in Pushing /\ "push" \in Pushing
    BY DEF Pushing
  <2> HIDE DEF l
  <2> QED
    BY <1>3, <2>1, <2>2, <2>3, NextCallKeeps
<1>11. CASE WizardStarts
  <2>1. Call(live, "wizardUser", None) /\ app.kind = "Jellyfin" /\ r.pc = "push"
    BY <1>11 DEF WizardStarts
  <2>2. "wizardUser" \in Pushing /\ "push" \in Pushing
    BY DEF Pushing
  <2>3. app.kind = "Jellyfin" /\ ~live.wizard => live.auth
    BY DEF IInv, HalfPushed
  <2> QED
    BY <1>1, <1>3, <2>1, <2>2, <2>3, NextCallKeeps
<1>12. CASE WizardUser
  <2> DEFINE l == Configured(live)
  <2>1. l \in Live /\ l.user = r.user /\ l.pass = r.pass /\ l.auth
    BY ConfiguredIsLive
  <2>2. Call(l, "wizardEnd", None) /\ r.pc = "wizardUser" /\ app.kind = "Jellyfin"
    BY <1>12 DEF WizardUser, IInv, HalfPushed
  <2>3. "wizardEnd" \in Pushing /\ "wizardUser" \in Pushing
    BY DEF Pushing
  <2> HIDE DEF l
  <2> QED
    BY <1>3, <2>1, <2>2, <2>3, NextCallKeeps
<1>13. CASE CallFails
  <2>1. Report("False") /\ faults' \in 0 .. MaxFaults
    BY <1>13, BoundsAssumption DEF CallFails, Fault, IInv, TypeOK
  <2>2. UNCHANGED <<app, admin, hash, deploy, pod, live, cond, restarts>>
    BY <1>13 DEF CallFails
  <2> QED
    BY <1>3, <2>1, <2>2, ReportKeeps
<1> QED
  BY <1>4, <1>5, <1>6, <1>7, <1>8, <1>9, <1>10, <1>11, <1>12, <1>13 DEF Push

\* Stuttering keeps the invariant.
LEMMA StutterKeeps == ASSUME IInv, UNCHANGED vars PROVE IInv'
BY DEF IInv, TypeOK, SecretGrows, ReadIsFresh, HalfPushed, vars

\* The invariant is inductive.
THEOREM Invariant == Spec => []IInv
<1>1. ASSUME IInv, [Next]_vars PROVE IInv'
  <2>1. CASE UNCHANGED vars
    BY <1>1, <2>1, StutterKeeps
  <2>2. CASE Rotate \/ PodStarts \/ PodRolls \/ PodRestarts
    BY <1>1, <2>2, EnvironmentKeeps
  <2>3. CASE Begin \/ Abort \/ WriteStatus
    BY <1>1, <2>3, StopKeeps
  <2>4. CASE \/ RpcRead \/ RpcSkipped \/ RpcWrite \/ ApplyDeployment
             \/ SumRead \/ SumSkipped \/ SumWrite
    BY <1>1, <2>4, PreparationKeeps
  <2>5. CASE \/ ShareUser \/ SharePassword \/ ShareNone
             \/ ReadUser \/ ReadPassword \/ ReadFails \/ ReadKey
    BY <1>1, <2>5, ReadsKeep
  <2>6. CASE Push
    BY <1>1, <2>6, PushKeeps
  <2> QED
    BY <1>1, <2>1, <2>2, <2>3, <2>4, <2>5, <2>6 DEF Next, Handler
<1> QED
  BY <1>1, InitInv, PTL DEF Spec

\* Every reachable state is well typed: the versions read and the salts drawn
\* stay in their ranges.
THEOREM TypeCorrect == Spec => []TypeOK
BY Invariant, PTL DEF IInv

\* A call that is the last of its push and reports True left the credentials in
\* place.
LEMMA ReportedInPlace ==
  ASSUME IInv, NEW l \in Live, NEW result \in Results, Call(l, "status", result),
         result = "True" => /\ l.user >= r.since.user /\ l.pass >= r.since.pass /\ l.auth,
         r'.result = "True"
  PROVE  live'.user >= r.since.user /\ live'.pass >= r.since.pass /\ live'.auth
<1>1. live' = l
  BY DEF Call
<1>2. result = "True"
  BY DEF Call, Report, IInv, TypeOK
<1> QED
  BY <1>1, <1>2

\* AdminCredentialsConfigured=True is only reported over credentials no older
\* than the start of the reconcile that reports it, whatever rotations, restarts
\* and lost answers fall into it.
THEOREM TrueIsApplied == Spec => TrueMeansApplied
<1> DEFINE Post == live'.user >= r.since.user /\ live'.pass >= r.since.pass /\ live'.auth
<1>1. ASSUME IInv, Next, r'.result = "True", r.result # "True" PROVE Post
  <2> USE <1>1 DEF IInv, TypeOK
  <2>1. CASE Push
    <3>1. live \in Live /\ r.result \in Results
      BY DEF Live
    <3>2. {"True", "False", None} \subseteq Results
      BY DEF Results
    <3>3. r.pc \in Pushing => /\ r.user >= r.since.user /\ r.pass >= r.since.pass
      BY DEF ReadIsFresh, Pushing, Pairs, Versions
    <3>4. CASE PushOneCall \/ PushHostConfig \/ PushSession
      <4>1. Call(Configured(live), "status", "True") /\ r.pc \in Pushing
        BY <3>4 DEF PushOneCall, PushHostConfig, PushSession, Pushing
      <4> QED
        BY <3>2, <3>3, <4>1, ConfiguredIsLive, ReportedInPlace
    <3>5. CASE HostConfigRefused
      BY <3>5 DEF HostConfigRefused, Call, Report, None
    <3>6. CASE PushPass
      <4> DEFINE l == [live EXCEPT !.pass = r.pass, !.auth = TRUE]
      <4>1. l \in Live /\ l.auth /\ l.pass = r.pass /\ l.user = live.user
        BY DEF Live
      <4>2. live.user = r.user /\ r.pc \in Pushing
        BY <3>6 DEF PushPass, HalfPushed, Pushing
      <4>3. Call(l, "status", "True")
        BY <3>6 DEF PushPass
      <4> HIDE DEF l
      <4> QED
        BY <3>2, <3>3, <4>1, <4>2, <4>3, ReportedInPlace
    <3>7. CASE WizardEnds
      <4> DEFINE l == [live EXCEPT !.wizard = FALSE]
      <4>1. /\ l \in Live /\ l.auth = live.auth /\ l.pass = live.pass /\ l.user = live.user
        BY DEF Live
      <4>2. live.user = r.user /\ live.pass = r.pass /\ live.auth /\ r.pc \in Pushing
        BY <3>7 DEF WizardEnds, HalfPushed, Pushing
      <4>3. Call(l, "status", "True")
        BY <3>7 DEF WizardEnds
      <4> HIDE DEF l
      <4> QED
        BY <3>2, <3>3, <4>1, <4>2, <4>3, ReportedInPlace
    <3>8. CASE VerifySession
      <4> DEFINE used == IF r.shared.there THEN r.shared.as ELSE Pair(r)
                 result == IF Accepted(used) THEN "True" ELSE "False"
      <4>1. result \in Results
        BY DEF Results
      <4>2. Call(live, "status", result) /\ r.pc \in Pushing /\ live.auth
        BY <3>8 DEF VerifySession, Pushing
      <4>3. used.user >= r.since.user /\ used.pass >= r.since.pass
        BY <3>3, <4>2 DEF Pair, ReadIsFresh, Clients, Pairs, Versions
      <4>4. result = "True" => /\ live.user = used.user /\ live.pass = used.pass
        BY DEF Accepted, Pair
      <4> HIDE DEF used, result
      <4> QED
        BY <3>1, <4>1, <4>2, <4>3, <4>4, ReportedInPlace
    <3>9. CASE Login
      <4> DEFINE result == IF Accepted(Pair(r)) THEN "True" ELSE "False"
      <4>1. result \in Results
        BY DEF Results
      <4>2. Call(live, "status", result) /\ r.pc \in Pushing /\ live.auth
        BY <3>9 DEF Login, Pushing, HalfPushed
      <4>3. result = "True" => /\ live.user = r.user /\ live.pass = r.pass
        BY DEF Accepted, Pair
      <4> HIDE DEF result
      <4> QED
        BY <3>1, <3>3, <4>1, <4>2, <4>3, ReportedInPlace
    <3>10. CASE PushUser \/ WizardStarts \/ WizardUser \/ CallFails
      BY <3>10 DEF PushUser, WizardStarts, WizardUser, CallFails, Call, Report, None
    <3> QED
      BY <2>1, <3>4, <3>5, <3>6, <3>7, <3>8, <3>9, <3>10 DEF Push
  <2>2. CASE Begin \/ Abort \/ WriteStatus
    <3>1. CASE Abort \/ WriteStatus
      BY <3>1, IdleIsRun DEF Abort, WriteStatus
    <3>2. CASE Begin
      BY <3>2, IdleIsRun DEF Begin, Run
    <3> QED
      BY <2>2, <3>1, <3>2
  <2>3. CASE \/ RpcRead \/ RpcSkipped \/ RpcWrite \/ ApplyDeployment
             \/ SumRead \/ SumSkipped \/ SumWrite
    BY <2>3 DEF RpcRead, RpcSkipped, RpcWrite, ApplyDeployment, SumRead, SumSkipped,
                SumWrite, Goto
  <2>4. CASE \/ ShareUser \/ SharePassword \/ ShareNone
             \/ ReadUser \/ ReadPassword \/ ReadFails \/ ReadKey
    BY <2>4 DEF ShareUser, SharePassword, ShareNone, ReadUser, ReadPassword, ReadFails,
                ReadKey, Report, Goto
  <2>5. CASE Rotate \/ PodStarts \/ PodRolls \/ PodRestarts
    BY <2>5 DEF Rotate, PodStarts, PodRolls, PodRestarts
  <2> QED
    BY <2>1, <2>2, <2>3, <2>4, <2>5 DEF Next, Handler
<1>2. ASSUME IInv, [Next]_vars
      PROVE  [(r'.result = "True" /\ r.result # "True") => Post]_vars
  BY <1>1, <1>2
<1> QED
  BY <1>2, Invariant, PTL DEF Spec, TrueMeansApplied
=============================================================================
