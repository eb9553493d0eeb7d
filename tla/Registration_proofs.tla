------------------------ MODULE Registration_proofs ------------------------
(***************************************************************************)
(* Registration keeps its types; the first object of a name does not       *)
(* disappear before the cleanup behind each of its finalizers completed;   *)
(* and the reconciles together implement the contract Membership.          *)
(*                                                                         *)
(* The second fact needs to know how stale a copy can be: the finalizer    *)
(* patches of both branches of the reconcile replace the whole list by one *)
(* computed from the cached object.  The third needs to know that what a   *)
(* hub's sync adds and removes is what its own discovery found and missed. *)
(***************************************************************************)
EXTENDS Registration, TLAPS

Cleaning   == {"cleanup", "unregister", "release"}
Protecting == {"protect", "addfin"}

\* A name that was never used has no object, no copy and no reconcile.
Unborn(a) == life[a] = 0 => /\ obj[a] = "absent"
                            /\ cache[a].obj = "absent"
                            /\ run[a].pc = "idle"

\* What is owed is cleaned up, or the finalizer for it is still on the object.
Owed(a) == /\ obj[a] = "live" => owed[a] = {}
           /\ obj[a] = "terminating" => owed[a] \subseteq fin[a] \union cleaned[a]
           /\ obj[a] = "absent" => owed[a] \subseteq cleaned[a]

\* A terminating copy, cached or in use, knows every finalizer still there.
TerminatingCopy(a) ==
  /\ cache[a].obj = "terminating" =>
       obj[a] # "live" /\ (obj[a] = "terminating" => fin[a] \subseteq cache[a].fin)
  /\ run[a].pc \in Cleaning =>
       /\ obj[a] # "live" /\ cache[a].obj # "live"
       /\ obj[a] = "terminating" => fin[a] \subseteq run[a].snap /\ run[a].ok \subseteq cleaned[a]

\* A live copy lacks at most one of the object's finalizers.
LiveCopy(a) ==
  /\ cache[a].obj = "live" =>
       /\ cache[a].fin # {} => fin[a] # {}
       /\ fin[a] = Hub => cache[a].fin # {}
  /\ run[a].pc \in Protecting =>
       /\ run[a].snap # {} => fin[a] # {}
       /\ fin[a] = Hub => run[a].snap # {}
       /\ run[a].snap # {} /\ cache[a].obj = "live" => cache[a].fin # {}
  /\ run[a].pc = "addfin" => NextHub(a) \notin run[a].snap

FirstLife(a) == Owed(a) /\ TerminatingCopy(a) /\ LiveCopy(a)

AppInv(a) == Unborn(a) /\ (life[a] <= 1 => FirstLife(a))

\* The inductive invariant.
IInv == TypeOK /\ \A a \in App : AppInv(a)

\* The steps about one app; Next is these and the hubs' steps.
AppAction(a) ==
  \/ CreateApp(a) \/ DeleteApp(a) \/ Deliver(a) \/ OwnedEvent(a) \/ AppStep(a)
  \/ CleanupFails(a) \/ ProtectListFails(a) \/ Abort(a)

-----------------------------------------------------------------------------
(* Types. *)

\* A hub dealt with keeps the types of what a cleanup changes.
LEMMA HubDoneTypes ==
  ASSUME TypeOK, NEW a \in App, NEW h \in Hub, NEW good \in BOOLEAN, HubDone(a, h, good)
  PROVE  run' \in [App -> Run] /\ cleaned' \in [App -> SUBSET Hub]
<1> DEFINE next == [run[a] EXCEPT !.pc = IF run[a].todo = {h} THEN "release" ELSE "cleanup",
                                  !.todo = @ \ {h},
                                  !.ok = IF good THEN @ \union {h} ELSE @]
<1>1. run[a] \in Run
  BY DEF TypeOK
<1>2. next \in Run
  BY <1>1 DEF Run
<1>3. run' = [run EXCEPT ![a] = next]
  BY DEF HubDone
<1>4. run' \in [App -> Run]
  <2> HIDE DEF next
  <2> QED
    BY <1>2, <1>3 DEF TypeOK
<1>5. cleaned' \in [App -> SUBSET Hub]
  BY DEF TypeOK, HubDone
<1> QED
  BY <1>4, <1>5

\* So does a hub whose finalizer is in place or not needed.
LEMMA ProtectNextTypes ==
  ASSUME TypeOK, NEW a \in App, NEW h \in Hub, ProtectNext(a, h)
  PROVE  run' \in [App -> Run] /\ wake' \in SUBSET App
<1> DEFINE next == IF run[a].todo = {h} THEN NoRun
                   ELSE [run[a] EXCEPT !.pc = "protect", !.todo = @ \ {h}]
<1>1. run[a] \in Run
  BY DEF TypeOK
<1>2. next \in Run
  BY <1>1 DEF Run, NoRun
<1>3. run' = [run EXCEPT ![a] = next]
  BY DEF ProtectNext
<1>4. run' \in [App -> Run]
  <2> HIDE DEF next
  <2> QED
    BY <1>2, <1>3 DEF TypeOK
<1> QED
  BY <1>4 DEF TypeOK, ProtectNext

\* And a handler that moves on to its next call.
LEMMA PcType ==
  ASSUME TypeOK, NEW a \in App, NEW p \in {"unregister", "addfin"},
         run' = [run EXCEPT ![a].pc = p]
  PROVE  run' \in [App -> Run]
<1>1. run[a] \in Run
  BY DEF TypeOK
<1>2. [run[a] EXCEPT !.pc = p] \in Run
  BY <1>1 DEF Run
<1> QED
  BY <1>2 DEF TypeOK

LEMMA NextHubType == \A a \in App : NextHub(a) \in Hub
BY DEF NextHub, Hub

LEMMA InitType == Init => TypeOK
BY InitialAssumption, BoundsAssumption
DEF Init, TypeOK, Run, NoRun, Sync, NoSync, ObjState, HubState

\* A step of app a, or of the world around it, keeps every type.
LEMMA AppTypes ==
  ASSUME TypeOK, NEW a \in App, AppAction(a)
  PROVE  TypeOK'
<1>1. CASE CreateApp(a)
  BY <1>1, BoundsAssumption DEF CreateApp, Edit, TypeOK, ObjState, hubVars
<1>2. CASE DeleteApp(a)
  BY <1>2, BoundsAssumption DEF DeleteApp, Edit, TypeOK, ObjState, hubVars
<1>3. CASE Deliver(a)
  BY <1>3 DEF Deliver, Fresh, TypeOK, hubVars, history
<1>4. CASE OwnedEvent(a)
  BY <1>4 DEF OwnedEvent, TypeOK, hubVars, history
<1>5. CASE Start(a)
  BY <1>5 DEF Start, TypeOK, Run, hubVars, history
<1>6. CASE CleanupLookup(a)
  <2>1. run' \in [App -> Run] /\ cleaned' \in [App -> SUBSET Hub]
    <3>1. CASE HubDone(a, NextHub(a), TRUE)
      BY <3>1, NextHubType, HubDoneTypes
    <3>2. CASE run' = [run EXCEPT ![a].pc = "unregister"] /\ UNCHANGED cleaned
      BY <3>2, PcType DEF TypeOK
    <3> QED
      BY <1>6, <3>1, <3>2 DEF CleanupLookup
  <2> QED
    BY <1>6, <2>1 DEF CleanupLookup, TypeOK, hubVars
<1>7. CASE Unregister(a)
  <2>1. HubDone(a, NextHub(a), TRUE)
    BY <1>7 DEF Unregister
  <2>2. run' \in [App -> Run] /\ cleaned' \in [App -> SUBSET Hub]
    BY <2>1, NextHubType, HubDoneTypes
  <2> QED
    BY <1>7, <2>2, NextHubType DEF Unregister, TypeOK, hubVars
<1>8. CASE Release(a)
  <2>1. Remaining(a) \in SUBSET Hub
    BY DEF Remaining, TypeOK, Run
  <2>2. /\ fin' \in [App -> SUBSET Hub]
        /\ obj' \in [App -> ObjState]
        /\ \A b \in App : obj'[b] = "terminating" => fin'[b] # {}
    <3>1. CASE Patched(a, Remaining(a))
      BY <2>1, <3>1 DEF Patched, TypeOK, ObjState
    <3>2. CASE UNCHANGED <<obj, fin>>
      BY <3>2 DEF TypeOK
    <3> QED
      BY <1>8, <3>1, <3>2 DEF Release
  <2>3. wake' \in SUBSET App
    BY <1>8 DEF Release, Requeued, TypeOK
  <2>4. run' \in [App -> Run]
    BY <1>8 DEF Release, NoRun, Run, TypeOK
  <2> QED
    BY <1>8, <2>2, <2>3, <2>4 DEF Release, TypeOK, hubVars, history
<1>9. CASE PatchRefused(a)
  BY <1>9 DEF PatchRefused, TypeOK, Run, NoRun, hubVars, history
<1>10. CASE Protect(a)
  <2>1. run' \in [App -> Run] /\ wake' \in SUBSET App
    <3>1. CASE ProtectNext(a, NextHub(a))
      BY <3>1, NextHubType, ProtectNextTypes
    <3>2. CASE run' = [run EXCEPT ![a].pc = "addfin"] /\ UNCHANGED wake
      BY <3>2, PcType DEF TypeOK
    <3> QED
      BY <1>10, <3>1, <3>2 DEF Protect
  <2> QED
    BY <1>10, <2>1 DEF Protect, TypeOK, hubVars, history
<1>11. CASE AddFinalizer(a)
  <2> DEFINE list == run[a].snap \union {NextHub(a)}
  <2>1. ProtectNext(a, NextHub(a)) /\ Patched(a, list)
    BY <1>11 DEF AddFinalizer
  <2>2. run' \in [App -> Run] /\ wake' \in SUBSET App
    BY <2>1, NextHubType, ProtectNextTypes
  <2>3. list \in SUBSET Hub /\ list # {}
    BY NextHubType DEF TypeOK, Run
  <2>4. fin' = [fin EXCEPT ![a] = list] /\ obj' = obj
    BY <2>1, <2>3 DEF Patched
  <2> HIDE DEF list
  <2> QED
    BY <1>11, <2>2, <2>3, <2>4 DEF AddFinalizer, TypeOK, hubVars, history
<1>12. CASE CleanupFails(a)
  <2>1. HubDone(a, NextHub(a), FALSE)
    BY <1>12 DEF CleanupFails
  <2>2. run' \in [App -> Run] /\ cleaned' \in [App -> SUBSET Hub]
    BY <2>1, NextHubType, HubDoneTypes
  <2>3. reg' \in [Hub -> SUBSET App]
    BY <1>12, NextHubType DEF CleanupFails, TypeOK
  <2> QED
    BY <1>12, <2>2, <2>3, BoundsAssumption DEF CleanupFails, Fault, TypeOK, hubVars
<1>13. CASE ProtectListFails(a)
  BY <1>13, NextHubType, ProtectNextTypes, BoundsAssumption
  DEF ProtectListFails, Fault, TypeOK, hubVars, history
<1>14. CASE Abort(a)
  BY <1>14, BoundsAssumption DEF Abort, Fault, TypeOK, Run, NoRun, hubVars, history
<1> QED
  BY <1>1, <1>2, <1>3, <1>4, <1>5, <1>6, <1>7, <1>8, <1>9, <1>10, <1>11, <1>12, <1>13, <1>14
  DEF AppAction, AppStep

LEMMA SyncRestType ==
  \A add, remove \in SUBSET App : SyncRest(add, remove) \in Sync
BY DEF SyncRest, Sync, NoSync

\* A step of hub h's sync, or an edit of the hub, keeps every type.
LEMMA HubTypes ==
  ASSUME TypeOK, NEW h \in Hub,
         \/ EditHub(h) \/ HubStep(h) \/ SyncSkipsApp(h) \/ SyncCallFails(h) \/ SyncAbort(h)
  PROVE  TypeOK'
<1>1. CASE EditHub(h)
  BY <1>1, BoundsAssumption DEF EditHub, Edit, TypeOK, appVars, history
<1>2. ASSUME NEW found \in SUBSET App, Discover(h, found)
      PROVE  sync' \in [Hub -> Sync]
  BY <1>2 DEF Discover, NoSync, Sync, TypeOK
<1>3. Discoverable(h) \in SUBSET App
  BY ServesAssumption DEF Discoverable
<1>4. CASE SyncDiscover(h)
  BY <1>2, <1>3, <1>4 DEF SyncDiscover, TypeOK, appVars, history
<1>5. CASE SyncSkipsApp(h)
  <2>1. PICK skipped \in SUBSET Discoverable(h) : Discover(h, Discoverable(h) \ skipped)
    BY <1>5 DEF SyncSkipsApp
  <2>2. sync' \in [Hub -> Sync]
    BY <1>2, <1>3, <2>1
  <2> QED
    BY <1>5, <2>2, BoundsAssumption DEF SyncSkipsApp, Fault, TypeOK, appVars, history
<1>6. CASE SyncList(h)
  <2>1. sync[h].found \ reg[h] \in SUBSET App /\ Stale(h) \in SUBSET App
    BY DEF Stale, TypeOK, Sync
  <2>2. SyncRest(sync[h].found \ reg[h], Stale(h)) \in Sync
    BY <2>1, SyncRestType
  <2> QED
    BY <1>6, <2>2 DEF SyncList, TypeOK, appVars, history
<1>7. ASSUME NEW done \in BOOLEAN, SyncCall(h, done)
      PROVE  sync' \in [Hub -> Sync] /\ reg' \in [Hub -> SUBSET App]
  <2>1. sync[h].add \in SUBSET App /\ sync[h].remove \in SUBSET App
    BY DEF TypeOK, Sync
  <2>2. PICK a \in App :
          /\ \/ sync' = [sync EXCEPT ![h] = SyncRest(@.add \ {a}, @.remove)]
             \/ sync' = [sync EXCEPT ![h] = SyncRest({}, @.remove \ {a})]
          /\ \/ reg' = reg
             \/ reg' = [reg EXCEPT ![h] = @ \union {a}]
             \/ reg' = [reg EXCEPT ![h] = @ \ {a}]
    BY <1>7 DEF SyncCall
  <2>3. /\ SyncRest(sync[h].add \ {a}, sync[h].remove) \in Sync
        /\ SyncRest({}, sync[h].remove \ {a}) \in Sync
    BY <2>1, SyncRestType
  <2>4. sync' \in [Hub -> Sync]
    BY <2>2, <2>3 DEF TypeOK
  <2>5. reg' \in [Hub -> SUBSET App]
    <3>1. reg[h] \union {a} \in SUBSET App /\ reg[h] \ {a} \in SUBSET App
      BY DEF TypeOK
    <3> QED
      BY <2>2, <3>1 DEF TypeOK
  <2> QED
    BY <2>4, <2>5
<1>8. CASE SyncApply(h)
  BY <1>7, <1>8 DEF SyncApply, TypeOK, appVars, history
<1>9. CASE SyncCallFails(h)
  <2>1. SyncCall(h, FALSE)
    BY <1>9 DEF SyncCallFails
  <2>2. sync' \in [Hub -> Sync] /\ reg' \in [Hub -> SUBSET App]
    BY <1>7, <2>1
  <2> QED
    BY <1>9, <2>2, BoundsAssumption DEF SyncCallFails, Fault, TypeOK, appVars, history
<1>10. CASE SyncAbort(h)
  BY <1>10, BoundsAssumption DEF SyncAbort, Fault, NoSync, Sync, TypeOK, appVars, history
<1> QED
  BY <1>1, <1>4, <1>5, <1>6, <1>8, <1>9, <1>10 DEF HubStep

LEMMA NextType == TypeOK /\ [Next]_vars => TypeOK'
<1> SUFFICES ASSUME TypeOK, [Next]_vars PROVE TypeOK'
  OBVIOUS
<1>1. CASE UNCHANGED vars
  BY <1>1 DEF vars, appVars, hubVars, history, TypeOK
<1>2. CASE Next
  BY <1>2, AppTypes, HubTypes DEF Next, AppAction
<1> QED
  BY <1>1, <1>2

\* Every variable of the model keeps its type, and no object lingers in deletion
\* without a finalizer.
THEOREM TypeCorrect == Spec => []TypeOK
BY InitType, NextType, PTL DEF Spec

-----------------------------------------------------------------------------
(* The first object of a name. *)

\* Everything the invariant says of an app is about these.
Same(a) ==
  /\ obj'[a] = obj[a] /\ fin'[a] = fin[a] /\ cache'[a] = cache[a] /\ run'[a] = run[a]
  /\ owed'[a] = owed[a] /\ life'[a] = life[a] /\ cleaned'[a] = cleaned[a]

LEMMA SameKeeps ==
  ASSUME NEW a \in App, AppInv(a), Same(a)
  PROVE  AppInv(a)'
BY DEF Same, AppInv, Unborn, FirstLife, Owed, TerminatingCopy, LiveCopy, NextHub

\* A step of one app leaves the others alone.
LEMMA OtherApps ==
  ASSUME TypeOK, NEW a \in App, AppAction(a), NEW b \in App \ {a}
  PROVE  Same(b)
<1> USE DEF TypeOK, Same, history
<1>1. CASE CreateApp(a) \/ DeleteApp(a) \/ Deliver(a) \/ OwnedEvent(a)
  BY <1>1 DEF CreateApp, DeleteApp, Deliver, OwnedEvent
<1>2. CASE Start(a) \/ PatchRefused(a) \/ Abort(a)
  BY <1>2 DEF Start, PatchRefused, Abort
<1>3. CASE CleanupLookup(a) \/ Unregister(a) \/ CleanupFails(a)
  BY <1>3 DEF CleanupLookup, Unregister, CleanupFails, HubDone
<1>4. CASE Release(a)
  BY <1>4 DEF Release, Patched
<1>5. CASE Protect(a) \/ ProtectListFails(a)
  BY <1>5 DEF Protect, ProtectListFails, ProtectNext
<1>6. CASE AddFinalizer(a)
  BY <1>6 DEF AddFinalizer, Patched, ProtectNext
<1> QED
  BY <1>1, <1>2, <1>3, <1>4, <1>5, <1>6 DEF AppAction, AppStep

\* What the world around the operator does to an app.
LEMMA WorldKeeps ==
  ASSUME TypeOK, NEW a \in App, AppInv(a),
         CreateApp(a) \/ DeleteApp(a) \/ Deliver(a) \/ OwnedEvent(a)
  PROVE  AppInv(a)'
<1> USE DEF TypeOK, AppInv, Unborn, FirstLife, Owed, TerminatingCopy, LiveCopy, NextHub, history
<1>1. CASE CreateApp(a)
  BY <1>1 DEF CreateApp, Run, NoRun, Cleaning, Protecting
<1>2. CASE DeleteApp(a)
  BY <1>2 DEF DeleteApp
<1>3. CASE Deliver(a)
  BY <1>3 DEF Deliver, Fresh, Cleaning, Protecting
<1>4. CASE OwnedEvent(a)
  BY <1>4 DEF OwnedEvent
<1> QED
  BY <1>1, <1>2, <1>3, <1>4

\* A hub dealt with: what was cleaned up is known to be.
LEMMA HubDoneKeeps ==
  ASSUME TypeOK, NEW a \in App, AppInv(a), run[a].pc \in Cleaning,
         NEW h \in Hub, NEW good \in BOOLEAN, HubDone(a, h, good),
         UNCHANGED <<obj, fin, cache, owed, life>>
  PROVE  AppInv(a)'
<1>1. run[a] \in Run
  BY DEF TypeOK
<1>2. /\ run'[a].pc \in Cleaning /\ run'[a].snap = run[a].snap
      /\ run'[a].ok = IF good THEN run[a].ok \union {h} ELSE run[a].ok
  BY <1>1 DEF HubDone, Run, Cleaning, TypeOK
<1>3. /\ cleaned[a] \subseteq cleaned'[a]
      /\ good /\ obj[a] = "terminating" => h \in cleaned'[a]
  BY DEF HubDone, TypeOK
<1>4. Unborn(a)'
  BY DEF AppInv, Unborn, Cleaning
<1>5. ASSUME life[a] <= 1 PROVE Owed(a)'
  BY <1>3, <1>5 DEF AppInv, FirstLife, Owed
<1>6. ASSUME life[a] <= 1 PROVE TerminatingCopy(a)'
  BY <1>2, <1>3, <1>6 DEF AppInv, FirstLife, TerminatingCopy
<1>7. ASSUME life[a] <= 1 PROVE LiveCopy(a)'
  BY <1>2, <1>7 DEF AppInv, FirstLife, TerminatingCopy, LiveCopy, Cleaning, Protecting
<1> QED
  BY <1>4, <1>5, <1>6, <1>7 DEF AppInv, FirstLife

\* A reconcile starts from the cached copy, or ends and leaves the object alone.
LEMMA StartEndKeeps ==
  ASSUME TypeOK, NEW a \in App, AppInv(a), Start(a) \/ PatchRefused(a) \/ Abort(a)
  PROVE  AppInv(a)'
<1> USE DEF TypeOK, AppInv, Unborn, FirstLife, Owed, TerminatingCopy, LiveCopy, NextHub, history,
            Cleaning, Protecting
<1>1. CASE Start(a)
  BY <1>1 DEF Start, ObjState
<1>2. CASE PatchRefused(a) \/ Abort(a)
  BY <1>2 DEF PatchRefused, Abort, NoRun
<1> QED
  BY <1>1, <1>2

\* The calls of the cleanup.
LEMMA CleanupKeeps ==
  ASSUME TypeOK, NEW a \in App, AppInv(a), CleanupLookup(a) \/ Unregister(a) \/ CleanupFails(a)
  PROVE  AppInv(a)'
<1>1. NextHub(a) \in Hub
  BY NextHubType
<1>2. CASE \E good \in BOOLEAN : HubDone(a, NextHub(a), good)
  <2>1. run[a].pc \in Cleaning /\ UNCHANGED <<obj, fin, cache, owed, life>>
    BY DEF CleanupLookup, Unregister, CleanupFails, Cleaning
  <2> QED
    BY <1>1, <1>2, <2>1, HubDoneKeeps
<1>3. CASE /\ CleanupLookup(a)
           /\ run' = [run EXCEPT ![a].pc = "unregister"] /\ UNCHANGED cleaned
  BY <1>3
  DEF CleanupLookup, AppInv, Unborn, FirstLife, Owed, TerminatingCopy, LiveCopy, TypeOK, Run,
      Cleaning, Protecting
<1> QED
  BY <1>2, <1>3 DEF CleanupLookup, Unregister, CleanupFails

\* The patch at the end of the cleanup takes away only finalizers whose cleanup
\* completed: the copy knows all that are still there, and what it counts as done
\* was done for this object.
LEMMA ReleaseKeeps ==
  ASSUME TypeOK, NEW a \in App, AppInv(a), Release(a)
  PROVE  AppInv(a)'
<1>1. run'[a].pc = "idle"
  BY DEF Release, NoRun, TypeOK
<1>2. UNCHANGED <<cache, owed, life, cleaned>> /\ run[a].pc \in Cleaning
  BY DEF Release, Cleaning, history
<1>3. CASE UNCHANGED <<obj, fin>>
  BY <1>1, <1>2, <1>3
  DEF AppInv, Unborn, FirstLife, Owed, TerminatingCopy, LiveCopy, Cleaning, Protecting
<1>4. CASE Patchable(a, Remaining(a)) /\ Patched(a, Remaining(a))
  <2>1. life'[a] = 0 => FALSE
    BY <1>2 DEF AppInv, Unborn, Cleaning
  <2>2. SUFFICES ASSUME life[a] <= 1 PROVE FirstLife(a)'
    BY <1>2, <2>1 DEF AppInv, Unborn
  <2>3. /\ obj[a] = "terminating" /\ cache[a].obj # "live"
        /\ fin[a] \subseteq run[a].snap /\ run[a].ok \subseteq cleaned[a]
    BY <1>2, <1>4, <2>2 DEF AppInv, FirstLife, TerminatingCopy, Patchable
  <2>4. fin'[a] = Remaining(a) /\ Remaining(a) \subseteq fin[a]
    BY <1>4, <2>3 DEF Patchable, Patched, TypeOK
  <2>5. fin[a] \ fin'[a] \subseteq cleaned[a]
    BY <2>3, <2>4 DEF Remaining
  <2>6. obj'[a] = IF fin'[a] = {} THEN "absent" ELSE "terminating"
    BY <1>4, <2>3, <2>4 DEF Patched, TypeOK
  <2>7. Owed(a)'
    BY <1>2, <2>2, <2>3, <2>5, <2>6 DEF AppInv, FirstLife, Owed
  <2>8. TerminatingCopy(a)'
    BY <1>1, <1>2, <2>2, <2>3, <2>4, <2>6 DEF AppInv, FirstLife, TerminatingCopy, Cleaning
  <2>9. LiveCopy(a)'
    BY <1>1, <1>2, <2>3 DEF LiveCopy, Protecting
  <2> QED
    BY <2>7, <2>8, <2>9 DEF FirstLife
<1> QED
  BY <1>3, <1>4 DEF Release

\* A hub whose finalizer is in place, not needed, or about to be added.
LEMMA ProtectKeeps ==
  ASSUME TypeOK, NEW a \in App, AppInv(a), Protect(a) \/ ProtectListFails(a)
  PROVE  AppInv(a)'
<1> USE DEF TypeOK, AppInv, Unborn, FirstLife, Owed, TerminatingCopy, LiveCopy, NextHub, history,
            Cleaning, Protecting
<1>1. run[a] \in Run
  OBVIOUS
<1>2. CASE \E h \in Hub : ProtectNext(a, h)
  BY <1>1, <1>2 DEF Protect, ProtectListFails, ProtectNext, NoRun, Run
<1>3. CASE Protect(a) /\ NextHub(a) \notin run[a].snap
             /\ run' = [run EXCEPT ![a].pc = "addfin"]
  BY <1>1, <1>3 DEF Protect, Run
<1> QED
  BY <1>2, <1>3, NextHubType DEF Protect, ProtectListFails

\* The patch of a stale list never takes a finalizer from a terminating object:
\* the API server refuses a new one, and a copy without any lacks just this one.
LEMMA AddFinalizerKeeps ==
  ASSUME TypeOK, NEW a \in App, AppInv(a), AddFinalizer(a)
  PROVE  AppInv(a)'
<1> DEFINE list == run[a].snap \union {NextHub(a)}
<1>1. Patchable(a, list) /\ Patched(a, list) /\ ProtectNext(a, NextHub(a)) /\ run[a].pc = "addfin"
  BY DEF AddFinalizer
<1>2. UNCHANGED <<cache, owed, life, cleaned>>
  BY DEF AddFinalizer, history
<1>3. list \in SUBSET Hub /\ list # {} /\ NextHub(a) \in Hub
  BY NextHubType DEF TypeOK, Run
<1>4. obj' = obj /\ fin'[a] = list
  BY <1>1, <1>3 DEF Patched, TypeOK
<1>5. run[a] \in Run /\ run'[a].pc \in {"idle", "protect"}
      /\ (run'[a].pc = "protect" => run'[a].snap = run[a].snap)
  BY <1>1 DEF ProtectNext, NoRun, Run, TypeOK
<1>6. SUFFICES ASSUME life[a] <= 1 PROVE FirstLife(a)'
  BY <1>1, <1>2, <1>4 DEF AppInv, Unborn
<1>7. FirstLife(a)
  BY <1>6 DEF AppInv
<1>8. list = Hub => run[a].snap # {}
  BY <1>3 DEF Hub
<1>9. ASSUME obj[a] = "terminating" PROVE fin[a] = list
  <2>1. list \subseteq fin[a] /\ fin[a] \subseteq Hub
    BY <1>1, <1>9 DEF Patchable, TypeOK
  <2>2. CASE run[a].snap = {}
    BY <1>1, <1>3, <1>7, <2>1, <2>2 DEF FirstLife, LiveCopy, Protecting, Hub
  <2>3. CASE run[a].snap # {}
    BY <1>1, <1>3, <1>5, <1>7, <2>1, <2>3 DEF FirstLife, LiveCopy, Run, Hub
  <2> QED
    BY <2>2, <2>3
<1>10. Owed(a)'
  BY <1>2, <1>4, <1>7, <1>9 DEF FirstLife, Owed
<1>11. TerminatingCopy(a)'
  BY <1>2, <1>4, <1>5, <1>7, <1>9 DEF FirstLife, TerminatingCopy, Cleaning
<1>12. LiveCopy(a)'
  BY <1>1, <1>2, <1>3, <1>4, <1>5, <1>7, <1>8 DEF FirstLife, LiveCopy, Protecting
<1> QED
  BY <1>10, <1>11, <1>12 DEF FirstLife

LEMMA InitIInv == Init => IInv
<1> SUFFICES ASSUME Init PROVE IInv
  OBVIOUS
<1>1. TypeOK
  BY InitType
<1>2. ASSUME NEW a \in App PROVE AppInv(a)
  BY InitialAssumption
  DEF Init, AppInv, Unborn, FirstLife, Owed, TerminatingCopy, LiveCopy, NoRun, Hub,
      Cleaning, Protecting
<1> QED
  BY <1>1, <1>2 DEF IInv

LEMMA NextIInv == IInv /\ [Next]_vars => IInv'
<1> SUFFICES ASSUME IInv, [Next]_vars PROVE IInv'
  OBVIOUS
<1>1. TypeOK'
  BY NextType DEF IInv
<1>2. ASSUME NEW a \in App, AppAction(a), NEW b \in App PROVE AppInv(b)'
  <2>1. CASE b = a
    BY <1>2, <2>1, WorldKeeps, StartEndKeeps, CleanupKeeps, ReleaseKeeps, ProtectKeeps,
       AddFinalizerKeeps
    DEF IInv, AppAction, AppStep
  <2>2. CASE b # a
    BY <1>2, <2>2, OtherApps, SameKeeps DEF IInv
  <2> QED
    BY <2>1, <2>2
<1>3. ASSUME UNCHANGED appVars /\ UNCHANGED history, NEW b \in App PROVE AppInv(b)'
  BY <1>3, SameKeeps DEF IInv, Same, appVars, history
<1>4. CASE \E a \in App : AppAction(a)
  BY <1>1, <1>2, <1>4 DEF IInv
<1>5. CASE \E h \in Hub : \/ EditHub(h) \/ HubStep(h) \/ SyncSkipsApp(h)
                          \/ SyncCallFails(h) \/ SyncAbort(h)
  <2>1. UNCHANGED appVars /\ UNCHANGED history
    BY <1>5
    DEF EditHub, HubStep, SyncDiscover, SyncList, SyncApply, SyncSkipsApp, SyncCallFails, SyncAbort
  <2> QED
    BY <1>1, <1>3, <2>1 DEF IInv
<1>6. CASE UNCHANGED vars
  BY <1>1, <1>3, <1>6 DEF IInv, vars
<1> QED
  BY <1>4, <1>5, <1>6 DEF Next, AppAction

\* However stale its copies, whichever calls fail and whenever the operator
\* crashes: the first object of a name does not disappear before the cleanup
\* behind every finalizer it held at its deletion has completed.
THEOREM CleanupBeforeGone == Spec => []OwedCleanupDone
<1>1. IInv => OwedCleanupDone
  BY DEF IInv, AppInv, FirstLife, Owed, OwedCleanupDone
<1> QED
  BY <1>1, InitIInv, NextIInv, PTL DEF Spec

-----------------------------------------------------------------------------
(* The contract: Registration implements Membership.  What a hub lists it  *)
(* serves, what a pass holds belongs to the phase it is in, and no cleanup *)
(* has been completed for an app that is live.                             *)

SyncInv(h) ==
  /\ reg[h] \subseteq Serves[h]
  /\ sync[h].found \union sync[h].add \subseteq Serves[h]
  /\ sync[h].pc # "apply" => sync[h].add = {} /\ sync[h].remove = {}
  /\ sync[h].pc # "list" => sync[h].found = {}

LiveUncleaned(a) == obj[a] = "live" => cleaned[a] = {}

CInv == IInv /\ (\A h \in Hub : SyncInv(h)) /\ (\A a \in App : LiveUncleaned(a))

MembershipStep == [Promised!Next]_(Promised!vars)

\* What the contract does not see.
LEMMA Unobserved ==
  ASSUME UNCHANGED <<obj, reg, hub, sync, life, owed, cleaned>>
  PROVE  MembershipStep
BY DEF MembershipStep, Promised!vars, Promised!apps, Promised!passes,
       Used, Again, On, Due, Seen, Unseen

\* The contract sees a sync only through these.
LEMMA SameSync == sync' = sync => Seen' = Seen /\ Unseen' = Unseen
BY DEF Seen, Unseen

LEMMA SameLife == life' = life => Used' = Used /\ Again' = Again
BY DEF Used, Again

LEMMA SameHub == hub' = hub => On' = On
BY DEF On

LEMMA SameDue == UNCHANGED <<owed, cleaned>> => Due' = Due
BY DEF Due

\* Users create and delete apps, and switch hubs on and off.
LEMMA EditsPromised ==
  ASSUME CInv, NEW a \in App, CreateApp(a) \/ DeleteApp(a)
  PROVE  MembershipStep
<1> USE DEF CInv, IInv, TypeOK
<1>1. CASE CreateApp(a)
  <2>1. Used' = Used \union {a} /\ Again' = Again \union (Used \cap {a})
    BY <1>1 DEF CreateApp, Used, Again
  <2>2. Due' = [Due EXCEPT ![a] = {}]
    BY <1>1 DEF CreateApp, Due
  <2>3. Promised!Create(a)
    BY <1>1, <2>1, <2>2, SameSync, SameHub DEF CreateApp, hubVars, Promised!Create, Promised!passes
  <2> QED
    BY <2>3 DEF MembershipStep, Promised!Next
<1>2. CASE DeleteApp(a)
  <2>1. Due' = [Due EXCEPT ![a] = fin[a]]
    BY <1>2 DEF DeleteApp, Due, LiveUncleaned
  <2>2. fin[a] \in SUBSET Hub
    OBVIOUS
  <2>3. Promised!Delete(a, fin[a])
    BY <1>2, <2>1, SameSync, SameHub, SameLife
    DEF DeleteApp, hubVars, Promised!Delete, Promised!passes
  <2> QED
    BY <2>2, <2>3 DEF MembershipStep, Promised!Next
<1> QED
  BY <1>1, <1>2

LEMMA SwitchPromised ==
  ASSUME NEW h \in Hub, EditHub(h)
  PROVE  MembershipStep
<1>1. Promised!Switch(On') /\ On' \in SUBSET Hub
  BY SameSync, SameLife, SameDue
  DEF EditHub, appVars, history, On, Promised!Switch, Promised!apps, Promised!passes
<1> QED
  BY <1>1 DEF MembershipStep, Promised!Next

\* A reconcile in its cleanup is not of a live object, unless of a later one of the name.
LEMMA CleanupOfDeleted ==
  ASSUME CInv, NEW a \in App, run[a].pc \in Cleaning, obj[a] = "live"
  PROVE  a \in Again
<1>1. life[a] \in 0..2 /\ AppInv(a)
  BY DEF CInv, IInv, TypeOK
<1> QED
  BY <1>1 DEF AppInv, Unborn, FirstLife, TerminatingCopy, Again, Cleaning

\* A hub dealt with, and what became of the registration there.
LEMMA HubDonePromised ==
  ASSUME CInv, NEW a \in App, run[a].pc \in Cleaning,
         NEW h \in Hub, NEW good \in BOOLEAN, HubDone(a, h, good),
         UNCHANGED <<obj, hub, sync, owed, life>>,
         reg' \in {reg, [reg EXCEPT ![h] = @ \ {a}]},
         good => a \notin reg'[h] \/ hub[h] # "on"
  PROVE  MembershipStep
<1>1. obj[a] = "live" => a \in Again
  BY CleanupOfDeleted
<1>2. \/ Due' = Due
      \/ (a \notin reg'[h] \/ h \notin On) /\ Due' = [Due EXCEPT ![a] = @ \ {h}]
  <2>1. CASE good /\ obj[a] = "terminating"
    <3>1. cleaned' = [cleaned EXCEPT ![a] = @ \union {h}]
      BY <2>1 DEF HubDone
    <3>2. Due' = [Due EXCEPT ![a] = @ \ {h}]
      BY <3>1 DEF Due, CInv, IInv, TypeOK
    <3> QED
      BY <2>1, <3>2 DEF On
  <2>2. CASE ~(good /\ obj[a] = "terminating")
    BY <2>2, SameDue DEF HubDone
  <2> QED
    BY <2>1, <2>2
<1>3. Promised!CleanUp(a, h)
  BY <1>1, <1>2, SameSync, SameHub, SameLife DEF Promised!CleanUp, Promised!apps, Promised!passes
<1> QED
  BY <1>3 DEF MembershipStep, Promised!Next

LEMMA CleanupPromised ==
  ASSUME CInv, NEW a \in App, CleanupLookup(a) \/ Unregister(a) \/ CleanupFails(a)
  PROVE  MembershipStep
<1> DEFINE h == NextHub(a)
<1>1. h \in Hub
  BY NextHubType
<1>2. run[a].pc \in Cleaning /\ UNCHANGED <<obj, hub, sync, owed, life>>
  BY DEF CleanupLookup, Unregister, CleanupFails, Cleaning, hubVars
<1>3. reg \in [Hub -> SUBSET App] /\ SyncInv(h)
  BY <1>1 DEF CInv, IInv, TypeOK
<1> HIDE DEF h
<1>4. CASE CleanupLookup(a)
  <2>1. CASE hub[h] = "on" /\ Registered(a, h)
    BY <1>2, <1>4, <2>1, Unobserved DEF CleanupLookup, h
  <2>2. CASE ~(hub[h] = "on" /\ Registered(a, h))
    <3>1. HubDone(a, h, TRUE) /\ reg' = reg
      BY <1>4, <2>2 DEF CleanupLookup, h
    <3>2. a \notin reg'[h] \/ hub[h] # "on"
      BY <1>3, <2>2, <3>1 DEF Registered, SyncInv
    <3> QED
      BY <1>1, <1>2, <3>1, <3>2, HubDonePromised
  <2> QED
    BY <2>1, <2>2
<1>5. CASE Unregister(a)
  <2>1. HubDone(a, h, TRUE) /\ reg' = [reg EXCEPT ![h] = @ \ {a}]
    BY <1>5 DEF Unregister, h
  <2>2. a \notin reg'[h]
    BY <1>1, <1>3, <2>1
  <2> QED
    BY <1>1, <1>2, <2>1, <2>2, HubDonePromised
<1>6. CASE CleanupFails(a)
  <2>1. HubDone(a, h, FALSE) /\ reg' \in {reg, [reg EXCEPT ![h] = @ \ {a}]}
    BY <1>6 DEF CleanupFails, h
  <2> QED
    BY <1>1, <1>2, <2>1, HubDonePromised
<1> QED
  BY <1>4, <1>5, <1>6

\* The patch that takes the last finalizer away: nothing is owed, by the invariant of
\* the object that is gone.
LEMMA ReleasePromised ==
  ASSUME CInv, CInv', NEW a \in App, Release(a)
  PROVE  MembershipStep
<1>1. UNCHANGED <<reg, hub, sync, life, owed, cleaned>>
  BY DEF Release, hubVars, history
<1>2. CASE obj' = obj
  BY <1>1, <1>2, Unobserved
<1>3. CASE obj' # obj
  <2>1. obj[a] = "terminating" /\ obj' = [obj EXCEPT ![a] = "absent"]
    BY <1>3 DEF Release, Patched
  <2>2. obj'[a] = "absent" /\ life[a] \in 0..2 /\ AppInv(a)'
    BY <2>1 DEF CInv, IInv, TypeOK
  <2>3. life[a] <= 1 => owed[a] \subseteq cleaned[a]
    BY <1>1, <2>2 DEF AppInv, FirstLife, Owed
  <2>4. Due[a] = {} \/ a \in Again
    BY <2>2, <2>3 DEF Due, Again
  <2>5. Promised!Vanish(a)
    BY <1>1, <2>1, <2>4, SameSync, SameHub, SameLife, SameDue
    DEF Promised!Vanish, Promised!passes
  <2> QED
    BY <2>5 DEF MembershipStep, Promised!Next
<1> QED
  BY <1>2, <1>3

\* The rest of what an app's reconcile does.
LEMMA OthersPromised ==
  ASSUME CInv, NEW a \in App,
         \/ Deliver(a) \/ OwnedEvent(a) \/ Start(a) \/ PatchRefused(a) \/ Protect(a)
         \/ AddFinalizer(a) \/ ProtectListFails(a) \/ Abort(a)
  PROVE  MembershipStep
<1>1. UNCHANGED <<reg, hub, sync, life, owed, cleaned>>
  BY DEF Deliver, OwnedEvent, Start, PatchRefused, Protect, AddFinalizer, ProtectListFails,
         Abort, hubVars, history
<1>2. obj' = obj
  BY DEF Deliver, OwnedEvent, Start, PatchRefused, Protect, AddFinalizer, ProtectListFails,
         Abort, Patched
<1> QED
  BY <1>1, <1>2, Unobserved

\* A sync that moves on, as the contract sees it.
LEMMA NextSync ==
  ASSUME TypeOK, NEW h \in Hub, NEW s \in Sync, sync' = [sync EXCEPT ![h] = s]
  PROVE  /\ Seen' = [Seen EXCEPT ![h] = s.found \union s.add]
         /\ Unseen' = [Unseen EXCEPT ![h] =
              IF s.pc # "list" THEN s.remove ELSE IF AutoRemove[h] THEN App \ s.found ELSE {}]
<1> DEFINE may == IF s.pc # "list" THEN s.remove ELSE IF AutoRemove[h] THEN App \ s.found ELSE {}
<1>1. \A k \in Hub : sync'[k] = IF k = h THEN s ELSE sync[k]
  BY DEF TypeOK
<1>2. Seen' = [Seen EXCEPT ![h] = s.found \union s.add]
  BY <1>1 DEF Seen
<1>3. \A k \in Hub : Unseen'[k] = IF k = h THEN may ELSE Unseen[k]
  BY <1>1 DEF Unseen
<1>4. Unseen = [k \in Hub |-> Unseen[k]] /\ Unseen' = [k \in Hub |-> Unseen'[k]]
  BY DEF Unseen
<1> HIDE DEF may
<1>5. Unseen' = [Unseen EXCEPT ![h] = may]
  BY <1>3, <1>4
<1> QED
  BY <1>2, <1>5 DEF may

LEMMA RestFields ==
  ASSUME NEW add, NEW remove
  PROVE  /\ SyncRest(add, remove).found = {}
         /\ SyncRest(add, remove).add = add /\ SyncRest(add, remove).remove = remove
         /\ SyncRest(add, remove).pc \in {"idle", "apply"}
         /\ SyncRest(add, remove).pc = "idle" => add \union remove = {}
BY DEF SyncRest, NoSync

\* A pass finds apps that exist.
LEMMA DiscoverPromised ==
  ASSUME CInv, NEW h \in Hub, NEW found \in SUBSET Discoverable(h), Discover(h, found),
         UNCHANGED <<obj, hub, reg, life, owed, cleaned>>
  PROVE  MembershipStep /\ SyncInv(h)'
<1> DEFINE s == [NoSync EXCEPT !.pc = "list", !.found = found]
<1>1. found \in SUBSET Serves[h] /\ found \in SUBSET App
  BY ServesAssumption DEF Discoverable
<1>2. s \in Sync /\ s.pc = "list" /\ s.found = found /\ s.add = {} /\ s.remove = {}
  BY <1>1 DEF NoSync, Sync
<1>3. sync' = [sync EXCEPT ![h] = s] /\ h \in On
  BY DEF Discover, On
<1> HIDE DEF s
<1>4. /\ Seen' = [Seen EXCEPT ![h] = found]
      /\ Unseen' = [Unseen EXCEPT ![h] = IF AutoRemove[h] THEN App \ found ELSE {}]
  <2>1. s.found \union s.add = found
    BY <1>2
  <2>2. (IF s.pc # "list" THEN s.remove ELSE IF AutoRemove[h] THEN App \ s.found ELSE {})
          = IF AutoRemove[h] THEN App \ found ELSE {}
    BY <1>2
  <2>3. /\ Seen' = [Seen EXCEPT ![h] = s.found \union s.add]
        /\ Unseen' = [Unseen EXCEPT ![h] =
             IF s.pc # "list" THEN s.remove ELSE IF AutoRemove[h] THEN App \ s.found ELSE {}]
    BY <1>2, <1>3, NextSync DEF CInv, IInv
  <2> QED
    BY <2>1, <2>2, <2>3
<1>5. Promised!Find(h, found)
  BY <1>1, <1>3, <1>4, SameHub, SameLife, SameDue
  DEF Discoverable, Promised!Find, Promised!apps
<1>6. MembershipStep
  BY <1>1, <1>5 DEF MembershipStep, Promised!Next
<1>7. SyncInv(h)'
  <2>1. sync'[h] = s /\ reg' = reg
    BY <1>3 DEF CInv, IInv, TypeOK
  <2> QED
    BY <1>1, <1>2, <2>1 DEF CInv, SyncInv
<1> QED
  BY <1>6, <1>7

\* It lists what is registered, and keeps a part of what it found and of the rest.
LEMMA ListPromised ==
  ASSUME CInv, NEW h \in Hub, SyncList(h)
  PROVE  MembershipStep /\ SyncInv(h)'
<1> DEFINE add == sync[h].found \ reg[h]
           remove == Stale(h)
           s == SyncRest(add, remove)
<1>1. sync[h] \in Sync /\ reg[h] \in SUBSET App /\ SyncInv(h)
  BY DEF CInv, IInv, TypeOK
<1>2. add \in SUBSET App /\ remove \in SUBSET App
  BY <1>1 DEF Stale, Sync
<1>3. /\ s \in Sync /\ s.found = {} /\ s.add = add /\ s.remove = remove
      /\ s.pc \in {"idle", "apply"} /\ (s.pc = "idle" => add \union remove = {})
  BY <1>2, SyncRestType, RestFields
<1>4. sync' = [sync EXCEPT ![h] = s] /\ UNCHANGED <<obj, hub, reg, life, owed, cleaned>>
  BY DEF SyncList, appVars, history
<1>5. add \subseteq Seen[h] /\ remove \subseteq Unseen[h]
  BY <1>1 DEF SyncList, Stale, Seen, Unseen
<1>6. add \subseteq Serves[h]
  BY <1>1 DEF SyncInv
<1> HIDE DEF add, remove, s
<1>7. Seen' = [Seen EXCEPT ![h] = add] /\ Unseen' = [Unseen EXCEPT ![h] = remove]
  <2>1. {} \union s.add = add /\ s.pc # "list"
    BY <1>3
  <2> QED
    BY <1>3, <1>4, <2>1, NextSync DEF CInv, IInv
<1>8. Promised!Narrow(h, add, remove)
  BY <1>4, <1>5, <1>7, SameHub, SameLife, SameDue DEF Promised!Narrow, Promised!apps
<1>9. MembershipStep
  BY <1>2, <1>8 DEF MembershipStep, Promised!Next
<1>10. SyncInv(h)'
  <2>1. sync'[h] = s /\ reg' = reg
    BY <1>4 DEF CInv, IInv, TypeOK
  <2> QED
    BY <1>1, <1>3, <1>6, <2>1 DEF SyncInv
<1> QED
  BY <1>9, <1>10

\* It registers or unregisters one app, or the call fails and it goes on.
LEMMA CallPromised ==
  ASSUME CInv, NEW h \in Hub, NEW done \in BOOLEAN, SyncCall(h, done),
         UNCHANGED <<obj, hub, life, owed, cleaned>>
  PROVE  MembershipStep /\ SyncInv(h)'
<1>1. sync[h] \in Sync /\ sync[h].pc = "apply" /\ SyncInv(h) /\ reg \in [Hub -> SUBSET App]
  BY DEF CInv, IInv, TypeOK, SyncCall
<1>2. sync[h].found = {} /\ Seen[h] = sync[h].add /\ Unseen[h] = sync[h].remove
  BY <1>1 DEF SyncInv, Seen, Unseen
<1>3. ASSUME NEW add \in SUBSET sync[h].add, NEW remove \in SUBSET sync[h].remove,
             sync' = [sync EXCEPT ![h] = SyncRest(add, remove)],
             reg'[h] \subseteq reg[h] \union sync[h].add
      PROVE  /\ Seen' = [Seen EXCEPT ![h] = add] /\ Unseen' = [Unseen EXCEPT ![h] = remove]
             /\ SyncInv(h)'
  <2> DEFINE s == SyncRest(add, remove)
  <2>1. add \in SUBSET App /\ remove \in SUBSET App
    BY <1>1 DEF Sync
  <2>2. /\ s \in Sync /\ s.found = {} /\ s.add = add /\ s.remove = remove
        /\ s.pc \in {"idle", "apply"} /\ (s.pc = "idle" => add \union remove = {})
    BY <2>1, SyncRestType, RestFields
  <2>3. sync' = [sync EXCEPT ![h] = s] /\ sync'[h] = s
    BY <1>3 DEF CInv, IInv, TypeOK
  <2> HIDE DEF s
  <2>4. {} \union s.add = add /\ s.pc # "list"
    BY <2>2
  <2>5. Seen' = [Seen EXCEPT ![h] = add] /\ Unseen' = [Unseen EXCEPT ![h] = remove]
    BY <2>2, <2>3, <2>4, NextSync DEF CInv, IInv
  <2>6. SyncInv(h)'
    BY <1>1, <1>3, <2>2, <2>3 DEF SyncInv
  <2> QED
    BY <2>5, <2>6
<1>4. ASSUME NEW add \in SUBSET sync[h].add, NEW remove \in SUBSET sync[h].remove,
             sync' = [sync EXCEPT ![h] = SyncRest(add, remove)], reg' = reg
      PROVE  MembershipStep /\ SyncInv(h)'
  <2>1. /\ Seen' = [Seen EXCEPT ![h] = add] /\ Unseen' = [Unseen EXCEPT ![h] = remove]
        /\ SyncInv(h)'
    BY <1>3, <1>4
  <2>2. add \subseteq Seen[h] /\ remove \subseteq Unseen[h]
    BY <1>2
  <2>3. Promised!Narrow(h, add, remove)
    BY <1>4, <2>1, <2>2, SameHub, SameLife, SameDue DEF Promised!Narrow, Promised!apps
  <2>4. add \in SUBSET App /\ remove \in SUBSET App
    BY <1>1 DEF Sync
  <2> QED
    BY <2>1, <2>3, <2>4 DEF MembershipStep, Promised!Next
<1>5. ASSUME NEW a \in sync[h].add,
             sync' = [sync EXCEPT ![h] = SyncRest(sync[h].add \ {a}, sync[h].remove)],
             reg' = [reg EXCEPT ![h] = @ \union {a}]
      PROVE  MembershipStep /\ SyncInv(h)'
  <2>1. reg'[h] = reg[h] \union {a} /\ a \in App
    BY <1>1, <1>5 DEF Sync
  <2>2. /\ Seen' = [Seen EXCEPT ![h] = sync[h].add \ {a}]
        /\ Unseen' = [Unseen EXCEPT ![h] = sync[h].remove]
        /\ SyncInv(h)'
    BY <1>3, <1>5, <2>1
  <2>3. Unseen' = Unseen /\ Seen' = [Seen EXCEPT ![h] = @ \ {a}]
    BY <1>2, <2>2 DEF Seen, Unseen
  <2>4. Promised!Register(h, a)
    BY <1>2, <1>5, <2>3, SameHub, SameLife, SameDue DEF Promised!Register, Promised!apps
  <2> QED
    BY <2>1, <2>2, <2>4 DEF MembershipStep, Promised!Next
<1>6. ASSUME NEW a \in sync[h].remove, sync[h].add = {},
             sync' = [sync EXCEPT ![h] = SyncRest({}, sync[h].remove \ {a})],
             reg' = [reg EXCEPT ![h] = @ \ {a}]
      PROVE  MembershipStep /\ SyncInv(h)'
  <2>1. reg'[h] = reg[h] \ {a} /\ a \in App
    BY <1>1, <1>6 DEF Sync
  <2>2. /\ Seen' = [Seen EXCEPT ![h] = {}]
        /\ Unseen' = [Unseen EXCEPT ![h] = sync[h].remove \ {a}]
        /\ SyncInv(h)'
    BY <1>3, <1>6, <2>1
  <2>3. Seen' = Seen /\ Unseen' = [Unseen EXCEPT ![h] = @ \ {a}]
    <3>1. Seen[h] = {} /\ Seen = [k \in Hub |-> Seen[k]]
      BY <1>2, <1>6 DEF Seen
    <3>2. Seen' = Seen
      BY <2>2, <3>1
    <3> QED
      BY <1>2, <2>2, <3>2
  <2>4. Promised!Purge(h, a)
    BY <1>2, <1>6, <2>3, SameHub, SameLife, SameDue DEF Promised!Purge, Promised!apps
  <2> QED
    BY <2>1, <2>2, <2>4 DEF MembershipStep, Promised!Next
<1>7. PICK a \in App :
        \/ /\ a \in sync[h].add
           /\ sync' = [sync EXCEPT ![h] = SyncRest(sync[h].add \ {a}, sync[h].remove)]
           /\ reg' = IF done THEN [reg EXCEPT ![h] = @ \union {a}] ELSE reg
        \/ /\ sync[h].add = {} /\ a \in sync[h].remove
           /\ sync' = [sync EXCEPT ![h] = SyncRest({}, sync[h].remove \ {a})]
           /\ reg' = IF done THEN [reg EXCEPT ![h] = @ \ {a}] ELSE reg
  BY DEF SyncCall, CInv, IInv, TypeOK
<1> QED
  BY <1>4, <1>5, <1>6, <1>7

\* Whatever a hub's sync does, also one that is cut short.
LEMMA HubPromised ==
  ASSUME CInv, NEW h \in Hub, HubStep(h) \/ SyncSkipsApp(h) \/ SyncCallFails(h) \/ SyncAbort(h)
  PROVE  MembershipStep /\ SyncInv(h)'
<1> USE DEF appVars, history
<1>1. CASE SyncDiscover(h)
  BY <1>1, DiscoverPromised DEF SyncDiscover
<1>2. CASE SyncSkipsApp(h)
  <2>1. PICK skipped \in SUBSET Discoverable(h) : Discover(h, Discoverable(h) \ skipped)
    BY <1>2 DEF SyncSkipsApp
  <2> QED
    BY <1>2, <2>1, DiscoverPromised DEF SyncSkipsApp
<1>3. CASE SyncList(h)
  BY <1>3, ListPromised
<1>4. CASE SyncApply(h)
  BY <1>4, CallPromised DEF SyncApply
<1>5. CASE SyncCallFails(h)
  BY <1>5, CallPromised DEF SyncCallFails
<1>6. CASE SyncAbort(h)
  <2>1. sync' = [sync EXCEPT ![h] = NoSync] /\ UNCHANGED <<obj, hub, reg, life, owed, cleaned>>
    BY <1>6 DEF SyncAbort
  <2>2. /\ NoSync \in Sync /\ NoSync.pc = "idle"
        /\ NoSync.found = {} /\ NoSync.add = {} /\ NoSync.remove = {}
    BY DEF NoSync, Sync
  <2>3. Seen' = [Seen EXCEPT ![h] = {} \union {}] /\ Unseen' = [Unseen EXCEPT ![h] = {}]
    BY <2>1, <2>2, NextSync DEF CInv, IInv
  <2>4. Promised!Narrow(h, {}, {})
    BY <2>1, <2>3, SameHub, SameLife, SameDue DEF Promised!Narrow, Promised!apps
  <2>5. SyncInv(h)'
    BY <2>1, <2>2 DEF CInv, IInv, TypeOK, SyncInv
  <2> QED
    BY <2>4, <2>5 DEF MembershipStep, Promised!Next
<1> QED
  BY <1>1, <1>2, <1>3, <1>4, <1>5, <1>6 DEF HubStep

LEMMA AppUncleaned ==
  ASSUME CInv, NEW a \in App, AppAction(a), NEW b \in App
  PROVE  LiveUncleaned(b)'
<1>1. CASE b # a
  BY <1>1, OtherApps DEF CInv, IInv, LiveUncleaned, Same
<1>2. CASE b = a
  <2> SUFFICES LiveUncleaned(a)'
    BY <1>2 DEF LiveUncleaned
  <2>1. ASSUME obj' = obj, NEW h \in Hub, NEW good \in BOOLEAN, HubDone(a, h, good)
        PROVE  LiveUncleaned(a)'
    BY <2>1 DEF HubDone, CInv, LiveUncleaned
  <2>2. CASE CleanupLookup(a) \/ Unregister(a) \/ CleanupFails(a)
    <3>1. obj' = obj /\ (cleaned' = cleaned \/ \E good \in BOOLEAN : HubDone(a, NextHub(a), good))
      BY <2>2 DEF CleanupLookup, Unregister, CleanupFails
    <3> QED
      BY <2>1, <3>1, NextHubType DEF CInv, LiveUncleaned
  <2>3. CASE CreateApp(a) \/ DeleteApp(a)
    BY <2>3 DEF CreateApp, DeleteApp, CInv, IInv, TypeOK, LiveUncleaned
  <2>4. CASE Release(a) \/ AddFinalizer(a)
    BY <2>4 DEF Release, AddFinalizer, Patched, history, CInv, IInv, TypeOK, LiveUncleaned
  <2>5. CASE \/ Deliver(a) \/ OwnedEvent(a) \/ Start(a) \/ PatchRefused(a) \/ Protect(a)
             \/ ProtectListFails(a) \/ Abort(a)
    BY <2>5 DEF Deliver, OwnedEvent, Start, PatchRefused, Protect, ProtectListFails, Abort,
                history, CInv, LiveUncleaned
  <2> QED
    BY <2>2, <2>3, <2>4, <2>5 DEF AppAction, AppStep
<1> QED
  BY <1>1, <1>2

\* No step of an app registers anything, and none touches a sync.
LEMMA AppKeepsSync ==
  ASSUME CInv, NEW a \in App, AppAction(a), NEW k \in Hub
  PROVE  SyncInv(k)'
<1>1. sync' = sync
  BY DEF AppAction, AppStep, CreateApp, DeleteApp, Deliver, OwnedEvent, Start, CleanupLookup,
         Unregister, Release, PatchRefused, Protect, AddFinalizer, CleanupFails,
         ProtectListFails, Abort, hubVars
<1>2. reg'[k] \subseteq reg[k]
  <2>1. reg' = reg \/ reg' = [reg EXCEPT ![NextHub(a)] = @ \ {a}]
    BY DEF AppAction, AppStep, CreateApp, DeleteApp, Deliver, OwnedEvent, Start, CleanupLookup,
           Unregister, Release, PatchRefused, Protect, AddFinalizer, CleanupFails,
           ProtectListFails, Abort
  <2> QED
    BY <2>1 DEF CInv, IInv, TypeOK
<1> QED
  BY <1>1, <1>2 DEF CInv, SyncInv

LEMMA InitCInv == Init => CInv /\ Promised!Init
<1> SUFFICES ASSUME Init PROVE CInv /\ Promised!Init
  OBVIOUS
<1>1. CInv
  BY InitIInv DEF Init, CInv, SyncInv, LiveUncleaned, NoSync
<1>2. obj \in [App -> {"absent", "live"}] /\ Used = {a \in App : obj[a] = "live"} /\ Again = {}
  <2>1. \A a \in Existing : obj[a] = "live" /\ life[a] = 1
    BY InitialAssumption DEF Init
  <2>2. \A a \in App \ Existing : obj[a] = "absent" /\ life[a] = 0
    BY DEF Init
  <2>3. obj \in [App -> {"absent", "live"}]
    BY DEF Init
  <2>4. ASSUME NEW a \in App PROVE (life[a] >= 1 <=> obj[a] = "live") /\ life[a] # 2
    <3>1. CASE a \in Existing
      <4>1. obj[a] = "live" /\ life[a] = 1
        BY <2>1, <3>1
      <4> QED
        BY <4>1
    <3>2. CASE a \notin Existing
      <4>1. obj[a] = "absent" /\ life[a] = 0
        BY <2>2, <3>2
      <4> QED
        BY <4>1
    <3> QED
      BY <3>1, <3>2
  <2> QED
    BY <2>3, <2>4 DEF Used, Again
<1>3. On \in SUBSET Hub
  BY DEF On
<1>4. Due = [a \in App |-> {}]
  BY DEF Init, Due
<1>5. Seen = [h \in Hub |-> {}] /\ Unseen = [h \in Hub |-> {}]
  BY DEF Init, NoSync, Seen, Unseen
<1> QED
  BY <1>1, <1>2, <1>3, <1>4, <1>5 DEF Init, Promised!Init

LEMMA NextCInv == CInv /\ [Next]_vars => CInv' /\ MembershipStep
<1> SUFFICES ASSUME CInv, [Next]_vars PROVE CInv' /\ MembershipStep
  OBVIOUS
<1>1. IInv'
  BY NextIInv DEF CInv
<1>2. ASSUME NEW a \in App, AppAction(a) PROVE CInv' /\ MembershipStep
  <2>1. CInv'
    BY <1>1, <1>2, AppUncleaned, AppKeepsSync DEF CInv
  <2> QED
    BY <1>2, <2>1, EditsPromised, CleanupPromised, ReleasePromised, OthersPromised
    DEF AppAction, AppStep
<1>3. ASSUME NEW h \in Hub, HubStep(h) \/ SyncSkipsApp(h) \/ SyncCallFails(h) \/ SyncAbort(h)
      PROVE  CInv' /\ MembershipStep
  <2>1. MembershipStep /\ SyncInv(h)'
    BY <1>3, HubPromised
  <2>2. \A k \in Hub \ {h} : sync'[k] = sync[k] /\ reg'[k] = reg[k]
    BY <1>3
    DEF HubStep, SyncDiscover, SyncList, SyncApply, SyncSkipsApp, SyncCallFails, SyncAbort,
        Discover, SyncCall, CInv, IInv, TypeOK
  <2>3. obj' = obj /\ cleaned' = cleaned
    BY <1>3
    DEF HubStep, SyncDiscover, SyncList, SyncApply, SyncSkipsApp, SyncCallFails, SyncAbort,
        appVars, history
  <2> QED
    BY <1>1, <2>1, <2>2, <2>3 DEF CInv, SyncInv, LiveUncleaned
<1>4. ASSUME NEW h \in Hub, EditHub(h) PROVE CInv' /\ MembershipStep
  <2>1. CInv'
    BY <1>1, <1>4 DEF EditHub, appVars, history, CInv, SyncInv, LiveUncleaned
  <2> QED
    BY <1>4, <2>1, SwitchPromised
<1>5. CASE UNCHANGED vars
  BY <1>1, <1>5, Unobserved DEF vars, appVars, hubVars, history, CInv, SyncInv, LiveUncleaned
<1> QED
  BY <1>2, <1>3, <1>4, <1>5 DEF Next, AppAction

\* Registrations come and go only as Membership allows: every step of the reconciles of
\* apps and hubs, of users, of failures and crashes, is one of its steps or changes
\* nothing that it sees.
THEOREM MembershipKept == Spec => KeepsMembership
BY InitCInv, NextCInv, PTL DEF Spec, KeepsMembership, Promised!Spec, MembershipStep
=============================================================================
