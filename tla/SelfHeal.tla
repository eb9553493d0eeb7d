----------------------------- MODULE SelfHeal -----------------------------
(***************************************************************************)
(* The self-heal pass over the torrents of one Transmission: detect those  *)
(* that report a local data error, let the client verify them, wait for    *)
(* the verify to settle and, with the user's consent, remove those whose   *)
(* data is confirmed gone.  A condition in the app's status says what the  *)
(* pass found, and its timestamp keeps the next pass away for an interval. *)
(*                                                                         *)
(* A timestamp is its age in ticks, up to the interval, or in the future,  *)
(* or corrupt.                                                             *)
(***************************************************************************)
EXTENDS Integers, FiniteSets

CONSTANTS
  Torrents,
  Dirs,
  Layouts,   \* the ways the torrents may lie in the directories
  Slow,      \* torrents whose verify may outlast the poll window
  Interval,  \* apiHealthCheck.intervalSeconds, in ticks
  MaxTroubles, \* bound: edits of the object, failed calls, odd answers, crashes
  MaxEvents    \* bound: these, and losses, outages, repairs and actions of users

ASSUME TorrentAssumption ==
  /\ Layouts \subseteq [Torrents -> Dirs] /\ Slow \subseteq Torrents
  /\ IsFiniteSet(Torrents)
ASSUME IntervalAssumption == Interval \in Nat
ASSUME BoundsAssumption == MaxEvents \in Nat /\ MaxTroubles \in Nat

VARIABLES
  dir,     \* the download directory of each torrent
  spec,    \* spec.apiHealthCheck
  cond,    \* the DownloadDataHealthy condition
  cache,   \* both, as the watch delivered them
  present, \* torrents the client lists
  lost,    \* torrents whose data is gone
  away,    \* directories that are not mounted
  err,     \* torrents that report a local error
  zero,    \* torrents that report no data downloaded
  act,     \* what the client does with a torrent
  queued,  \* torrents whose verify was asked for and has not begun
  r,       \* the running pass
  events, troubles,
  since,   \* history: age of the last pass that asked for a verify
  lagged   \* history: a pass began before the last status was delivered

vars   == <<dir, spec, cond, cache, present, lost, away, err, zero, act, queued, r,
            events, troubles, since, lagged>>
object == <<dir, spec, cond, cache>>
client == <<present, lost, away, err, zero, act, queued>>
bounds == <<events, troubles>>
history == <<since, lagged>>

Corrupt == -2
Future  == -1
Age     == -2..Interval

Condition_ == [status : {"None", "True", "False", "Unknown"}, age : Age]
NoCondition == [status |-> "None", age |-> 0]

ApiHealthCheckSpec == [enabled : BOOLEAN, auto_remove : BOOLEAN]

Pass == [pc       : {"idle", "list", "verify", "poll", "remove", "status"},
         auto     : BOOLEAN,          \* consent, as cached when the pass started
         age      : 0..Interval,      \* of the pass
         next     : Condition_,       \* the condition to write
         stale    : SUBSET Torrents,  \* to be remediated
         checking : SUBSET Torrents,  \* of those, already being verified
         held     : SUBSET Torrents,  \* held back
         nohash   : BOOLEAN,          \* some reported no hash
         pending  : SUBSET Torrents,
         gone     : SUBSET Torrents,  \* confirmed missing
         settled  : SUBSET Torrents,  \* with an error, and with data or unknown
         found    : SUBSET Torrents,  \* history: a verify that ended since then found no data
         outage   : SUBSET Dirs]      \* history: visible outages when it listed

Idle == [pc |-> "idle", auto |-> FALSE, age |-> 0, next |-> NoCondition,
         stale |-> {}, checking |-> {}, held |-> {}, nohash |-> FALSE,
         pending |-> {}, gone |-> {}, settled |-> {},
         found |-> {}, outage |-> {}]

TypeOK ==
  /\ dir \in [Torrents -> Dirs]
  /\ spec \in ApiHealthCheckSpec
  /\ cond \in Condition_
  /\ cache \in [spec : ApiHealthCheckSpec, cond : Condition_]
  /\ present \subseteq Torrents /\ lost \subseteq Torrents /\ away \subseteq Dirs
  /\ err \subseteq Torrents /\ zero \subseteq Torrents
  /\ act \in [Torrents -> {"active", "stopped", "checking"}]
  /\ queued \subseteq Torrents
  /\ r \in Pass
  /\ events \in 0..MaxEvents /\ troubles \in 0..MaxTroubles
  /\ since \in 0..Interval
  /\ lagged \in BOOLEAN

Init ==
  /\ dir \in Layouts
  /\ spec = [enabled |-> TRUE, auto_remove |-> TRUE]
  /\ cond = NoCondition
  /\ cache = [spec |-> spec, cond |-> cond]
  /\ present = Torrents /\ lost = {} /\ away = {}
  /\ err = {} /\ zero = {}
  /\ act = [t \in Torrents |-> "active"]
  /\ queued = {}
  /\ r = Idle
  /\ events = 0 /\ troubles = 0
  /\ since = Interval
  /\ lagged = FALSE

-----------------------------------------------------------------------------
(* Environment: users, the watch, the clock. *)

Trouble ==
  /\ troubles < MaxTroubles /\ events + troubles < MaxEvents
  /\ troubles' = troubles + 1

EditSpec ==
  /\ Trouble
  /\ \E s \in ApiHealthCheckSpec \ {spec} : spec' = s
  /\ UNCHANGED <<dir, cond, cache, client, r, events, history>>

\* Somebody writes the condition's timestamp, or the clock was set back.
EditTimestamp ==
  /\ Trouble
  /\ cond.status # "None"
  /\ \E age \in {Corrupt, Future} : cond' = [cond EXCEPT !.age = age]
  /\ UNCHANGED <<dir, spec, cache, client, r, events, history>>

Deliver ==
  /\ cache' = [spec |-> spec, cond |-> cond]
  /\ UNCHANGED <<dir, spec, cond, client, r, bounds, history>>

\* A timestamp in the future is reached in the end; one that does not parse is not.
Older(age) == IF age < Interval THEN age + 1 ELSE age

Aged(c) ==
  IF c.status = "None" \/ c.age = Corrupt THEN c ELSE [c EXCEPT !.age = Older(@)]

Tick ==
  /\ cond' = Aged(cond)
  /\ cache' = [cache EXCEPT !.cond = Aged(@)]
  /\ r' = [r EXCEPT !.age = IF r.pc = "idle" THEN 0 ELSE Older(@), !.next = Aged(@)]
  /\ since' = Older(since)
  /\ UNCHANGED <<dir, spec, client, bounds, lagged>>

-----------------------------------------------------------------------------
(* Environment: the torrents, their data and the client. *)

Event == events + troubles < MaxEvents /\ events' = events + 1

Unreadable(t) == t \in lost \/ dir[t] \in away

\* Data is deleted or put back, a directory is unmounted or mounted.
DataMoves ==
  /\ Event
  /\ \/ /\ \E t \in Torrents : lost' = (lost \ {t}) \union ({t} \ lost)
        /\ UNCHANGED away
     \/ /\ \E d \in Dirs : away' = (away \ {d}) \union ({d} \ away)
        /\ UNCHANGED lost
  /\ UNCHANGED <<object, present, err, zero, act, queued, r, troubles, history>>

\* A user stops, resumes or removes a torrent.
UserActs ==
  /\ Event
  /\ \E t \in present :
       \/ /\ act[t] = "active" /\ act' = [act EXCEPT ![t] = "stopped"]
          /\ UNCHANGED <<present, err>>
       \/ /\ act[t] = "stopped" /\ act' = [act EXCEPT ![t] = "active"]
          /\ err' = err \ {t}
          /\ UNCHANGED present
       \/ present' = present \ {t} /\ UNCHANGED <<act, err>>
  /\ UNCHANGED <<object, lost, away, zero, queued, r, troubles, history>>

\* The client notices that an active torrent has no data; it stops it, and goes on
\* to report what had been downloaded.
Notice(t) ==
  /\ t \in present /\ act[t] = "active" /\ Unreadable(t)
  /\ err' = err \union {t}
  /\ act' = [act EXCEPT ![t] = "stopped"]
  /\ UNCHANGED <<object, present, lost, away, zero, queued, r, bounds, history>>

\* A verify begins some time after it was asked for, and may clear the error.
VerifyBegins(t) ==
  /\ t \in queued
  /\ queued' = queued \ {t}
  /\ act' = [act EXCEPT ![t] = "checking"]
  /\ err' \in {err, err \ {t}}
  /\ UNCHANGED <<object, present, lost, away, zero, r, bounds, history>>

\* It ends with no data, with the data, or with an error that left data on disk.
VerifyEnds(t) ==
  /\ act[t] = "checking" /\ t \notin queued
  /\ act' = [act EXCEPT ![t] = "stopped"]
  /\ \/ Unreadable(t) /\ err' = err \union {t} /\ zero' = zero \union {t}
     \/ ~Unreadable(t) /\ err' \in {err \ {t}, err \union {t}} /\ zero' = zero \ {t}
  /\ r' = IF r.pc \in {"verify", "poll", "remove"} /\ Unreadable(t)
          THEN [r EXCEPT !.found = @ \union {t}]
          ELSE r
  /\ UNCHANGED <<object, present, lost, away, queued, bounds, history>>

-----------------------------------------------------------------------------
(* The pass. *)

TroubleUnless(normal) == IF normal THEN UNCHANGED troubles ELSE Trouble

\* Mutant: a corrupt timestamp is kept with the condition.
KeptCorrupt(c) == c

\* The condition of a pass that is skipped, with a corrupt timestamp repaired.
Kept(c) == IF c.age = Corrupt THEN [c EXCEPT !.age = 0] ELSE c

\* The pass waits for the interval whatever the status; a timestamp in the future
\* does not hold it back, one that does not parse does.
Throttled(c) == c.status # "None" /\ (c.age = Corrupt \/ c.age \in 0..(Interval - 1))

Begin ==
  /\ r.pc = "idle"
  /\ \/ /\ ~cache.spec.enabled
        /\ r' = [Idle EXCEPT !.pc = "status"]
     \/ /\ cache.spec.enabled /\ Throttled(cache.cond)
        /\ r' = [Idle EXCEPT !.pc = "status", !.next = Kept(cache.cond)]
     \/ /\ cache.spec.enabled /\ ~Throttled(cache.cond)
        /\ r' = [Idle EXCEPT !.pc = "list", !.auto = cache.spec.auto_remove]
  /\ lagged' = (lagged \/ cache.cond # cond)
  /\ UNCHANGED <<object, client, bounds, since>>

\* Mutant: two torrents that fail together are taken for two losses.
MinTorrentsForDirCheck3 == 3

\* Mutant: a torrent alone in its directory is taken for a directory that fails.
MinTorrentsForDirCheck1 == 1

MinTorrentsForDirCheck == 2

IdleStopped(t) == act[t] = "stopped" /\ t \notin err

\* Directories all of whose torrents that are not idle report an error.
UnavailableDirs ==
  {d \in Dirs : LET counted == {t \in present : dir[t] = d /\ ~IdleStopped(t)}
                IN /\ Cardinality(counted) >= MinTorrentsForDirCheck
                   /\ counted \subseteq err}

\* The rest of the pass, once the torrents were listed.
Listed(stale, held, nohash) ==
  LET checking == {t \in stale : act[t] = "checking"}
  IN [r EXCEPT !.pc = IF stale = checking THEN "status" ELSE "verify",
               !.stale = stale, !.checking = checking, !.held = held,
               !.nohash = nohash, !.pending = checking,
               !.outage = {d \in away : LET counted == {t \in present :
                                                          dir[t] = d /\ ~IdleStopped(t)}
                                        IN Cardinality(counted) > 1 /\ counted \subseteq err}]

\* Mutant: the condition keeps its time while its status stays what it was.
TimeOfTransition(p, status) == IF cache.cond.status = status THEN cache.cond.age ELSE p.age

\* A pass writes the time it started at, whatever it found.
TimeOf(p, status) == p.age

Verdict(p) ==
  IF p.held \union p.pending \union p.gone \union p.settled # {} THEN "False"
  ELSE IF p.nohash THEN "Unknown"
  ELSE "True"

Written(p, status) ==
  [Idle EXCEPT !.pc = "status", !.next = [status |-> status, age |-> TimeOf(p, status)]]

Closed(p) == IF p.pc = "status" THEN Written(p, Verdict(p)) ELSE p

\* Mutant: only torrents that already report no progress are looked at.
MissingDataAtZero == present \intersect err \intersect zero

MissingData == present \intersect err

ListTorrents ==
  /\ r.pc = "list"
  /\ LET failing == MissingData
         held    == {t \in failing : dir[t] \in UnavailableDirs}
     IN \E nohash \in SUBSET (failing \ held) :
          /\ TroubleUnless(nohash = {})
          /\ r' = Closed(Listed(failing \ (held \union nohash), held, nohash # {}))
  /\ UNCHANGED <<object, client, events, history>>

\* No client, no complete credentials, or the call failed.
ListFails ==
  /\ r.pc = "list" /\ Trouble
  /\ r' = Written(r, "Unknown")
  /\ UNCHANGED <<object, client, events, history>>

Batch == r.stale \ r.checking

VerifyTorrents ==
  /\ r.pc = "verify"
  /\ queued' = queued \union (Batch \intersect present)
  /\ r' = [r EXCEPT !.pc = "poll"]
  /\ since' = r.age
  /\ UNCHANGED <<object, present, lost, away, err, zero, act, bounds, lagged>>

\* The torrents of a pass in which a call failed stay pending, which the condition
\* does not say: the failed call wins.
RpcFailed == Written(r, "Unknown")

VerifyFails ==
  /\ r.pc = "verify" /\ Trouble
  /\ queued' \in {queued, queued \union (Batch \intersect present)}
  /\ r' = RpcFailed
  /\ UNCHANGED <<object, present, lost, away, err, zero, act, events, history>>

\* Mutant: the first poll does not wait for the verify to begin.
BegunAtOnce == TRUE

\* The sleep before the first poll gave the verify the time to begin.
Begun == Batch \intersect present \intersect queued = {}

StillChecking == {t \in Batch \intersect present : act[t] = "checking"}

ConfirmedMissing(t) == t \in err \intersect zero

\* All of the batch has settled: one answer is read for all of it.  An answer may
\* lack the progress of some.
Settle ==
  /\ r.pc = "poll" /\ Begun /\ StillChecking = {}
  /\ \E unknown \in SUBSET (Batch \intersect present \intersect err) :
       /\ TroubleUnless(unknown = {})
       /\ LET failing == Batch \intersect present \intersect err
              gone    == {t \in failing \ unknown : ConfirmedMissing(t)}
          IN r' = Closed([r EXCEPT
                    !.pc      = IF r.auto /\ gone # {} THEN "remove" ELSE "status",
                    !.gone    = gone,
                    !.settled = failing \ gone,
                    !.pending = r.checking \union (Batch \ present)])
  /\ UNCHANGED <<object, client, events, history>>

\* The poll window is used up: nothing of the batch counts as settled.
PollGivesUp ==
  /\ r.pc = "poll" /\ StillChecking # {}
  /\ TroubleUnless(StillChecking \intersect Slow # {})
  /\ r' = Closed([r EXCEPT !.pc = "status", !.pending = r.stale])
  /\ UNCHANGED <<object, client, events, history>>

PollFails ==
  /\ r.pc = "poll" /\ Trouble
  /\ r' = RpcFailed
  /\ UNCHANGED <<object, client, events, history>>

RemoveTorrents ==
  /\ r.pc = "remove"
  /\ present' = present \ r.gone
  /\ r' = Closed([r EXCEPT !.pc = "status"])
  /\ UNCHANGED <<object, lost, away, err, zero, act, queued, bounds, history>>

\* The answer may be lost after the client removed them.
RemoveFails ==
  /\ r.pc = "remove" /\ Trouble
  /\ present' \in {present, present \ r.gone}
  /\ r' = RpcFailed
  /\ UNCHANGED <<object, lost, away, err, zero, act, queued, events, history>>

WriteStatus ==
  /\ r.pc = "status"
  /\ cond' = r.next
  /\ r' = Idle
  /\ UNCHANGED <<dir, spec, cache, client, bounds, history>>

\* Another part of the reconcile fails, or the operator crashes: no status is written.
Abort ==
  /\ r.pc # "idle" /\ Trouble
  /\ r' = Idle
  /\ UNCHANGED <<object, client, events, history>>

-----------------------------------------------------------------------------
Handler ==
  \/ Begin \/ ListTorrents \/ VerifyTorrents \/ Settle \/ PollGivesUp
  \/ RemoveTorrents \/ WriteStatus

FailedCall ==
  ListFails \/ VerifyFails \/ PollFails \/ RemoveFails \/ Abort

Works(t) == Notice(t) \/ VerifyBegins(t) \/ VerifyEnds(t)

Client == DataMoves \/ UserActs \/ \E t \in Torrents : Works(t)

Environment == EditSpec \/ EditTimestamp \/ Deliver \/ Tick \/ Client

Next == Handler \/ FailedCall \/ Environment

Spec == Init /\ [][Next]_vars

\* Every outcome requeues the app, the watch reconnects, time passes, the client
\* notices missing data and begins and ends what it was asked to verify.
Fairness ==
  /\ WF_vars(Handler) /\ WF_vars(Deliver) /\ WF_vars(Tick)
  /\ \A t \in Torrents : WF_vars(Works(t))

FairSpec == Spec /\ Fairness

-----------------------------------------------------------------------------
(* Properties. *)

\* A torrent is removed only if a verify that ended during this very pass found no
\* data, however old the error, the progress and the pending verify it lists are.
RemovedWasVerified == r.pc = "remove" => r.gone \subseteq r.found

\* A pass that listed a directory while it was unmounted, and all its torrents that
\* were not idle said so, removes none of its torrents, also if it comes back or
\* other torrents of it fail before the pass ends.
OutageSurvives == r.pc = "remove" => \A t \in r.gone : dir[t] \notin r.outage

\* As long as no call failed, nobody edited the object and every pass began with the
\* last status, an interval lies between two passes that ask for a verify.
PassesSpaced ==
  [][VerifyTorrents /\ troubles = 0 /\ ~lagged => since = Interval]_vars

\* No timestamp, however edited, keeps the passes away for good.
PassesRecur == <>[](spec.enabled) => []<>(r.pc = "list")

Visible(t) == t \in present /\ t \in lost /\ ~(IdleStopped(t) /\ t \notin queued)

\* Pass after pass gives up on a batch with t in it, because of a slow verify in it.
HeldBack(t) == []<><<PollGivesUp /\ t \in Batch /\ Batch \intersect Slow # {}>>_vars

Reported == cond.status \notin {"None", "True"}

\* A loss the client can see is reported, and for as long as it lasts, unless a slow verify
\* holds the torrent back and passes list it, time and again, in a verify that has cleared
\* its error.
LossReported ==
  \A t \in Torrents :
    <>[](spec.enabled /\ Visible(t)) =>
      /\ []<>Reported
      /\ \/ <>[]Reported
         \/ HeldBack(t) /\ []<>(r.pc = "list" /\ act[t] = "checking" /\ t \notin err)

\* The directory of t holds a healthy torrent, or none but t.
ShownMounted(t) ==
  \/ \E u \in present : dir[u] = dir[t] /\ act[u] = "active" /\ u \notin lost
  \/ \A u \in present : dir[u] = dir[t] => u = t

\* With consent, a torrent whose data is gone from a directory that is not taken for an
\* unmounted one is removed in the end, unless pass after pass gives up on a slow verify
\* in its batch: the next one starts that verify again.
LostGoes ==
  \A t \in Torrents :
    <>[](/\ spec.enabled /\ spec.auto_remove
         /\ t \in lost /\ away = {} /\ ShownMounted(t)
         /\ t \in present => Visible(t))
      => <>(t \notin present) \/ HeldBack(t)
=============================================================================
