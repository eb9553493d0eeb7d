-------------------------- MODULE SelfHeal_proofs --------------------------
(***************************************************************************)
(* Proofs about SelfHeal for any torrents, directories, interval and       *)
(* number of losses, outages, edits, failed calls and crashes.             *)
(***************************************************************************)
EXTENDS SelfHeal, FiniteSetTheorems, TLAPS

USE TorrentAssumption, IntervalAssumption, BoundsAssumption

Statuses == {"True", "False", "Unknown"}

\* A condition the pass writes is well typed and carries the age of the pass.
LEMMA WrittenSets ==
  ASSUME NEW p, p.age \in 0..Interval, NEW status \in Statuses
  PROVE  /\ Written(p, status) \in Pass
         /\ Written(p, status).pc = "status"
         /\ Written(p, status).next = [status |-> status, age |-> p.age]
         /\ Written(p, status).age = 0
<1> DEFINE next == [status |-> status, age |-> p.age]
<1>1. next \in Condition_
  BY DEF Condition_, Age, Statuses
<1>2. Written(p, status) = [Idle EXCEPT !.pc = "status", !.next = next]
  BY DEF Written, TimeOf
<1> HIDE DEF next
<1>3. Written(p, status) =
        [pc |-> "status", auto |-> FALSE, age |-> 0, next |-> next,
         stale |-> {}, checking |-> {}, held |-> {}, nohash |-> FALSE,
         pending |-> {}, gone |-> {}, settled |-> {}, found |-> {}, outage |-> {}]
  BY <1>2 DEF Idle
<1>4. Written(p, status) \in Pass
  BY <1>1, <1>3 DEF Pass
<1> QED
  BY <1>3, <1>4 DEF next

\* The verdict on a pass is one of the three statuses.
LEMMA VerdictSets == ASSUME NEW p PROVE Verdict(p) \in Statuses
BY DEF Verdict, Statuses

\* A pass that goes on is left alone; one that is over becomes its condition.
LEMMA ClosedSets ==
  ASSUME NEW p \in Pass
  PROVE  /\ Closed(p) \in Pass
         /\ p.pc # "status" => Closed(p) = p
         /\ p.pc = "status" =>
              /\ Closed(p).pc = "status"
              /\ Closed(p).next.status \in Statuses
              /\ Closed(p).next.age = p.age
<1>1. p.age \in 0..Interval /\ Verdict(p) \in Statuses
  BY VerdictSets DEF Pass
<1>2. CASE p.pc = "status"
  <2>1. Closed(p) = Written(p, Verdict(p))
    BY <1>2 DEF Closed
  <2>2. /\ Closed(p) \in Pass /\ Closed(p).pc = "status"
        /\ Closed(p).next = [status |-> Verdict(p), age |-> p.age]
    BY <1>1, <2>1, WrittenSets
  <2> QED
    BY <1>1, <1>2, <2>2
<1>3. CASE p.pc # "status"
  BY <1>3 DEF Closed
<1> QED
  BY <1>2, <1>3

\* The age of a timestamp never passes the interval, and a future one is reached.
LEMMA OlderSets ==
  /\ \A age \in 0..Interval : Older(age) \in 0..Interval /\ age <= Older(age)
  /\ \A age \in -1..Interval : Older(age) \in -1..Interval
  /\ Older(Interval) = Interval
  /\ \A a, b \in 0..Interval : a <= b => Older(a) <= Older(b)
BY DEF Older

\* An aged condition keeps its status and is well typed.
LEMMA AgedSets ==
  ASSUME NEW c \in Condition_
  PROVE  /\ Aged(c) \in Condition_
         /\ Aged(c).status = c.status
         /\ c.status # "None" /\ c.age # Corrupt => Aged(c).age = Older(c.age)
<1>1. CASE c.status = "None" \/ c.age = Corrupt
  BY <1>1 DEF Aged
<1>2. CASE ~(c.status = "None" \/ c.age = Corrupt)
  <2>1. c.age \in -1..Interval
    BY <1>2 DEF Condition_, Age, Corrupt
  <2>2. Older(c.age) \in Age
    BY <2>1, OlderSets DEF Age
  <2>3. Aged(c) = [c EXCEPT !.age = Older(c.age)]
    BY <1>2 DEF Aged
  <2> QED
    BY <2>2, <2>3 DEF Condition_
<1> QED
  BY <1>1, <1>2

-----------------------------------------------------------------------------
(* Types. *)

\* What a torrent, its data and the client do keeps the types.
LEMMA ClientTypes == TypeOK /\ Client => TypeOK'
<1> SUFFICES ASSUME TypeOK, Client PROVE TypeOK'
  OBVIOUS
<1> USE DEF TypeOK, object, history, bounds
<1>1. CASE DataMoves
  BY <1>1 DEF DataMoves, Event
<1>2. CASE UserActs
  BY <1>2 DEF UserActs, Event
<1>3. ASSUME NEW t \in Torrents, Notice(t) PROVE TypeOK'
  BY <1>3 DEF Notice
<1>4. ASSUME NEW t \in Torrents, VerifyBegins(t) PROVE TypeOK'
  BY <1>4 DEF VerifyBegins
<1>5. ASSUME NEW t \in Torrents, VerifyEnds(t) PROVE TypeOK'
  <2>1. r' \in Pass
    BY <1>5 DEF VerifyEnds, Pass
  <2>2. err' \subseteq Torrents /\ zero' \subseteq Torrents
    BY <1>5 DEF VerifyEnds
  <2> QED
    BY <1>5, <2>1, <2>2 DEF VerifyEnds
<1> QED
  BY <1>1, <1>2, <1>3, <1>4, <1>5 DEF Client, Works

\* Edits, deliveries and the clock keep the types.
LEMMA ObjectTypes == TypeOK /\ (EditSpec \/ EditTimestamp \/ Deliver \/ Tick) => TypeOK'
<1> SUFFICES ASSUME TypeOK, EditSpec \/ EditTimestamp \/ Deliver \/ Tick PROVE TypeOK'
  OBVIOUS
<1> USE DEF TypeOK, client, history, bounds
<1>1. CASE EditSpec
  BY <1>1 DEF EditSpec, Trouble
<1>2. CASE EditTimestamp
  BY <1>2 DEF EditTimestamp, Trouble, Condition_, Age, Corrupt, Future
<1>3. CASE Deliver
  BY <1>3 DEF Deliver
<1>4. CASE Tick
  <2>1. cond' \in Condition_ /\ cache'.cond \in Condition_
    BY <1>4, AgedSets DEF Tick
  <2>2. r' \in Pass
    <3>1. r.next \in Condition_ /\ r.age \in 0..Interval
      BY DEF Pass
    <3>2. Aged(r.next) \in Condition_ /\ Older(r.age) \in 0..Interval
      BY <3>1, AgedSets, OlderSets
    <3> DEFINE age == IF r.pc = "idle" THEN 0 ELSE Older(r.age)
               next == Aged(r.next)
    <3>3. age \in 0..Interval /\ next \in Condition_
      BY <3>2
    <3>4. r' = [r EXCEPT !.age = age, !.next = next]
      BY <1>4 DEF Tick
    <3> HIDE DEF age, next
    <3> QED
      BY <3>3, <3>4 DEF Pass
  <2>3. since' \in 0..Interval
    BY <1>4, OlderSets DEF Tick
  <2> QED
    BY <1>4, <2>1, <2>2, <2>3 DEF Tick
<1> QED
  BY <1>1, <1>2, <1>3, <1>4

\* No pass and no condition are well typed.
LEMMA IdleSets == NoCondition \in Condition_ /\ Idle \in Pass
<1>1. NoCondition \in Condition_
  BY DEF NoCondition, Condition_, Age
<1> QED
  BY <1>1 DEF Idle, Pass

\* An odd answer counts against its bound.
LEMMA TroubleSets ==
  ASSUME TypeOK, NEW normal, TroubleUnless(normal) \/ Trouble
  PROVE  troubles' \in 0..MaxTroubles
BY DEF TroubleUnless, Trouble, TypeOK

\* Listing splits the torrents that fail and leaves the age of the pass alone.
LEMMA ListedSets ==
  ASSUME TypeOK, NEW stale \in SUBSET Torrents, NEW held \in SUBSET Torrents,
         NEW nohash \in BOOLEAN
  PROVE  /\ Listed(stale, held, nohash) \in Pass
         /\ Listed(stale, held, nohash).pc \in {"status", "verify"}
         /\ Listed(stale, held, nohash).stale = stale
         /\ Listed(stale, held, nohash).age = r.age
<1> DEFINE checking == {t \in stale : act[t] = "checking"}
           outage == {d \in away : LET counted == {t \in present :
                                                     dir[t] = d /\ ~IdleStopped(t)}
                                   IN Cardinality(counted) > 1 /\ counted \subseteq err}
           pc == IF stale = checking THEN "status" ELSE "verify"
<1>1. checking \in SUBSET Torrents /\ outage \in SUBSET Dirs /\ pc \in {"status", "verify"}
  BY DEF TypeOK
<1>2. Listed(stale, held, nohash) =
        [r EXCEPT !.pc = pc, !.stale = stale, !.checking = checking, !.held = held,
                  !.nohash = nohash, !.pending = checking, !.outage = outage]
  BY DEF Listed
<1> HIDE DEF checking, outage, pc
<1> QED
  BY <1>1, <1>2 DEF TypeOK, Pass

\* The condition a skipped pass writes back is well typed.
LEMMA KeptSets ==
  ASSUME NEW c \in Condition_
  PROVE  Kept(c) \in Condition_ /\ (c.age # Corrupt => Kept(c) = c)
BY DEF Kept, Condition_, Age

\* A pass that is over, with the condition it writes.
Over(p) == p.pc = "status" /\ p.next.status \in Statuses /\ p.next.age = r.age

\* A pass begins with nothing but its consent, or is skipped.
LEMMA BeginSets ==
  ASSUME TypeOK, Begin
  PROVE  r' \in Pass /\ r'.pc \in {"status", "list"}
<1>1. cache.cond \in Condition_ /\ cache.spec.auto_remove \in BOOLEAN
  BY DEF TypeOK, ApiHealthCheckSpec
<1>2. Kept(cache.cond) \in Condition_
  BY <1>1, KeptSets
<1> QED
  BY <1>1, <1>2, IdleSets DEF Begin, Pass

\* The listing ends the pass or chooses what it remediates.
LEMMA ListSets ==
  ASSUME TypeOK, ListTorrents
  PROVE  /\ r' \in Pass
         /\ \/ Over(r')
            \/ /\ r'.pc = "verify" /\ r'.age = r.age
               /\ \E stale, held \in SUBSET Torrents, nohash \in BOOLEAN :
                    /\ \A t \in stale : dir[t] \notin UnavailableDirs
                    /\ r' = Listed(stale, held, nohash)
<1> DEFINE failing == MissingData
           held == {t \in failing : dir[t] \in UnavailableDirs}
<1>1. failing \subseteq Torrents /\ held \subseteq Torrents
  BY DEF MissingData, TypeOK
<1>2. PICK nohash \in SUBSET (failing \ held) :
        r' = Closed(Listed(failing \ (held \union nohash), held, nohash # {}))
  BY DEF ListTorrents
<1> DEFINE stale == failing \ (held \union nohash)
           p == Listed(stale, held, nohash # {})
<1>3. \A t \in stale : dir[t] \notin UnavailableDirs
  OBVIOUS
<1>4. stale \in SUBSET Torrents /\ held \in SUBSET Torrents /\ (nohash # {}) \in BOOLEAN
  BY <1>1
<1> HIDE DEF held, stale
<1>5. p \in Pass /\ p.pc \in {"status", "verify"} /\ p.age = r.age
  BY <1>4, ListedSets
<1>6. r' = Closed(p)
  BY <1>2 DEF stale
<1>7. CASE p.pc = "status"
  <2> HIDE DEF p
  <2> QED
    BY <1>5, <1>6, <1>7, ClosedSets DEF Over
<1>8. CASE p.pc = "verify"
  <2>1. r' = p
    BY <1>5, <1>6, <1>8, ClosedSets
  <2> QED
    BY <1>3, <1>4, <1>5, <1>8, <2>1
<1> QED
  BY <1>5, <1>7, <1>8

\* A poll that settles ends the pass, or confirms what is to be removed.
LEMMA SettleSets ==
  ASSUME TypeOK, Settle
  PROVE  /\ r' \in Pass
         /\ \/ Over(r')
            \/ /\ r'.pc = "remove" /\ r'.age = r.age /\ r'.stale = r.stale
               /\ r'.found = r.found /\ r'.outage = r.outage
               /\ r'.gone \subseteq {t \in Batch \intersect present : ConfirmedMissing(t)}
<1> DEFINE failing == Batch \intersect present \intersect err
<1>1. PICK unknown \in SUBSET failing :
        LET gone == {t \in failing \ unknown : ConfirmedMissing(t)}
        IN r' = Closed([r EXCEPT
                  !.pc      = IF r.auto /\ gone # {} THEN "remove" ELSE "status",
                  !.gone    = gone,
                  !.settled = failing \ gone,
                  !.pending = r.checking \union (Batch \ present)])
  BY DEF Settle
<1> DEFINE gone == {t \in failing \ unknown : ConfirmedMissing(t)}
           pc == IF r.auto /\ gone # {} THEN "remove" ELSE "status"
           settled == failing \ gone
           pending == r.checking \union (Batch \ present)
           p == [r EXCEPT !.pc = pc, !.gone = gone, !.settled = settled,
                          !.pending = pending]
<1>2. /\ gone \subseteq Torrents /\ settled \subseteq Torrents /\ pending \subseteq Torrents
      /\ pc \in {"remove", "status"}
      /\ gone \subseteq {t \in Batch \intersect present : ConfirmedMissing(t)}
  BY DEF Batch, TypeOK, Pass
<1>3. r' = Closed(p)
  BY <1>1
<1> HIDE DEF failing, gone, pc, settled, pending
<1>4. /\ p \in Pass /\ p.pc = pc /\ p.gone = gone /\ p.found = r.found /\ p.age = r.age
      /\ p.stale = r.stale /\ p.outage = r.outage
  BY <1>2 DEF TypeOK, Pass
<1> HIDE DEF p
<1>5. CASE pc = "status"
  BY <1>3, <1>4, <1>5, ClosedSets DEF Over
<1>6. CASE pc = "remove"
  <2>1. r' = p
    BY <1>3, <1>4, <1>6, ClosedSets
  <2> QED
    BY <1>2, <1>4, <1>6, <2>1
<1> QED
  BY <1>2, <1>5, <1>6

\* A poll that is given up on, and a removal, end the pass.
LEMMA EndSets ==
  ASSUME TypeOK, PollGivesUp \/ RemoveTorrents
  PROVE  r' \in Pass /\ Over(r')
<1>1. PICK p \in {[r EXCEPT !.pc = "status", !.pending = r.stale],
                  [r EXCEPT !.pc = "status"]} : r' = Closed(p)
  BY DEF PollGivesUp, RemoveTorrents
<1>2. p \in Pass /\ p.pc = "status" /\ p.age = r.age
  BY <1>1 DEF TypeOK, Pass
<1> QED
  BY <1>1, <1>2, ClosedSets DEF Over

\* Every step of a pass in which no call fails keeps the types.
LEMMA HandlerTypes == TypeOK /\ Handler => TypeOK'
<1> SUFFICES ASSUME TypeOK, Handler PROVE TypeOK'
  OBVIOUS
<1> USE DEF object, client, bounds, history
<1>1. CASE Begin
  <2>1. r' \in Pass
    BY <1>1, BeginSets
  <2> QED
    BY <1>1, <2>1 DEF Begin, TypeOK
<1>2. CASE ListTorrents
  <2>1. r' \in Pass
    BY <1>2, ListSets
  <2>2. troubles' \in 0..MaxTroubles
    BY <1>2, TroubleSets DEF ListTorrents
  <2> QED
    BY <1>2, <2>1, <2>2 DEF ListTorrents, TypeOK
<1>3. CASE VerifyTorrents
  BY <1>3 DEF VerifyTorrents, Batch, TypeOK, Pass
<1>4. CASE Settle
  <2>1. r' \in Pass
    BY <1>4, SettleSets
  <2>2. troubles' \in 0..MaxTroubles
    BY <1>4, TroubleSets DEF Settle
  <2> QED
    BY <1>4, <2>1, <2>2 DEF Settle, TypeOK
<1>5. CASE PollGivesUp
  <2>1. r' \in Pass
    BY <1>5, EndSets
  <2>2. troubles' \in 0..MaxTroubles
    BY <1>5, TroubleSets DEF PollGivesUp
  <2> QED
    BY <1>5, <2>1, <2>2 DEF PollGivesUp, TypeOK
<1>6. CASE RemoveTorrents
  <2>1. r' \in Pass
    BY <1>6, EndSets
  <2> QED
    BY <1>6, <2>1 DEF RemoveTorrents, TypeOK
<1>7. CASE WriteStatus
  BY <1>7, IdleSets DEF WriteStatus, TypeOK, Pass
<1> QED
  BY <1>1, <1>2, <1>3, <1>4, <1>5, <1>6, <1>7 DEF Handler

\* A pass that stopped on a failed call is over, with an unknown condition.
LEMMA RpcFailedSets ==
  ASSUME TypeOK
  PROVE  RpcFailed \in Pass /\ RpcFailed.pc = "status" /\ Written(r, "Unknown") = RpcFailed
<1>1. r.age \in 0..Interval /\ "Unknown" \in Statuses
  BY DEF TypeOK, Pass, Statuses
<1> QED
  BY <1>1, WrittenSets DEF RpcFailed

\* Calls that fail, and crashes, keep the types.
LEMMA FailureTypes == TypeOK /\ FailedCall => TypeOK'
<1> SUFFICES ASSUME TypeOK, FailedCall PROVE TypeOK'
  OBVIOUS
<1> USE DEF object, client, history
<1>1. Trouble /\ r' \in {RpcFailed, Idle}
  BY RpcFailedSets
     DEF FailedCall, ListFails, VerifyFails, PollFails, RemoveFails, Abort
<1>2. r' \in Pass /\ troubles' \in 0..MaxTroubles
  BY <1>1, RpcFailedSets, IdleSets DEF Trouble, TypeOK
<1>3. CASE ListFails \/ PollFails \/ Abort
  BY <1>2, <1>3 DEF ListFails, PollFails, Abort, TypeOK
<1>4. CASE VerifyFails
  BY <1>2, <1>4 DEF VerifyFails, Batch, TypeOK, Pass
<1>5. CASE RemoveFails
  BY <1>2, <1>5 DEF RemoveFails, TypeOK
<1> QED
  BY <1>3, <1>4, <1>5 DEF FailedCall

\* Every variable keeps its type: timestamps stay within the interval, and what a
\* pass is about to do concerns torrents only.
THEOREM TypeCorrect == Spec => []TypeOK
<1>1. ASSUME Init PROVE TypeOK
  <2>1. spec \in ApiHealthCheckSpec
    BY <1>1 DEF Init, ApiHealthCheckSpec
  <2>2. cache = [spec |-> spec, cond |-> NoCondition]
    BY <1>1 DEF Init
  <2>3. Interval \in 0..Interval /\ 0 \in 0..MaxEvents /\ 0 \in 0..MaxTroubles
    OBVIOUS
  <2>4. cache \in [spec : ApiHealthCheckSpec, cond : Condition_]
    BY <2>1, <2>2, IdleSets
  <2>5. act \in [Torrents -> {"active", "stopped", "checking"}]
    BY <1>1 DEF Init
  <2> QED
    BY <1>1, <2>1, <2>3, <2>4, <2>5, IdleSets DEF Init, TypeOK
<1>2. TypeOK /\ [Next]_vars => TypeOK'
  <2>1. TypeOK /\ UNCHANGED vars => TypeOK'
    BY DEF TypeOK, vars
  <2> QED
    BY <2>1, ClientTypes, ObjectTypes, HandlerTypes, FailureTypes DEF Next, Environment
<1> QED
  BY <1>1, <1>2, PTL DEF Spec

-----------------------------------------------------------------------------
(* Removals. *)

\* While a pass polls, a torrent of its batch either waits for its verify, or is in
\* it, or the verify found nothing, or the torrent shows data.
Verifying(t) == t \in queued \/ act[t] = "checking" \/ t \in r.found \/ t \notin zero

RemovalInv ==
  /\ r.pc = "poll" => \A t \in Batch \intersect present : Verifying(t)
  /\ r.pc = "remove" => r.gone \subseteq r.found

\* What is remediated lies in no directory whose outage the listing showed.
OutageInv ==
  /\ r.pc \in {"verify", "poll", "remove"} => \A t \in r.stale : dir[t] \notin r.outage
  /\ r.pc = "remove" => r.gone \subseteq r.stale

\* The step that asks for the verify, the ones of the client and of the handler
\* that end a poll keep what is known of the batch.
LEMMA RemovalStep == TypeOK /\ RemovalInv /\ [Next]_vars => RemovalInv'
<1> SUFFICES ASSUME TypeOK, RemovalInv, [Next]_vars PROVE RemovalInv'
  OBVIOUS
<1> USE DEF object, client, bounds, history
<1>1. CASE UNCHANGED vars
  BY <1>1 DEF vars, RemovalInv, Verifying, Batch
<1>2. CASE EditSpec \/ EditTimestamp \/ Deliver \/ DataMoves
  BY <1>2 DEF EditSpec, EditTimestamp, Deliver, DataMoves, RemovalInv, Verifying, Batch
<1>3. CASE Tick
  <2>1. /\ r'.pc = r.pc /\ r'.stale = r.stale /\ r'.checking = r.checking
        /\ r'.gone = r.gone /\ r'.found = r.found
    BY <1>3 DEF Tick, TypeOK, Pass
  <2> QED
    BY <1>3, <2>1 DEF Tick, RemovalInv, Verifying, Batch
<1>4. CASE UserActs
  <2>1. /\ UNCHANGED <<r, zero, queued>> /\ present' \subseteq present
        /\ \A t \in Torrents : act[t] = "checking" => act'[t] = "checking"
    BY <1>4 DEF UserActs, TypeOK
  <2> QED
    BY <2>1 DEF RemovalInv, Verifying, Batch, TypeOK
<1>5. ASSUME NEW t \in Torrents, Notice(t) PROVE RemovalInv'
  <2>1. /\ UNCHANGED <<r, zero, queued, present>>
        /\ \A u \in Torrents : act[u] = "checking" => act'[u] = "checking"
    BY <1>5 DEF Notice, TypeOK
  <2> QED
    BY <2>1 DEF RemovalInv, Verifying, Batch, TypeOK
<1>6. ASSUME NEW t \in Torrents, VerifyBegins(t) PROVE RemovalInv'
  <2>1. /\ UNCHANGED <<r, zero, present>> /\ queued' = queued \ {t}
        /\ act' = [act EXCEPT ![t] = "checking"]
    BY <1>6 DEF VerifyBegins
  <2>2. \A u \in Torrents : Verifying(u) => Verifying(u)'
    BY <2>1 DEF Verifying, TypeOK
  <2> QED
    BY <2>1, <2>2 DEF RemovalInv, Batch, TypeOK
<1>7. ASSUME NEW t \in Torrents, VerifyEnds(t) PROVE RemovalInv'
  <2>1. /\ r'.pc = r.pc /\ r'.stale = r.stale /\ r'.checking = r.checking
        /\ r'.gone = r.gone /\ r.found \subseteq r'.found
    BY <1>7 DEF VerifyEnds, TypeOK, Pass
  <2>2. /\ UNCHANGED <<present, queued>>
        /\ act' = [act EXCEPT ![t] = "stopped"]
        /\ zero' \subseteq zero \union {t}
    BY <1>7 DEF VerifyEnds
  <2>3. r.pc = "poll" => t \in r'.found \/ t \notin zero'
    BY <1>7 DEF VerifyEnds, TypeOK, Pass
  <2>4. ASSUME r.pc = "poll", NEW u \in Torrents, Verifying(u) PROVE Verifying(u)'
    BY <2>1, <2>2, <2>3, <2>4 DEF Verifying, TypeOK
  <2> QED
    BY <2>1, <2>2, <2>4 DEF RemovalInv, Batch, TypeOK
<1>8. CASE Begin \/ WriteStatus
  BY <1>8, BeginSets DEF WriteStatus, Idle, RemovalInv
<1>9. CASE ListTorrents
  BY <1>9, ListSets DEF Over, RemovalInv
<1>10. CASE VerifyTorrents
  <2>1. r'.pc = "poll" /\ r'.stale = r.stale /\ r'.checking = r.checking
    BY <1>10 DEF VerifyTorrents, TypeOK, Pass
  <2>2. queued' = queued \union (Batch \intersect present) /\ UNCHANGED present
    BY <1>10 DEF VerifyTorrents
  <2> QED
    BY <2>1, <2>2 DEF RemovalInv, Verifying, Batch
<1>11. CASE Settle
  <2>1. \A t \in Batch \intersect present : ConfirmedMissing(t) => t \in r.found
    BY <1>11 DEF Settle, Begun, StillChecking, RemovalInv, Verifying, ConfirmedMissing
  <2> QED
    BY <1>11, <2>1, SettleSets DEF Over, RemovalInv
<1>12. CASE PollGivesUp \/ RemoveTorrents
  BY <1>12, EndSets DEF Over, RemovalInv
<1>13. CASE FailedCall
  <2>1. r' \in {RpcFailed, Idle}
    BY <1>13, RpcFailedSets
       DEF FailedCall, ListFails, VerifyFails, PollFails, RemoveFails, Abort
  <2> QED
    BY <2>1, RpcFailedSets DEF Idle, RemovalInv
<1> QED
  BY <1>1, <1>2, <1>3, <1>4, <1>5, <1>6, <1>7, <1>8, <1>9, <1>10, <1>11, <1>12, <1>13
     DEF Next, Handler, Environment, Client, Works

\* Whatever users, disks and failing calls do, a torrent is removed only after a
\* verify that ended in the same pass found none of its data.
THEOREM RemovalsVerified == Spec => []RemovedWasVerified
<1>1. Init => RemovalInv
  BY DEF Init, Idle, RemovalInv
<1>2. RemovalInv => RemovedWasVerified
  BY DEF RemovalInv, RemovedWasVerified
<1> QED
  BY <1>1, <1>2, RemovalStep, TypeCorrect, PTL DEF Spec

\* A directory whose outage the listing shows is one the check finds unavailable.
LEMMA OutageUnavailable ==
  ASSUME TypeOK, NEW stale \in SUBSET Torrents, NEW held \in SUBSET Torrents,
         NEW nohash \in BOOLEAN
  PROVE  Listed(stale, held, nohash).outage \subseteq UnavailableDirs
<1> DEFINE counted(d) == {t \in present : dir[t] = d /\ ~IdleStopped(t)}
           outage == {d \in away : Cardinality(counted(d)) > 1 /\ counted(d) \subseteq err}
<1>1. Listed(stale, held, nohash).outage = outage
  <2>1. Listed(stale, held, nohash) =
          [r EXCEPT !.pc = Listed(stale, held, nohash).pc, !.stale = stale,
                    !.checking = {t \in stale : act[t] = "checking"}, !.held = held,
                    !.nohash = nohash, !.pending = {t \in stale : act[t] = "checking"},
                    !.outage = outage]
    BY DEF Listed, TypeOK, Pass
  <2> HIDE DEF outage
  <2> QED
    BY <2>1 DEF TypeOK, Pass
<1>2. ASSUME NEW d \in outage PROVE d \in UnavailableDirs
  <2>1. d \in Dirs /\ Cardinality(counted(d)) > 1 /\ counted(d) \subseteq err
    BY DEF TypeOK
  <2>2. counted(d) \subseteq Torrents
    BY DEF TypeOK
  <2>3. Cardinality(counted(d)) \in Nat
    BY <2>2, FS_Subset, FS_CardinalityType
  <2>4. Cardinality(counted(d)) >= MinTorrentsForDirCheck
    BY <2>1, <2>3 DEF MinTorrentsForDirCheck
  <2> QED
    BY <2>1, <2>4 DEF UnavailableDirs
<1> QED
  BY <1>1, <1>2

\* No step moves a torrent to another directory.
LEMMA LayoutFixed == [Next]_vars => dir' = dir
<1> SUFFICES ASSUME [Next]_vars PROVE dir' = dir
  OBVIOUS
<1> USE DEF object
<1>1. CASE UNCHANGED vars
  BY <1>1 DEF vars
<1>2. CASE Handler
  BY <1>2 DEF Handler, Begin, ListTorrents, VerifyTorrents, Settle, PollGivesUp,
              RemoveTorrents, WriteStatus
<1>3. CASE FailedCall
  BY <1>3 DEF FailedCall, ListFails, VerifyFails, PollFails, RemoveFails, Abort
<1>4. CASE Environment
  BY <1>4 DEF Environment, EditSpec, EditTimestamp, Deliver, Tick, Client, DataMoves,
              UserActs, Works, Notice, VerifyBegins, VerifyEnds
<1> QED
  BY <1>1, <1>2, <1>3, <1>4 DEF Next

\* Only the listing chooses what is remediated, and only from directories it saw.
LEMMA OutageStep == TypeOK /\ OutageInv /\ [Next]_vars => OutageInv'
<1> SUFFICES ASSUME TypeOK, OutageInv, [Next]_vars PROVE OutageInv'
  OBVIOUS
<1>0. dir' = dir
  BY LayoutFixed
<1> USE <1>0
<1>1. ASSUME r'.pc = r.pc, r'.stale = r.stale, r'.gone = r.gone, r'.outage = r.outage
      PROVE  OutageInv'
  BY <1>1 DEF OutageInv
<1>2. CASE UNCHANGED vars
  BY <1>1, <1>2 DEF vars
<1>3. CASE EditSpec \/ EditTimestamp \/ Deliver \/ DataMoves \/ UserActs
  BY <1>1, <1>3 DEF EditSpec, EditTimestamp, Deliver, DataMoves, UserActs
<1>4. CASE Tick
  BY <1>1, <1>4 DEF Tick, TypeOK, Pass
<1>5. ASSUME NEW t \in Torrents, Works(t) PROVE OutageInv'
  BY <1>1, <1>5 DEF Works, Notice, VerifyBegins, VerifyEnds, TypeOK, Pass
<1>6. CASE Begin \/ WriteStatus
  BY <1>6, BeginSets DEF WriteStatus, Idle, OutageInv
<1>7. CASE ListTorrents
  <2>1. CASE Over(r')
    BY <2>1 DEF Over, OutageInv
  <2>2. CASE ~Over(r')
    <3>1. PICK stale \in SUBSET Torrents, held \in SUBSET Torrents, nohash \in BOOLEAN :
            /\ \A t \in stale : dir[t] \notin UnavailableDirs
            /\ r' = Listed(stale, held, nohash)
      BY <1>7, <2>2, ListSets
    <3>2. r'.stale = stale /\ r'.outage \subseteq UnavailableDirs /\ r'.pc # "remove"
      BY <3>1, ListedSets, OutageUnavailable
    <3> QED
      BY <3>1, <3>2 DEF OutageInv
  <2> QED
    BY <2>1, <2>2
<1>8. CASE VerifyTorrents
  <2>1. r.pc = "verify" /\ r'.pc = "poll" /\ r'.stale = r.stale /\ r'.outage = r.outage
    BY <1>8 DEF VerifyTorrents, TypeOK, Pass
  <2> QED
    BY <2>1 DEF OutageInv
<1>9. CASE Settle
  <2>1. r.pc = "poll"
    BY <1>9 DEF Settle
  <2> QED
    BY <1>9, <2>1, SettleSets DEF Over, Batch, OutageInv
<1>10. CASE PollGivesUp \/ RemoveTorrents
  BY <1>10, EndSets DEF Over, OutageInv
<1>11. CASE FailedCall
  <2>1. r' \in {RpcFailed, Idle}
    BY <1>11, RpcFailedSets
       DEF FailedCall, ListFails, VerifyFails, PollFails, RemoveFails, Abort
  <2> QED
    BY <2>1, RpcFailedSets DEF Idle, OutageInv
<1> QED
  BY <1>2, <1>3, <1>4, <1>5, <1>6, <1>7, <1>8, <1>9, <1>10, <1>11
     DEF Next, Handler, Environment, Client

\* A torrent of a directory that the listing showed as a whole to be unmounted is
\* not removed, for any number of torrents and directories.
THEOREM OutagesSurvive == Spec => []OutageSurvives
<1>1. Init => OutageInv
  BY DEF Init, Idle, OutageInv
<1>2. TypeOK /\ OutageInv => OutageSurvives
  BY DEF OutageInv, OutageSurvives
<1> QED
  BY <1>1, <1>2, OutageStep, TypeCorrect, PTL DEF Spec

-----------------------------------------------------------------------------
(* The distance between passes. *)

\* As long as nothing went wrong and every pass began with the last status: the
\* stored condition is no younger than the last verify was when it was asked for,
\* and neither is the one a pass is about to write.
SpacedInv ==
  troubles = 0 /\ ~lagged =>
    /\ spec.enabled /\ cache.spec.enabled
    /\ r.pc \in {"idle", "list", "verify"} =>
         IF cond.status = "None" THEN since = Interval
         ELSE cond.age \in 0..Interval /\ cond.age <= since
    /\ r.pc \in {"list", "verify"} => since = Interval
    /\ r.pc \in {"poll", "remove"} => since = r.age
    /\ r.pc = "status" =>
         r.next.status # "None" /\ r.next.age \in 0..Interval /\ r.next.age <= since

\* Troubles are only counted up, and what lagged once is remembered.
LEMMA TroublesGrow == [Next]_vars => (Trouble \/ UNCHANGED troubles) /\ (lagged => lagged')
<1> SUFFICES ASSUME [Next]_vars
             PROVE  (Trouble \/ UNCHANGED troubles) /\ (lagged => lagged')
  OBVIOUS
<1> USE DEF object, client, bounds, history
<1>1. CASE UNCHANGED vars
  BY <1>1 DEF vars
<1>2. CASE Handler
  <2>1. CASE Begin
    BY <2>1 DEF Begin
  <2>2. CASE ListTorrents \/ Settle \/ PollGivesUp
    <3>1. UNCHANGED history /\ \E normal : TroubleUnless(normal)
      BY <2>2 DEF ListTorrents, Settle, PollGivesUp
    <3> QED
      BY <3>1 DEF TroubleUnless
  <2>3. CASE VerifyTorrents \/ RemoveTorrents \/ WriteStatus
    BY <2>3 DEF VerifyTorrents, RemoveTorrents, WriteStatus
  <2> QED
    BY <1>2, <2>1, <2>2, <2>3 DEF Handler
<1>3. CASE FailedCall
  BY <1>3 DEF FailedCall, ListFails, VerifyFails, PollFails, RemoveFails, Abort
<1>4. CASE EditSpec \/ EditTimestamp \/ Deliver \/ Tick
  BY <1>4 DEF EditSpec, EditTimestamp, Deliver, Tick
<1>5. CASE Client
  BY <1>5 DEF Client, DataMoves, UserActs, Works, Notice, VerifyBegins, VerifyEnds
<1> QED
  BY <1>1, <1>2, <1>3, <1>4, <1>5 DEF Next, Environment

\* A pass writes the time it began at; time passes for all timestamps alike.
LEMMA SpacedStep == TypeOK /\ SpacedInv /\ [Next]_vars => SpacedInv'
<1> SUFFICES ASSUME TypeOK, SpacedInv, [Next]_vars, troubles' = 0, ~lagged' PROVE SpacedInv'
  BY DEF SpacedInv
<1> USE DEF object, client, bounds, history
<1>1. troubles = 0 /\ ~lagged
  BY TroublesGrow DEF Trouble, TypeOK
<1>2. /\ spec.enabled /\ cache.spec.enabled
      /\ r.pc \in {"idle", "list", "verify"} =>
           IF cond.status = "None" THEN since = Interval
           ELSE cond.age \in 0..Interval /\ cond.age <= since
      /\ r.pc \in {"list", "verify"} => since = Interval
      /\ r.pc \in {"poll", "remove"} => since = r.age
      /\ r.pc = "status" =>
           r.next.status # "None" /\ r.next.age \in 0..Interval /\ r.next.age <= since
  BY <1>1 DEF SpacedInv
<1>3. ASSUME UNCHANGED <<spec, cond, since>>, cache'.spec = cache.spec,
             r'.pc = r.pc, r'.age = r.age, r'.next = r.next
      PROVE  SpacedInv'
  BY <1>2, <1>3 DEF SpacedInv
<1>4. CASE UNCHANGED vars
  BY <1>3, <1>4 DEF vars
<1>5. CASE EditSpec \/ EditTimestamp \/ FailedCall
  <2>1. Trouble
    BY <1>5 DEF EditSpec, EditTimestamp, FailedCall, ListFails, VerifyFails, PollFails,
                RemoveFails, Abort
  <2> QED
    BY <1>1, <2>1 DEF Trouble
<1>6. CASE DataMoves \/ UserActs
  BY <1>3, <1>6 DEF DataMoves, UserActs
<1>7. CASE Deliver
  BY <1>2, <1>7 DEF Deliver, SpacedInv
<1>8. ASSUME NEW t \in Torrents, Works(t) PROVE SpacedInv'
  BY <1>3, <1>8 DEF Works, Notice, VerifyBegins, VerifyEnds, TypeOK, Pass
<1>9. CASE Tick
  <2>1. /\ r'.pc = r.pc /\ r'.next = Aged(r.next)
        /\ r.pc # "idle" => r'.age = Older(r.age)
        /\ r.next \in Condition_ /\ r.age \in 0..Interval
    BY <1>9 DEF Tick, TypeOK, Pass
  <2>2. /\ cond' = Aged(cond) /\ since' = Older(since) /\ UNCHANGED spec
        /\ cache'.spec = cache.spec /\ cond \in Condition_ /\ since \in 0..Interval
    BY <1>9 DEF Tick, TypeOK
  <2>3. ASSUME NEW c \in Condition_, c.status # "None", c.age \in 0..Interval, c.age <= since
        PROVE  /\ Aged(c).status # "None" /\ Aged(c).age \in 0..Interval
               /\ Aged(c).age <= since'
    <3>1. c.age # Corrupt
      BY <2>3 DEF Corrupt
    <3>2. Aged(c).age = Older(c.age) /\ Aged(c).status = c.status
      BY <2>3, <3>1, AgedSets
    <3> QED
      BY <2>2, <2>3, <3>2, OlderSets
  <2>4. Aged(cond).status = cond.status /\ Older(Interval) = Interval
    BY <2>2, AgedSets, OlderSets
  <2> QED
    BY <1>2, <2>1, <2>2, <2>3, <2>4 DEF SpacedInv
<1>10. CASE Begin
  <2>1. r.pc = "idle" /\ cache.cond = cond /\ UNCHANGED <<spec, cond, cache, since>>
    BY <1>10 DEF Begin, TypeOK
  <2>2. CASE Throttled(cond)
    <3>1. cond.status # "None" /\ cond.age \in 0..Interval /\ cond.age <= since
      BY <1>2, <2>1, <2>2 DEF Throttled
    <3>2. Kept(cond) = cond
      BY <3>1, KeptSets DEF Corrupt, TypeOK
    <3>3. r' = [Idle EXCEPT !.pc = "status", !.next = cond]
      BY <1>2, <1>10, <2>1, <2>2, <3>2 DEF Begin
    <3>4. r'.pc = "status" /\ r'.next = cond
      BY <3>3 DEF Idle
    <3> QED
      BY <1>2, <2>1, <3>1, <3>4 DEF SpacedInv
  <2>3. CASE ~Throttled(cond)
    <3>1. r'.pc = "list"
      BY <1>2, <1>10, <2>1, <2>3 DEF Begin, Idle
    <3>2. since = Interval
      BY <1>2, <2>1, <2>3 DEF Throttled, TypeOK
    <3> QED
      BY <1>2, <2>1, <3>1, <3>2 DEF SpacedInv
  <2> QED
    BY <2>2, <2>3
<1>11. CASE ListTorrents
  <2>1. r.pc = "list" /\ UNCHANGED <<spec, cond, cache, since>> /\ r.age \in 0..Interval
    BY <1>11 DEF ListTorrents, TypeOK, Pass
  <2> QED
    BY <1>2, <1>11, <2>1, ListSets DEF Over, Statuses, SpacedInv
<1>12. CASE VerifyTorrents
  <2>1. /\ r'.pc = "poll" /\ r'.age = r.age /\ since' = r.age
        /\ UNCHANGED <<spec, cond, cache>>
    BY <1>12 DEF VerifyTorrents, TypeOK, Pass
  <2> QED
    BY <1>2, <2>1 DEF SpacedInv
<1>13. CASE Settle
  <2>1. r.pc = "poll" /\ UNCHANGED <<spec, cond, cache, since>> /\ r.age \in 0..Interval
    BY <1>13 DEF Settle, TypeOK, Pass
  <2> QED
    BY <1>2, <1>13, <2>1, SettleSets DEF Over, Statuses, SpacedInv
<1>14. CASE PollGivesUp \/ RemoveTorrents
  <2>1. /\ r.pc \in {"poll", "remove"} /\ UNCHANGED <<spec, cond, cache, since>>
        /\ r.age \in 0..Interval
    BY <1>14 DEF PollGivesUp, RemoveTorrents, TypeOK, Pass
  <2> QED
    BY <1>2, <1>14, <2>1, EndSets DEF Over, Statuses, SpacedInv
<1>15. CASE WriteStatus
  <2>1. r.pc = "status" /\ r'.pc = "idle" /\ cond' = r.next /\ UNCHANGED <<spec, cache, since>>
    BY <1>15 DEF WriteStatus, Idle
  <2> QED
    BY <1>2, <2>1 DEF SpacedInv
<1> QED
  BY <1>4, <1>5, <1>6, <1>7, <1>8, <1>9, <1>10, <1>11, <1>12, <1>13, <1>14, <1>15
     DEF Next, Handler, Environment, Client

\* While nothing goes wrong and the watch keeps up, a whole interval lies between
\* two passes that ask for a verify, for every interval.
THEOREM VerifiesSpaced == Spec => PassesSpaced
<1>1. ASSUME Init PROVE SpacedInv
  <2>1. spec.enabled /\ cache.spec.enabled
    BY <1>1 DEF Init
  <2>2. cond.status = "None" /\ since = Interval /\ r.pc = "idle"
    BY <1>1 DEF Init, Idle, NoCondition
  <2> QED
    BY <2>1, <2>2 DEF SpacedInv
<1>2. SpacedInv /\ [Next]_vars =>
        [VerifyTorrents /\ troubles = 0 /\ ~lagged => since = Interval]_vars
  BY DEF SpacedInv, VerifyTorrents
<1> QED
  BY <1>1, <1>2, SpacedStep, TypeCorrect, PTL DEF Spec, PassesSpaced
=============================================================================
