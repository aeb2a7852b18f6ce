----------------------------- MODULE OutboxProofs -----------------------------
(***************************************************************************)
(* Proofs about module Outbox, for any number of decisions, any sizes of   *)
(* the queues and any times that satisfy LeaseAssumption: the ordinary lane*)
(* never sends a message past the lease of a decision in it, and a row that*)
(* says delivered is about a message the owner got.                        *)
(***************************************************************************)
EXTENDS Outbox, FiniteSetTheorems, TLAPS

\* What the ordinary lane holds is as old as a queue lets it get, and what the lane itself added.
Timely ==
    LET w == lane["ordinary"]
    IN  /\ w.pc = "compose" =>
              /\ w.kind = "group" /\ w.elapsed <= ComposeTime
              /\ \A d \in w.ds : age[d] <= MaxQueueAge + w.elapsed
        /\ w.pc = "send" /\ w.kind # "digest" =>
              /\ w.elapsed <= SendTime
              /\ \A d \in w.ds : age[d] <= MaxQueueAge + ComposeTime + w.elapsed

\* A worker records as told only what the deliverer took.
Taken ==
    \A l \in Lanes :
       /\ lane[l].rest \subseteq lane[l].ds
       /\ lane[l].pc \in {"mark", "complete"} => \A d \in lane[l].ds : told[d] # {}

IInv == TypeOK /\ Timely /\ Taken /\ Truthful

------------------------------------------------------------------------------
(* Types *)

LEMMA Times ==
    /\ {Window, Lease, MaxQueueAge, ComposeTime, SendTime, ProtectiveEvery,
        ProtectiveWindow, DigestRetry} \subseteq Nat
    /\ AgeCap \in Nat /\ Lease <= AgeCap
BY LeaseAssumption DEF AgeCap, Larger

LEMMA Zeroes == 0 \in 0..AgeCap /\ 0 \in 0..Window /\ 0 \in 0..DigestRetry /\ DigestRetry \in 0..DigestRetry
<1>1. AgeCap \in Nat /\ Window \in Nat /\ DigestRetry \in Nat
  BY Times
<1>2. QED
  BY <1>1

LEMMA LaneType ==
    ASSUME TypeOK, NEW l \in Lanes, NEW w \in Workers, SetLane(l, w)
    PROVE  lane' \in [Lanes -> Workers]
BY DEF TypeOK, SetLane

LEMMA IdleType == Idle \in Workers
BY DEF Idle, Workers

LEMMA WorkingType ==
    ASSUME NEW pc \in {"compose", "send", "giveup", "aged"}, NEW j \in Jobs
    PROVE  Working(pc, j) \in Workers
BY DEF Working, Workers, Jobs

LEMMA JobType ==
    ASSUME NEW kind \in {"group", "retry", "digest"}, NEW ds \in SUBSET Decisions, NEW n \in Nat
    PROVE  Job(kind, ds, n) \in Jobs
BY DEF Job, Jobs

LEMMA DeferringType ==
    ASSUME NEW ds \in SUBSET Decisions, NEW release \in BOOLEAN
    PROVE  Deferring(ds, release) \subseteq Deferrals
BY DEF Deferring, Deferrals

LEMMA BacklogType ==
    ASSUME TypeOK, NEW entries \in SUBSET Deferrals, Backlog(entries)
    PROVE  deferred' \subseteq Deferrals /\ lost' \subseteq Decisions
BY DEF TypeOK, Backlog, Deferrals

LEMMA SettledType ==
    ASSUME TypeOK, NEW d \in Decisions, NEW release
    PROVE  SettledRow(d, release) \in {"none", "notify", "digest", "told", "released"}
BY DEF TypeOK, SettledRow

LEMMA PutType ==
    ASSUME TypeOK, NEW d \in Decisions, NEW s \in {"none", "notify", "digest", "told", "released"},
           Put(d, s) \/ UNCHANGED <<row, age, last>>
    PROVE  /\ row' \in [Decisions -> {"none", "notify", "digest", "told", "released"}]
           /\ age' \in [Decisions -> 0..AgeCap] /\ last' \in [Situations -> Levels]
           /\ \A e \in Decisions : age'[e] <= age[e] /\ age'[e] \in Nat
<1>1. AgeCap \in Nat /\ 0 \in 0..AgeCap
  BY Times, Zeroes
<1>2. /\ row' \in [Decisions -> {"none", "notify", "digest", "told", "released"}]
      /\ age' \in [Decisions -> 0..AgeCap]
  BY <1>1 DEF Put, TypeOK
<1>3. \A e \in Decisions : age[e] \in Nat /\ (age'[e] = age[e] \/ age'[e] = 0)
  BY <1>1 DEF Put, TypeOK
<1>5. last' \in [Situations -> Levels]
  <2>1. Severity[d] \in Levels
    BY DEF Levels
  <2>2. QED
    BY <2>1 DEF Put, TypeOK
<1>4. QED
  BY <1>2, <1>3, <1>5

\* Where a worker goes on with what is left to record.
LEMMA RestType ==
    ASSUME TypeOK, NEW l \in Lanes, NEW d,
           SetLane(l, IF lane[l].rest = {d} THEN Idle ELSE [lane[l] EXCEPT !.rest = @ \ {d}])
    PROVE  lane' \in [Lanes -> Workers]
<1>1. lane[l] \in Workers
  BY DEF TypeOK
<1>2. [lane[l] EXCEPT !.rest = @ \ {d}] \in Workers
  BY <1>1 DEF Workers
<1> QED
  BY <1>2, IdleType, LaneType

LEMMA GoType ==
    ASSUME TypeOK, NEW l \in Lanes,
           NEW pc \in {"idle", "compose", "send", "mark", "complete", "giveup", "aged"}
    PROVE  [lane[l] EXCEPT !.pc = pc] \in Workers /\ Recording(lane[l], pc) \in Workers
<1>1. lane[l] \in Workers
  BY DEF TypeOK
<1> QED
  BY <1>1 DEF Workers, Recording

THEOREM InitType == Init => TypeOK
<1> SUFFICES ASSUME Init PROVE TypeOK
  OBVIOUS
<1>1. age \in [Decisions -> 0..AgeCap] /\ windowAge \in 0..Window /\ digestWait \in 0..DigestRetry
  BY Zeroes DEF Init
<1>2. ord \in Seq(Jobs) /\ protRetry \in Seq(Jobs)
  BY DEF Init
<1>3. lane \in [Lanes -> Workers]
  BY IdleType DEF Init
<1>5. last \in [Situations -> Levels]
  BY DEF Init, Levels
<1>4. QED
  BY <1>1, <1>2, <1>3, <1>5 DEF Init, TypeOK

LEMMA DecideType ==
    ASSUME TypeOK, NEW d \in Decisions, Decide(d)
    PROVE  TypeOK'
<1>1. Put(d, "notify") \/ Put(d, "digest")
  BY DEF Decide
<1>2. /\ row' \in [Decisions -> {"none", "notify", "digest", "told", "released"}]
      /\ age' \in [Decisions -> 0..AgeCap] /\ last' \in [Situations -> Levels]
  BY <1>1, PutType
<1>3. held' \subseteq Decisions
  BY DEF Decide, TypeOK
<1>4. QED
  BY <1>2, <1>3 DEF TypeOK, Decide, queues, ticker, history

LEMMA AcceptClosedType ==
    ASSUME TypeOK, NEW d \in Decisions, AcceptClosed(d)
    PROVE  TypeOK'
BY DEF TypeOK, AcceptClosed, database, queues, ticker

LEMMA AcceptType ==
    ASSUME TypeOK, NEW d \in Decisions, Accept(d)
    PROVE  TypeOK'
<1> DEFINE closes == buf # {} /\ (Cardinality(buf) >= MaxBuffered \/ (Window > 0 /\ windowAge >= Window))
           expired == IF closes THEN buf ELSE {}
           group == (buf \ expired) \cup {d}
           flushed == IF Flushes(d) THEN group ELSE {}
<1>1. expired \subseteq Ordinary /\ flushed \subseteq Decisions /\ group \ flushed \subseteq Ordinary
  BY DEF TypeOK, Flushes, Ordinary
<1>2. held' \subseteq Decisions /\ buf' \subseteq Ordinary
  BY <1>1 DEF TypeOK, Accept
<1>3. windowAge' \in 0..Window
  BY Times DEF TypeOK, Accept
<1>4. prot' \subseteq Decisions
  BY <1>1 DEF TypeOK, Accept
<1>5. ord' \in Seq(Jobs)
  <2>1. PushOrdinary(expired)
    BY DEF Accept
  <2>2. Job("group", expired, 0) \in Jobs
    BY <1>1, JobType DEF Ordinary
  <2> HIDE DEF expired
  <2>3. QED
    BY <2>1, <2>2 DEF PushOrdinary, TypeOK
<1>6. deferred' \subseteq Deferrals /\ lost' \subseteq Decisions
  <2>1. Backlog(Overflow(expired) \cup Deferring(Superseded(flushed), TRUE))
    BY DEF Accept
  <2>2. Superseded(flushed) \subseteq Decisions
    BY <1>1 DEF Superseded, TypeOK
  <2>3. Overflow(expired) \subseteq Deferrals
    BY <1>1, DeferringType DEF Overflow, Ordinary
  <2> HIDE DEF expired, flushed
  <2>4. Deferring(Superseded(flushed), TRUE) \subseteq Deferrals
    BY <2>2, DeferringType
  <2>5. QED
    BY <2>1, <2>3, <2>4, BacklogType
<1>7. QED
  BY <1>2, <1>3, <1>4, <1>5, <1>6 DEF TypeOK, Accept, database, ticker

LEMMA TickGroupType ==
    ASSUME TypeOK, TickGroup
    PROVE  TypeOK'
<1>1. ord' \in Seq(Jobs)
  <2>1. Job("group", buf, 0) \in Jobs
    BY JobType DEF Ordinary, TypeOK
  <2>2. QED
    BY <2>1 DEF TickGroup, PushOrdinary, TypeOK
<1>2. deferred' \subseteq Deferrals /\ lost' \subseteq Decisions
  <2>1. Overflow(buf) \subseteq Deferrals
    BY DeferringType DEF Overflow, Ordinary, TypeOK
  <2>2. QED
    BY <2>1, BacklogType DEF TickGroup
<1>3. buf' \subseteq Ordinary /\ windowAge' \in 0..Window
  BY Times DEF TickGroup
<1>4. QED
  BY <1>1, <1>2, <1>3 DEF TypeOK, TickGroup, database, process, ticker

LEMMA TickRetryType ==
    ASSUME TypeOK, NEW r \in retries, TickRetry(r)
    PROVE  TypeOK'
<1>1. Job("retry", r.ds, r.failed) \in Jobs
  BY JobType DEF TypeOK, Retries
<1>2. ord \in Seq(Jobs) /\ protRetry \in Seq(Jobs)
  BY DEF TypeOK
<1> DEFINE j == Job("retry", r.ds, r.failed)
<1>4. Append(ord, j) \in Seq(Jobs) /\ Append(protRetry, j) \in Seq(Jobs)
  <2> HIDE DEF j
  <2>1. j \in Jobs
    BY <1>1 DEF j
  <2>2. QED
    BY <1>2, <2>1
<1>5. ord' \in Seq(Jobs) /\ protRetry' \in Seq(Jobs)
  BY <1>2, <1>4 DEF TickRetry
<1>6. QED
  BY <1>5 DEF TypeOK, TickRetry, database, process, ticker, history

LEMMA TickTakeDeferredType ==
    ASSUME TypeOK, TickTakeDeferred
    PROVE  TypeOK'
BY DEF TypeOK, TickTakeDeferred, database, process, history

LEMMA SettleType ==
    ASSUME TypeOK, NEW x \in todo
    PROVE  /\ x \in Deferrals /\ SettledRow(x.d, x.release) \in {"none", "notify", "digest", "told", "released"}
           /\ [x EXCEPT !.tries = x.tries + 1] \in Deferrals
<1>1. x \in Deferrals
  BY DEF TypeOK
<1>2. x.d \in Decisions /\ x.release \in BOOLEAN
  BY <1>1 DEF Deferrals
<1>3. SettledRow(x.d, x.release) \in {"none", "notify", "digest", "told", "released"}
  BY <1>2, SettledType
<1> QED
  BY <1>1, <1>3 DEF Deferrals

LEMMA TickSettleType ==
    ASSUME TypeOK, NEW x \in todo, TickSettle(x)
    PROVE  TypeOK'
<1>1. /\ row' \in [Decisions -> {"none", "notify", "digest", "told", "released"}]
      /\ age' \in [Decisions -> 0..AgeCap] /\ last' \in [Situations -> Levels]
  BY SettleType, PutType DEF TickSettle, Deferrals
<1>2. deferred' \subseteq Deferrals /\ lost' \subseteq Decisions
  <2>1. x.d \in Decisions
    BY SettleType DEF Deferrals
  <2>2. CASE Backlog({[x EXCEPT !.tries = x.tries + 1]})
    BY <2>2, SettleType, BacklogType
  <2>3. CASE lost' = lost \cup {x.d} /\ UNCHANGED deferred
    BY <2>1, <2>3 DEF TypeOK
  <2>4. CASE UNCHANGED <<deferred, lost, faults>>
    BY <2>4 DEF TypeOK
  <2>5. QED
    BY <2>2, <2>3, <2>4 DEF TickSettle
<1>3. faults' \in Nat
  BY DEF TickSettle, TypeOK
<1>4. todo' \subseteq Deferrals
  BY DEF TickSettle, TypeOK
<1>5. QED
  BY <1>1, <1>2, <1>3, <1>4 DEF TypeOK, TickSettle, process

LEMMA TickDigestType ==
    ASSUME TypeOK, TickDigest
    PROVE  TypeOK'
<1>1. Job("digest", {d \in Decisions : row[d] = "digest"}, 0) \in Jobs
  BY JobType
<1> DEFINE j == Job("digest", {d \in Decisions : row[d] = "digest"}, 0)
<1>2. Append(ord, j) \in Seq(Jobs)
  <2> HIDE DEF j
  <2>1. j \in Jobs /\ ord \in Seq(Jobs)
    BY <1>1 DEF j, TypeOK
  <2>2. QED
    BY <2>1
<1>5. ord' \in Seq(Jobs)
  BY <1>2 DEF TickDigest, TypeOK
<1>6. digestWait' \in 0..DigestRetry
  BY Zeroes DEF TickDigest, TypeOK
<1>7. digestDone' \in BOOLEAN /\ digestBusy' \in BOOLEAN
  BY DEF TickDigest, TypeOK, LaneFull
<1>8. faults' \in Nat
  BY DEF TickDigest, TypeOK
<1>4. QED
  BY <1>5, <1>6, <1>7, <1>8 DEF TypeOK, TickDigest, process

LEMMA PopOrdinaryType ==
    ASSUME TypeOK, PopOrdinary
    PROVE  TypeOK'
<1>1. Head(ord) \in Jobs /\ ord' \in Seq(Jobs)
  BY DEF TypeOK, PopOrdinary
<1>2. lane' \in [Lanes -> Workers]
  BY <1>1, WorkingType, LaneType DEF PopOrdinary, Lanes
<1>3. QED
  BY <1>1, <1>2 DEF TypeOK, PopOrdinary, database, process, ticker, history

LEMMA ComposeType ==
    ASSUME TypeOK, Compose
    PROVE  TypeOK'
<1>1. lane["ordinary"] \in Workers
  BY DEF TypeOK, Lanes
<1>2. [lane["ordinary"] EXCEPT !.pc = "send", !.elapsed = 0] \in Workers
  BY <1>1 DEF Workers
<1>3. lane' \in [Lanes -> Workers]
  BY <1>2, LaneType DEF Compose, Lanes
<1>4. QED
  BY <1>3 DEF TypeOK, Compose, database, process, queues, ticker, history

LEMMA PopProtectiveType ==
    ASSUME TypeOK, PopProtective
    PROVE  TypeOK'
<1>1. CASE protRetry # <<>> /\ protRetry' = Tail(protRetry)
             /\ SetLane("protective", Working("send", Head(protRetry))) /\ UNCHANGED prot
  <2>1. Head(protRetry) \in Jobs /\ protRetry' \in Seq(Jobs)
    BY <1>1 DEF TypeOK
  <2>2. lane' \in [Lanes -> Workers]
    BY <1>1, <2>1, WorkingType, LaneType DEF Lanes
  <2>3. QED
    BY <1>1, <2>1, <2>2 DEF TypeOK, PopProtective, database, process, ticker, history
<1>2. ASSUME NEW group \in SUBSET prot, prot' = prot \ group,
             SetLane("protective", Working("send", Job("group", group, 0))), UNCHANGED protRetry
      PROVE  TypeOK'
  <2>1. Job("group", group, 0) \in Jobs
    BY JobType DEF TypeOK
  <2>2. lane' \in [Lanes -> Workers]
    BY <1>2, <2>1, WorkingType, LaneType DEF Lanes
  <2>3. QED
    BY <1>2, <2>2 DEF TypeOK, PopProtective, database, process, ticker, history
<1>3. QED
  BY <1>1, <1>2 DEF PopProtective

LEMMA DeliveredType ==
    ASSUME TypeOK, NEW l \in Lanes, Delivered(l)
    PROVE  TypeOK'
<1>1. lane' \in [Lanes -> Workers]
  BY GoType, LaneType DEF Delivered
<1>2. told' \in [Decisions -> SUBSET (Lanes \cup {"digest"})]
  BY DEF Delivered, TypeOK
<1>3. QED
  BY <1>1, <1>2 DEF TypeOK, Delivered, database, process, queues, ticker

LEMMA MarkType ==
    ASSUME TypeOK, NEW l \in Lanes, Mark(l)
    PROVE  TypeOK'
<1>1. PICK d \in lane[l].rest :
        /\ \/ Put(d, "told") /\ UNCHANGED faults
           \/ faults < MaxFaults /\ faults' = faults + 1 /\ UNCHANGED <<row, age, last>>
        /\ SetLane(l, IF lane[l].rest = {d} THEN Idle ELSE [lane[l] EXCEPT !.rest = @ \ {d}])
  BY DEF Mark
<1>2. lane' \in [Lanes -> Workers]
  BY <1>1, RestType
<1>5. d \in Decisions
  BY DEF TypeOK, Workers
<1>6. /\ row' \in [Decisions -> {"none", "notify", "digest", "told", "released"}]
      /\ age' \in [Decisions -> 0..AgeCap] /\ last' \in [Situations -> Levels]
  BY <1>1, <1>5, PutType
<1>3. faults' \in Nat
  BY <1>1 DEF TypeOK
<1>4. QED
  BY <1>2, <1>3, <1>6 DEF TypeOK, Mark, process, queues, ticker

LEMMA CompleteDigestType ==
    ASSUME TypeOK, CompleteDigest
    PROVE  TypeOK'
<1>1. lane' \in [Lanes -> Workers]
  BY IdleType, LaneType DEF CompleteDigest, Lanes
<1>2. row' \in [Decisions -> {"none", "notify", "digest", "told", "released"}]
  BY DEF CompleteDigest, TypeOK
<1>3. digestDone' \in BOOLEAN /\ digestBusy' \in BOOLEAN
  BY DEF CompleteDigest, TypeOK
<1>5. faults' \in Nat /\ last' \in [Situations -> Levels]
  BY DEF CompleteDigest, TypeOK
<1>4. QED
  BY <1>1, <1>2, <1>3, <1>5 DEF TypeOK, CompleteDigest, process, queues

LEMMA DigestNotDeliveredType ==
    ASSUME TypeOK, DigestNotDelivered
    PROVE  TypeOK'
<1>1. lane' \in [Lanes -> Workers]
  BY IdleType, LaneType DEF DigestNotDelivered, Lanes
<1>2. QED
  BY <1>1 DEF TypeOK, DigestNotDelivered, database, process, queues, history

LEMMA NotDeliveredType ==
    ASSUME TypeOK, NEW l \in Lanes, NotDelivered(l)
    PROVE  TypeOK'
<1> DEFINE failed == lane[l].failed + 1
<1>1. lane[l] \in Workers
  BY DEF TypeOK
<1>2. failed \in Nat /\ failed >= 1 /\ lane[l].ds \in SUBSET Decisions
  BY <1>1 DEF Workers
<1>3. Delay(failed) \in Nat
  <2> HIDE DEF failed
  <2>1. QED
    BY <1>2, DelayAssumption, Times DEF Delay
<1>4. [ds |-> lane[l].ds, failed |-> failed, wait |-> Delay(failed)] \in Retries
  BY <1>2, <1>3 DEF Retries
<1>5. retries' \subseteq Retries
  BY <1>4 DEF NotDelivered, TypeOK
<1>6. lane' \in [Lanes -> Workers]
  BY GoType, IdleType, LaneType DEF NotDelivered
<1>7. QED
  BY <1>5, <1>6 DEF TypeOK, NotDelivered, database, process, ticker, history

LEMMA GiveUpType ==
    ASSUME TypeOK, NEW l \in Lanes, GiveUp(l)
    PROVE  TypeOK'
<1>1. PICK d \in lane[l].rest :
        /\ \/ /\ Put(d, SettledRow(d, d \in Protective))
              /\ UNCHANGED <<deferred, lost, faults>>
           \/ /\ faults < MaxFaults /\ faults' = faults + 1
              /\ Backlog(Deferring({d}, d \in Protective))
              /\ UNCHANGED <<row, age, last>>
        /\ SetLane(l, IF lane[l].rest = {d} THEN Idle ELSE [lane[l] EXCEPT !.rest = @ \ {d}])
  BY DEF GiveUp
<1>2. d \in Decisions
  BY DEF TypeOK, Workers
<1>3. lane' \in [Lanes -> Workers]
  BY <1>1, RestType
<1>4. SettledRow(d, d \in Protective) \in {"none", "notify", "digest", "told", "released"}
  BY <1>2, SettledType
<1>5. /\ row' \in [Decisions -> {"none", "notify", "digest", "told", "released"}]
      /\ age' \in [Decisions -> 0..AgeCap] /\ last' \in [Situations -> Levels]
  BY <1>1, <1>2, <1>4, PutType
<1>9. faults' \in Nat
  BY <1>1 DEF TypeOK
<1>6. Deferring({d}, d \in Protective) \subseteq Deferrals
  <2> DEFINE release == d \in Protective
  <2>1. release \in BOOLEAN
    OBVIOUS
  <2> HIDE DEF release
  <2>2. Deferring({d}, release) \subseteq Deferrals
    BY <1>2, <2>1, DeferringType
  <2>3. QED
    BY <2>2 DEF release
<1>7. deferred' \subseteq Deferrals /\ lost' \subseteq Decisions
  BY <1>1, <1>6, BacklogType DEF TypeOK
<1>8. QED
  BY <1>3, <1>5, <1>7, <1>9 DEF TypeOK, GiveUp, process, ticker

LEMMA AgedType ==
    ASSUME TypeOK, Aged
    PROVE  TypeOK'
<1>1. PICK d \in lane["ordinary"].rest :
        /\ \/ Put(d, SettledRow(d, FALSE)) /\ UNCHANGED <<lost, faults>>
           \/ /\ faults < MaxFaults /\ faults' = faults + 1
              /\ lost' = lost \cup {d}
              /\ UNCHANGED <<row, age, last>>
        /\ SetLane("ordinary", IF lane["ordinary"].rest = {d} THEN Idle
                               ELSE [lane["ordinary"] EXCEPT !.rest = @ \ {d}])
  BY DEF Aged
<1>2. "ordinary" \in Lanes /\ d \in Decisions
  BY DEF TypeOK, Workers, Lanes
<1>3. lane' \in [Lanes -> Workers]
  BY <1>1, <1>2, RestType
<1>4. SettledRow(d, FALSE) \in {"none", "notify", "digest", "told", "released"}
  BY <1>2, SettledType
<1>5. /\ row' \in [Decisions -> {"none", "notify", "digest", "told", "released"}]
      /\ age' \in [Decisions -> 0..AgeCap] /\ last' \in [Situations -> Levels]
  BY <1>1, <1>2, <1>4, PutType
<1>7. lost' \subseteq Decisions
  BY <1>1, <1>2 DEF TypeOK
<1>8. faults' \in Nat
  <2>1. faults' = faults \/ faults' = faults + 1
    BY <1>1
  <2>2. QED
    BY <2>1 DEF TypeOK
<1>6. QED
  BY <1>3, <1>5, <1>7, <1>8 DEF TypeOK, Aged, process, queues, ticker

LEMMA StopType ==
    ASSUME TypeOK, Stop
    PROVE  TypeOK'
<1>1. Job("group", buf, 0) \in Jobs
  BY JobType DEF TypeOK, Ordinary
<1>2. ord' \in Seq(Jobs) /\ windowAge' \in 0..Window /\ buf' \subseteq Ordinary
  BY <1>1, Times DEF Stop, TypeOK
<1>3. QED
  BY <1>2 DEF TypeOK, Stop, database, ticker, history

LEMMA DrainType ==
    ASSUME TypeOK, Drain
    PROVE  TypeOK'
<1>1. ASSUME NEW r \in retries PROVE Drained(r.ds) \subseteq Deferrals
  <2>1. r.ds \cap Protective \in SUBSET Decisions /\ r.ds \ Protective \in SUBSET Decisions
    BY DEF TypeOK, Retries
  <2>2. QED
    BY <2>1, DeferringType DEF Drained
<1>2. todo' \subseteq Deferrals
  BY <1>1 DEF Drain
<1>3. QED
  BY <1>2 DEF TypeOK, Drain, database, process, history

LEMMA DrainSettleType ==
    ASSUME TypeOK, NEW x \in todo, DrainSettle(x)
    PROVE  TypeOK'
<1>1. /\ row' \in [Decisions -> {"none", "notify", "digest", "told", "released"}]
      /\ age' \in [Decisions -> 0..AgeCap] /\ last' \in [Situations -> Levels]
  BY SettleType, PutType DEF DrainSettle, Deferrals
<1>2. deferred' \subseteq Deferrals /\ lost' \subseteq Decisions
  BY SettleType, BacklogType DEF DrainSettle, TypeOK
<1>3. faults' \in Nat /\ todo' \subseteq Deferrals
  BY DEF DrainSettle, TypeOK
<1>4. QED
  BY <1>1, <1>2, <1>3 DEF TypeOK, DrainSettle, process

LEMMA LastDeferralsType ==
    ASSUME TypeOK, LastDeferrals
    PROVE  TypeOK'
BY DEF TypeOK, LastDeferrals, database, process, history

LEMMA GoneType ==
    ASSUME TypeOK, MemoryGone, run' \in {"up", "stopping", "down"}, faults' \in Nat
    PROVE  TypeOK'
<1>1. windowAge' \in 0..Window
  BY Zeroes DEF MemoryGone
<1>2. ord' \in Seq(Jobs) /\ protRetry' \in Seq(Jobs)
  BY DEF MemoryGone
<1>3. lane' \in [Lanes -> Workers]
  BY IdleType DEF MemoryGone
<1>4. lost' \subseteq Decisions
  BY DEF TypeOK, MemoryGone
<1>5. QED
  BY <1>1, <1>2, <1>3, <1>4 DEF TypeOK, MemoryGone, database

LEMMA AdvanceType ==
    ASSUME TypeOK, Advance
    PROVE  TypeOK'
<1>0. AgeCap \in Nat /\ Window \in Nat /\ DigestRetry \in Nat
  BY Times
<1>1. age' \in [Decisions -> 0..AgeCap]
  <2>1. ASSUME NEW d \in Decisions PROVE age[d] + 1 \in Nat /\ Smaller(age[d] + 1, AgeCap) \in 0..AgeCap
    BY <1>0 DEF TypeOK, Smaller
  <2>2. QED
    BY <2>1, Zeroes DEF Advance
<1>2. windowAge' \in 0..Window
  BY <1>0, Zeroes DEF Advance, TypeOK, Smaller
<1>3. digestWait' \in 0..DigestRetry
  BY <1>0, Zeroes DEF Advance, TypeOK
<1>7. digestDone' \in BOOLEAN
  BY DEF Advance, TypeOK
<1>4. retries' \subseteq Retries
  <2>1. ASSUME NEW r \in retries PROVE [r EXCEPT !.wait = IF @ = 0 THEN 0 ELSE @ - 1] \in Retries
    <3>1. r \in Retries /\ r.wait \in Nat
      BY DEF TypeOK, Retries
    <3>2. (IF r.wait = 0 THEN 0 ELSE r.wait - 1) \in Nat
      BY <3>1
    <3>3. QED
      BY <3>1, <3>2 DEF Retries
  <2>2. QED
    BY <2>1 DEF Advance
<1>5. lane' \in [Lanes -> Workers]
  <2>1. ASSUME NEW l \in Lanes PROVE [lane[l] EXCEPT !.elapsed = @ + 1] \in Workers
    <3>1. lane[l] \in Workers
      BY DEF TypeOK
    <3>2. QED
      BY <3>1 DEF Workers
  <2>2. QED
    BY <2>1 DEF Advance, TypeOK
<1>6. QED
  BY <1>1, <1>2, <1>3, <1>4, <1>5, <1>7 DEF TypeOK, Advance, process, ticker, history

LEMMA TypeKept ==
    ASSUME TypeOK, Next
    PROVE  TypeOK'
<1>1. CASE \E d \in Decisions : Decide(d)
  BY <1>1, DecideType
<1>2. CASE HandOver
  BY <1>2, AcceptType, AcceptClosedType DEF HandOver
<1>3. CASE Tick
  BY <1>3, TickGroupType, TickRetryType, TickTakeDeferredType, TickSettleType, TickDigestType DEF Tick
<1>4. CASE \E l \in Lanes : Outcome(l)
  BY <1>4, DeliveredType, NotDeliveredType, MarkType, GiveUpType DEF Outcome
<1>5. CASE OrdinaryWorker
  BY <1>4, <1>5, PopOrdinaryType, ComposeType, DigestNotDeliveredType, CompleteDigestType, AgedType
     DEF OrdinaryWorker, Lanes
<1>6. CASE ProtectiveWorker
  BY <1>4, <1>6, PopProtectiveType DEF ProtectiveWorker, Lanes
<1>7. CASE Shutdown
  BY <1>7, DrainType, DrainSettleType, LastDeferralsType, GoneType DEF Shutdown, Exit, TypeOK
<1>8. CASE Stop
  BY <1>8, StopType
<1>9. CASE Crash
  <2>1. faults' \in Nat /\ run' \in {"up", "stopping", "down"} /\ MemoryGone
    BY <1>9 DEF Crash, TypeOK
  <2>2. QED
    BY <2>1, GoneType
<1>10. CASE Advance
  BY <1>10, AdvanceType
<1>11. QED
  BY <1>1, <1>2, <1>3, <1>5, <1>6, <1>7, <1>8, <1>9, <1>10 DEF Next

LEMMA StutterType ==
    ASSUME TypeOK, UNCHANGED vars
    PROVE  TypeOK'
BY DEF TypeOK, vars, database, process, queues, ticker, history

------------------------------------------------------------------------------
(* The ordinary lane's time *)

\* Nothing of what the ordinary lane holds grew older.
LEMMA TimelySame ==
    ASSUME TypeOK, Timely, lane'["ordinary"] = lane["ordinary"],
           \A d \in Decisions : age'[d] <= age[d] /\ age'[d] \in Nat
    PROVE  Timely'
<1>0. lane["ordinary"] \in Workers /\ \A d \in Decisions : age[d] \in Nat
  BY Times DEF TypeOK, Lanes
<1>1. lane["ordinary"].ds \subseteq Decisions /\ lane["ordinary"].elapsed \in Nat
  BY <1>0 DEF Workers
<1>2. QED
  BY <1>0, <1>1, Times DEF Timely

\* The ordinary lane holds nothing that waits to be sent.
LEMMA TimelyDone ==
    ASSUME lane'["ordinary"].pc \notin {"compose", "send"}
    PROVE  Timely'
BY DEF Timely

LEMMA TimelyKept ==
    ASSUME TypeOK, Timely, Next
    PROVE  Timely'
<1>0. \A d \in Decisions : age[d] \in Nat
  BY Times DEF TypeOK
<1>a. ASSUME UNCHANGED <<age, lane>> PROVE Timely'
  BY <1>0, <1>a, TimelySame
<1>l. lane \in [Lanes -> Workers] /\ "ordinary" \in Lanes
  BY DEF TypeOK, Lanes
\* A tick or a shutdown that settles a deferral.
<1>s. ASSUME NEW x \in todo, Put(x.d, SettledRow(x.d, x.release)) \/ UNCHANGED <<row, age, last>>,
             UNCHANGED lane
      PROVE  Timely'
  <2>1. x.d \in Decisions
    BY <1>s, SettleType DEF Deferrals
  <2>2. \A e \in Decisions : age'[e] <= age[e] /\ age'[e] \in Nat
    BY <1>s, <2>1, SettleType, PutType
  <2>3. QED
    BY <1>s, <2>2, TimelySame
<1>1. ASSUME NEW d \in Decisions, Decide(d) PROVE Timely'
  <2>1. \A e \in Decisions : age'[e] <= age[e] /\ age'[e] \in Nat
    BY <1>1, PutType DEF Decide
  <2>2. lane' = lane
    BY <1>1 DEF Decide
  <2>3. QED
    BY <2>1, <2>2, TimelySame
<1>2. CASE HandOver
  BY <1>2, <1>a DEF HandOver, Accept, AcceptClosed, database
<1>3. CASE Tick
  <2>1. CASE \E x \in todo : TickSettle(x)
    BY <2>1, <1>s DEF TickSettle
  <2>2. QED
    BY <1>3, <1>a, <2>1 DEF Tick, TickGroup, TickRetry, TickTakeDeferred, TickDigest, database
<1>4. ASSUME NEW l \in Lanes, Outcome(l) PROVE Timely'
  <2>1. \A e \in Decisions : age'[e] <= age[e] /\ age'[e] \in Nat
    <3>1. CASE Mark(l)
      <4>1. PICK d \in Decisions : Put(d, "told") \/ UNCHANGED <<row, age, last>>
        BY <3>1 DEF Mark, TypeOK, Workers
      <4>2. QED
        BY <4>1, PutType
    <3>2. CASE GiveUp(l)
      <4>1. PICK d \in Decisions : Put(d, SettledRow(d, d \in Protective)) \/ UNCHANGED <<row, age, last>>
        BY <3>2 DEF GiveUp, TypeOK, Workers
      <4>2. SettledRow(d, d \in Protective) \in {"none", "notify", "digest", "told", "released"}
        BY SettledType
      <4>3. QED
        BY <4>1, <4>2, PutType
    <3>3. QED
      BY <1>0, <1>4, <3>1, <3>2 DEF Outcome, Delivered, NotDelivered, database
  <2>2. CASE l # "ordinary"
    <3>1. lane'["ordinary"] = lane["ordinary"]
      BY <1>4, <1>l, <2>2 DEF Outcome, Delivered, NotDelivered, Mark, GiveUp, SetLane
    <3>2. QED
      BY <1>0, <2>1, <3>1, TimelySame
  <2>3. CASE l = "ordinary"
    <3>1. lane'["ordinary"].pc \notin {"compose", "send"}
      <4>1. lane["ordinary"] \in Workers
        BY <1>l
      <4>2. CASE Delivered("ordinary")
        BY <1>l, <4>1, <4>2 DEF Delivered, SetLane, Workers, Recording
      <4>3. CASE NotDelivered("ordinary")
        <5>1. PICK w : SetLane("ordinary", w) /\ (w = Idle \/ w = Recording(lane["ordinary"], "giveup"))
          BY <4>3 DEF NotDelivered
        <5>2. Idle.pc = "idle" /\ Recording(lane["ordinary"], "giveup").pc = "giveup"
          BY <4>1 DEF Idle, Recording, Workers
        <5>3. lane'["ordinary"] = w
          BY <1>l, <5>1 DEF SetLane
        <5>4. QED
          BY <5>1, <5>2, <5>3
      <4>4. CASE Mark("ordinary")
        <5>1. PICK d : SetLane("ordinary", IF lane["ordinary"].rest = {d} THEN Idle
                                           ELSE [lane["ordinary"] EXCEPT !.rest = @ \ {d}])
          BY <4>4 DEF Mark
        <5>2. QED
          BY <1>l, <4>1, <4>4, <5>1 DEF Mark, SetLane, Idle, Workers
      <4>5. CASE GiveUp("ordinary")
        <5>1. PICK d : SetLane("ordinary", IF lane["ordinary"].rest = {d} THEN Idle
                                           ELSE [lane["ordinary"] EXCEPT !.rest = @ \ {d}])
          BY <4>5 DEF GiveUp
        <5>2. QED
          BY <1>l, <4>1, <4>5, <5>1 DEF GiveUp, SetLane, Idle, Workers
      <4>6. QED
        BY <1>4, <2>3, <4>2, <4>3, <4>4, <4>5 DEF Outcome
    <3>2. QED
      BY <3>1, TimelyDone
  <2>4. QED
    BY <2>2, <2>3
<1>5. CASE PopOrdinary
  <2> DEFINE j == Head(ord)
             late == j.kind # "digest" /\ PastLease(j.ds, 0)
  <2>2. j \in Jobs
    BY <1>5 DEF PopOrdinary, TypeOK
  <2>6. \/ late /\ SetLane("ordinary", Working(IF j.kind = "retry" THEN "giveup" ELSE "aged", j))
        \/ ~late /\ SetLane("ordinary", Working("send", j))
        \/ ~late /\ j.kind = "group" /\ SetLane("ordinary", Working("compose", j))
    BY <1>5 DEF PopOrdinary
  <2> HIDE DEF j
  <2>7. ASSUME NEW w, SetLane("ordinary", w) PROVE lane'["ordinary"] = w
    BY <1>l, <2>7 DEF SetLane
  <2>8. \A pc : Working(pc, j).pc = pc
    BY DEF Working
  <2>1. \/ lane'["ordinary"].pc \in {"giveup", "aged"}
        \/ /\ ~late
           /\ \/ lane'["ordinary"] = Working("send", j)
              \/ j.kind = "group" /\ lane'["ordinary"] = Working("compose", j)
    BY <2>6, <2>7, <2>8
  <2>3. CASE lane'["ordinary"].pc \in {"giveup", "aged"}
    BY <2>3, TimelyDone
  <2>4. ASSUME j.kind # "digest" => ~PastLease(j.ds, 0), NEW pc \in {"send", "compose"},
               lane'["ordinary"] = Working(pc, j), pc = "compose" => j.kind = "group"
        PROVE  Timely'
    <3>1. age' = age
      BY <1>5 DEF PopOrdinary, database
    <3>2. \A d \in j.ds : d \in Decisions
      BY <2>2 DEF Jobs
    <3>3. j.kind # "digest" => \A d \in j.ds : age[d] <= MaxQueueAge
      BY <1>0, <2>4, <3>2, Times DEF PastLease
    <3>4. lane'["ordinary"].elapsed = 0 /\ lane'["ordinary"].ds = j.ds /\ lane'["ordinary"].kind = j.kind
          /\ lane'["ordinary"].pc = pc
      BY <2>4 DEF Working
    <3>5. QED
      BY <1>0, <2>4, <3>1, <3>2, <3>3, <3>4, Times DEF Timely
  <2>5. QED
    BY <2>1, <2>3, <2>4
<1>6. CASE Compose
  <2>1. age' = age /\ lane["ordinary"].pc = "compose"
    BY <1>6 DEF Compose, database
  <2>2. lane["ordinary"] \in Workers
    BY <1>l
  <2>3. lane["ordinary"].ds \subseteq Decisions /\ lane["ordinary"].elapsed \in Nat
    BY <2>2 DEF Workers
  <2>4. lane'["ordinary"].pc = "send" /\ lane'["ordinary"].elapsed = 0
        /\ lane'["ordinary"].ds = lane["ordinary"].ds
    BY <1>6, <1>l, <2>2 DEF Compose, SetLane, Workers
  <2>5. \A d \in lane["ordinary"].ds : age[d] <= MaxQueueAge + ComposeTime
    BY <1>0, <2>1, <2>3, Times DEF Timely
  <2>6. QED
    BY <1>0, <2>1, <2>3, <2>4, <2>5, Times DEF Timely
<1>7. CASE DigestNotDelivered \/ CompleteDigest \/ Aged
  <2>3. lane["ordinary"] \in Workers
    BY <1>l
  <2>5. CASE Aged
    <3>1. PICK d : SetLane("ordinary", IF lane["ordinary"].rest = {d} THEN Idle
                                       ELSE [lane["ordinary"] EXCEPT !.rest = @ \ {d}])
      BY <2>5 DEF Aged
    <3>2. lane'["ordinary"].pc \notin {"compose", "send"}
      BY <1>l, <2>3, <2>5, <3>1 DEF Aged, SetLane, Idle, Workers
    <3>3. QED
      BY <3>2, TimelyDone
  <2>1. DigestNotDelivered \/ CompleteDigest => lane'["ordinary"].pc \notin {"compose", "send"}
    BY <1>l DEF DigestNotDelivered, CompleteDigest, SetLane, Idle
  <2>2. QED
    BY <1>7, <2>1, <2>5, TimelyDone
<1>8. CASE PopProtective
  <2>1. age' = age /\ lane'["ordinary"] = lane["ordinary"]
    BY <1>8, <1>l DEF PopProtective, SetLane, database
  <2>2. QED
    BY <1>0, <2>1, TimelySame
<1>9. CASE MemoryGone
  BY <1>9, TimelyDone DEF MemoryGone, Idle, Lanes
<1>10. CASE Shutdown \/ Stop \/ Crash
  <2>1. CASE \E x \in todo : DrainSettle(x)
    BY <2>1, <1>s DEF DrainSettle
  <2>2. QED
    BY <1>9, <1>10, <1>a, <2>1 DEF Shutdown, Stop, Crash, Drain, LastDeferrals, Exit, database
<1>11. CASE Advance
  <2> DEFINE w == lane["ordinary"]
  <2>1. w \in Workers
    BY <1>l
  <2>2. w.ds \subseteq Decisions /\ w.elapsed \in Nat
    BY <2>1 DEF Workers
  <2>3. \A d \in Decisions : age'[d] <= age[d] + 1 /\ age'[d] \in Nat
    BY <1>0, <1>11, Times DEF Advance, Smaller
  <2>4. MayWait("ordinary")
    BY <1>11, <1>l DEF Advance
  <2>5. CASE w.pc \in {"compose", "send"}
    <3>1. lane'["ordinary"] = [w EXCEPT !.elapsed = w.elapsed + 1]
      BY <1>11, <1>l, <2>5 DEF Advance
    <3>2. lane'["ordinary"].pc = w.pc /\ lane'["ordinary"].kind = w.kind /\ lane'["ordinary"].ds = w.ds
          /\ lane'["ordinary"].elapsed = w.elapsed + 1
      BY <2>1, <3>1 DEF Workers
    <3>3. w.pc = "compose" => w.elapsed < ComposeTime
      BY <2>4 DEF MayWait
    <3>4. w.pc = "send" => w.elapsed < SendTime
      BY <2>4 DEF MayWait
    <3>5. QED
      BY <1>0, <2>2, <2>3, <3>2, <3>3, <3>4, Times DEF Timely
  <2>6. CASE w.pc \notin {"compose", "send"}
    <3>1. lane'["ordinary"].pc = w.pc
      BY <1>11, <1>l, <2>1 DEF Advance, Workers
    <3>2. QED
      BY <2>6, <3>1, TimelyDone
  <2>7. QED
    BY <2>5, <2>6
<1>12. QED
  BY <1>1, <1>2, <1>3, <1>4, <1>5, <1>6, <1>7, <1>8, <1>10, <1>11, <1>l
     DEF Next, OrdinaryWorker, ProtectiveWorker, Lanes

LEMMA TimelyLease == ASSUME TypeOK, Timely PROVE LeaseKept
<1>1. lane["ordinary"] \in Workers /\ \A d \in Decisions : age[d] \in Nat
  BY Times DEF TypeOK, Lanes
<1>2. lane["ordinary"].ds \subseteq Decisions /\ lane["ordinary"].elapsed \in Nat
  BY <1>1 DEF Workers
<1>3. MaxQueueAge + ComposeTime + SendTime < Lease
  BY LeaseAssumption
<1>4. QED
  BY <1>1, <1>2, <1>3, Times DEF Timely, LeaseKept

------------------------------------------------------------------------------
(* What is on record as told *)

\* No worker begins to record, and what is being recorded was told before.
LEMMA TakenStep ==
    ASSUME TypeOK, Taken,
           \A d \in Decisions : told[d] \subseteq told'[d],
           \A l \in Lanes : lane'[l].rest \subseteq lane'[l].ds,
           \A l \in Lanes : lane'[l].pc \in {"mark", "complete"} =>
               lane'[l].pc = lane[l].pc /\ lane'[l].ds = lane[l].ds
    PROVE  Taken'
<1>1. \A l \in Lanes : lane[l].ds \subseteq Decisions
  BY DEF TypeOK, Workers
<1>2. ASSUME NEW l \in Lanes, lane'[l].pc \in {"mark", "complete"}, NEW d \in lane'[l].ds
      PROVE  told'[d] # {}
  <2>1. told[d] # {} /\ d \in Decisions
    BY <1>1, <1>2 DEF Taken
  <2>2. QED
    BY <2>1
<1>3. QED
  BY <1>2 DEF Taken

LEMMA TruthStep ==
    ASSUME Truthful,
           \A d \in Decisions : told[d] \subseteq told'[d],
           \A d \in Decisions : row'[d] = "told" => row[d] = "told" \/ told[d] # {}
    PROVE  Truthful'
<1>1. ASSUME NEW d \in Decisions, row'[d] = "told" PROVE told'[d] # {}
  <2>1. told[d] # {}
    BY <1>1 DEF Truthful
  <2>2. QED
    BY <2>1
<1>2. QED
  BY <1>1 DEF Truthful

LEMMA SettledTold ==
    ASSUME TypeOK, NEW d, NEW release, Put(d, SettledRow(d, release)) \/ UNCHANGED <<row, age>>
    PROVE  \A e \in Decisions : row'[e] = "told" => row[e] = "told"
<1>1. SettledRow(d, release) = "told" => row[d] = "told"
  BY DEF SettledRow
<1>2. QED
  BY <1>1 DEF TypeOK, Put

\* A worker that goes on recording holds no more than before.
LEMMA RestStep ==
    ASSUME TypeOK, Taken, NEW k \in Lanes, NEW d,
           SetLane(k, IF lane[k].rest = {d} THEN Idle ELSE [lane[k] EXCEPT !.rest = @ \ {d}])
    PROVE  \A l \in Lanes :
              /\ lane'[l].rest \subseteq lane'[l].ds
              /\ lane'[l].pc \in {"mark", "complete"} =>
                     lane'[l].pc = lane[l].pc /\ lane'[l].ds = lane[l].ds
<1>1. lane \in [Lanes -> Workers] /\ lane[k] \in Workers /\ lane[k].rest \subseteq lane[k].ds
  BY DEF TypeOK, Taken
<1> DEFINE w == [lane[k] EXCEPT !.rest = @ \ {d}]
<1>2. w.pc = lane[k].pc /\ w.ds = lane[k].ds /\ w.rest \subseteq w.ds
  BY <1>1 DEF Workers
<1>3. Idle.pc = "idle" /\ Idle.rest \subseteq Idle.ds
  BY DEF Idle
<1>4. lane'[k] = Idle \/ lane'[k] = w
  BY <1>1 DEF SetLane
<1>5. \A l \in Lanes \ {k} : lane'[l] = lane[l]
  BY <1>1 DEF SetLane
<1> HIDE DEF w
<1>6. QED
  BY <1>2, <1>3, <1>4, <1>5 DEF Taken

\* A worker begins something other than recording.
LEMMA SetStep ==
    ASSUME TypeOK, Taken, NEW k \in Lanes, NEW w, SetLane(k, w),
           w.rest \subseteq w.ds, w.pc \notin {"mark", "complete"}
    PROVE  \A l \in Lanes :
              /\ lane'[l].rest \subseteq lane'[l].ds
              /\ lane'[l].pc \in {"mark", "complete"} =>
                     lane'[l].pc = lane[l].pc /\ lane'[l].ds = lane[l].ds
<1>1. lane \in [Lanes -> Workers]
  BY DEF TypeOK
<1>2. lane'[k] = w /\ \A l \in Lanes \ {k} : lane'[l] = lane[l]
  BY <1>1 DEF SetLane
<1>3. QED
  BY <1>2 DEF Taken

LEMMA SameStep ==
    ASSUME TypeOK, Taken, Truthful, UNCHANGED <<lane, told>>,
           \A d \in Decisions : row'[d] = "told" => row[d] = "told"
    PROVE  Taken' /\ Truthful'
<1>1. Taken'
  BY TakenStep DEF Taken
<1>2. Truthful'
  BY TruthStep
<1>3. QED
  BY <1>1, <1>2

LEMMA WorkingShape ==
    ASSUME NEW pc, NEW j
    PROVE  Working(pc, j).pc = pc /\ Working(pc, j).rest \subseteq Working(pc, j).ds
BY DEF Working

LEMMA IdleShape == Idle.pc = "idle" /\ Idle.rest \subseteq Idle.ds
BY DEF Idle

\* The worker's steps that leave the rows and the owner alone.
LEMMA LaneStep ==
    ASSUME TypeOK, Taken, Truthful, UNCHANGED <<row, told>>, NEW k \in Lanes, NEW w, SetLane(k, w),
           w.rest \subseteq w.ds, w.pc \notin {"mark", "complete"}
    PROVE  Taken' /\ Truthful'
<1>1. Taken'
  BY SetStep, TakenStep
<1>2. Truthful'
  BY TruthStep
<1>3. QED
  BY <1>1, <1>2

LEMMA DeliveredKeeps ==
    ASSUME TypeOK, Taken, Truthful, NEW k \in Lanes, Delivered(k)
    PROVE  Taken' /\ Truthful'
<1>1. lane \in [Lanes -> Workers] /\ lane[k] \in Workers /\ told \in [Decisions -> SUBSET (Lanes \cup {"digest"})]
  BY DEF TypeOK
<1>2. lane[k].ds \subseteq Decisions
  BY <1>1 DEF Workers
<1>3. /\ \A d \in Decisions : told[d] \subseteq told'[d]
      /\ \A d \in lane[k].ds : told'[d] # {}
  BY <1>1, <1>2 DEF Delivered
<1>4. lane'[k].ds = lane[k].ds /\ lane'[k].rest = lane[k].rest
  BY <1>1 DEF Delivered, SetLane, Workers, Recording
<1>5. \A l \in Lanes \ {k} : lane'[l] = lane[l]
  BY <1>1 DEF Delivered, SetLane
<1>6. Taken'
  <2>1. \A l \in Lanes : lane'[l].rest \subseteq lane'[l].ds
    BY <1>4, <1>5 DEF Taken
  <2>2. ASSUME NEW l \in Lanes, lane'[l].pc \in {"mark", "complete"}, NEW d \in lane'[l].ds
        PROVE  told'[d] # {}
    <3>1. CASE l = k
      BY <1>3, <1>4, <2>2, <3>1
    <3>2. CASE l # k
      <4>1. told[d] # {} /\ d \in Decisions
        BY <1>1, <1>5, <2>2, <3>2 DEF Taken, Workers
      <4>2. QED
        BY <1>3, <4>1
    <3>3. QED
      BY <3>1, <3>2
  <2>3. QED
    BY <2>1, <2>2 DEF Taken
<1>7. Truthful'
  BY <1>3, TruthStep DEF Delivered, database
<1>8. QED
  BY <1>6, <1>7

LEMMA MarkKeeps ==
    ASSUME TypeOK, Taken, Truthful, NEW k \in Lanes, Mark(k)
    PROVE  Taken' /\ Truthful'
<1>1. PICK d \in lane[k].rest :
        /\ Put(d, "told") \/ UNCHANGED <<row, age>>
        /\ SetLane(k, IF lane[k].rest = {d} THEN Idle ELSE [lane[k] EXCEPT !.rest = @ \ {d}])
  BY DEF Mark
<1>2. told' = told
  BY DEF Mark
<1>3. told[d] # {}
  BY DEF Taken, Mark
<1>4. Taken'
  BY <1>1, <1>2, RestStep, TakenStep
<1>5. \A e \in Decisions : row'[e] = "told" => row[e] = "told" \/ told[e] # {}
  BY <1>1, <1>3 DEF TypeOK, Put
<1>6. Truthful'
  BY <1>2, <1>5, TruthStep
<1>7. QED
  BY <1>4, <1>6

LEMMA GiveUpKeeps ==
    ASSUME TypeOK, Taken, Truthful, NEW k \in Lanes, GiveUp(k)
    PROVE  Taken' /\ Truthful'
<1>1. PICK d \in lane[k].rest :
        /\ Put(d, SettledRow(d, d \in Protective)) \/ UNCHANGED <<row, age>>
        /\ SetLane(k, IF lane[k].rest = {d} THEN Idle ELSE [lane[k] EXCEPT !.rest = @ \ {d}])
  BY DEF GiveUp
<1>2. told' = told
  BY DEF GiveUp
<1>4. Taken'
  BY <1>1, <1>2, RestStep, TakenStep
<1>5. \A e \in Decisions : row'[e] = "told" => row[e] = "told"
  BY <1>1, SettledTold
<1>6. Truthful'
  BY <1>2, <1>5, TruthStep
<1>7. QED
  BY <1>4, <1>6

LEMMA AgedKeeps ==
    ASSUME TypeOK, Taken, Truthful, Aged
    PROVE  Taken' /\ Truthful'
<1>1. PICK d \in lane["ordinary"].rest :
        /\ Put(d, SettledRow(d, FALSE)) \/ UNCHANGED <<row, age>>
        /\ SetLane("ordinary", IF lane["ordinary"].rest = {d} THEN Idle
                               ELSE [lane["ordinary"] EXCEPT !.rest = @ \ {d}])
  BY DEF Aged
<1>2. told' = told /\ "ordinary" \in Lanes
  BY DEF Aged, Lanes
<1>4. Taken'
  BY <1>1, <1>2, RestStep, TakenStep
<1>5. \A e \in Decisions : row'[e] = "told" => row[e] = "told"
  BY <1>1, SettledTold
<1>6. Truthful'
  BY <1>2, <1>5, TruthStep
<1>7. QED
  BY <1>4, <1>6

LEMMA CompleteDigestKeeps ==
    ASSUME TypeOK, Taken, Truthful, CompleteDigest
    PROVE  Taken' /\ Truthful'
<1>1. told' = told /\ "ordinary" \in Lanes /\ SetLane("ordinary", Idle)
  BY DEF CompleteDigest, Lanes
<1>2. Taken'
  BY <1>1, IdleShape, SetStep, TakenStep
<1>3. \A d \in lane["ordinary"].ds : told[d] # {}
  BY <1>1 DEF Taken, CompleteDigest
<1>4. \A d \in Decisions : row'[d] = "told" => row[d] = "told" \/ told[d] # {}
  BY <1>3 DEF CompleteDigest, DigestItems
<1>5. Truthful'
  BY <1>1, <1>4, TruthStep
<1>6. QED
  BY <1>2, <1>5

LEMMA AdvanceKeeps ==
    ASSUME TypeOK, Taken, Truthful, Advance
    PROVE  Taken' /\ Truthful'
<1>1. ASSUME NEW l \in Lanes
      PROVE  lane'[l].pc = lane[l].pc /\ lane'[l].ds = lane[l].ds /\ lane'[l].rest = lane[l].rest
  <2>1. lane[l] \in Workers
    BY DEF TypeOK
  <2>2. lane'[l] = lane[l] \/ lane'[l] = [lane[l] EXCEPT !.elapsed = @ + 1]
    BY DEF Advance
  <2>3. QED
    BY <2>1, <2>2 DEF Workers
<1>2. row' = row /\ told' = told
  BY DEF Advance, history
<1>3. Taken'
  BY <1>1, <1>2 DEF Taken
<1>4. Truthful'
  BY <1>2, TruthStep
<1>5. QED
  BY <1>3, <1>4

LEMMA GoneKeeps ==
    ASSUME TypeOK, Taken, Truthful, MemoryGone
    PROVE  Taken' /\ Truthful'
<1>1. \A l \in Lanes : lane'[l] = Idle
  BY DEF MemoryGone
<1>2. row' = row /\ told' = told
  BY DEF MemoryGone, database
<1>3. Taken'
  BY <1>1, <1>2, IdleShape, TakenStep
<1>4. QED
  BY <1>2, <1>3, TruthStep

LEMMA ToldKept ==
    ASSUME TypeOK, Taken, Truthful, Next
    PROVE  Taken' /\ Truthful'
<1>l. "ordinary" \in Lanes /\ "protective" \in Lanes
  BY DEF Lanes
<1>1. ASSUME NEW d \in Decisions, Decide(d) PROVE Taken' /\ Truthful'
  <2>1. \A e \in Decisions : row'[e] = "told" => row[e] = "told"
    BY <1>1 DEF Decide, TypeOK, Put
  <2>2. QED
    BY <1>1, <2>1, SameStep DEF Decide, history
<1>2. CASE HandOver
  BY <1>2, SameStep DEF HandOver, Accept, AcceptClosed, database
<1>3. CASE Tick
  <2>1. \A e \in Decisions : row'[e] = "told" => row[e] = "told"
    BY <1>3, SettledTold DEF Tick, TickGroup, TickRetry, TickTakeDeferred, TickSettle, TickDigest, database
  <2>2. UNCHANGED <<lane, told>>
    BY <1>3 DEF Tick, TickGroup, TickRetry, TickTakeDeferred, TickSettle, TickDigest, history
  <2>3. QED
    BY <2>1, <2>2, SameStep
<1>4. ASSUME NEW l \in Lanes, Outcome(l) PROVE Taken' /\ Truthful'
  <2>1. CASE NotDelivered(l)
    <3>1. UNCHANGED <<row, told>>
      BY <2>1 DEF NotDelivered, database, history
    <3>2. PICK w : SetLane(l, w) /\ (w = Idle \/ w = Recording(lane[l], "giveup"))
      BY <2>1 DEF NotDelivered
    <3>3. lane[l] \in Workers /\ lane[l].rest \subseteq lane[l].ds
      BY DEF TypeOK, Taken
    <3>4. w.rest \subseteq w.ds /\ w.pc \notin {"mark", "complete"}
      BY <3>2, <3>3, IdleShape DEF Workers, Recording
    <3>5. QED
      BY <3>1, <3>2, <3>4, LaneStep
  <2>2. QED
    BY <1>4, <2>1, DeliveredKeeps, MarkKeeps, GiveUpKeeps DEF Outcome
<1>5. CASE PopOrdinary
  <2>1. UNCHANGED <<row, told>>
    BY <1>5 DEF PopOrdinary, database, history
  <2>2. PICK pc \in {"giveup", "aged", "send", "compose"} : SetLane("ordinary", Working(pc, Head(ord)))
    BY <1>5 DEF PopOrdinary
  <2>3. QED
    BY <1>l, <2>1, <2>2, WorkingShape, LaneStep
<1>6. CASE Compose
  <2>1. UNCHANGED <<row, told>>
    BY <1>6 DEF Compose, database, history
  <2> DEFINE w == [lane["ordinary"] EXCEPT !.pc = "send", !.elapsed = 0]
  <2>2. lane["ordinary"] \in Workers /\ lane["ordinary"].rest \subseteq lane["ordinary"].ds
    BY <1>l DEF TypeOK, Taken
  <2>3. w.rest \subseteq w.ds /\ w.pc \notin {"mark", "complete"}
    BY <2>2 DEF Workers
  <2>4. SetLane("ordinary", w)
    BY <1>6 DEF Compose
  <2> HIDE DEF w
  <2>5. QED
    BY <1>l, <2>1, <2>3, <2>4, LaneStep
<1>7. CASE DigestNotDelivered
  <2>1. UNCHANGED <<row, told>> /\ SetLane("ordinary", Idle)
    BY <1>7 DEF DigestNotDelivered, database, history
  <2>2. QED
    BY <1>l, <2>1, IdleShape, LaneStep
<1>8. CASE PopProtective
  <2>1. UNCHANGED <<row, told>>
    BY <1>8 DEF PopProtective, database, history
  <2>2. PICK j : SetLane("protective", Working("send", j))
    BY <1>8 DEF PopProtective
  <2>3. QED
    BY <1>l, <2>1, <2>2, WorkingShape, LaneStep
<1>9. CASE Shutdown
  <2>1. CASE Exit
    BY <2>1, GoneKeeps DEF Exit
  <2>2. CASE Drain \/ LastDeferrals
    BY <2>2, SameStep DEF Drain, LastDeferrals, database, history
  <2>3. ASSUME NEW x \in todo, DrainSettle(x) PROVE Taken' /\ Truthful'
    <3>1. \A e \in Decisions : row'[e] = "told" => row[e] = "told"
      BY <2>3, SettledTold DEF DrainSettle
    <3>2. QED
      BY <2>3, <3>1, SameStep DEF DrainSettle
  <2>4. QED
    BY <1>9, <2>1, <2>2, <2>3 DEF Shutdown
<1>10. CASE Stop
  BY <1>10, SameStep DEF Stop, database, history
<1>11. CASE Crash
  BY <1>11, GoneKeeps DEF Crash
<1>12. QED
  BY <1>1, <1>2, <1>3, <1>4, <1>5, <1>6, <1>7, <1>8, <1>9, <1>10, <1>11, <1>l,
     CompleteDigestKeeps, AgedKeeps, AdvanceKeeps
     DEF Next, OrdinaryWorker, ProtectiveWorker

------------------------------------------------------------------------------
(* The theorems *)

LEMMA Inductive == IInv /\ [Next]_vars => IInv'
<1> SUFFICES ASSUME IInv, [Next]_vars PROVE IInv'
  OBVIOUS
<1>1. CASE Next
  BY <1>1, TypeKept, TimelyKept, ToldKept DEF IInv
<1>2. CASE UNCHANGED vars
  <2>1. TypeOK'
    BY <1>2, StutterType DEF IInv
  <2>2. Timely' /\ Taken' /\ Truthful'
    BY <1>2 DEF IInv, Timely, Taken, Truthful, vars, database, history
  <2>3. QED
    BY <2>1, <2>2 DEF IInv
<1>3. QED
  BY <1>1, <1>2

LEMMA Initially == Init => IInv
<1> SUFFICES ASSUME Init PROVE IInv
  OBVIOUS
<1>1. \A l \in Lanes : lane[l] = Idle
  BY DEF Init
<1>2. Timely /\ Taken
  BY <1>1 DEF Timely, Taken, Idle, Lanes
<1>3. Truthful
  BY DEF Init, Truthful
<1>4. QED
  BY <1>2, <1>3, InitType DEF IInv

LEMMA Invariant == Spec => []IInv
BY Initially, Inductive, PTL DEF Spec

(* The state of the outbox and of its rows has its type: in particular the *)
(* group buffer never holds a protective Critical, which flushes it at once.*)
THEOREM Types == Spec => []TypeOK
<1>1. IInv => TypeOK
  BY DEF IInv
<1>2. QED
  BY <1>1, Invariant, PTL

(* The ordinary lane sends a message only while the reservation of every   *)
(* decision in it holds, because MaxQueueAge leaves room for the longest   *)
(* composition and delivery.                                               *)
THEOREM InsideLease == Spec => []LeaseKept
<1>1. IInv => LeaseKept
  BY TimelyLease DEF IInv
<1>2. QED
  BY <1>1, Invariant, PTL

(* A row says delivered only of a decision the owner was told of.          *)
THEOREM RowsTruthful == Spec => []Truthful
<1>1. IInv => Truthful
  BY DEF IInv
<1>2. QED
  BY <1>1, Invariant, PTL

------------------------------------------------------------------------------
(* Where a decision is *)

Tags == {"held", "buf", "ord", "prot", "protRetry", "retry", "deferred", "todo",
         "ordinary", "protective"}

Load(j) == IF j.kind = "digest" THEN {} ELSE j.ds

Queued(q) == UNION {Load(q[i]) : i \in DOMAIN q}

\* A digest leaves its items where they are queued, in the rows.
Bundle(j) == IF j.kind = "digest" THEN j.ds ELSE {}

Bundles(q) == UNION {Bundle(q[i]) : i \in DOMAIN q}

Waiting(rs) == UNION {r.ds : r \in rs}

Listed(xs) == {x.d : x \in xs}

Carried(w) == IF w.pc = "idle" \/ w.kind = "digest" THEN {} ELSE w.rest

Stock == [t \in Tags |->
    CASE t = "held" -> held
      [] t = "buf" -> buf
      [] t = "ord" -> Queued(ord)
      [] t = "prot" -> prot
      [] t = "protRetry" -> Queued(protRetry)
      [] t = "retry" -> Waiting(retries)
      [] t = "deferred" -> Listed(deferred)
      [] t = "todo" -> Listed(todo)
      [] t = "ordinary" -> Carried(lane["ordinary"])
      [] t = "protective" -> Carried(lane["protective"])]

AllOf(S) == UNION {S[t] : t \in Tags}

\* No decision is in two of the places, nor twice in one of them.
Disjoint(S) == \A s, t \in Tags : s # t => S[s] \cap S[t] = {}

OnceQueued(q) == \A i, j \in DOMAIN q : i # j => Load(q[i]) \cap Load(q[j]) = {}

OnceWaiting(rs) == \A r, s \in rs : r # s => r.ds \cap s.ds = {}

OnceListed(xs) == \A x, y \in xs : x.d = y.d => x = y

Once ==
    /\ OnceQueued(ord) /\ OnceQueued(protRetry)
    /\ OnceWaiting(retries) /\ OnceListed(deferred) /\ OnceListed(todo)

Apart == Disjoint(Stock) /\ Once

\* The goroutine of Run settles only between two ticks and at the end, when the lanes are done.
Settling ==
    /\ tick = "idle" => todo = {}
    /\ tick = "drain" => run = "stopping"
    /\ run = "stopping" /\ tick # "idle" => WorkersDone

\* A message on a lane is whole until its outcome is recorded; a digest is recorded as one.
WholeMessage(w) ==
    /\ w.pc \in {"compose", "send"} => w.rest = w.ds
    /\ w.pc \in {"compose", "mark", "giveup", "aged"} => w.kind # "digest"
    /\ w.pc = "complete" => w.kind = "digest"

Whole ==
    /\ \A l \in Lanes : WholeMessage(lane[l])
    /\ \A i \in DOMAIN protRetry : protRetry[i].kind = "retry"

\* What is on its way is on record as in flight; what a digest holds never is.
OnRecord ==
    /\ \A d \in AllOf(Stock) : row[d] = "notify"
    /\ \A d \in Bundles(ord) : row[d] \in {"digest", "told"}
    /\ \A l \in Lanes : lane[l].pc # "idle" =>
          \A d \in Bundle(lane[l]) : row[d] \in {"digest", "told"}

\* Unless the process died or a row could not be written, nothing in flight is forgotten.
Found ==
    faults = 0 => \A d \in Decisions : row[d] = "notify" /\ d \notin lost => d \in AllOf(Stock)

OnLane(d) == "ordinary" \in told[d]

\* What makes the governor decide e although it decided d before: OneMessage names it too.
Passes(d, e) ==
    \/ MoreSevere(e, d)
    \/ \E c \in Decisions : c < e /\ MoreSevere(e, c) /\ row[c] = "told"

\* In flight, or sent on the ordinary lane.
Out(d) == InFlight(d) \/ OnLane(d)

\* Of the decisions on a situation one at most is out, but for a later one that passes it.
Single ==
    faults = 0 =>
        /\ \A d \in Ordinary : OnLane(d) =>
              \/ row[d] = "told"
              \/ InFlight(d) /\ lane["ordinary"].pc = "mark" /\ d \in lane["ordinary"].rest
        /\ \A d, e \in Ordinary : d < e /\ Situation[d] = Situation[e] =>
              ~(Out(d) /\ Out(e)) \/ Passes(d, e)

\* What a repeat is held to is the severity of a decision that was told, as soon as there is one.
Lasting ==
    /\ \A s \in Situations : last[s] # Unsent =>
          \E c \in Decisions : Situation[c] = s /\ Severity[c] = last[s] /\ row[c] = "told"
    /\ \A c \in Decisions : row[c] = "told" => last[Situation[c]] # Unsent

KInv == IInv /\ Settling /\ Whole /\ Apart /\ OnRecord /\ Found /\ Single /\ Lasting

LEMMA Shelves ==
    /\ Stock["held"] = held /\ Stock["buf"] = buf /\ Stock["ord"] = Queued(ord)
    /\ Stock["prot"] = prot /\ Stock["protRetry"] = Queued(protRetry)
    /\ Stock["retry"] = Waiting(retries) /\ Stock["deferred"] = Listed(deferred)
    /\ Stock["todo"] = Listed(todo) /\ Stock["ordinary"] = Carried(lane["ordinary"])
    /\ Stock["protective"] = Carried(lane["protective"])
BY DEF Stock, Tags

LEMMA ShelvesNext ==
    /\ Stock'["held"] = held' /\ Stock'["buf"] = buf' /\ Stock'["ord"] = Queued(ord')
    /\ Stock'["prot"] = prot' /\ Stock'["protRetry"] = Queued(protRetry')
    /\ Stock'["retry"] = Waiting(retries') /\ Stock'["deferred"] = Listed(deferred')
    /\ Stock'["todo"] = Listed(todo') /\ Stock'["ordinary"] = Carried(lane'["ordinary"])
    /\ Stock'["protective"] = Carried(lane'["protective"])
BY DEF Stock, Tags, Queued, Waiting, Listed, Carried, Load

\* Of what a holds, M goes to b and G leaves the memory.
Goes(S, T, a, b, M, G) ==
    /\ a \in Tags /\ b \in Tags /\ a # b
    /\ M \cap G = {} /\ M \subseteq S[a] /\ G \subseteq S[a]
    /\ T[a] = S[a] \ (M \cup G)
    /\ T[b] = S[b] \cup M
    /\ \A t \in Tags \ {a, b} : T[t] = S[t]

LEMMA GoesOn ==
    ASSUME NEW S, NEW T, NEW a, NEW b, NEW M, NEW G, Disjoint(S), Goes(S, T, a, b, M, G)
    PROVE  Disjoint(T) /\ AllOf(T) = AllOf(S) \ G
<1>1. Disjoint(T)
  BY DEF Disjoint, Goes
<1>2. ASSUME NEW d \in AllOf(T) PROVE d \in AllOf(S) \ G
  <2>1. PICK t \in Tags : d \in T[t]
    BY DEF AllOf
  <2>2. \E s \in Tags : d \in S[s] /\ d \notin G
    BY <2>1 DEF Disjoint, Goes
  <2>3. QED
    BY <2>2 DEF AllOf
<1>3. ASSUME NEW d \in AllOf(S), d \notin G PROVE d \in AllOf(T)
  <2>1. PICK s \in Tags : d \in S[s]
    BY DEF AllOf
  <2>2. \E t \in Tags : d \in T[t]
    BY <1>3, <2>1 DEF Goes
  <2>3. QED
    BY <2>2 DEF AllOf
<1>4. QED
  BY <1>1, <1>2, <1>3

LEMMA Appended ==
    ASSUME NEW q \in Seq(Jobs), NEW j \in Jobs
    PROVE  /\ Queued(Append(q, j)) = Queued(q) \cup Load(j)
           /\ OnceQueued(q) /\ Load(j) \cap Queued(q) = {} => OnceQueued(Append(q, j))
<1> DEFINE r == Append(q, j)
<1>1. /\ DOMAIN q = 1..Len(q) /\ DOMAIN r = 1..(Len(q) + 1) /\ Len(q) \in Nat
      /\ \A i \in DOMAIN q : r[i] = q[i]
      /\ r[Len(q) + 1] = j
  OBVIOUS
<1>2. DOMAIN r = DOMAIN q \cup {Len(q) + 1} /\ Len(q) + 1 \notin DOMAIN q
  BY <1>1
<1> HIDE DEF r
<1>3. Queued(r) = Queued(q) \cup Load(j)
  BY <1>1, <1>2 DEF Queued
<1>4. \A i \in DOMAIN q : Load(q[i]) \subseteq Queued(q)
  BY DEF Queued
<1>5. ASSUME OnceQueued(q), Load(j) \cap Queued(q) = {} PROVE OnceQueued(r)
  BY <1>1, <1>2, <1>4, <1>5 DEF OnceQueued
<1>6. QED
  BY <1>3, <1>5 DEF r

LEMMA Popped ==
    ASSUME NEW q \in Seq(Jobs), q # <<>>, OnceQueued(q)
    PROVE  /\ Load(Head(q)) \subseteq Queued(q)
           /\ Queued(Tail(q)) = Queued(q) \ Load(Head(q))
           /\ OnceQueued(Tail(q))
<1> DEFINE r == Tail(q)
<1>1. /\ DOMAIN q = 1..Len(q) /\ DOMAIN r = 1..(Len(q) - 1) /\ Len(q) \in Nat /\ Len(q) >= 1
      /\ \A i \in DOMAIN r : r[i] = q[i + 1]
      /\ Head(q) = q[1]
  OBVIOUS
<1>2. /\ \A i \in DOMAIN r : i + 1 \in DOMAIN q /\ i + 1 # 1
      /\ \A i, j \in DOMAIN r : i + 1 = j + 1 => i = j
      /\ 1 \in DOMAIN q
  BY <1>1
<1>3. \A k \in DOMAIN q : k # 1 => k - 1 \in DOMAIN r /\ q[k] = r[k - 1]
  BY <1>1
<1> HIDE DEF r
<1>4. OnceQueued(r)
  BY <1>1, <1>2 DEF OnceQueued
<1>5. Load(Head(q)) \subseteq Queued(q)
  BY <1>1, <1>2 DEF Queued
<1>6. ASSUME NEW d \in Queued(r) PROVE d \in Queued(q) \ Load(Head(q))
  <2>1. PICK i \in DOMAIN r : d \in Load(r[i])
    BY DEF Queued
  <2>2. d \in Load(q[i + 1]) /\ i + 1 \in DOMAIN q /\ i + 1 # 1
    BY <1>1, <1>2, <2>1
  <2>3. d \in Queued(q)
    BY <2>2 DEF Queued
  <2>4. d \notin Load(q[1])
    BY <1>2, <2>2 DEF OnceQueued
  <2>5. QED
    BY <1>1, <2>3, <2>4
<1>7. ASSUME NEW d \in Queued(q), d \notin Load(Head(q)) PROVE d \in Queued(r)
  <2>1. PICK k \in DOMAIN q : d \in Load(q[k])
    BY DEF Queued
  <2>2. k # 1
    BY <1>1, <1>7, <2>1
  <2>3. k - 1 \in DOMAIN r /\ d \in Load(r[k - 1])
    BY <1>3, <2>1, <2>2
  <2>4. QED
    BY <2>3 DEF Queued
<1>8. QED
  BY <1>4, <1>5, <1>6, <1>7 DEF r

LEMMA BundledOn ==
    ASSUME NEW q \in Seq(Jobs), NEW j \in Jobs
    PROVE  Bundles(Append(q, j)) = Bundles(q) \cup Bundle(j)
<1> DEFINE r == Append(q, j)
<1>1. /\ DOMAIN q = 1..Len(q) /\ DOMAIN r = 1..(Len(q) + 1) /\ Len(q) \in Nat
      /\ \A i \in DOMAIN q : r[i] = q[i]
      /\ r[Len(q) + 1] = j
  OBVIOUS
<1>2. DOMAIN r = DOMAIN q \cup {Len(q) + 1} /\ Len(q) + 1 \notin DOMAIN q
  BY <1>1
<1> HIDE DEF r
<1>3. Bundles(r) = Bundles(q) \cup Bundle(j)
  BY <1>1, <1>2 DEF Bundles
<1>4. QED
  BY <1>3 DEF r

LEMMA BundledOff ==
    ASSUME NEW q \in Seq(Jobs), q # <<>>
    PROVE  Bundles(Tail(q)) \subseteq Bundles(q) /\ Bundle(Head(q)) \subseteq Bundles(q)
<1> DEFINE r == Tail(q)
<1>1. /\ DOMAIN q = 1..Len(q) /\ DOMAIN r = 1..(Len(q) - 1) /\ Len(q) \in Nat /\ Len(q) >= 1
      /\ \A i \in DOMAIN r : r[i] = q[i + 1]
      /\ Head(q) = q[1]
  OBVIOUS
<1>2. /\ \A i \in DOMAIN r : i + 1 \in DOMAIN q
      /\ 1 \in DOMAIN q
  BY <1>1
<1> HIDE DEF r
<1>3. Bundles(r) \subseteq Bundles(q) /\ Bundle(Head(q)) \subseteq Bundles(q)
  BY <1>1, <1>2 DEF Bundles
<1>4. QED
  BY <1>3 DEF r

\* What leaves the memory was settled in its row or is counted; no other row is touched but by a digest.
Kept(G) ==
    /\ \A d \in G : faults' # 0 \/ row'[d] # "notify" \/ d \in lost'
    /\ \A d \in Decisions \ G :
          row'[d] = row[d] \/ (row[d] \in {"digest", "told"} /\ row'[d] = "told")
    /\ lost \subseteq lost'
    /\ faults' = 0 => faults = 0

Flow(G) ==
    /\ G \subseteq AllOf(Stock)
    /\ Disjoint(Stock') /\ AllOf(Stock') = AllOf(Stock) \ G
    /\ Once' /\ Kept(G)

LEMMA GoesFlow ==
    ASSUME NEW a, NEW b, NEW M, NEW G, Apart, Once', Kept(G), Goes(Stock, Stock', a, b, M, G)
    PROVE  Flow(G)
<1>1. Disjoint(Stock') /\ AllOf(Stock') = AllOf(Stock) \ G
  BY GoesOn DEF Apart
<1>2. G \subseteq AllOf(Stock)
  BY DEF Goes, AllOf
<1>3. QED
  BY <1>1, <1>2 DEF Flow

\* The backlog takes some of the entries and counts the others.
LEMMA Deferred ==
    ASSUME NEW xs, Backlog(xs), OnceListed(xs), OnceListed(deferred), Listed(xs) \cap Listed(deferred) = {}
    PROVE  /\ OnceListed(deferred')
           /\ \E M \in SUBSET Listed(xs) :
                 /\ Listed(deferred') = Listed(deferred) \cup M
                 /\ lost' = lost \cup (Listed(xs) \ M)
<1>1. PICK kept \in SUBSET xs :
        deferred' = deferred \cup kept /\ lost' = lost \cup {x.d : x \in xs \ kept}
  BY DEF Backlog
<1>2. Listed(kept) \in SUBSET Listed(xs) /\ Listed(deferred') = Listed(deferred) \cup Listed(kept)
  BY <1>1 DEF Listed
<1>3. {x.d : x \in xs \ kept} = Listed(xs) \ Listed(kept)
  BY DEF Listed, OnceListed
<1>4. OnceListed(deferred')
  <2>1. ASSUME NEW x \in deferred', NEW y \in deferred', x.d = y.d PROVE x = y
    BY <1>1, <2>1 DEF OnceListed, Listed
  <2>2. QED
    BY <2>1 DEF OnceListed
<1>5. QED
  BY <1>1, <1>2, <1>3, <1>4

LEMMA DeferredOnce ==
    ASSUME NEW ds, NEW release
    PROVE  Listed(Deferring(ds, release)) = ds /\ OnceListed(Deferring(ds, release))
<1> DEFINE f(d) == [d |-> d, release |-> release, tries |-> 0]
<1>1. \A d \in ds : f(d).d = d
  OBVIOUS
<1>2. Deferring(ds, release) = {f(d) : d \in ds}
  BY DEF Deferring
<1> HIDE DEF f
<1>3. \A x \in {f(d) : d \in ds} : x.d \in ds /\ x = f(x.d)
  BY <1>1
<1>4. \A x, y \in {f(d) : d \in ds} : x.d = y.d => x = y
  BY <1>3
<1>5. {x.d : x \in {f(d) : d \in ds}} = ds
  BY <1>1
<1>6. QED
  BY <1>2, <1>4, <1>5 DEF Listed, OnceListed

LEMMA DeferredNone ==
    ASSUME TypeOK, Backlog({})
    PROVE  deferred' = deferred /\ lost' = lost
BY DEF Backlog

LEMMA PushedOn ==
    ASSUME TypeOK, OnceQueued(ord), NEW b \in SUBSET Decisions, b \cap Queued(ord) = {}, PushOrdinary(b)
    PROVE  /\ OnceQueued(ord')
           /\ Queued(ord') = Queued(ord) \cup (IF LaneFull THEN {} ELSE b)
           /\ Bundles(ord') = Bundles(ord)
<1>1. Job("group", b, 0) \in Jobs /\ Load(Job("group", b, 0)) = b /\ Bundle(Job("group", b, 0)) = {}
  BY JobType DEF Job, Load, Bundle
<1>2. ord \in Seq(Jobs)
  BY DEF TypeOK
<1> DEFINE j == Job("group", b, 0)
<1> HIDE DEF j
<1>3. CASE b = {} \/ LaneFull
  <2>1. ord' = ord
    BY <1>3 DEF PushOrdinary
  <2>2. QED
    BY <1>3, <2>1
<1>4. CASE ~(b = {} \/ LaneFull)
  <2>1. ord' = Append(ord, j)
    BY <1>4 DEF PushOrdinary, j
  <2>2. j \in Jobs /\ Load(j) = b /\ Bundle(j) = {}
    BY <1>1 DEF j
  <2>3. OnceQueued(Append(ord, j)) /\ Queued(Append(ord, j)) = Queued(ord) \cup b
    BY <1>2, <2>2, Appended
  <2>4. Bundles(Append(ord, j)) = Bundles(ord)
    BY <1>2, <2>2, BundledOn
  <2>5. QED
    BY <1>4, <2>1, <2>3, <2>4
<1>5. QED
  BY <1>3, <1>4

LEMMA StockType ==
    ASSUME TypeOK
    PROVE  AllOf(Stock) \subseteq Decisions /\ (\A t \in Tags : Stock[t] \subseteq Decisions)
<1>1. held \subseteq Decisions /\ buf \subseteq Decisions /\ prot \subseteq Decisions
  BY DEF TypeOK, Ordinary
<1>2. ASSUME NEW q \in Seq(Jobs) PROVE Queued(q) \subseteq Decisions
  <2>1. \A i \in DOMAIN q : q[i] \in Jobs
    OBVIOUS
  <2>2. \A j \in Jobs : Load(j) \subseteq Decisions
    BY DEF Load, Jobs
  <2>3. QED
    BY <2>1, <2>2 DEF Queued
<1>3. Waiting(retries) \subseteq Decisions
  BY DEF TypeOK, Retries, Waiting
<1>4. Listed(deferred) \subseteq Decisions /\ Listed(todo) \subseteq Decisions
  BY DEF TypeOK, Deferrals, Listed
<1>5. ASSUME NEW l \in Lanes PROVE Carried(lane[l]) \subseteq Decisions
  BY DEF TypeOK, Workers, Carried
<1>6. Queued(ord) \subseteq Decisions /\ Queued(protRetry) \subseteq Decisions
  BY <1>2 DEF TypeOK
<1>7. \A t \in Tags : Stock[t] \subseteq Decisions
  BY <1>1, <1>3, <1>4, <1>5, <1>6, Shelves DEF Tags, Lanes
<1>8. QED
  BY <1>7 DEF AllOf

LEMMA OnceSame ==
    ASSUME Once, UNCHANGED <<ord, protRetry, retries, deferred, todo>>
    PROVE  Once'
BY DEF Once

LEMMA KeptSame == ASSUME UNCHANGED <<row, lost, faults>> PROVE Kept({})
BY DEF Kept

\* A row that was put is that of the decision which goes.
LEMMA KeptPut ==
    ASSUME TypeOK, NEW d \in Decisions, NEW s, Put(d, s), s # "notify",
           UNCHANGED <<lost, faults>>
    PROVE  Kept({d})
BY DEF Kept, Put, TypeOK

LEMMA KeptFault ==
    ASSUME TypeOK, NEW G, UNCHANGED row, lost \subseteq lost', faults' = faults + 1
    PROVE  Kept(G)
BY DEF Kept, TypeOK

LEMMA KeptLost ==
    ASSUME NEW G, UNCHANGED <<row, faults>>, lost' = lost \cup G
    PROVE  Kept(G)
BY DEF Kept

LEMMA SettledNot ==
    ASSUME NEW d, NEW release, row[d] = "notify"
    PROVE  SettledRow(d, release) # "notify"
BY DEF SettledRow

LEMMA AcceptClosedFlow ==
    ASSUME TypeOK, Apart, NEW d \in Decisions, AcceptClosed(d)
    PROVE  Flow({d})
<1>1. Goes(Stock, Stock', "held", "buf", {}, {d})
  BY Shelves, ShelvesNext DEF AcceptClosed, queues, ticker, Goes, Tags
<1>2. Once'
  BY OnceSame DEF AcceptClosed, queues, ticker, Apart
<1>3. Kept({d})
  BY KeptLost DEF AcceptClosed, database
<1>4. QED
  BY <1>1, <1>2, <1>3, GoesFlow

LEMMA TickGroupFlow ==
    ASSUME TypeOK, Apart, TickGroup
    PROVE  \E G \in SUBSET Decisions : Flow(G)
<1>1. buf \in SUBSET Decisions /\ buf \cap Queued(ord) = {} /\ buf \cap Listed(deferred) = {}
  BY Shelves DEF TypeOK, Ordinary, Apart, Disjoint, Tags
<1>2. /\ OnceQueued(ord')
      /\ Queued(ord') = Queued(ord) \cup (IF LaneFull THEN {} ELSE buf)
  BY <1>1, PushedOn DEF TickGroup, Apart, Once
<1>3. UNCHANGED <<held, prot, protRetry, retries, todo, lane, row, faults>> /\ buf' = {}
  BY DEF TickGroup, database, process, ticker
<1>4. CASE LaneFull
  <2>1. Backlog(Deferring(buf, FALSE))
    BY <1>4 DEF TickGroup, Overflow
  <2>2. Listed(Deferring(buf, FALSE)) = buf /\ OnceListed(Deferring(buf, FALSE))
    BY DeferredOnce
  <2>3. PICK M \in SUBSET buf :
          /\ OnceListed(deferred') /\ Listed(deferred') = Listed(deferred) \cup M
          /\ lost' = lost \cup (buf \ M)
    BY <1>1, <2>1, <2>2, Deferred DEF Apart, Once
  <2>4. Goes(Stock, Stock', "buf", "deferred", M, buf \ M)
    BY <1>2, <1>3, <1>4, <2>3, Shelves, ShelvesNext DEF Goes, Tags
  <2>5. Once'
    BY <1>2, <1>3, <2>3 DEF Once, Apart
  <2>6. Kept(buf \ M)
    BY <1>3, <2>3, KeptLost
  <2>7. QED
    BY <1>1, <2>4, <2>5, <2>6, GoesFlow
<1>5. CASE ~LaneFull
  <2>1. deferred' = deferred /\ lost' = lost
    BY <1>5, DeferredNone DEF TickGroup, Overflow
  <2>2. Goes(Stock, Stock', "buf", "ord", buf, {})
    BY <1>2, <1>3, <1>5, <2>1, Shelves, ShelvesNext DEF Goes, Tags
  <2>3. Once'
    BY <1>2, <1>3, <2>1 DEF Once, Apart
  <2>4. Kept({})
    BY <1>3, <2>1, KeptSame
  <2>5. QED
    BY <2>2, <2>3, <2>4, GoesFlow
<1>6. QED
  BY <1>4, <1>5

\* Five places change at once: X of the buffer goes to the ordinary lane, Y to the backlog or
\* out of memory, F with d to the protective lane; P of what is there is superseded.
Sorts(S, T, d, X, Y, F, P, M) ==
    /\ d \in S["held"] /\ X \subseteq S["buf"] /\ Y \subseteq S["buf"] /\ X \cap Y = {}
    /\ F \subseteq (S["buf"] \ (X \cup Y)) \cup {d}
    /\ P \subseteq S["prot"] \cup F
    /\ M \subseteq Y \cup P
    /\ T["held"] = S["held"] \ {d}
    /\ T["buf"] = ((S["buf"] \ (X \cup Y)) \cup {d}) \ F
    /\ T["ord"] = S["ord"] \cup X
    /\ T["prot"] = (S["prot"] \cup F) \ P
    /\ T["deferred"] = S["deferred"] \cup M
    /\ \A t \in Tags \ {"held", "buf", "ord", "prot", "deferred"} : T[t] = S[t]

LEMMA Sorted ==
    ASSUME NEW S, NEW T, NEW d, NEW X, NEW Y, NEW F, NEW P, NEW M,
           Disjoint(S), Sorts(S, T, d, X, Y, F, P, M)
    PROVE  Disjoint(T) /\ AllOf(T) = AllOf(S) \ ((Y \cup P) \ M)
<1> DEFINE G == (Y \cup P) \ M
<1>0. /\ d \in S["held"] /\ X \subseteq S["buf"] /\ Y \subseteq S["buf"] /\ X \cap Y = {}
      /\ F \subseteq (S["buf"] \ (X \cup Y)) \cup {d}
      /\ P \subseteq S["prot"] \cup F
      /\ M \subseteq Y \cup P
      /\ T["held"] = S["held"] \ {d}
      /\ T["buf"] = ((S["buf"] \ (X \cup Y)) \cup {d}) \ F
      /\ T["ord"] = S["ord"] \cup X
      /\ T["prot"] = (S["prot"] \cup F) \ P
      /\ T["deferred"] = S["deferred"] \cup M
      /\ \A t \in Tags \ {"held", "buf", "ord", "prot", "deferred"} : T[t] = S[t]
  BY DEF Sorts
<1>1. S["buf"] \cap S["held"] = {} /\ S["prot"] \cap S["held"] = {} /\ S["prot"] \cap S["buf"] = {}
  BY DEF Disjoint, Tags
<1>2. ASSUME NEW x, NEW t \in Tags, x \in T[t]
      PROVE  /\ x \notin G
             /\ \E s \in {"held", "buf", "prot", "ord", "deferred", t} : x \in S[s]
             /\ x \in S["held"] => (x # d /\ t = "held") \/ (x = d /\ d \notin P /\ t = "buf" /\ d \notin F)
                   \/ (x = d /\ d \in F /\ d \notin P /\ t = "prot") \/ (x = d /\ d \in P /\ t = "deferred")
             /\ x \in S["buf"] => (x \in X /\ t = "ord") \/ (x \in Y /\ t = "deferred")
                   \/ (x \notin X \cup Y \cup F /\ t = "buf")
                   \/ (x \notin X \cup Y /\ x \in F /\ x \notin P /\ t = "prot")
                   \/ (x \notin X \cup Y /\ x \in P /\ t = "deferred")
             /\ x \in S["prot"] => (x \notin P /\ t = "prot") \/ (x \in P /\ t = "deferred")
             /\ \A s \in Tags \ {"held", "buf", "prot"} : x \in S[s] => s = t
  <2>1. \A s, u \in Tags : x \in S[s] /\ x \in S[u] => s = u
    BY DEF Disjoint
  <2>2. CASE t = "held"
    BY <1>0, <1>1, <1>2, <2>1, <2>2 DEF Tags
  <2>3. CASE t = "buf"
    BY <1>0, <1>1, <1>2, <2>1, <2>3 DEF Tags
  <2>4. CASE t = "prot"
    BY <1>0, <1>1, <1>2, <2>1, <2>4 DEF Tags
  <2>5. CASE t = "ord"
    BY <1>0, <1>1, <1>2, <2>1, <2>5 DEF Tags
  <2>6. CASE t = "deferred"
    BY <1>0, <1>1, <1>2, <2>1, <2>6 DEF Tags
  <2>7. CASE t \notin {"held", "buf", "prot", "ord", "deferred"}
    BY <1>0, <1>1, <1>2, <2>1, <2>7 DEF Tags
  <2>8. QED
    BY <2>2, <2>3, <2>4, <2>5, <2>6, <2>7
<1>3. Disjoint(T)
  <2>1. ASSUME NEW s \in Tags, NEW t \in Tags, NEW x, x \in T[s], x \in T[t] PROVE s = t
    <3>1. CASE x \in S["held"]
      BY <1>1, <1>2, <2>1, <3>1
    <3>2. CASE x \in S["buf"]
      BY <1>0, <1>1, <1>2, <2>1, <3>2
    <3>3. CASE x \in S["prot"]
      BY <1>1, <1>2, <2>1, <3>3
    <3>4. CASE x \notin S["held"] \cup S["buf"] \cup S["prot"]
      <4>1. \E u \in Tags \ {"held", "buf", "prot"} : x \in S[u]
        BY <1>2, <2>1, <3>4 DEF Tags
      <4>2. QED
        BY <1>2, <2>1, <4>1
    <3>5. QED
      BY <3>1, <3>2, <3>3, <3>4
  <2>2. QED
    BY <2>1 DEF Disjoint
<1>4. ASSUME NEW x \in AllOf(T) PROVE x \in AllOf(S) \ G
  <2>1. PICK t \in Tags : x \in T[t]
    BY DEF AllOf
  <2>2. x \notin G /\ \E s \in {"held", "buf", "prot", "ord", "deferred", t} : x \in S[s]
    BY <1>2, <2>1
  <2>3. QED
    BY <2>1, <2>2 DEF AllOf, Tags
<1>5. ASSUME NEW x \in AllOf(S), x \notin G PROVE x \in AllOf(T)
  <2>1. PICK s \in Tags : x \in S[s]
    BY DEF AllOf
  <2>2. \E t \in {"held", "buf", "prot", "ord", "deferred", s} : x \in T[t]
    <3>1. CASE s = "held"
      BY <1>0, <1>5, <2>1, <3>1
    <3>2. CASE s = "buf"
      BY <1>0, <1>5, <2>1, <3>2
    <3>3. CASE s = "prot"
      BY <1>0, <1>5, <2>1, <3>3
    <3>4. CASE s \notin {"held", "buf", "prot"}
      BY <1>0, <2>1, <3>4 DEF Tags
    <3>5. QED
      BY <3>1, <3>2, <3>3, <3>4
  <2>3. QED
    BY <2>1, <2>2 DEF AllOf, Tags
<1>6. QED
  BY <1>3, <1>4, <1>5

LEMMA ListedBoth ==
    ASSUME NEW xs, NEW ys, OnceListed(xs), OnceListed(ys), Listed(xs) \cap Listed(ys) = {}
    PROVE  Listed(xs \cup ys) = Listed(xs) \cup Listed(ys) /\ OnceListed(xs \cup ys)
<1>1. Listed(xs \cup ys) = Listed(xs) \cup Listed(ys)
  BY DEF Listed
<1>2. ASSUME NEW x \in xs \cup ys, NEW y \in xs \cup ys, x.d = y.d PROVE x = y
  <2>1. (x \in xs => x.d \in Listed(xs)) /\ (x \in ys => x.d \in Listed(ys))
    BY DEF Listed
  <2>2. (y \in xs => y.d \in Listed(xs)) /\ (y \in ys => y.d \in Listed(ys))
    BY DEF Listed
  <2>3. QED
    BY <1>2, <2>1, <2>2 DEF OnceListed
<1>3. QED
  BY <1>1, <1>2 DEF OnceListed

LEMMA AcceptFlow ==
    ASSUME TypeOK, Apart, NEW d \in Decisions, Accept(d)
    PROVE  \E G \in SUBSET Decisions : Flow(G)
<1> DEFINE closes == buf # {} /\ (Cardinality(buf) >= MaxBuffered \/ (Window > 0 /\ windowAge >= Window))
           expired == IF closes THEN buf ELSE {}
           group == (buf \ expired) \cup {d}
           flushed == IF Flushes(d) THEN group ELSE {}
           X == IF LaneFull THEN {} ELSE expired
           Y == IF LaneFull THEN expired ELSE {}
           P == Superseded(flushed)
           xs == Overflow(expired) \cup Deferring(P, TRUE)
<1>1. /\ expired \in SUBSET buf /\ expired \in SUBSET Decisions
      /\ flushed \subseteq (buf \ expired) \cup {d}
      /\ P \subseteq prot \cup flushed
      /\ X \cup Y = expired /\ X \cap Y = {}
  BY DEF TypeOK, Ordinary, Superseded
<1>2. /\ d \in held /\ held' = held \ {d} /\ buf' = group \ flushed
      /\ prot' = (prot \cup flushed) \ P
      /\ PushOrdinary(expired) /\ Backlog(xs)
      /\ UNCHANGED <<protRetry, retries, todo, lane, row, faults>>
  BY DEF Accept, database, ticker
<1>3. /\ Disjoint(Stock) /\ OnceQueued(ord) /\ OnceListed(deferred)
      /\ \A s, t \in {"held", "buf", "prot", "ord", "deferred"} : s # t => Stock[s] \cap Stock[t] = {}
  BY DEF Apart, Once, Disjoint, Tags
<1>x. Listed(xs) = Y \cup P /\ OnceListed(xs)
  <2>1. /\ Listed(Deferring(P, TRUE)) = P /\ OnceListed(Deferring(P, TRUE))
        /\ Listed(Deferring(expired, FALSE)) = expired /\ OnceListed(Deferring(expired, FALSE))
    BY DeferredOnce
  <2>2. Listed(Overflow(expired)) = Y /\ OnceListed(Overflow(expired))
    BY <2>1 DEF Overflow, Listed, OnceListed
  <2> HIDE DEF Y, P, X, flushed, expired, xs
  <2>3. Y \cap P = {}
    BY <1>1, <1>2, <1>3, Shelves
  <2>4. xs = Overflow(expired) \cup Deferring(P, TRUE)
    BY DEF xs
  <2>5. QED
    BY <2>1, <2>2, <2>3, <2>4, ListedBoth
<1> HIDE DEF closes, X, Y, P, xs, expired, flushed
<1>4. /\ OnceQueued(ord') /\ Queued(ord') = Queued(ord) \cup X
  <2>1. expired \cap Queued(ord) = {}
    BY <1>1, <1>3, Shelves
  <2>2. QED
    BY <1>1, <1>2, <1>3, <2>1, PushedOn DEF X
<1>5. PICK M \in SUBSET (Y \cup P) :
        /\ OnceListed(deferred') /\ Listed(deferred') = Listed(deferred) \cup M
        /\ lost' = lost \cup ((Y \cup P) \ M)
  <2>1. (Y \cup P) \cap Listed(deferred) = {}
    BY <1>1, <1>2, <1>3, Shelves
  <2>2. QED
    BY <1>2, <1>3, <1>x, <2>1, Deferred
<1>6. Disjoint(Stock') /\ AllOf(Stock') = AllOf(Stock) \ ((Y \cup P) \ M)
  <2>1. /\ Stock'["held"] = Stock["held"] \ {d}
        /\ Stock'["buf"] = ((Stock["buf"] \ (X \cup Y)) \cup {d}) \ flushed
        /\ Stock'["ord"] = Stock["ord"] \cup X
        /\ Stock'["prot"] = (Stock["prot"] \cup flushed) \ P
        /\ Stock'["deferred"] = Stock["deferred"] \cup M
    BY <1>1, <1>2, <1>4, <1>5, Shelves, ShelvesNext
  <2>2. \A t \in Tags \ {"held", "buf", "ord", "prot", "deferred"} : Stock'[t] = Stock[t]
    BY <1>2, Shelves, ShelvesNext DEF Tags
  <2>3. /\ X \subseteq Stock["buf"] /\ Y \subseteq Stock["buf"] /\ d \in Stock["held"]
        /\ flushed \subseteq (Stock["buf"] \ (X \cup Y)) \cup {d}
        /\ P \subseteq Stock["prot"] \cup flushed
    BY <1>1, <1>2, Shelves
  <2>4. Sorts(Stock, Stock', d, X, Y, flushed, P, M)
    BY <1>1, <1>5, <2>1, <2>2, <2>3 DEF Sorts
  <2>5. QED
    BY <1>3, <2>4, Sorted
<1>7. Once'
  BY <1>2, <1>4, <1>5 DEF Once, Apart
<1>8. Kept((Y \cup P) \ M)
  BY <1>2, <1>5, KeptLost
<1>9. (Y \cup P) \ M \in SUBSET Decisions
  BY <1>1 DEF TypeOK, Ordinary
<1>11. (Y \cup P) \ M \subseteq AllOf(Stock)
  <2>1. buf \subseteq AllOf(Stock) /\ prot \subseteq AllOf(Stock) /\ held \subseteq AllOf(Stock)
    BY Shelves DEF AllOf, Tags
  <2>2. QED
    BY <1>1, <1>2, <2>1
<1>10. QED
  BY <1>6, <1>7, <1>8, <1>9, <1>11 DEF Flow

LEMMA TookListed ==
    ASSUME NEW xs, OnceListed(xs), NEW x \in xs
    PROVE  /\ Listed(xs \ {x}) = Listed(xs) \ {x.d} /\ OnceListed(xs \ {x})
           /\ x.d \in Listed(xs)
BY DEF Listed, OnceListed

LEMMA TookWaiting ==
    ASSUME NEW rs, OnceWaiting(rs), NEW r \in rs
    PROVE  /\ Waiting(rs \ {r}) = Waiting(rs) \ r.ds /\ OnceWaiting(rs \ {r})
           /\ r.ds \subseteq Waiting(rs)
BY DEF Waiting, OnceWaiting

\* The shelf of a worker's lane.
LEMMA LaneShelf ==
    ASSUME TypeOK, NEW l \in Lanes, NEW w, SetLane(l, w)
    PROVE  /\ l \in Tags /\ lane'[l] = w
           /\ Stock[l] = Carried(lane[l]) /\ Stock'[l] = Carried(w)
           /\ \A m \in Lanes \ {l} : Stock'[m] = Stock[m] /\ lane'[m] = lane[m]
<1>1. lane'[l] = w /\ \A m \in Lanes \ {l} : lane'[m] = lane[m]
  BY DEF TypeOK, SetLane
<1>2. QED
  BY <1>1, Shelves, ShelvesNext DEF Lanes, Tags

\* A worker that has recorded d.
LEMMA RestShelf ==
    ASSUME TypeOK, Whole, NEW l \in Lanes, NEW d \in lane[l].rest, lane[l].pc \in {"mark", "giveup", "aged"},
           SetLane(l, IF lane[l].rest = {d} THEN Idle ELSE [lane[l] EXCEPT !.rest = @ \ {d}])
    PROVE  Stock'[l] = Stock[l] \ {d} /\ d \in Stock[l] /\ d \in Decisions
<1>1. lane[l].kind # "digest" /\ lane[l].pc # "idle" /\ d \in Decisions /\ lane[l] \in Workers
  BY DEF Whole, WholeMessage, TypeOK, Workers
<1>2. Carried(lane[l]) = lane[l].rest
  BY <1>1 DEF Carried
<1> DEFINE w == IF lane[l].rest = {d} THEN Idle ELSE [lane[l] EXCEPT !.rest = @ \ {d}]
<1>3. Carried(w) = lane[l].rest \ {d}
  <2>1. CASE lane[l].rest = {d}
    BY <2>1 DEF Carried, Idle
  <2>2. CASE lane[l].rest # {d}
    <3>1. w.pc = lane[l].pc /\ w.kind = lane[l].kind /\ w.rest = lane[l].rest \ {d}
      BY <1>1, <2>2 DEF Workers
    <3>2. QED
      BY <1>1, <3>1 DEF Carried
  <2>3. QED
    BY <2>1, <2>2
<1>4. Stock[l] = Carried(lane[l]) /\ Stock'[l] = Carried(w)
  BY LaneShelf
<1>5. QED
  BY <1>1, <1>2, <1>3, <1>4

LEMMA TickRetryFlow ==
    ASSUME TypeOK, Apart, NEW r \in retries, TickRetry(r)
    PROVE  Flow({})
<1> DEFINE j == Job("retry", r.ds, r.failed)
<1>1. j \in Jobs /\ Load(j) = r.ds
  BY JobType DEF TypeOK, Retries, Job, Load
<1>2. /\ Waiting(retries') = Waiting(retries) \ r.ds /\ OnceWaiting(retries')
      /\ r.ds \subseteq Waiting(retries)
  BY TookWaiting DEF TickRetry, Apart, Once
<1>3. r.ds \cap Queued(ord) = {} /\ r.ds \cap Queued(protRetry) = {}
  BY <1>2, Shelves DEF Apart, Disjoint, Tags
<1>4. ord \in Seq(Jobs) /\ protRetry \in Seq(Jobs)
  BY DEF TypeOK
<1>5. UNCHANGED <<held, buf, prot, deferred, todo, lane, row, lost, faults>>
  BY DEF TickRetry, database, process, ticker, history
<1>6. \/ protRetry' = Append(protRetry, j) /\ ord' = ord
      \/ ord' = Append(ord, j) /\ protRetry' = protRetry
  BY DEF TickRetry
<1> HIDE DEF j
<1>7. CASE protRetry' = Append(protRetry, j) /\ ord' = ord
  <2>1. OnceQueued(protRetry') /\ Queued(protRetry') = Queued(protRetry) \cup r.ds
    BY <1>1, <1>3, <1>4, <1>7, Appended DEF Apart, Once
  <2>2. Goes(Stock, Stock', "retry", "protRetry", r.ds, {})
    BY <1>2, <1>5, <1>7, <2>1, Shelves, ShelvesNext DEF Goes, Tags
  <2>3. Once'
    BY <1>2, <1>5, <1>7, <2>1 DEF Once, Apart
  <2>4. QED
    BY <1>5, <2>2, <2>3, GoesFlow, KeptSame
<1>8. CASE ord' = Append(ord, j) /\ protRetry' = protRetry
  <2>1. OnceQueued(ord') /\ Queued(ord') = Queued(ord) \cup r.ds
    BY <1>1, <1>3, <1>4, <1>8, Appended DEF Apart, Once
  <2>2. Goes(Stock, Stock', "retry", "ord", r.ds, {})
    BY <1>2, <1>5, <1>8, <2>1, Shelves, ShelvesNext DEF Goes, Tags
  <2>3. Once'
    BY <1>2, <1>5, <1>8, <2>1 DEF Once, Apart
  <2>4. QED
    BY <1>5, <2>2, <2>3, GoesFlow, KeptSame
<1>9. QED
  BY <1>6, <1>7, <1>8

LEMMA TakeDeferredFlow ==
    ASSUME TypeOK, Apart, Settling, TickTakeDeferred \/ LastDeferrals
    PROVE  Flow({})
<1>1. todo = {} /\ todo' = deferred /\ deferred' = {}
  BY DEF TickTakeDeferred, LastDeferrals, Settling
<1>2. UNCHANGED <<held, buf, ord, prot, protRetry, retries, lane, row, lost, faults>>
  BY DEF TickTakeDeferred, LastDeferrals, database, process, history
<1>3. Listed({}) = {} /\ OnceListed({})
  BY DEF Listed, OnceListed
<1>4. Goes(Stock, Stock', "deferred", "todo", Listed(deferred), {})
  BY <1>1, <1>2, <1>3, Shelves, ShelvesNext DEF Goes, Tags
<1>5. Once'
  BY <1>1, <1>2, <1>3 DEF Once, Apart
<1>6. QED
  BY <1>2, <1>4, <1>5, GoesFlow, KeptSame

\* The tick settles x in its row, puts it back, or drops it.
LEMMA SettleFlow ==
    ASSUME TypeOK, Apart, OnRecord, NEW x \in todo, todo' = todo \ {x}, NEW y \in Deferrals, y.d = x.d,
           \/ Put(x.d, SettledRow(x.d, x.release)) /\ UNCHANGED <<deferred, lost, faults>>
           \/ /\ faults' = faults + 1 /\ UNCHANGED row
              /\ Backlog({y}) \/ (lost' = lost \cup {x.d} /\ UNCHANGED deferred),
           UNCHANGED <<held, buf, ord, prot, protRetry, retries, lane>>
    PROVE  \E G \in SUBSET Decisions : Flow(G)
<1>1. /\ Listed(todo') = Listed(todo) \ {x.d} /\ OnceListed(todo') /\ x.d \in Listed(todo)
  BY TookListed DEF Apart, Once
<1>2. x.d \in Decisions
  BY DEF TypeOK, Deferrals
<1>3. x.d \notin Listed(deferred)
  BY <1>1, Shelves DEF Apart, Disjoint, Tags
<1>4. CASE UNCHANGED <<deferred>>
  <2>1. Goes(Stock, Stock', "todo", "deferred", {}, {x.d})
    BY <1>1, <1>4, Shelves, ShelvesNext DEF Goes, Tags
  <2>2. Once'
    BY <1>1, <1>4 DEF Once, Apart
  <2>3. CASE Put(x.d, SettledRow(x.d, x.release)) /\ UNCHANGED <<deferred, lost, faults>>
    <3>1. x.d \in AllOf(Stock)
      BY <1>1, Shelves DEF AllOf, Tags
    <3>2. SettledRow(x.d, x.release) # "notify"
      BY <3>1, SettledNot DEF OnRecord
    <3>3. Kept({x.d})
      BY <1>2, <2>3, <3>2, KeptPut
    <3>4. QED
      BY <1>2, <2>1, <2>2, <3>3, GoesFlow
  <2>4. CASE faults' = faults + 1 /\ UNCHANGED row /\ lost \subseteq lost'
    <3>1. Kept({x.d})
      BY <2>4, KeptFault
    <3>2. QED
      BY <1>2, <2>1, <2>2, <3>1, GoesFlow
  <2>5. Backlog({y}) => lost \subseteq lost'
    BY DEF Backlog
  <2>6. QED
    BY <2>3, <2>4, <2>5
<1>5. CASE faults' = faults + 1 /\ UNCHANGED row /\ Backlog({y})
  <2>1. Listed({y}) = {x.d} /\ OnceListed({y})
    BY DEF Listed, OnceListed
  <2>2. PICK M \in SUBSET {x.d} :
          /\ OnceListed(deferred') /\ Listed(deferred') = Listed(deferred) \cup M
          /\ lost' = lost \cup ({x.d} \ M)
    BY <1>3, <1>5, <2>1, Deferred DEF Apart, Once
  <2>3. Goes(Stock, Stock', "todo", "deferred", M, {x.d} \ M)
    BY <1>1, <2>2, Shelves, ShelvesNext DEF Goes, Tags
  <2>4. Once'
    BY <1>1, <2>2 DEF Once, Apart
  <2>5. Kept({x.d} \ M)
    BY <1>5, <2>2, KeptFault
  <2>6. {x.d} \ M \in SUBSET Decisions
    BY <1>2
  <2>7. QED
    BY <2>3, <2>4, <2>5, <2>6, GoesFlow
<1>6. QED
  BY <1>4, <1>5

LEMMA TickSettleFlow ==
    ASSUME TypeOK, Apart, OnRecord, NEW x \in todo, TickSettle(x) \/ DrainSettle(x)
    PROVE  \E G \in SUBSET Decisions : Flow(G)
<1>1. x \in Deferrals /\ todo' = todo \ {x}
      /\ UNCHANGED <<held, buf, ord, prot, protRetry, retries, lane>>
  BY DEF TickSettle, DrainSettle, TypeOK, process
<1>2. CASE TickSettle(x)
  <2> DEFINE y == [x EXCEPT !.tries = x.tries + 1]
  <2>1. y \in Deferrals /\ y.d = x.d
    BY <1>1 DEF Deferrals
  <2>2. \/ Put(x.d, SettledRow(x.d, x.release)) /\ UNCHANGED <<deferred, lost, faults>>
        \/ /\ faults' = faults + 1 /\ UNCHANGED row
           /\ Backlog({y}) \/ (lost' = lost \cup {x.d} /\ UNCHANGED deferred)
    BY <1>2 DEF TickSettle
  <2> HIDE DEF y
  <2>3. QED
    BY <1>1, <2>1, <2>2, SettleFlow
<1>3. CASE DrainSettle(x)
  <2>1. \/ Put(x.d, SettledRow(x.d, x.release)) /\ UNCHANGED <<deferred, lost, faults>>
        \/ faults' = faults + 1 /\ UNCHANGED row /\ Backlog({x})
    BY <1>3 DEF DrainSettle
  <2>2. QED
    BY <1>1, <2>1, SettleFlow
<1>4. QED
  BY <1>2, <1>3

LEMMA TickDigestFlow ==
    ASSUME TypeOK, Apart, TickDigest
    PROVE  Flow({})
<1> DEFINE items == {d \in Decisions : row[d] = "digest"}
           j == Job("digest", items, 0)
<1>1. j \in Jobs /\ Load(j) = {}
  BY JobType DEF Job, Load
<1>2. ord \in Seq(Jobs)
  BY DEF TypeOK
<1>3. ord' = ord \/ ord' = Append(ord, j)
  BY DEF TickDigest
<1>4. UNCHANGED <<held, buf, prot, protRetry, retries, deferred, todo, lane, row, lost>>
  BY DEF TickDigest, process
<1>5. faults' = faults \/ faults' = faults + 1
  BY DEF TickDigest
<1> HIDE DEF j
<1>6. Queued(ord') = Queued(ord) /\ OnceQueued(ord')
  BY <1>1, <1>2, <1>3, Appended DEF Apart, Once
<1>7. Goes(Stock, Stock', "buf", "held", {}, {})
  BY <1>4, <1>6, Shelves, ShelvesNext DEF Goes, Tags
<1>8. Once'
  BY <1>4, <1>6 DEF Once, Apart
<1>9. Kept({})
  BY <1>4, <1>5 DEF Kept, TypeOK
<1>10. QED
  BY <1>7, <1>8, <1>9, GoesFlow

LEMMA PopOrdinaryFlow ==
    ASSUME TypeOK, Apart, PopOrdinary
    PROVE  Flow({})
<1> DEFINE j == Head(ord)
<1>1. PICK pc \in {"giveup", "aged", "send", "compose"} : SetLane("ordinary", Working(pc, j))
  BY DEF PopOrdinary
<1>2. /\ lane["ordinary"].pc = "idle" /\ ord # <<>> /\ ord' = Tail(ord) /\ ord \in Seq(Jobs)
      /\ UNCHANGED <<held, buf, prot, protRetry, retries, deferred, todo, row, lost, faults>>
  BY DEF PopOrdinary, TypeOK, database, process, ticker, history
<1>3. /\ Load(j) \subseteq Queued(ord) /\ Queued(ord') = Queued(ord) \ Load(j)
      /\ OnceQueued(ord')
  BY <1>2, Popped DEF Apart, Once
<1>4. Carried(lane["ordinary"]) = {} /\ Carried(Working(pc, j)) = Load(j)
  BY <1>2 DEF Carried, Working, Load
<1> HIDE DEF j
<1>5. /\ Stock["ordinary"] = {} /\ Stock'["ordinary"] = Load(j)
      /\ Stock'["protective"] = Stock["protective"]
  BY <1>1, <1>4, LaneShelf DEF Lanes
<1>6. Goes(Stock, Stock', "ord", "ordinary", Load(j), {})
  BY <1>2, <1>3, <1>5, Shelves, ShelvesNext DEF Goes, Tags
<1>7. Once'
  BY <1>2, <1>3 DEF Once, Apart
<1>8. QED
  BY <1>2, <1>6, <1>7, GoesFlow, KeptSame

LEMMA PopProtectiveFlow ==
    ASSUME TypeOK, Apart, Whole, PopProtective
    PROVE  Flow({})
<1>1. /\ lane["protective"].pc = "idle" /\ Carried(lane["protective"]) = {}
      /\ UNCHANGED <<held, buf, ord, retries, deferred, todo, row, lost, faults>>
  BY DEF PopProtective, database, process, ticker, history, Carried
<1>2. CASE /\ protRetry # <<>> /\ protRetry' = Tail(protRetry)
           /\ SetLane("protective", Working("send", Head(protRetry))) /\ UNCHANGED prot
  <2> DEFINE j == Head(protRetry)
  <2>1. /\ Load(j) \subseteq Queued(protRetry) /\ Queued(protRetry') = Queued(protRetry) \ Load(j)
        /\ OnceQueued(protRetry')
    BY <1>2, Popped DEF Apart, Once, TypeOK
  <2>2. Carried(Working("send", j)) = Load(j)
    BY DEF Carried, Working, Load
  <2> HIDE DEF j
  <2>3. /\ Stock["protective"] = {} /\ Stock'["protective"] = Load(j)
        /\ Stock'["ordinary"] = Stock["ordinary"]
    BY <1>1, <1>2, <2>2, LaneShelf DEF Lanes, j
  <2>4. Goes(Stock, Stock', "protRetry", "protective", Load(j), {})
    BY <1>1, <1>2, <2>1, <2>3, Shelves, ShelvesNext DEF Goes, Tags
  <2>5. Once'
    BY <1>1, <1>2, <2>1 DEF Once, Apart
  <2>6. QED
    BY <1>1, <2>4, <2>5, GoesFlow, KeptSame
<1>3. ASSUME NEW group \in SUBSET prot, prot' = prot \ group, UNCHANGED protRetry,
             SetLane("protective", Working("send", Job("group", group, 0)))
      PROVE  Flow({})
  <2>1. Carried(Working("send", Job("group", group, 0))) = group
    BY DEF Carried, Working, Job
  <2>2. /\ Stock["protective"] = {} /\ Stock'["protective"] = group
        /\ Stock'["ordinary"] = Stock["ordinary"]
    BY <1>1, <1>3, <2>1, LaneShelf DEF Lanes
  <2>3. Goes(Stock, Stock', "prot", "protective", group, {})
    BY <1>1, <1>3, <2>2, Shelves, ShelvesNext DEF Goes, Tags
  <2>4. Once'
    BY <1>1, <1>3, OnceSame DEF Apart
  <2>5. QED
    BY <1>1, <2>3, <2>4, GoesFlow, KeptSame
<1>4. QED
  BY <1>2, <1>3 DEF PopProtective

\* A worker goes on with the same decisions.
LEMMA LaneStays ==
    ASSUME TypeOK, Apart, NEW l \in Lanes, NEW w, SetLane(l, w), Carried(w) = Carried(lane[l]),
           UNCHANGED <<held, buf, ord, prot, protRetry, retries, deferred, todo>>, Kept({})
    PROVE  Flow({})
<1>1. \A m \in Lanes : Stock'[m] = Stock[m]
  BY LaneShelf
<1>2. Goes(Stock, Stock', "buf", "held", {}, {})
  BY <1>1, Shelves, ShelvesNext DEF Goes, Tags, Lanes
<1>3. Once'
  BY OnceSame DEF Apart
<1>4. QED
  BY <1>2, <1>3, GoesFlow

LEMMA ComposeFlow ==
    ASSUME TypeOK, Apart, Compose
    PROVE  Flow({})
<1> DEFINE w == [lane["ordinary"] EXCEPT !.pc = "send", !.elapsed = 0]
<1>1. lane["ordinary"] \in Workers /\ lane["ordinary"].pc = "compose"
  BY DEF TypeOK, Lanes, Compose
<1>2. w.pc = "send" /\ w.kind = lane["ordinary"].kind /\ w.rest = lane["ordinary"].rest
  BY <1>1 DEF Workers
<1>3. Carried(w) = Carried(lane["ordinary"])
  BY <1>1, <1>2 DEF Carried
<1>4. SetLane("ordinary", w) /\ UNCHANGED <<held, buf, ord, prot, protRetry, retries, deferred, todo, row, lost, faults>>
  BY DEF Compose, database, process, queues, ticker, history
<1> HIDE DEF w
<1>5. QED
  BY <1>3, <1>4, LaneStays, KeptSame DEF Lanes

LEMMA DeliveredFlow ==
    ASSUME TypeOK, Apart, NEW l \in Lanes, Delivered(l)
    PROVE  Flow({})
<1> DEFINE w == Recording(lane[l], IF lane[l].kind = "digest" THEN "complete" ELSE "mark")
<1>1. lane[l] \in Workers /\ lane[l].pc = "send"
  BY DEF TypeOK, Delivered
<1>2. w.pc # "idle" /\ w.kind = lane[l].kind /\ w.rest = lane[l].rest
  BY <1>1 DEF Workers, Recording
<1>3. Carried(w) = Carried(lane[l])
  BY <1>1, <1>2 DEF Carried
<1>4. SetLane(l, w) /\ UNCHANGED <<held, buf, ord, prot, protRetry, retries, deferred, todo, row, lost, faults>>
  BY DEF Delivered, database, process, queues, ticker
<1> HIDE DEF w
<1>5. QED
  BY <1>3, <1>4, LaneStays, KeptSame

LEMMA DigestDoneFlow ==
    ASSUME TypeOK, Apart, Whole, OnRecord, CompleteDigest \/ DigestNotDelivered
    PROVE  Flow({})
<1>1. lane["ordinary"].kind = "digest" /\ lane["ordinary"].pc # "idle" /\ "ordinary" \in Lanes
  BY DEF CompleteDigest, DigestNotDelivered, Whole, WholeMessage, Lanes
<1>2. Carried(lane["ordinary"]) = {} /\ Carried(Idle) = {}
  BY <1>1 DEF Carried, Idle
<1>3. /\ SetLane("ordinary", Idle)
      /\ UNCHANGED <<held, buf, ord, prot, protRetry, retries, deferred, todo, lost>>
  BY DEF CompleteDigest, DigestNotDelivered, process, queues, history
<1>4. Kept({})
  <2>1. \A d \in DigestItems : row[d] \in {"digest", "told"}
    BY <1>1 DEF OnRecord, DigestItems, Bundle
  <2>2. CASE CompleteDigest
    BY <1>3, <2>1, <2>2 DEF CompleteDigest, Kept, TypeOK
  <2>3. CASE DigestNotDelivered
    BY <2>3 DEF DigestNotDelivered, Kept, database, history
  <2>4. QED
    BY <2>2, <2>3
<1>5. QED
  BY <1>1, <1>2, <1>3, <1>4, LaneStays

\* The worker of l has settled d in its row, or could not.
LEMMA RecordedFlow ==
    ASSUME TypeOK, Apart, Whole, OnRecord, NEW l \in Lanes, NEW d \in lane[l].rest,
           lane[l].pc \in {"mark", "giveup", "aged"},
           SetLane(l, IF lane[l].rest = {d} THEN Idle ELSE [lane[l] EXCEPT !.rest = @ \ {d}]),
           UNCHANGED <<held, buf, ord, prot, protRetry, retries, todo>>,
           NEW s, s # "notify",
           \/ Put(d, s) /\ UNCHANGED <<deferred, lost, faults>>
           \/ /\ faults' = faults + 1 /\ UNCHANGED row
              /\ \/ lost \subseteq lost' /\ UNCHANGED deferred
                 \/ \E release \in BOOLEAN : Backlog(Deferring({d}, release))
    PROVE  \E G \in SUBSET Decisions : Flow(G)
<1>1. Stock'[l] = Stock[l] \ {d} /\ d \in Stock[l] /\ d \in Decisions
  BY RestShelf
<1>2. l \in Tags /\ (\A m \in Lanes \ {l} : Stock'[m] = Stock[m])
  BY LaneShelf
<1>3. d \notin Listed(deferred) /\ l # "deferred" /\ l # "buf"
  BY <1>1, <1>2, Shelves DEF Apart, Disjoint, Tags, Lanes
<1>4. \A t \in Tags \ (Lanes \cup {"deferred"}) : Stock'[t] = Stock[t]
  BY Shelves, ShelvesNext DEF Tags, Lanes
<1>5. CASE UNCHANGED deferred
  <2>1. Stock'["deferred"] = Stock["deferred"]
    BY <1>5, Shelves, ShelvesNext
  <2>2. \A t \in Tags \ {l} : Stock'[t] = Stock[t]
    BY <1>2, <1>4, <2>1
  <2>3. Goes(Stock, Stock', l, "buf", {}, {d})
    BY <1>1, <1>2, <1>3, <2>2 DEF Goes, Tags
  <2>4. Once'
    BY <1>5, OnceSame DEF Apart
  <2>5. CASE Put(d, s) /\ UNCHANGED <<lost, faults>>
    <3>1. Kept({d})
      BY <1>1, <2>5, KeptPut
    <3>2. QED
      BY <1>1, <2>3, <2>4, <3>1, GoesFlow
  <2>6. CASE faults' = faults + 1 /\ UNCHANGED row /\ lost \subseteq lost'
    <3>1. Kept({d})
      BY <2>6, KeptFault
    <3>2. QED
      BY <1>1, <2>3, <2>4, <3>1, GoesFlow
  <2>7. \A release : Backlog(Deferring({d}, release)) => lost \subseteq lost'
    BY DEF Backlog
  <2>8. QED
    BY <2>5, <2>6, <2>7
<1>6. ASSUME NEW release \in BOOLEAN, Backlog(Deferring({d}, release)), faults' = faults + 1, UNCHANGED row
      PROVE  \E G \in SUBSET Decisions : Flow(G)
  <2>1. Listed(Deferring({d}, release)) = {d} /\ OnceListed(Deferring({d}, release))
    BY DeferredOnce
  <2>2. PICK M \in SUBSET {d} :
          /\ OnceListed(deferred') /\ Listed(deferred') = Listed(deferred) \cup M
          /\ lost' = lost \cup ({d} \ M)
    BY <1>3, <1>6, <2>1, Deferred DEF Apart, Once
  <2>3. Stock'["deferred"] = Stock["deferred"] \cup M
    BY <2>2, Shelves, ShelvesNext
  <2>4. \A t \in Tags \ {l, "deferred"} : Stock'[t] = Stock[t]
    BY <1>2, <1>4
  <2>5. Goes(Stock, Stock', l, "deferred", M, {d} \ M)
    BY <1>1, <1>2, <1>3, <2>2, <2>3, <2>4 DEF Goes, Tags
  <2>6. Once'
    BY <2>2 DEF Once, Apart
  <2>7. Kept({d} \ M)
    BY <1>6, <2>2, KeptFault
  <2>8. {d} \ M \in SUBSET Decisions
    BY <1>1
  <2>9. QED
    BY <2>5, <2>6, <2>7, <2>8, GoesFlow
<1>7. QED
  BY <1>5, <1>6

LEMMA MarkFlow ==
    ASSUME TypeOK, Apart, Whole, OnRecord, NEW l \in Lanes, Mark(l)
    PROVE  \E G \in SUBSET Decisions : Flow(G)
<1>1. PICK d \in lane[l].rest :
        /\ \/ Put(d, "told") /\ UNCHANGED faults
           \/ faults < MaxFaults /\ faults' = faults + 1 /\ UNCHANGED <<row, age, last>>
        /\ SetLane(l, IF lane[l].rest = {d} THEN Idle ELSE [lane[l] EXCEPT !.rest = @ \ {d}])
  BY DEF Mark
<1>2. lane[l].pc \in {"mark", "giveup", "aged"}
      /\ UNCHANGED <<held, buf, ord, prot, protRetry, retries, deferred, todo, lost>>
  BY DEF Mark, process, queues, ticker
<1>3. QED
  BY <1>1, <1>2, RecordedFlow

LEMMA InFlightRow ==
    ASSUME OnRecord, NEW t \in Tags, NEW d \in Stock[t]
    PROVE  row[d] = "notify"
BY DEF OnRecord, AllOf

LEMMA GiveUpFlow ==
    ASSUME TypeOK, Apart, Whole, OnRecord, NEW l \in Lanes, GiveUp(l)
    PROVE  \E G \in SUBSET Decisions : Flow(G)
<1>1. PICK d \in lane[l].rest :
        /\ \/ /\ Put(d, SettledRow(d, d \in Protective))
              /\ UNCHANGED <<deferred, lost, faults>>
           \/ /\ faults < MaxFaults /\ faults' = faults + 1
              /\ Backlog(Deferring({d}, d \in Protective))
              /\ UNCHANGED <<row, age, last>>
        /\ SetLane(l, IF lane[l].rest = {d} THEN Idle ELSE [lane[l] EXCEPT !.rest = @ \ {d}])
  BY DEF GiveUp
<1>2. lane[l].pc \in {"mark", "giveup", "aged"}
      /\ UNCHANGED <<held, buf, ord, prot, protRetry, retries, todo>>
  BY DEF GiveUp, process, ticker
<1>3. l \in Tags /\ d \in Stock[l]
  BY <1>1, <1>2, RestShelf, LaneShelf
<1> DEFINE release == d \in Protective
           s == SettledRow(d, release)
<1>4. s # "notify"
  BY <1>3, InFlightRow, SettledNot
<1>5. release \in BOOLEAN
  OBVIOUS
<1>6. \/ Put(d, s) /\ UNCHANGED <<deferred, lost, faults>>
      \/ faults' = faults + 1 /\ UNCHANGED row /\ Backlog(Deferring({d}, release))
  BY <1>1
<1> HIDE DEF release, s
<1>7. QED
  BY <1>1, <1>2, <1>4, <1>5, <1>6, RecordedFlow

LEMMA AgedFlow ==
    ASSUME TypeOK, Apart, Whole, OnRecord, Aged
    PROVE  \E G \in SUBSET Decisions : Flow(G)
<1>1. PICK d \in lane["ordinary"].rest :
        /\ \/ Put(d, SettledRow(d, FALSE)) /\ UNCHANGED <<lost, faults>>
           \/ /\ faults < MaxFaults /\ faults' = faults + 1
              /\ lost' = lost \cup {d}
              /\ UNCHANGED <<row, age, last>>
        /\ SetLane("ordinary", IF lane["ordinary"].rest = {d} THEN Idle
                               ELSE [lane["ordinary"] EXCEPT !.rest = @ \ {d}])
  BY DEF Aged
<1>2. lane["ordinary"].pc \in {"mark", "giveup", "aged"} /\ "ordinary" \in Lanes
      /\ UNCHANGED <<held, buf, ord, prot, protRetry, retries, deferred, todo>>
  BY DEF Aged, process, queues, ticker, Lanes
<1>3. "ordinary" \in Tags /\ d \in Stock["ordinary"]
  BY <1>1, <1>2, RestShelf, LaneShelf
<1> DEFINE s == SettledRow(d, FALSE)
<1>4. s # "notify"
  BY <1>3, InFlightRow, SettledNot
<1>5. \/ Put(d, s) /\ UNCHANGED <<deferred, lost, faults>>
      \/ faults' = faults + 1 /\ UNCHANGED row /\ lost \subseteq lost' /\ UNCHANGED deferred
  BY <1>1, <1>2
<1> HIDE DEF s
<1>6. QED
  BY <1>1, <1>2, <1>4, <1>5, RecordedFlow

LEMMA NotDeliveredFlow ==
    ASSUME TypeOK, Apart, Whole, NEW l \in Lanes, NotDelivered(l)
    PROVE  Flow({})
<1> DEFINE failed == lane[l].failed + 1
           r == [ds |-> lane[l].ds, failed |-> failed, wait |-> Delay(failed)]
<1>1. /\ lane[l].pc = "send" /\ lane[l].kind # "digest" /\ lane[l].rest = lane[l].ds
      /\ lane[l] \in Workers
  BY DEF NotDelivered, Whole, WholeMessage, TypeOK
<1>2. Carried(lane[l]) = lane[l].ds
  BY <1>1 DEF Carried
<1>3. UNCHANGED <<held, buf, ord, prot, protRetry, deferred, todo, row, lost, faults>>
  BY DEF NotDelivered, database, process, ticker, history
<1>4. \/ retries' = retries \cup {r} /\ SetLane(l, Idle)
      \/ SetLane(l, Recording(lane[l], "giveup")) /\ UNCHANGED retries
  BY DEF NotDelivered
<1>5. r.ds = lane[l].ds
  OBVIOUS
<1> HIDE DEF r
<1>6. CASE retries' = retries \cup {r} /\ SetLane(l, Idle)
  <2>1. Carried(Idle) = {}
    BY DEF Carried, Idle
  <2>2. /\ Stock[l] = r.ds /\ Stock'[l] = {} /\ l \in Tags /\ l # "retry"
        /\ \A m \in Lanes \ {l} : Stock'[m] = Stock[m]
    BY <1>2, <1>5, <1>6, <2>1, LaneShelf DEF Lanes
  <2>3. r.ds \cap Waiting(retries) = {}
    BY <2>2, Shelves DEF Apart, Disjoint, Tags
  <2>4. Waiting(retries') = Waiting(retries) \cup r.ds /\ OnceWaiting(retries')
    <3>1. Waiting(retries') = Waiting(retries) \cup r.ds
      BY <1>6 DEF Waiting
    <3>2. \A u \in retries : u.ds \subseteq Waiting(retries)
      BY DEF Waiting
    <3>3. OnceWaiting(retries')
      BY <1>6, <2>3, <3>2 DEF OnceWaiting, Apart, Once
    <3>4. QED
      BY <3>1, <3>3
  <2>5. \A t \in Tags \ {l, "retry"} : Stock'[t] = Stock[t]
    BY <1>3, <2>2, Shelves, ShelvesNext DEF Tags, Lanes
  <2>6. Stock'["retry"] = Stock["retry"] \cup r.ds
    BY <2>4, Shelves, ShelvesNext
  <2>7. Goes(Stock, Stock', l, "retry", r.ds, {})
    BY <2>2, <2>5, <2>6 DEF Goes, Tags
  <2>8. Once'
    BY <1>3, <2>4 DEF Once, Apart
  <2>9. QED
    BY <1>3, <2>7, <2>8, GoesFlow, KeptSame
<1>7. CASE SetLane(l, Recording(lane[l], "giveup")) /\ UNCHANGED retries
  <2> DEFINE w == Recording(lane[l], "giveup")
  <2>1. w.pc = "giveup" /\ w.kind = lane[l].kind /\ w.rest = lane[l].rest
    BY <1>1 DEF Workers, Recording
  <2>2. Carried(w) = Carried(lane[l])
    BY <1>1, <2>1 DEF Carried
  <2> HIDE DEF w
  <2>3. SetLane(l, w)
    BY <1>7 DEF w
  <2>4. QED
    BY <1>3, <1>7, <2>2, <2>3, LaneStays, KeptSame
<1>8. QED
  BY <1>4, <1>6, <1>7

LEMMA StopFlow ==
    ASSUME TypeOK, Apart, Stop
    PROVE  Flow({})
<1> DEFINE j == Job("group", buf, 0)
<1>1. j \in Jobs /\ Load(j) = buf /\ buf \in SUBSET Decisions
  BY JobType DEF Job, Load, TypeOK, Ordinary
<1>2. ord \in Seq(Jobs) /\ buf \cap Queued(ord) = {}
  BY Shelves DEF TypeOK, Apart, Disjoint, Tags
<1>3. UNCHANGED <<held, prot, protRetry, retries, deferred, todo, lane, row, lost, faults>> /\ buf' = {}
  BY DEF Stop, database, ticker, history
<1>4. (buf = {} /\ ord' = ord) \/ ord' = Append(ord, j)
  BY DEF Stop
<1> HIDE DEF j
<1>5. Queued(ord') = Queued(ord) \cup buf /\ OnceQueued(ord')
  BY <1>1, <1>2, <1>4, Appended DEF Apart, Once
<1>6. Goes(Stock, Stock', "buf", "ord", buf, {})
  BY <1>3, <1>5, Shelves, ShelvesNext DEF Goes, Tags
<1>7. Once'
  BY <1>3, <1>5 DEF Once, Apart
<1>8. QED
  BY <1>3, <1>6, <1>7, GoesFlow, KeptSame

LEMMA DrainedOnce ==
    ASSUME NEW ds, NEW x \in Drained(ds)
    PROVE  /\ x.d \in ds
           /\ x.d \in Protective => x = [d |-> x.d, release |-> TRUE, tries |-> 0]
           /\ x.d \notin Protective => x = [d |-> x.d, release |-> FALSE, tries |-> 0]
<1>1. CASE x \in Deferring(ds \cap Protective, TRUE)
  <2>1. PICK d \in ds \cap Protective : x = [d |-> d, release |-> TRUE, tries |-> 0]
    BY <1>1 DEF Deferring
  <2>2. QED
    BY <2>1
<1>2. CASE x \in Deferring(ds \ Protective, FALSE)
  <2>1. PICK d \in ds \ Protective : x = [d |-> d, release |-> FALSE, tries |-> 0]
    BY <1>2 DEF Deferring
  <2>2. QED
    BY <2>1
<1>3. QED
  BY <1>1, <1>2 DEF Drained

LEMMA DrainedAll ==
    ASSUME NEW ds, NEW d \in ds
    PROVE  \E x \in Drained(ds) : x.d = d
<1>1. CASE d \in Protective
  <2> DEFINE e == ds \cap Protective
  <2> HIDE DEF e
  <2>0. Listed(Deferring(e, TRUE)) = e
    BY DeferredOnce
  <2>1. d \in Listed(Deferring(ds \cap Protective, TRUE))
    BY <1>1, <2>0 DEF e
  <2>2. QED
    BY <2>1 DEF Listed, Drained
<1>2. CASE d \notin Protective
  <2> DEFINE e == ds \ Protective
  <2> HIDE DEF e
  <2>0. Listed(Deferring(e, FALSE)) = e
    BY DeferredOnce
  <2>1. d \in Listed(Deferring(ds \ Protective, FALSE))
    BY <1>2, <2>0 DEF e
  <2>2. QED
    BY <2>1 DEF Listed, Drained
<1>3. QED
  BY <1>1, <1>2

LEMMA DrainFlow ==
    ASSUME TypeOK, Apart, Settling, Drain
    PROVE  Flow({})
<1>1. /\ todo = {} /\ retries' = {} /\ todo' = UNION {Drained(r.ds) : r \in retries}
      /\ UNCHANGED <<held, buf, ord, prot, protRetry, deferred, lane, row, lost, faults>>
  BY DEF Drain, Settling, database, process, history
<1>2. Listed(todo') = Waiting(retries)
  <2>1. ASSUME NEW d \in Listed(todo') PROVE d \in Waiting(retries)
    <3>1. PICK x \in todo' : x.d = d
      BY DEF Listed
    <3>2. PICK r \in retries : x \in Drained(r.ds)
      BY <1>1
    <3>3. QED
      BY <3>1, <3>2, DrainedOnce DEF Waiting
  <2>2. ASSUME NEW d \in Waiting(retries) PROVE d \in Listed(todo')
    <3>1. PICK r \in retries : d \in r.ds
      BY DEF Waiting
    <3>2. PICK x \in Drained(r.ds) : x.d = d
      BY <3>1, DrainedAll
    <3>3. QED
      BY <1>1, <3>2 DEF Listed
  <2>3. QED
    BY <2>1, <2>2
<1>3. OnceListed(todo')
  <2>1. ASSUME NEW x \in todo'
        PROVE  /\ x.d \in Protective => x = [d |-> x.d, release |-> TRUE, tries |-> 0]
               /\ x.d \notin Protective => x = [d |-> x.d, release |-> FALSE, tries |-> 0]
    <3>1. PICK r \in retries : x \in Drained(r.ds)
      BY <1>1
    <3>2. QED
      BY <3>1, DrainedOnce
  <2>2. ASSUME NEW x \in todo', NEW y \in todo', x.d = y.d PROVE x = y
    <3>1. CASE x.d \in Protective
      <4>1. /\ x = [d |-> x.d, release |-> TRUE, tries |-> 0]
            /\ y = [d |-> y.d, release |-> TRUE, tries |-> 0]
        BY <2>1, <2>2, <3>1
      <4>2. QED
        BY <2>2, <4>1, Zenon
    <3>2. CASE x.d \notin Protective
      <4>1. /\ x = [d |-> x.d, release |-> FALSE, tries |-> 0]
            /\ y = [d |-> y.d, release |-> FALSE, tries |-> 0]
        BY <2>1, <2>2, <3>2
      <4>2. QED
        BY <2>2, <4>1, Zenon
    <3>3. QED
      BY <3>1, <3>2
  <2>3. QED
    BY <2>2 DEF OnceListed
<1>4. Listed({}) = {} /\ Waiting({}) = {} /\ OnceWaiting({})
  BY DEF Listed, Waiting, OnceWaiting
<1>5. Goes(Stock, Stock', "retry", "todo", Waiting(retries), {})
  BY <1>1, <1>2, <1>4, Shelves, ShelvesNext DEF Goes, Tags
<1>6. Once'
  BY <1>1, <1>3, <1>4 DEF Once, Apart
<1>7. QED
  BY <1>1, <1>5, <1>6, GoesFlow, KeptSame

LEMMA AdvanceFlow ==
    ASSUME TypeOK, Apart, Advance
    PROVE  Flow({})
<1> DEFINE f(r) == [r EXCEPT !.wait = IF @ = 0 THEN 0 ELSE @ - 1]
<1>1. UNCHANGED <<held, buf, ord, prot, protRetry, deferred, todo, row, lost, faults>>
  BY DEF Advance, process, ticker, history
<1>2. retries' = {f(r) : r \in retries}
  BY DEF Advance
<1>3. \A r \in retries : f(r).ds = r.ds
  BY DEF TypeOK, Retries
<1> HIDE DEF f
<1>4. Waiting(retries') = Waiting(retries)
  BY <1>2, <1>3 DEF Waiting
<1>5. OnceWaiting(retries')
  <2>1. ASSUME NEW x \in retries', NEW y \in retries', x # y PROVE x.ds \cap y.ds = {}
    <3>1. PICK r \in retries : x = f(r)
      BY <1>2
    <3>2. PICK s \in retries : y = f(s)
      BY <1>2
    <3>3. r # s
      BY <2>1, <3>1, <3>2
    <3>4. QED
      BY <1>3, <3>1, <3>2, <3>3 DEF OnceWaiting, Apart, Once
  <2>2. QED
    BY <2>1 DEF OnceWaiting
<1>6. ASSUME NEW l \in Lanes PROVE Carried(lane'[l]) = Carried(lane[l])
  <2>1. lane[l] \in Workers
    BY DEF TypeOK
  <2>2. lane'[l] = IF lane[l].pc = "idle" THEN lane[l] ELSE [lane[l] EXCEPT !.elapsed = @ + 1]
    BY DEF Advance
  <2>3. lane'[l].pc = lane[l].pc /\ lane'[l].kind = lane[l].kind /\ lane'[l].rest = lane[l].rest
    BY <2>1, <2>2 DEF Workers
  <2>4. QED
    BY <2>3 DEF Carried
<1>7. /\ Carried(lane'["ordinary"]) = Carried(lane["ordinary"])
      /\ Carried(lane'["protective"]) = Carried(lane["protective"])
  BY <1>6 DEF Lanes
<1>8. Goes(Stock, Stock', "buf", "held", {}, {})
  BY <1>1, <1>4, <1>7, Shelves, ShelvesNext DEF Goes, Tags
<1>9. Once'
  BY <1>1, <1>5 DEF Once, Apart
<1>10. QED
  BY <1>1, <1>8, <1>9, GoesFlow, KeptSame

\* The step of Next that lets decisions leave the memory, or none.
LEMMA FlowKeeps ==
    ASSUME TypeOK, OnRecord, Found, NEW G, Flow(G)
    PROVE  Apart' /\ (\A d \in AllOf(Stock') : row'[d] = "notify") /\ Found'
<1>1. Apart'
  BY DEF Flow, Apart, Disjoint, AllOf
<1>2. AllOf(Stock) \subseteq Decisions
  BY StockType
<1>3. \A d \in AllOf(Stock') : row'[d] = "notify"
  BY <1>2 DEF Flow, Kept, OnRecord
<1>4. ASSUME faults' = 0, NEW d \in Decisions, row'[d] = "notify", d \notin lost'
      PROVE  d \in AllOf(Stock')
  <2>1. faults = 0 /\ d \notin lost /\ d \notin G
    BY <1>4 DEF Flow, Kept
  <2>2. row[d] = "notify"
    BY <1>4, <2>1 DEF Flow, Kept
  <2>3. d \in AllOf(Stock)
    BY <2>1, <2>2 DEF Found
  <2>4. QED
    BY <2>1, <2>3 DEF Flow
<1>5. Found'
  BY <1>4 DEF Found, AllOf
<1>6. QED
  BY <1>1, <1>3, <1>5

\* A digest is queued with what the rows hold, and a worker takes it as it was queued.
Packed ==
    /\ \A d \in Bundles(ord') : d \in Bundles(ord) \/ (d \in Decisions /\ row[d] = "digest")
    /\ \A l \in Lanes : lane'[l].pc # "idle" =>
          \A d \in Bundle(lane'[l]) : d \in Bundles(ord) \/ (lane[l].pc # "idle" /\ d \in Bundle(lane[l]))

LEMMA PackedSame == ASSUME UNCHANGED <<ord, lane>> PROVE Packed
BY DEF Packed

LEMMA BundleType ==
    ASSUME TypeOK
    PROVE  Bundles(ord) \subseteq Decisions /\ (\A l \in Lanes : Bundle(lane[l]) \subseteq Decisions)
<1>1. \A j \in Jobs : Bundle(j) \subseteq Decisions
  BY DEF Bundle, Jobs
<1>2. \A i \in DOMAIN ord : ord[i] \in Jobs
  BY DEF TypeOK
<1>3. Bundles(ord) \subseteq Decisions
  BY <1>1, <1>2 DEF Bundles
<1>4. \A l \in Lanes : Bundle(lane[l]) \subseteq Decisions
  BY DEF TypeOK, Workers, Bundle
<1>5. QED
  BY <1>3, <1>4

LEMMA PackedKeeps ==
    ASSUME TypeOK, OnRecord, NEW G, Flow(G), Packed
    PROVE  /\ \A d \in Bundles(ord') : row'[d] \in {"digest", "told"}
           /\ \A l \in Lanes : lane'[l].pc # "idle" =>
                 \A d \in Bundle(lane'[l]) : row'[d] \in {"digest", "told"}
<1>1. \A d \in Decisions : row[d] \in {"digest", "told"} => d \notin G /\ row'[d] \in {"digest", "told"}
  BY DEF Flow, Kept, OnRecord
<1>2. QED
  BY <1>1, BundleType DEF Packed, OnRecord

\* What a worker does to its lane.
LEMMA LanePacked ==
    ASSUME TypeOK, NEW l \in Lanes, NEW w, SetLane(l, w), Bundles(ord') \subseteq Bundles(ord),
           w.pc = "idle" \/ Bundle(w) \subseteq Bundles(ord)
             \/ (lane[l].pc # "idle" /\ Bundle(w) = Bundle(lane[l]))
    PROVE  Packed
<1>1. lane'[l] = w /\ \A m \in Lanes \ {l} : lane'[m] = lane[m]
  BY LaneShelf
<1>2. QED
  BY <1>1 DEF Packed

LEMMA PopPacked ==
    ASSUME TypeOK, PopOrdinary
    PROVE  Packed
<1> DEFINE j == Head(ord)
<1>1. PICK pc \in {"giveup", "aged", "send", "compose"} : SetLane("ordinary", Working(pc, j))
  BY DEF PopOrdinary
<1>2. ord # <<>> /\ ord' = Tail(ord) /\ ord \in Seq(Jobs)
  BY DEF PopOrdinary, TypeOK
<1>3. Bundles(ord') \subseteq Bundles(ord) /\ Bundle(j) \subseteq Bundles(ord)
  BY <1>2, BundledOff
<1>4. Bundle(Working(pc, j)) = Bundle(j)
  BY DEF Bundle, Working
<1> HIDE DEF j
<1>5. QED
  BY <1>1, <1>3, <1>4, LanePacked DEF Lanes

LEMMA PopProtectivePacked ==
    ASSUME TypeOK, Whole, PopProtective
    PROVE  Packed
<1>1. Bundles(ord') = Bundles(ord)
  BY DEF PopProtective
<1>2. CASE protRetry # <<>> /\ SetLane("protective", Working("send", Head(protRetry)))
  <2>1. protRetry \in Seq(Jobs) /\ 1 \in DOMAIN protRetry /\ Head(protRetry) = protRetry[1]
    BY <1>2 DEF TypeOK
  <2>2. Bundle(Working("send", Head(protRetry))) = {}
    BY <2>1 DEF Whole, Bundle, Working
  <2>3. QED
    BY <1>1, <1>2, <2>2, LanePacked DEF Lanes
<1>3. ASSUME NEW group, SetLane("protective", Working("send", Job("group", group, 0)))
      PROVE  Packed
  <2>1. Bundle(Working("send", Job("group", group, 0))) = {}
    BY DEF Bundle, Working, Job
  <2>2. QED
    BY <1>1, <1>3, <2>1, LanePacked DEF Lanes
<1>4. QED
  BY <1>2, <1>3 DEF PopProtective

LEMMA WorkPacked ==
    ASSUME TypeOK, NEW l \in Lanes, Delivered(l) \/ NotDelivered(l) \/ Mark(l) \/ GiveUp(l)
    PROVE  Packed
<1>0. lane[l] \in Workers /\ ord' = ord /\ lane[l].pc # "idle"
  BY DEF TypeOK, Delivered, NotDelivered, Mark, GiveUp, queues
<1>1. ASSUME NEW pc PROVE Bundle(Recording(lane[l], pc)) = Bundle(lane[l])
  BY <1>0 DEF Bundle, Recording, Workers
<1>2. ASSUME NEW d PROVE Bundle([lane[l] EXCEPT !.rest = @ \ {d}]) = Bundle(lane[l])
  BY <1>0 DEF Bundle, Workers
<1>3. Idle.pc = "idle"
  BY DEF Idle
<1>4. CASE Delivered(l)
  <2>1. PICK pc \in {"complete", "mark"} : SetLane(l, Recording(lane[l], pc))
    BY <1>4 DEF Delivered
  <2>2. QED
    BY <1>0, <1>1, <2>1, LanePacked
<1>5. CASE NotDelivered(l)
  <2>1. SetLane(l, Recording(lane[l], "giveup")) \/ SetLane(l, Idle)
    BY <1>5 DEF NotDelivered
  <2>2. QED
    BY <1>0, <1>1, <1>3, <2>1, LanePacked
<1>6. CASE Mark(l) \/ GiveUp(l)
  <2>1. PICK d : SetLane(l, IF lane[l].rest = {d} THEN Idle ELSE [lane[l] EXCEPT !.rest = @ \ {d}])
    BY <1>6 DEF Mark, GiveUp
  <2>2. QED
    BY <1>0, <1>2, <1>3, <2>1, LanePacked
<1>7. QED
  BY <1>4, <1>5, <1>6

LEMMA OrdinaryPacked ==
    ASSUME TypeOK, Compose \/ CompleteDigest \/ DigestNotDelivered \/ Aged
    PROVE  Packed
<1>0. lane["ordinary"] \in Workers /\ ord' = ord /\ lane["ordinary"].pc # "idle" /\ "ordinary" \in Lanes
  BY DEF TypeOK, Compose, CompleteDigest, DigestNotDelivered, Aged, queues, Lanes
<1>1. Bundle([lane["ordinary"] EXCEPT !.pc = "send", !.elapsed = 0]) = Bundle(lane["ordinary"])
  BY <1>0 DEF Bundle, Workers
<1>2. ASSUME NEW d PROVE Bundle([lane["ordinary"] EXCEPT !.rest = @ \ {d}]) = Bundle(lane["ordinary"])
  BY <1>0 DEF Bundle, Workers
<1>3. Idle.pc = "idle"
  BY DEF Idle
<1>4. CASE Compose
  BY <1>0, <1>1, <1>4, LanePacked DEF Compose
<1>5. CASE CompleteDigest \/ DigestNotDelivered
  BY <1>0, <1>3, <1>5, LanePacked DEF CompleteDigest, DigestNotDelivered
<1>6. CASE Aged
  <2>1. PICK d : SetLane("ordinary", IF lane["ordinary"].rest = {d} THEN Idle
                                     ELSE [lane["ordinary"] EXCEPT !.rest = @ \ {d}])
    BY <1>6 DEF Aged
  <2>2. QED
    BY <1>0, <1>2, <1>3, <2>1, LanePacked
<1>7. QED
  BY <1>4, <1>5, <1>6

LEMMA AdvancePacked ==
    ASSUME TypeOK, Advance
    PROVE  Packed
<1>1. ASSUME NEW l \in Lanes
      PROVE  lane'[l].pc = lane[l].pc /\ lane'[l].kind = lane[l].kind /\ lane'[l].ds = lane[l].ds
  <2>1. lane[l] \in Workers
    BY DEF TypeOK
  <2>2. lane'[l] = IF lane[l].pc = "idle" THEN lane[l] ELSE [lane[l] EXCEPT !.elapsed = @ + 1]
    BY DEF Advance
  <2>3. QED
    BY <2>1, <2>2 DEF Workers
<1>2. ord' = ord
  BY DEF Advance
<1>3. QED
  BY <1>1, <1>2 DEF Packed, Bundle

\* The queue gets a group, a retry or the digest of the day.
LEMMA QueuePacked ==
    ASSUME TypeOK, UNCHANGED lane, NEW j \in Jobs, ord' = ord \/ ord' = Append(ord, j),
           \A d \in Bundle(j) : d \in Decisions /\ row[d] = "digest"
    PROVE  Packed
<1>1. ord \in Seq(Jobs)
  BY DEF TypeOK
<1>2. Bundles(ord') \subseteq Bundles(ord) \cup Bundle(j)
  BY <1>1, BundledOn
<1>3. QED
  BY <1>2 DEF Packed

LEMMA PushPacked ==
    ASSUME TypeOK, UNCHANGED lane, NEW b \in SUBSET Decisions, PushOrdinary(b)
    PROVE  Packed
<1>1. Job("group", b, 0) \in Jobs /\ Bundle(Job("group", b, 0)) = {}
  BY JobType DEF Job, Bundle
<1>2. QED
  BY <1>1, QueuePacked DEF PushOrdinary

LEMMA RunPacked ==
    ASSUME TypeOK, \/ \E d \in Decisions : Accept(d)
                   \/ TickGroup \/ (\E r \in retries : TickRetry(r)) \/ TickDigest \/ Stop
    PROVE  Packed
<1>0. buf \in SUBSET Decisions /\ {} \in SUBSET Decisions
  BY DEF TypeOK, Ordinary
<1>1. ASSUME NEW d \in Decisions, Accept(d) PROVE Packed
  <2>1. PushOrdinary(buf) \/ PushOrdinary({})
    BY <1>1 DEF Accept
  <2>2. UNCHANGED lane
    BY <1>1 DEF Accept
  <2>3. QED
    BY <1>0, <2>1, <2>2, PushPacked
<1>2. CASE TickGroup
  BY <1>0, <1>2, PushPacked DEF TickGroup
<1>3. ASSUME NEW r \in retries, TickRetry(r) PROVE Packed
  <2>1. Job("retry", r.ds, r.failed) \in Jobs /\ Bundle(Job("retry", r.ds, r.failed)) = {}
    BY JobType DEF TypeOK, Retries, Job, Bundle
  <2>2. UNCHANGED lane /\ (ord' = ord \/ ord' = Append(ord, Job("retry", r.ds, r.failed)))
    BY <1>3 DEF TickRetry
  <2>3. QED
    BY <2>1, <2>2, QueuePacked
<1>4. CASE TickDigest
  <2> DEFINE items == {d \in Decisions : row[d] = "digest"}
  <2>1. Job("digest", items, 0) \in Jobs /\ Bundle(Job("digest", items, 0)) = items
    BY JobType DEF Job, Bundle
  <2>2. UNCHANGED lane /\ (ord' = ord \/ ord' = Append(ord, Job("digest", items, 0)))
    BY <1>4 DEF TickDigest
  <2>3. \A d \in items : d \in Decisions /\ row[d] = "digest"
    OBVIOUS
  <2> HIDE DEF items
  <2>4. QED
    BY <2>1, <2>2, <2>3, QueuePacked
<1>5. CASE Stop
  <2>1. Job("group", buf, 0) \in Jobs /\ Bundle(Job("group", buf, 0)) = {}
    BY <1>0, JobType DEF Job, Bundle
  <2>2. UNCHANGED lane /\ (ord' = ord \/ ord' = Append(ord, Job("group", buf, 0)))
    BY <1>5 DEF Stop
  <2>3. QED
    BY <2>1, <2>2, QueuePacked
<1>6. QED
  BY <1>1, <1>2, <1>3, <1>4, <1>5

------------------------------------------------------------------------------
(* One message of a situation *)

\* A row is no younger than it was, and a row that waits to be recorded is as old as it was.
Aging ==
    /\ \A d \in Decisions : row'[d] = "notify" => row[d] = "notify" /\ age[d] <= age'[d]
    /\ lane["ordinary"].pc = "mark" =>
          \A d \in Decisions : row'[d] = "notify" => age'[d] = age[d]

LEMMA AgingSame == ASSUME TypeOK, UNCHANGED <<row, age>> PROVE Aging
<1>1. \A d \in Decisions : age[d] \in Nat
  BY Times DEF TypeOK
<1>2. QED
  BY <1>1 DEF Aging

LEMMA AgingPut ==
    ASSUME TypeOK, NEW d \in Decisions, NEW s, s # "notify", Put(d, s)
    PROVE  Aging
<1>1. \A e \in Decisions : age[e] \in Nat
  BY Times DEF TypeOK
<1>2. QED
  BY <1>1 DEF Aging, Put, TypeOK

LEMMA AgingDigest == ASSUME TypeOK, CompleteDigest PROVE Aging
<1>1. \A d \in Decisions : age[d] \in Nat
  BY Times DEF TypeOK
<1>2. QED
  BY <1>1 DEF Aging, CompleteDigest

LEMMA AgingAdvance == ASSUME TypeOK, Advance PROVE Aging
<1>1. \A d \in Decisions : age[d] \in Nat /\ age[d] <= AgeCap
  BY Times DEF TypeOK
<1>2. AgeCap \in Nat
  BY Times
<1>3. row' = row /\ \A d \in Decisions : row[d] = "notify" => age'[d] = Smaller(age[d] + 1, AgeCap)
  BY DEF Advance
<1>4. \A d \in Decisions : row'[d] = "notify" => row[d] = "notify" /\ age[d] <= age'[d]
  BY <1>1, <1>2, <1>3 DEF Smaller
<1>5. lane["ordinary"].pc # "mark"
  BY DEF Advance, MayWait, Lanes
<1>6. QED
  BY <1>4, <1>5 DEF Aging

LEMMA InFlightBefore ==
    ASSUME TypeOK, TypeOK', Aging, NEW d \in Decisions, InFlight(d)'
    PROVE  InFlight(d)
<1>1. age[d] \in Nat /\ age'[d] \in Nat /\ Lease \in Nat
  BY Times DEF TypeOK
<1>2. row'[d] = "notify" /\ age'[d] < Lease
  BY DEF InFlight
<1>3. QED
  BY <1>1, <1>2 DEF InFlight, Aging

LEMMA ToldStays ==
    ASSUME OnRecord, NEW G, Flow(G)
    PROVE  \A c \in Decisions : row[c] = "told" => row'[c] = "told"
<1> SUFFICES ASSUME NEW c \in Decisions, row[c] = "told" PROVE row'[c] = "told"
  OBVIOUS
<1>1. c \notin G
  BY DEF Flow, OnRecord
<1>2. QED
  BY <1>1 DEF Flow, Kept

LEMMA PassesStays ==
    ASSUME \A c \in Decisions : row[c] = "told" => row'[c] = "told", NEW d, NEW e, Passes(d, e)
    PROVE  Passes(d, e)'
BY DEF Passes, MoreSevere

\* Nothing goes out on the ordinary lane, and what went out is recorded or is still to be.
LEMMA SingleStep ==
    ASSUME TypeOK, TypeOK', Whole, OnRecord, OnRecord', Single, Aging, NEW G, Flow(G),
           \A d \in Ordinary : OnLane(d)' => OnLane(d),
           lane'["ordinary"] = lane["ordinary"] \/ lane["ordinary"].pc # "mark"
    PROVE  Single'
<1> SUFFICES ASSUME faults' = 0 PROVE Single'
  BY DEF Single
<1>0. Ordinary \subseteq Decisions /\ faults = 0
  BY DEF Ordinary, Flow, Kept
<1>1. \A d \in Ordinary : InFlight(d)' => InFlight(d)
  BY <1>0, InFlightBefore
<1>2. ASSUME NEW d \in Ordinary, OnLane(d)'
      PROVE  \/ row'[d] = "told"
             \/ InFlight(d)' /\ lane'["ordinary"].pc = "mark" /\ d \in lane'["ordinary"].rest
  <2>1. \/ row[d] = "told"
        \/ InFlight(d) /\ lane["ordinary"].pc = "mark" /\ d \in lane["ordinary"].rest
    BY <1>0, <1>2 DEF Single
  <2>2. CASE row[d] = "told"
    BY <1>0, <2>2, ToldStays
  <2>3. CASE InFlight(d) /\ lane["ordinary"].pc = "mark" /\ d \in lane["ordinary"].rest
    <3>1. lane'["ordinary"] = lane["ordinary"]
      BY <2>3
    <3>2. lane["ordinary"].kind # "digest"
      BY <2>3 DEF Whole, WholeMessage, Lanes
    <3>3. d \in Carried(lane'["ordinary"])
      BY <2>3, <3>1, <3>2 DEF Carried
    <3>4. d \in AllOf(Stock')
      BY <3>3, ShelvesNext DEF AllOf, Tags
    <3>5. row'[d] = "notify"
      BY <3>4 DEF OnRecord, AllOf
    <3>6. age'[d] = age[d]
      BY <1>0, <2>3, <3>5 DEF Aging
    <3>7. InFlight(d)'
      BY <2>3, <3>5, <3>6 DEF InFlight
    <3>8. QED
      BY <2>3, <3>1, <3>7
  <2>4. QED
    BY <2>1, <2>2, <2>3
<1>3. ASSUME NEW d \in Ordinary, NEW e \in Ordinary, d < e, Situation[d] = Situation[e]
      PROVE  ~(Out(d)' /\ Out(e)') \/ Passes(d, e)'
  <2>1. ~(Out(d) /\ Out(e)) \/ Passes(d, e)
    BY <1>0, <1>3 DEF Single
  <2>2. (Out(d)' => Out(d)) /\ (Out(e)' => Out(e))
    BY <1>1 DEF Out
  <2>3. Passes(d, e) => Passes(d, e)'
    BY PassesStays, ToldStays
  <2>4. QED
    BY <2>1, <2>2, <2>3
<1>4. QED
  BY <1>2, <1>3 DEF Single

LEMMA SingleDelivered ==
    ASSUME TypeOK, Timely, Whole, Apart, OnRecord, Single, Delivered("ordinary")
    PROVE  Single'
<1> DEFINE w == lane["ordinary"]
<1> SUFFICES ASSUME faults' = 0 PROVE Single'
  BY DEF Single
<1>0. /\ Ordinary \subseteq Decisions /\ faults = 0 /\ w.pc = "send" /\ w \in Workers
      /\ UNCHANGED <<row, age>> /\ "ordinary" \in Lanes /\ w.ds \subseteq Decisions
  BY DEF Ordinary, Delivered, TypeOK, database, Lanes, Workers
<1>1. \A d \in Decisions : InFlight(d)' <=> InFlight(d)
  BY <1>0 DEF InFlight
<1>2. ASSUME NEW d \in Decisions, d \in w.ds, w.kind # "digest" PROVE InFlight(d)
  <2>1. w.rest = w.ds
    BY <1>0 DEF Whole, WholeMessage
  <2>2. d \in Stock["ordinary"]
    BY <1>0, <1>2, <2>1, Shelves DEF Carried
  <2>3. row[d] = "notify"
    BY <2>2, InFlightRow DEF Tags
  <2>4. age[d] < Lease
    BY <1>0, <1>2, TimelyLease DEF LeaseKept
  <2>5. QED
    BY <2>3, <2>4 DEF InFlight
<1>3. \A d \in Decisions : OnLane(d)' => OnLane(d) \/ (d \in w.ds /\ w.kind # "digest")
  BY DEF Delivered, OnLane, TypeOK
<1>4. ASSUME NEW d \in Ordinary, OnLane(d)'
      PROVE  \/ row'[d] = "told"
             \/ InFlight(d)' /\ lane'["ordinary"].pc = "mark" /\ d \in lane'["ordinary"].rest
  <2>1. CASE d \in w.ds /\ w.kind # "digest"
    <3>1. lane'["ordinary"] = Recording(w, "mark")
      BY <2>1, <1>0, LaneShelf DEF Delivered
    <3>2. lane'["ordinary"].pc = "mark" /\ lane'["ordinary"].rest = w.rest
      BY <1>0, <3>1 DEF Recording, Workers
    <3>3. w.rest = w.ds
      BY <1>0 DEF Whole, WholeMessage
    <3>4. QED
      BY <1>0, <1>1, <1>2, <2>1, <3>2, <3>3
  <2>2. CASE OnLane(d)
    BY <1>0, <2>2 DEF Single
  <2>3. QED
    BY <1>0, <1>3, <1>4, <2>1, <2>2
<1>5. ASSUME NEW d \in Ordinary, NEW e \in Ordinary, d < e, Situation[d] = Situation[e]
      PROVE  ~(Out(d)' /\ Out(e)') \/ Passes(d, e)'
  <2>1. ~(Out(d) /\ Out(e)) \/ Passes(d, e)
    BY <1>0, <1>5 DEF Single
  <2>2. (Out(d)' => Out(d)) /\ (Out(e)' => Out(e))
    BY <1>0, <1>1, <1>2, <1>3 DEF Out
  <2>3. Passes(d, e) => Passes(d, e)'
    BY <1>0, PassesStays
  <2>4. QED
    BY <2>1, <2>2, <2>3
<1>6. QED
  BY <1>4, <1>5 DEF Single

LEMMA SingleMark ==
    ASSUME TypeOK, TypeOK', Whole, OnRecord, OnRecord', Single, Aging, NEW G, Flow(G), Mark("ordinary")
    PROVE  Single'
<1> DEFINE w == lane["ordinary"]
<1> SUFFICES ASSUME faults' = 0 PROVE Single'
  BY DEF Single
<1>0. /\ Ordinary \subseteq Decisions /\ faults = 0 /\ w \in Workers /\ w.pc = "mark"
      /\ "ordinary" \in Lanes /\ told' = told
  BY DEF Ordinary, Flow, Kept, Mark, TypeOK, Lanes
<1>5. PICK c \in lane["ordinary"].rest :
        /\ \/ Put(c, "told") /\ UNCHANGED faults
           \/ faults < MaxFaults /\ faults' = faults + 1 /\ UNCHANGED <<row, age, last>>
        /\ SetLane("ordinary", IF lane["ordinary"].rest = {c} THEN Idle
                               ELSE [lane["ordinary"] EXCEPT !.rest = @ \ {c}])
  BY DEF Mark
<1>1. /\ Put(c, "told") /\ c \in w.rest
      /\ SetLane("ordinary", IF w.rest = {c} THEN Idle ELSE [w EXCEPT !.rest = @ \ {c}])
  BY <1>0, <1>5
<1>2. \A d \in Ordinary : InFlight(d)' => InFlight(d)
  BY <1>0, InFlightBefore
<1>3. ASSUME NEW d \in Ordinary, OnLane(d)'
      PROVE  \/ row'[d] = "told"
             \/ InFlight(d)' /\ lane'["ordinary"].pc = "mark" /\ d \in lane'["ordinary"].rest
  <2>1. OnLane(d)
    BY <1>0, <1>3 DEF OnLane
  <2>2. row[d] = "told" \/ (InFlight(d) /\ d \in w.rest)
    BY <1>0, <2>1 DEF Single
  <2>3. CASE d = c
    BY <1>0, <1>1, <2>3 DEF Put, TypeOK
  <2>4. CASE d # c /\ row[d] = "told"
    BY <1>0, <1>1, <2>4 DEF Put, TypeOK
  <2>5. CASE d # c /\ InFlight(d) /\ d \in w.rest
    <3>1. lane'["ordinary"] = [w EXCEPT !.rest = @ \ {c}]
      <4>1. w.rest # {c}
        BY <2>5
      <4>2. QED
        BY <1>0, <1>1, <4>1 DEF SetLane, TypeOK
    <3>2. lane'["ordinary"].pc = "mark" /\ d \in lane'["ordinary"].rest
      BY <1>0, <2>5, <3>1 DEF Workers
    <3>3. InFlight(d)'
      BY <1>0, <1>1, <2>5 DEF InFlight, Put, TypeOK
    <3>4. QED
      BY <3>2, <3>3
  <2>6. QED
    BY <2>2, <2>3, <2>4, <2>5
<1>4. ASSUME NEW d \in Ordinary, NEW e \in Ordinary, d < e, Situation[d] = Situation[e]
      PROVE  ~(Out(d)' /\ Out(e)') \/ Passes(d, e)'
  <2>1. ~(Out(d) /\ Out(e)) \/ Passes(d, e)
    BY <1>0, <1>4 DEF Single
  <2>2. (Out(d)' => Out(d)) /\ (Out(e)' => Out(e))
    BY <1>0, <1>2 DEF Out, OnLane
  <2>3. Passes(d, e) => Passes(d, e)'
    BY PassesStays, ToldStays
  <2>4. QED
    BY <2>1, <2>2, <2>3
<1>6. QED
  BY <1>3, <1>4 DEF Single

LEMMA WholeLane ==
    ASSUME TypeOK, Whole, NEW l \in Lanes, NEW w, WholeMessage(w), SetLane(l, w), UNCHANGED protRetry
    PROVE  Whole'
BY LaneShelf DEF Whole

LEMMA WholeSame == ASSUME Whole, UNCHANGED <<lane, protRetry>> PROVE Whole'
BY DEF Whole

LEMMA WholeIdle == WholeMessage(Idle)
BY DEF WholeMessage, Idle

LEMMA WholeRest ==
    ASSUME TypeOK, Whole, NEW l \in Lanes, NEW d, lane[l].pc \in {"mark", "giveup", "aged"},
           SetLane(l, IF lane[l].rest = {d} THEN Idle ELSE [lane[l] EXCEPT !.rest = @ \ {d}]),
           UNCHANGED protRetry
    PROVE  Whole'
<1> DEFINE w == [lane[l] EXCEPT !.rest = @ \ {d}]
<1>1. lane[l] \in Workers /\ WholeMessage(lane[l])
  BY DEF TypeOK, Whole
<1>2. w.pc = lane[l].pc /\ w.kind = lane[l].kind
  BY <1>1 DEF Workers
<1>3. WholeMessage(w)
  BY <1>1, <1>2 DEF WholeMessage
<1>4. SetLane(l, Idle) \/ SetLane(l, w)
  OBVIOUS
<1> HIDE DEF w
<1>5. QED
  BY <1>3, <1>4, WholeIdle, WholeLane

LEMMA WholeWork ==
    ASSUME TypeOK, Whole, NEW l \in Lanes, Delivered(l) \/ NotDelivered(l) \/ Mark(l) \/ GiveUp(l)
    PROVE  Whole'
<1>1. lane[l] \in Workers /\ WholeMessage(lane[l]) /\ protRetry' = protRetry
  BY DEF TypeOK, Whole, Delivered, NotDelivered, Mark, GiveUp, queues
<1>2. CASE Delivered(l)
  <2> DEFINE pc == IF lane[l].kind = "digest" THEN "complete" ELSE "mark"
             w == Recording(lane[l], pc)
  <2>1. w.pc = pc /\ w.kind = lane[l].kind
    BY <1>1 DEF Recording, Workers
  <2>2. WholeMessage(w)
    BY <2>1 DEF WholeMessage
  <2> HIDE DEF w
  <2>3. SetLane(l, w)
    BY <1>2 DEF Delivered, w
  <2>4. QED
    BY <1>1, <2>2, <2>3, WholeLane
<1>3. CASE NotDelivered(l)
  <2> DEFINE w == Recording(lane[l], "giveup")
  <2>1. w.pc = "giveup" /\ w.kind = lane[l].kind /\ lane[l].kind # "digest"
    BY <1>1, <1>3 DEF Recording, Workers, NotDelivered
  <2>2. WholeMessage(w)
    BY <2>1 DEF WholeMessage
  <2> HIDE DEF w
  <2>3. SetLane(l, w) \/ SetLane(l, Idle)
    BY <1>3 DEF NotDelivered, w
  <2>4. QED
    BY <1>1, <2>2, <2>3, WholeIdle, WholeLane
<1>4. CASE Mark(l) \/ GiveUp(l)
  <2>1. PICK d : SetLane(l, IF lane[l].rest = {d} THEN Idle ELSE [lane[l] EXCEPT !.rest = @ \ {d}])
    BY <1>4 DEF Mark, GiveUp
  <2>2. lane[l].pc \in {"mark", "giveup", "aged"}
    BY <1>4 DEF Mark, GiveUp
  <2>3. QED
    BY <1>1, <2>1, <2>2, WholeRest
<1>5. QED
  BY <1>2, <1>3, <1>4

LEMMA WholeOrdinary ==
    ASSUME TypeOK, Whole, PopOrdinary \/ Compose \/ DigestNotDelivered \/ CompleteDigest \/ Aged
    PROVE  Whole'
<1>1. /\ lane["ordinary"] \in Workers /\ WholeMessage(lane["ordinary"]) /\ protRetry' = protRetry
      /\ "ordinary" \in Lanes
  BY DEF TypeOK, Whole, PopOrdinary, Compose, DigestNotDelivered, CompleteDigest, Aged, queues, Lanes
<1>2. CASE PopOrdinary
  <2> DEFINE j == Head(ord)
  <2>1. j \in Jobs
    BY <1>2 DEF PopOrdinary, TypeOK
  <2>2. PICK pc \in {"giveup", "aged", "send", "compose"} :
          SetLane("ordinary", Working(pc, j)) /\ (pc # "send" => j.kind # "digest")
    <3>1. CASE j.kind # "digest" /\ SetLane("ordinary", Working(IF j.kind = "retry" THEN "giveup" ELSE "aged", j))
      BY <3>1
    <3>2. CASE SetLane("ordinary", Working("send", j))
      BY <3>2
    <3>3. CASE j.kind = "group" /\ SetLane("ordinary", Working("compose", j))
      BY <3>3
    <3>4. QED
      BY <1>2, <3>1, <3>2, <3>3 DEF PopOrdinary
  <2> HIDE DEF j
  <2>3. WholeMessage(Working(pc, j))
    BY <2>1, <2>2 DEF WholeMessage, Working
  <2>4. QED
    BY <1>1, <2>2, <2>3, WholeLane
<1>3. CASE Compose
  <2> DEFINE w == [lane["ordinary"] EXCEPT !.pc = "send", !.elapsed = 0]
  <2>1. w.pc = "send" /\ w.kind = lane["ordinary"].kind /\ w.rest = lane["ordinary"].rest
        /\ w.ds = lane["ordinary"].ds /\ lane["ordinary"].pc = "compose"
    BY <1>1, <1>3 DEF Workers, Compose
  <2>2. WholeMessage(w)
    BY <1>1, <2>1 DEF WholeMessage
  <2> HIDE DEF w
  <2>3. SetLane("ordinary", w)
    BY <1>3 DEF Compose, w
  <2>4. QED
    BY <1>1, <2>2, <2>3, WholeLane
<1>4. CASE DigestNotDelivered \/ CompleteDigest
  BY <1>1, <1>4, WholeIdle, WholeLane DEF DigestNotDelivered, CompleteDigest
<1>5. ASSUME NEW l \in Lanes, l = "ordinary", Aged PROVE Whole'
  <2>1. PICK d : SetLane(l, IF lane[l].rest = {d} THEN Idle ELSE [lane[l] EXCEPT !.rest = @ \ {d}])
    BY <1>5 DEF Aged
  <2>2. lane[l].pc \in {"mark", "giveup", "aged"}
    BY <1>5 DEF Aged
  <2>3. QED
    BY <1>1, <2>1, <2>2, WholeRest
<1>6. QED
  BY <1>1, <1>2, <1>3, <1>4, <1>5

LEMMA WholePop ==
    ASSUME TypeOK, Whole, PopProtective
    PROVE  Whole'
<1>1. "protective" \in Lanes /\ protRetry \in Seq(Jobs)
  BY DEF Lanes, TypeOK
<1>2. CASE /\ protRetry # <<>> /\ protRetry' = Tail(protRetry)
           /\ SetLane("protective", Working("send", Head(protRetry)))
  <2> DEFINE w == Working("send", Head(protRetry))
  <2>1. WholeMessage(w)
    BY DEF WholeMessage, Working
  <2> HIDE DEF w
  <2>2. \A i \in DOMAIN protRetry' : protRetry'[i].kind = "retry"
    <3>1. ASSUME NEW i \in DOMAIN protRetry' PROVE i + 1 \in DOMAIN protRetry /\ protRetry'[i] = protRetry[i + 1]
      BY <1>1, <1>2
    <3>2. QED
      BY <3>1 DEF Whole
  <2>3. SetLane("protective", w)
    BY <1>2 DEF w
  <2>4. QED
    BY <1>1, <2>1, <2>2, <2>3, LaneShelf DEF Whole
<1>3. ASSUME NEW group, SetLane("protective", Working("send", Job("group", group, 0))), UNCHANGED protRetry
      PROVE  Whole'
  <2>1. WholeMessage(Working("send", Job("group", group, 0)))
    BY DEF WholeMessage, Working, Job
  <2>2. QED
    BY <1>1, <1>3, <2>1, WholeLane
<1>4. QED
  BY <1>2, <1>3 DEF PopProtective

LEMMA WholeRetry ==
    ASSUME TypeOK, Whole, NEW r \in retries, TickRetry(r)
    PROVE  Whole'
<1> DEFINE j == Job("retry", r.ds, r.failed)
<1>1. j \in Jobs /\ j.kind = "retry" /\ protRetry \in Seq(Jobs) /\ lane' = lane
  BY JobType DEF TypeOK, Retries, TickRetry, Job
<1>2. protRetry' = protRetry \/ protRetry' = Append(protRetry, j)
  BY DEF TickRetry
<1> HIDE DEF j
<1>3. \A i \in DOMAIN protRetry' : (i \in DOMAIN protRetry /\ protRetry'[i] = protRetry[i]) \/ protRetry'[i] = j
  BY <1>1, <1>2
<1>4. QED
  BY <1>1, <1>3 DEF Whole

LEMMA WholeAdvance ==
    ASSUME TypeOK, Whole, Advance
    PROVE  Whole'
<1>1. ASSUME NEW l \in Lanes PROVE WholeMessage(lane'[l])
  <2>1. lane[l] \in Workers /\ WholeMessage(lane[l])
    BY DEF TypeOK, Whole
  <2>2. lane'[l] = IF lane[l].pc = "idle" THEN lane[l] ELSE [lane[l] EXCEPT !.elapsed = @ + 1]
    BY DEF Advance
  <2>3. lane'[l].pc = lane[l].pc /\ lane'[l].kind = lane[l].kind /\ lane'[l].ds = lane[l].ds
        /\ lane'[l].rest = lane[l].rest
    BY <2>1, <2>2 DEF Workers
  <2>4. QED
    BY <2>1, <2>3 DEF WholeMessage
<1>2. protRetry' = protRetry
  BY DEF Advance
<1>3. QED
  BY <1>1, <1>2 DEF Whole

LEMMA WholeGone ==
    ASSUME MemoryGone
    PROVE  Whole'
<1>1. \A l \in Lanes : lane'[l] = Idle
  BY DEF MemoryGone
<1>2. protRetry' = <<>>
  BY DEF MemoryGone
<1>3. QED
  BY <1>1, <1>2, WholeIdle DEF Whole

LEMMA SettlingKept ==
    ASSUME TypeOK, Settling, Next
    PROVE  Settling'
<1>1. ASSUME UNCHANGED <<run, tick, todo>>, UNCHANGED <<ord, prot, protRetry, lane>>
      PROVE  Settling'
  BY <1>1 DEF Settling, WorkersDone
<1>2. ASSUME UNCHANGED <<tick, todo>>, run = "up", run' = "up"
      PROVE  Settling'
  BY <1>2 DEF Settling
<1>3. CASE (\E d \in Decisions : Decide(d)) \/ (\E d \in Decisions : AcceptClosed(d))
  BY <1>1, <1>3 DEF Decide, AcceptClosed, queues, ticker
<1>4. CASE (\E d \in Decisions : Accept(d)) \/ TickGroup \/ (\E r \in retries : TickRetry(r))
  BY <1>2, <1>4 DEF Accept, TickGroup, TickRetry, process, ticker
<1>5. CASE TickTakeDeferred
  BY <1>5 DEF Settling, TickTakeDeferred, process
<1>6. ASSUME NEW x \in todo, TickSettle(x) \/ DrainSettle(x) PROVE Settling'
  BY <1>6 DEF Settling, TickSettle, DrainSettle, process, WorkersDone
<1>7. CASE TickDigest
  BY <1>7 DEF Settling, TickDigest, process
<1>8. CASE OrdinaryWorker \/ ProtectiveWorker
  <2>1. UNCHANGED <<run, tick, todo>>
    BY <1>8 DEF OrdinaryWorker, ProtectiveWorker, Outcome, PopOrdinary, Compose, DigestNotDelivered,
       CompleteDigest, Aged, PopProtective, Delivered, NotDelivered, Mark, GiveUp, process, ticker
  <2>2. ~WorkersDone
    <3>1. CASE PopOrdinary \/ PopProtective
      BY <3>1 DEF PopOrdinary, PopProtective, WorkersDone
    <3>2. CASE Compose \/ DigestNotDelivered \/ CompleteDigest \/ Aged \/ Outcome("ordinary")
      BY <3>2 DEF Compose, DigestNotDelivered, CompleteDigest, Aged, Outcome, Delivered, NotDelivered,
         Mark, GiveUp, WorkersDone, Lanes
    <3>3. CASE Outcome("protective")
      BY <3>3 DEF Outcome, Delivered, NotDelivered, Mark, GiveUp, WorkersDone, Lanes
    <3>4. QED
      BY <1>8, <3>1, <3>2, <3>3 DEF OrdinaryWorker, ProtectiveWorker
  <2>3. QED
    BY <2>1, <2>2 DEF Settling
<1>9. CASE Stop
  BY <1>9 DEF Settling, Stop, ticker
<1>10. CASE Drain
  BY <1>10 DEF Settling, Drain, process, WorkersDone
<1>11. CASE LastDeferrals
  BY <1>11 DEF Settling, LastDeferrals, process, WorkersDone
<1>12. CASE Exit \/ Crash
  BY <1>12 DEF Settling, Exit, Crash, MemoryGone
<1>13. CASE Advance
  BY <1>13 DEF Settling, Advance, process, ticker
<1>14. QED
  BY <1>3, <1>4, <1>5, <1>6, <1>7, <1>8, <1>9, <1>10, <1>11, <1>12, <1>13
     DEF Next, HandOver, Tick, Shutdown

------------------------------------------------------------------------------
(* The steps that put decisions into the memory, and those that empty it *)

\* A decision is not made while an earlier one on its situation is out, unless it passes that one.
LEMMA HeldBack ==
    ASSUME TypeOK, Lasting, NEW d \in Ordinary, NEW e \in Decisions, Decide(d),
           Situation[e] = Situation[d], e # d, InFlight(e) \/ row[e] = "told"
    PROVE  Passes(e, d)
<1>1. /\ d \in Decisions /\ d \notin Protective /\ row[d] = "none" /\ ~Repeats(d)
      /\ \A c \in Decisions : c > d => row[c] = "none"
  BY DEF Decide, Ordinary
<1>2. /\ Severity[d] \in Nat /\ Severity[e] \in Nat /\ d \in Nat /\ e \in Nat
  BY <1>1, DecisionAssumption
<1>3. Situation[d] \in Situations /\ Situation[e] \in Situations
  BY <1>1 DEF Situations
<1>4. CASE InFlight(e)
  <2>1. ~(Severity[e] >= Severity[d])
    BY <1>1, <1>4 DEF Repeats
  <2>2. QED
    BY <1>2, <2>1 DEF Passes, MoreSevere
<1>5. CASE row[e] = "told"
  <2>1. last[Situation[d]] # Unsent
    BY <1>5 DEF Lasting
  <2>2. PICK c \in Decisions : /\ Situation[c] = Situation[d] /\ Severity[c] = last[Situation[d]]
                               /\ row[c] = "told"
    BY <1>3, <2>1 DEF Lasting
  <2>3. Severity[c] \in Nat /\ c \in Nat
    BY DecisionAssumption
  <2>4. ~(Severity[c] >= Severity[d])
    BY <1>1, <2>2 DEF Repeats
  <2>5. c < d
    BY <1>1, <1>2, <2>2, <2>3
  <2>6. QED
    BY <1>2, <2>2, <2>3, <2>4, <2>5 DEF Passes, MoreSevere
<1>6. QED
  BY <1>4, <1>5

LEMMA DecideKeeps ==
    ASSUME TypeOK, TypeOK', Apart, OnRecord, Found, Single, Lasting, NEW d \in Decisions, Decide(d)
    PROVE  Apart' /\ OnRecord' /\ Found' /\ Single'
<1> DEFINE status == row'[d]
<1>1. /\ row[d] = "none" /\ status \in {"notify", "digest"} /\ row' = [row EXCEPT ![d] = status]
      /\ age' = [age EXCEPT ![d] = 0]
      /\ held' = IF status = "notify" THEN held \cup {d} ELSE held
      /\ UNCHANGED <<buf, ord, prot, protRetry, retries, deferred, todo, lane, told, lost, faults>>
  BY DEF Decide, Put, TypeOK, queues, ticker, history
<1>2. d \notin AllOf(Stock)
  BY <1>1 DEF OnRecord
<1>3. /\ Stock'["held"] = IF status = "notify" THEN Stock["held"] \cup {d} ELSE Stock["held"]
      /\ \A t \in Tags \ {"held"} : Stock'[t] = Stock[t]
  BY <1>1, Shelves, ShelvesNext DEF Tags
<1> HIDE DEF status
<1>4. Disjoint(Stock')
  BY <1>2, <1>3 DEF Apart, Disjoint, AllOf
<1>5. AllOf(Stock') = IF status = "notify" THEN AllOf(Stock) \cup {d} ELSE AllOf(Stock)
  <2>1. "held" \in Tags
    BY DEF Tags
  <2>2. QED
    BY <1>3, <2>1 DEF AllOf
<1>6. Apart'
  BY <1>1, <1>4, OnceSame DEF Apart
<1>7. \A e \in Decisions : row'[e] = IF e = d THEN status ELSE row[e]
  BY <1>1 DEF TypeOK
<1>8. OnRecord'
  <2>1. \A e \in AllOf(Stock') : row'[e] = "notify"
    BY <1>2, <1>5, <1>7, StockType DEF OnRecord
  <2>2. \A e \in Bundles(ord') : row'[e] \in {"digest", "told"}
    BY <1>1, <1>7, BundleType DEF OnRecord
  <2>3. \A l \in Lanes : lane'[l].pc # "idle" =>
           \A e \in Bundle(lane'[l]) : row'[e] \in {"digest", "told"}
    BY <1>1, <1>7, BundleType DEF OnRecord
  <2>4. QED
    BY <2>1, <2>2, <2>3 DEF OnRecord, AllOf
<1>9. Found'
  <2>1. ASSUME faults' = 0, NEW e \in Decisions, row'[e] = "notify", e \notin lost'
        PROVE  e \in AllOf(Stock')
    BY <1>1, <1>5, <1>7, <2>1 DEF Found
  <2>2. QED
    BY <2>1 DEF Found, AllOf
<1>10. Single'
  <2> SUFFICES ASSUME faults' = 0 PROVE Single'
    BY DEF Single
  <2>0. faults = 0 /\ Ordinary \subseteq Decisions
    BY <1>1 DEF Ordinary
  <2>1. \A e \in Decisions : OnLane(e)' = OnLane(e)
    BY <1>1 DEF OnLane
  <2>2. \A e \in Decisions : e # d => (InFlight(e)' <=> InFlight(e))
    BY <1>1, <1>7 DEF InFlight, TypeOK
  <2>3. d \in Ordinary => ~OnLane(d) /\ ~InFlight(d)
    BY <1>1, <2>0 DEF Single, InFlight
  <2>4. \A e \in Ordinary : OnLane(e) => row[e] = "told" \/ InFlight(e)
    BY <2>0 DEF Single
  <2>5. ASSUME d \in Ordinary, NEW e \in Ordinary, e < d, Situation[e] = Situation[d]
        PROVE  ~Out(e) \/ Passes(e, d)
    <3>1. e # d /\ e \in Decisions
      BY <2>0, <2>5, DecisionAssumption
    <3>2. Out(e) => InFlight(e) \/ row[e] = "told"
      BY <2>4 DEF Out
    <3>3. QED
      BY <2>5, <3>1, <3>2, HeldBack
  <2>9. ASSUME NEW e \in Ordinary, d < e
        PROVE  ~Out(e)
    <3>1. row[e] = "none"
      BY <2>0, <2>9 DEF Decide
    <3>2. QED
      BY <2>4, <2>9, <3>1 DEF Out, InFlight
  <2>6. ASSUME NEW e \in Ordinary, OnLane(e)'
        PROVE  \/ row'[e] = "told"
               \/ InFlight(e)' /\ lane'["ordinary"].pc = "mark" /\ e \in lane'["ordinary"].rest
    BY <1>1, <1>7, <2>0, <2>1, <2>2, <2>3, <2>6 DEF Single
  <2>7. ASSUME NEW e \in Ordinary, NEW f \in Ordinary, e < f, Situation[e] = Situation[f]
        PROVE  ~(Out(e)' /\ Out(f)') \/ Passes(e, f)'
    <3>1. \A g \in Ordinary : g # d => (Out(g)' <=> Out(g))
      BY <2>0, <2>1, <2>2 DEF Out
    <3>2. Passes(e, f) => Passes(e, f)'
      BY <1>1, <1>7, PassesStays
    <3>3. ~(Out(e) /\ Out(f)) \/ Passes(e, f)
      BY <2>0, <2>7 DEF Single
    <3>4. CASE e # d /\ f # d
      BY <3>1, <3>2, <3>3, <3>4
    <3>5. CASE e = d
      <4>1. f # d
        BY <2>0, <2>7, <3>5, DecisionAssumption
      <4>2. QED
        BY <2>7, <2>9, <3>1, <3>5, <4>1
    <3>6. CASE f = d
      <4>1. e # d
        BY <2>0, <2>7, <3>6, DecisionAssumption
      <4>2. QED
        BY <2>5, <2>7, <3>1, <3>2, <3>6, <4>1
    <3>7. QED
      BY <3>4, <3>5, <3>6
  <2>8. QED
    BY <2>6, <2>7 DEF Single
<1>11. QED
  BY <1>6, <1>8, <1>9, <1>10

LEMMA GoneKeepsAll ==
    ASSUME TypeOK, Settling, Single, Exit \/ Crash
    PROVE  Apart' /\ OnRecord' /\ Found' /\ Single'
<1>1. /\ MemoryGone /\ UNCHANGED <<row, age, told>>
      /\ lost' = lost \cup {d \in Decisions : row[d] = "notify"}
      /\ \A l \in Lanes : lane'[l] = Idle
  BY DEF Exit, Crash, MemoryGone, database
<1>2. \A t \in Tags : Stock'[t] = {}
  <2>1. /\ Queued(<<>>) = {} /\ Waiting({}) = {} /\ Listed({}) = {} /\ Carried(Idle) = {}
    BY DEF Queued, Waiting, Listed, Carried, Idle
  <2>2. QED
    BY <1>1, <2>1, ShelvesNext DEF MemoryGone, Tags, Lanes
<1>3. Apart'
  <2>1. Disjoint(Stock')
    BY <1>2 DEF Disjoint
  <2>2. /\ OnceQueued(<<>>) /\ OnceWaiting({}) /\ OnceListed({})
    BY DEF OnceQueued, OnceWaiting, OnceListed
  <2>3. QED
    BY <1>1, <2>1, <2>2 DEF MemoryGone, Apart, Once
<1>4. OnRecord'
  <2>1. Bundles(<<>>) = {} /\ Idle.pc = "idle"
    BY DEF Bundles, Idle
  <2>2. AllOf(Stock') = {}
    BY <1>2 DEF AllOf
  <2>3. QED
    BY <1>1, <2>1, <2>2 DEF OnRecord, MemoryGone, AllOf
<1>5. Found'
  BY <1>1 DEF Found
<1>6. Single'
  <2>1. CASE Crash
    <3>1. faults' # 0
      BY <2>1 DEF Crash, TypeOK
    <3>2. QED
      BY <3>1 DEF Single
  <2>2. CASE Exit
    <3>1. lane["ordinary"].pc = "idle" /\ faults' = faults
      BY <2>2 DEF Exit, Settling, WorkersDone, Lanes
    <3>2. \A d, e : /\ InFlight(d)' <=> InFlight(d)
                    /\ Passes(d, e)' <=> Passes(d, e)
      BY <1>1 DEF InFlight, Passes, MoreSevere
    <3>3. QED
      BY <1>1, <3>1, <3>2 DEF Single, OnLane, Out
  <2>3. QED
    BY <2>1, <2>2
<1>7. QED
  BY <1>3, <1>4, <1>5, <1>6

------------------------------------------------------------------------------
(* All steps *)

\* What a step does to places, queued digests and ages.
Orderly == (\E G \in SUBSET Decisions : Flow(G)) /\ Packed /\ Aging

LEMMA RunOrderly ==
    ASSUME TypeOK, Apart, OnRecord, Settling, HandOver \/ Tick \/ Stop \/ Drain \/ LastDeferrals
                                        \/ (\E x \in todo : DrainSettle(x))
    PROVE  Orderly
<1>0. {} \in SUBSET Decisions
  OBVIOUS
<1>1. ASSUME NEW d \in Decisions, Accept(d) PROVE Orderly
  <2>1. UNCHANGED <<row, age>>
    BY <1>1 DEF Accept, database
  <2>2. QED
    BY <1>1, <2>1, AcceptFlow, RunPacked, AgingSame DEF Orderly
<1>2. ASSUME NEW d \in Decisions, AcceptClosed(d) PROVE Orderly
  <2>1. UNCHANGED <<row, age, ord, lane>> /\ {d} \in SUBSET Decisions
    BY <1>2 DEF AcceptClosed, database, queues
  <2>2. Flow({d})
    BY <1>2, AcceptClosedFlow
  <2>3. QED
    BY <2>1, <2>2, PackedSame, AgingSame DEF Orderly
<1>3. CASE TickGroup
  <2>1. UNCHANGED <<row, age>>
    BY <1>3 DEF TickGroup, database
  <2>2. QED
    BY <1>3, <2>1, TickGroupFlow, RunPacked, AgingSame DEF Orderly
<1>4. ASSUME NEW r \in retries, TickRetry(r) PROVE Orderly
  <2>1. UNCHANGED <<row, age>>
    BY <1>4 DEF TickRetry, database
  <2>2. Flow({})
    BY <1>4, TickRetryFlow
  <2>3. QED
    BY <1>0, <1>4, <2>1, <2>2, RunPacked, AgingSame DEF Orderly
<1>5. CASE TickTakeDeferred \/ LastDeferrals
  <2>1. UNCHANGED <<row, age, ord, lane>>
    BY <1>5 DEF TickTakeDeferred, LastDeferrals, database
  <2>2. Flow({})
    BY <1>5, TakeDeferredFlow
  <2>3. QED
    BY <1>0, <2>1, <2>2, PackedSame, AgingSame DEF Orderly
<1>6. ASSUME NEW x \in todo, TickSettle(x) \/ DrainSettle(x) PROVE Orderly
  <2>1. UNCHANGED <<ord, lane>>
    BY <1>6 DEF TickSettle, DrainSettle
  <2>2. Put(x.d, SettledRow(x.d, x.release)) \/ UNCHANGED <<row, age>>
    BY <1>6 DEF TickSettle, DrainSettle
  <2>3. x.d \in Stock["todo"] /\ x.d \in Decisions /\ "todo" \in Tags
    BY SettleType, Shelves DEF Listed, Tags, Deferrals
  <2>4. SettledRow(x.d, x.release) # "notify"
    BY <2>3, InFlightRow, SettledNot
  <2>5. Aging
    BY <2>2, <2>3, <2>4, AgingPut, AgingSame
  <2>6. QED
    BY <1>6, <2>1, <2>5, TickSettleFlow, PackedSame DEF Orderly
<1>7. CASE TickDigest
  <2>1. UNCHANGED <<row, age>>
    BY <1>7 DEF TickDigest
  <2>2. Flow({})
    BY <1>7, TickDigestFlow
  <2>3. QED
    BY <1>0, <1>7, <2>1, <2>2, RunPacked, AgingSame DEF Orderly
<1>8. CASE Stop
  <2>1. UNCHANGED <<row, age>>
    BY <1>8 DEF Stop, database
  <2>2. Flow({})
    BY <1>8, StopFlow
  <2>3. QED
    BY <1>0, <1>8, <2>1, <2>2, RunPacked, AgingSame DEF Orderly
<1>9. CASE Drain
  <2>1. UNCHANGED <<row, age, ord, lane>>
    BY <1>9 DEF Drain, database
  <2>2. Flow({})
    BY <1>9, DrainFlow
  <2>3. QED
    BY <1>0, <2>1, <2>2, PackedSame, AgingSame DEF Orderly
<1>10. QED
  BY <1>1, <1>2, <1>3, <1>4, <1>5, <1>6, <1>7, <1>8, <1>9 DEF HandOver, Tick

\* What a worker puts in a row takes the row out of flight.
LEMMA WorkerAging ==
    ASSUME TypeOK, Whole, OnRecord, NEW l \in Lanes, Mark(l) \/ GiveUp(l) \/ (Aged /\ l = "ordinary")
    PROVE  Aging
<1>1. PICK d \in lane[l].rest :
         /\ \/ Put(d, "told") \/ Put(d, SettledRow(d, d \in Protective)) \/ Put(d, SettledRow(d, FALSE))
            \/ UNCHANGED <<row, age>>
         /\ SetLane(l, IF lane[l].rest = {d} THEN Idle ELSE [lane[l] EXCEPT !.rest = @ \ {d}])
  BY DEF Mark, GiveUp, Aged
<1>2. lane[l].pc \in {"mark", "giveup", "aged"}
  BY DEF Mark, GiveUp, Aged
<1>3. l \in Tags /\ d \in Stock[l] /\ d \in Decisions
  BY <1>1, <1>2, RestShelf, LaneShelf
<1> DEFINE release == d \in Protective
<1>4. SettledRow(d, release) # "notify" /\ SettledRow(d, FALSE) # "notify"
  BY <1>3, InFlightRow, SettledNot
<1>5. QED
  BY <1>1, <1>3, <1>4, AgingPut, AgingSame

LEMMA WorkOrderly ==
    ASSUME TypeOK, Apart, Whole, OnRecord, NEW l \in Lanes, Outcome(l)
    PROVE  Orderly
<1>0. {} \in SUBSET Decisions
  OBVIOUS
<1>1. CASE Delivered(l) \/ NotDelivered(l)
  <2>1. UNCHANGED <<row, age>>
    BY <1>1 DEF Delivered, NotDelivered, database
  <2>2. Flow({})
    BY <1>1, DeliveredFlow, NotDeliveredFlow
  <2>3. QED
    BY <1>0, <1>1, <2>1, <2>2, WorkPacked, AgingSame DEF Orderly
<1>2. CASE Mark(l) \/ GiveUp(l)
  BY <1>2, MarkFlow, GiveUpFlow, WorkPacked, WorkerAging DEF Orderly
<1>3. QED
  BY <1>1, <1>2 DEF Outcome

LEMMA WorkersOrderly ==
    ASSUME TypeOK, Apart, Whole, OnRecord, OrdinaryWorker \/ ProtectiveWorker
    PROVE  Orderly
<1>0. {} \in SUBSET Decisions /\ "ordinary" \in Lanes /\ "protective" \in Lanes
  BY DEF Lanes
<1>1. CASE Outcome("ordinary") \/ Outcome("protective")
  BY <1>0, <1>1, WorkOrderly
<1>2. CASE PopOrdinary \/ PopProtective
  <2>1. UNCHANGED <<row, age>>
    BY <1>2 DEF PopOrdinary, PopProtective, database
  <2>2. Flow({})
    BY <1>2, PopOrdinaryFlow, PopProtectiveFlow
  <2>3. QED
    BY <1>0, <1>2, <2>1, <2>2, PopPacked, PopProtectivePacked, AgingSame DEF Orderly
<1>3. CASE Compose \/ DigestNotDelivered \/ CompleteDigest
  <2>1. UNCHANGED <<row, age>> \/ CompleteDigest
    BY <1>3 DEF Compose, DigestNotDelivered, database
  <2>2. Flow({})
    BY <1>3, ComposeFlow, DigestDoneFlow
  <2>3. QED
    BY <1>0, <1>3, <2>1, <2>2, OrdinaryPacked, AgingSame, AgingDigest DEF Orderly
<1>4. CASE Aged
  BY <1>0, <1>4, AgedFlow, OrdinaryPacked, WorkerAging DEF Orderly
<1>5. QED
  BY <1>1, <1>2, <1>3, <1>4 DEF OrdinaryWorker, ProtectiveWorker

LEMMA AdvanceOrderly == ASSUME TypeOK, Apart, Advance PROVE Orderly
<1>1. Flow({}) /\ {} \in SUBSET Decisions
  BY AdvanceFlow
<1>2. QED
  BY <1>1, AdvancePacked, AgingAdvance DEF Orderly

LEMMA OrderlyKeeps ==
    ASSUME TypeOK, OnRecord, Found, Orderly
    PROVE  Apart' /\ OnRecord' /\ Found'
<1>1. PICK G \in SUBSET Decisions : Flow(G)
  BY DEF Orderly
<1>2. Apart' /\ (\A d \in AllOf(Stock') : row'[d] = "notify") /\ Found'
  BY <1>1, FlowKeeps
<1>3. /\ \A d \in Bundles(ord') : row'[d] \in {"digest", "told"}
      /\ \A l \in Lanes : lane'[l].pc # "idle" =>
            \A d \in Bundle(lane'[l]) : row'[d] \in {"digest", "told"}
  BY <1>1, PackedKeeps DEF Orderly
<1>4. QED
  BY <1>2, <1>3 DEF OnRecord, AllOf

\* Only a delivery of the ordinary lane tells the owner anything on it.
LEMMA SingleKept ==
    ASSUME TypeOK, TypeOK', Timely, Whole, Apart, OnRecord, OnRecord', Single, Orderly,
           \/ HandOver \/ Tick \/ Stop \/ Drain \/ LastDeferrals \/ (\E x \in todo : DrainSettle(x))
           \/ OrdinaryWorker \/ ProtectiveWorker \/ Advance
    PROVE  Single'
<1>1. PICK G \in SUBSET Decisions : Flow(G)
  BY DEF Orderly
<1>2. Aging /\ Ordinary \subseteq Decisions
  BY DEF Orderly, Ordinary
<1>3. ASSUME told' = told, lane'["ordinary"] = lane["ordinary"] \/ lane["ordinary"].pc # "mark"
      PROVE  Single'
  <2>1. \A d \in Ordinary : OnLane(d)' => OnLane(d)
    BY <1>3 DEF OnLane
  <2>2. QED
    BY <1>1, <1>2, <1>3, <2>1, SingleStep
<1>4. CASE HandOver \/ Tick \/ Stop \/ Drain \/ LastDeferrals \/ (\E x \in todo : DrainSettle(x))
  <2>1. told' = told /\ lane' = lane
    BY <1>4 DEF HandOver, Tick, Accept, AcceptClosed, TickGroup, TickRetry, TickTakeDeferred, TickSettle,
       TickDigest, Stop, Drain, LastDeferrals, DrainSettle, history
  <2>2. QED
    BY <1>3, <2>1
<1>5. CASE PopOrdinary \/ Compose \/ DigestNotDelivered \/ CompleteDigest \/ Aged \/ Advance
  <2>1. told' = told /\ lane["ordinary"].pc # "mark"
    BY <1>5 DEF PopOrdinary, Compose, DigestNotDelivered, CompleteDigest, Aged, Advance, history, MayWait, Lanes
  <2>2. QED
    BY <1>3, <2>1
<1>6. CASE NotDelivered("ordinary") \/ GiveUp("ordinary")
  <2>1. told' = told /\ lane["ordinary"].pc # "mark"
    BY <1>6 DEF NotDelivered, GiveUp, history
  <2>2. QED
    BY <1>3, <2>1
<1>7. CASE Delivered("ordinary")
  BY <1>7, SingleDelivered
<1>8. CASE Mark("ordinary")
  BY <1>1, <1>2, <1>8, SingleMark
<1>9. CASE ProtectiveWorker
  <2>1. lane'["ordinary"] = lane["ordinary"]
    BY <1>9 DEF ProtectiveWorker, Outcome, PopProtective, Delivered, NotDelivered, Mark, GiveUp, SetLane,
       TypeOK, Lanes
  <2>2. \A d \in Decisions : OnLane(d)' => OnLane(d)
    <3>1. CASE Delivered("protective")
      BY <3>1 DEF Delivered, OnLane, TypeOK
    <3>2. CASE ~Delivered("protective")
      BY <1>9, <3>2 DEF ProtectiveWorker, Outcome, PopProtective, NotDelivered, Mark, GiveUp, OnLane, history
    <3>3. QED
      BY <3>1, <3>2
  <2>3. QED
    BY <1>1, <1>2, <2>1, <2>2, SingleStep
<1>10. QED
  BY <1>4, <1>5, <1>6, <1>7, <1>8, <1>9 DEF OrdinaryWorker, Outcome

LEMMA WholeKept ==
    ASSUME TypeOK, Whole, Next
    PROVE  Whole'
<1>1. CASE (\E d \in Decisions : Decide(d)) \/ HandOver
  BY <1>1, WholeSame DEF Decide, HandOver, Accept, AcceptClosed, queues
<1>2. CASE TickGroup \/ TickTakeDeferred \/ (\E x \in todo : TickSettle(x)) \/ TickDigest \/ Stop \/ Drain
             \/ (\E x \in todo : DrainSettle(x)) \/ LastDeferrals
  BY <1>2, WholeSame DEF TickGroup, TickTakeDeferred, TickSettle, TickDigest, Stop, Drain, DrainSettle,
     LastDeferrals
<1>3. CASE \E r \in retries : TickRetry(r)
  BY <1>3, WholeRetry
<1>4. CASE OrdinaryWorker \/ ProtectiveWorker
  BY <1>4, WholeOrdinary, WholePop, WholeWork DEF OrdinaryWorker, ProtectiveWorker, Outcome, Lanes
<1>5. CASE Exit \/ Crash
  BY <1>5, WholeGone DEF Exit, Crash
<1>6. CASE Advance
  BY <1>6, WholeAdvance
<1>7. QED
  BY <1>1, <1>2, <1>3, <1>4, <1>5, <1>6 DEF Next, Tick, Shutdown

\* What a step does to the rows and to what was last told.
LEMMA Rows ==
    ASSUME TypeOK, Next
    PROVE  \/ UNCHANGED <<row, last>>
           \/ \E d \in Decisions : \E s : Put(d, s) /\ (row[d] = "told" => s = "told")
           \/ CompleteDigest
<1>1. ASSUME NEW x \in todo, Put(x.d, SettledRow(x.d, x.release))
      PROVE  \E d \in Decisions : \E s : Put(d, s) /\ (row[d] = "told" => s = "told")
  <2>1. x.d \in Decisions
    BY DEF TypeOK, Deferrals
  <2>2. QED
    BY <1>1, <2>1 DEF SettledRow
<1>2. ASSUME NEW l \in Lanes, NEW d \in lane[l].rest, NEW release, Put(d, SettledRow(d, release))
      PROVE  \E e \in Decisions : \E s : Put(e, s) /\ (row[e] = "told" => s = "told")
  <2>1. d \in Decisions
    BY DEF TypeOK, Workers
  <2>2. QED
    BY <1>2, <2>1 DEF SettledRow
<1>3. CASE \E d \in Decisions : Decide(d)
  BY <1>3 DEF Decide
<1>4. CASE HandOver \/ Stop \/ Crash \/ Advance
  BY <1>4 DEF HandOver, Accept, AcceptClosed, Stop, Crash, MemoryGone, Advance, database
<1>5. CASE Tick
  BY <1>1, <1>5 DEF Tick, TickGroup, TickRetry, TickTakeDeferred, TickSettle, TickDigest, database
<1>6. CASE Shutdown
  BY <1>1, <1>6 DEF Shutdown, Drain, DrainSettle, LastDeferrals, Exit, MemoryGone, database
<1>7. ASSUME NEW l \in Lanes, Outcome(l)
      PROVE  \/ UNCHANGED <<row, last>>
             \/ \E d \in Decisions : \E s : Put(d, s) /\ (row[d] = "told" => s = "told")
  <2>1. CASE Delivered(l) \/ NotDelivered(l)
    BY <2>1 DEF Delivered, NotDelivered, database
  <2>2. CASE Mark(l)
    <3>1. PICK d \in lane[l].rest : Put(d, "told") \/ UNCHANGED <<row, age, last>>
      BY <2>2 DEF Mark
    <3>2. d \in Decisions
      BY DEF TypeOK, Workers
    <3>3. QED
      BY <3>1, <3>2
  <2>3. CASE GiveUp(l)
    <3>1. PICK d \in lane[l].rest :
             Put(d, SettledRow(d, d \in Protective)) \/ UNCHANGED <<row, age, last>>
      BY <2>3 DEF GiveUp
    <3>2. QED
      BY <1>2, <3>1
  <2>4. QED
    BY <1>7, <2>1, <2>2, <2>3 DEF Outcome
<1>8. CASE OrdinaryWorker
  <2>1. CASE PopOrdinary \/ Compose \/ DigestNotDelivered
    BY <2>1 DEF PopOrdinary, Compose, DigestNotDelivered, database
  <2>2. CASE Aged
    <3>1. PICK d \in lane["ordinary"].rest : Put(d, SettledRow(d, FALSE)) \/ UNCHANGED <<row, age, last>>
      BY <2>2 DEF Aged
    <3>2. QED
      BY <1>2, <3>1 DEF Lanes
  <2>3. QED
    BY <1>7, <1>8, <2>1, <2>2 DEF OrdinaryWorker, Lanes
<1>9. CASE ProtectiveWorker
  <2>1. PopProtective => UNCHANGED <<row, last>>
    BY DEF PopProtective, database
  <2>2. QED
    BY <1>7, <1>9, <2>1 DEF ProtectiveWorker, Lanes
<1>10. QED
  BY <1>3, <1>4, <1>5, <1>6, <1>8, <1>9 DEF Next

LEMMA LastingKept ==
    ASSUME TypeOK, Lasting, Next
    PROVE  Lasting'
<1>0. \A c \in Decisions : Situation[c] \in Situations /\ Severity[c] \in Nat /\ Severity[c] # Unsent
  <2>1. \A n \in Nat : n # Unsent
    BY DEF Unsent
  <2>2. \A c \in Decisions : Severity[c] \in Nat
    BY DecisionAssumption
  <2>3. \A c \in Decisions : Situation[c] \in Situations
    BY DEF Situations
  <2>4. QED
    BY <2>1, <2>2, <2>3
<1>1. CASE UNCHANGED <<row, last>>
  BY <1>1 DEF Lasting
<1>2. CASE \E d \in Decisions : \E s : Put(d, s) /\ (row[d] = "told" => s = "told")
  <2>0. PICK d \in Decisions : \E s : Put(d, s) /\ (row[d] = "told" => s = "told")
    BY <1>2
  <2>1. PICK s : Put(d, s) /\ (row[d] = "told" => s = "told")
    BY <2>0
  <2>2. \A c \in Decisions : row'[c] = IF c = d THEN s ELSE row[c]
    BY <2>1 DEF Put, TypeOK
  <2>3. CASE s = "told" /\ row[d] # "told"
    <3>1. \A t \in Situations : last'[t] = IF t = Situation[d] THEN Severity[d] ELSE last[t]
      BY <2>1, <2>3 DEF Put, TypeOK
    <3>2. ASSUME NEW t \in Situations, last'[t] # Unsent
          PROVE  \E c \in Decisions : Situation[c] = t /\ Severity[c] = last'[t] /\ row'[c] = "told"
      <4>1. CASE t = Situation[d]
        BY <2>2, <2>3, <3>1, <4>1
      <4>2. CASE t # Situation[d]
        BY <2>2, <2>3, <3>1, <3>2, <4>2 DEF Lasting
      <4>3. QED
        BY <4>1, <4>2
    <3>3. \A c \in Decisions : row'[c] = "told" => last'[Situation[c]] # Unsent
      BY <1>0, <2>2, <2>3, <3>1 DEF Lasting
    <3>4. QED
      BY <3>2, <3>3 DEF Lasting
  <2>4. CASE ~(s = "told" /\ row[d] # "told")
    <3>1. last' = last /\ \A c \in Decisions : row'[c] = "told" <=> row[c] = "told"
      BY <2>1, <2>2, <2>4 DEF Put
    <3>2. QED
      BY <3>1 DEF Lasting
  <2>5. QED
    BY <2>3, <2>4
<1>3. CASE CompleteDigest /\ ~UNCHANGED <<row, last>>
  <2>1. /\ \A c \in Decisions : row'[c] = IF c \in DigestItems THEN "told" ELSE row[c]
        /\ \A t \in Situations :
              IF NewlyTold(t) = {} THEN last'[t] = last[t]
                                   ELSE last'[t] \in {Severity[c] : c \in NewlyTold(t)}
        /\ \A t : \A c \in NewlyTold(t) : c \in DigestItems /\ c \in Decisions /\ Situation[c] = t
    <3>1. DigestItems \subseteq Decisions
      BY DEF DigestItems, TypeOK, Workers, Lanes
    <3>2. QED
      BY <1>3, <3>1 DEF CompleteDigest, NewlyTold
  <2>2. ASSUME NEW t \in Situations, last'[t] # Unsent
        PROVE  \E c \in Decisions : Situation[c] = t /\ Severity[c] = last'[t] /\ row'[c] = "told"
    BY <2>1, <2>2 DEF Lasting
  <2>3. ASSUME NEW c \in Decisions, row'[c] = "told" PROVE last'[Situation[c]] # Unsent
    <3>1. CASE NewlyTold(Situation[c]) = {}
      <4>1. row[c] = "told"
        BY <2>1, <2>3, <3>1 DEF NewlyTold
      <4>2. QED
        BY <1>0, <2>1, <3>1, <4>1 DEF Lasting
    <3>2. CASE NewlyTold(Situation[c]) # {}
      BY <1>0, <2>1, <3>2
    <3>3. QED
      BY <3>1, <3>2
  <2>4. QED
    BY <2>2, <2>3 DEF Lasting
<1>4. QED
  BY <1>1, <1>2, <1>3, Rows

LEMMA KInvNext == ASSUME KInv, Next PROVE KInv'
<1>1. IInv'
  BY Inductive DEF KInv
<1>2. Settling' /\ Whole' /\ TypeOK'
  BY <1>1, SettlingKept, WholeKept DEF KInv, IInv
<1>7. Lasting'
  BY <1>2, LastingKept DEF KInv, IInv
<1>3. CASE \E d \in Decisions : Decide(d)
  BY <1>1, <1>2, <1>3, <1>7, DecideKeeps DEF KInv, IInv
<1>4. CASE Exit \/ Crash
  BY <1>1, <1>2, <1>4, <1>7, GoneKeepsAll DEF KInv, IInv
<1>5. CASE \/ HandOver \/ Tick \/ Stop \/ Drain \/ LastDeferrals \/ (\E x \in todo : DrainSettle(x))
           \/ OrdinaryWorker \/ ProtectiveWorker \/ Advance
  <2>1. Orderly
    BY <1>5, RunOrderly, WorkersOrderly, AdvanceOrderly DEF KInv, IInv
  <2>2. Apart' /\ OnRecord' /\ Found'
    BY <2>1, OrderlyKeeps DEF KInv, IInv
  <2>3. Single'
    BY <1>2, <1>5, <2>1, <2>2, SingleKept DEF KInv, IInv
  <2>4. QED
    BY <1>1, <1>2, <1>7, <2>2, <2>3 DEF KInv
<1>6. QED
  BY <1>3, <1>4, <1>5 DEF Next, Shutdown

LEMMA KInvStutter == ASSUME KInv, UNCHANGED vars PROVE KInv'
<1>1. IInv'
  BY Inductive DEF KInv
<1>2. UNCHANGED <<row, age, last, digestDone, digestWait, run, held, buf, windowAge, ord, prot, protRetry, retries,
                  deferred, tick, todo, digestBusy, lane, told, lost, faults>>
  BY DEF vars, database, process, queues, ticker, history
<1>3. Settling' /\ Whole'
  BY <1>2 DEF KInv, Settling, WorkersDone, Whole
<1>4. Stock' = Stock
  BY <1>2 DEF Stock
<1>5. Apart'
  BY <1>2, <1>4 DEF KInv, Apart, Once
<1>6. OnRecord' /\ Found'
  BY <1>2, <1>4 DEF KInv, OnRecord, Found, AllOf
<1>7. Single' /\ Lasting'
  BY <1>2 DEF KInv, Single, Lasting, Passes, MoreSevere, Out, OnLane, InFlight
<1>8. QED
  BY <1>1, <1>3, <1>5, <1>6, <1>7 DEF KInv

LEMMA KInvInit == Init => KInv
<1> SUFFICES ASSUME Init PROVE KInv
  OBVIOUS
<1>1. IInv
  BY Initially
<1>2. Settling
  BY DEF Init, Settling
<1>3. Whole
  <2>1. \A l \in Lanes : lane[l] = Idle
    BY DEF Init
  <2>2. QED
    BY <2>1, WholeIdle DEF Init, Whole
<1>4. \A t \in Tags : Stock[t] = {}
  <2>1. /\ Queued(<<>>) = {} /\ Waiting({}) = {} /\ Listed({}) = {} /\ Carried(Idle) = {}
    BY DEF Queued, Waiting, Listed, Carried, Idle
  <2>2. QED
    BY <2>1, Shelves DEF Init, Tags, Lanes
<1>5. Apart
  <2>1. OnceQueued(<<>>) /\ OnceWaiting({}) /\ OnceListed({})
    BY DEF OnceQueued, OnceWaiting, OnceListed
  <2>2. QED
    BY <1>4, <2>1 DEF Init, Apart, Once, Disjoint
<1>6. OnRecord
  <2>1. Bundles(<<>>) = {} /\ Idle.pc = "idle"
    BY DEF Bundles, Idle
  <2>2. AllOf(Stock) = {}
    BY <1>4 DEF AllOf
  <2>3. QED
    BY <2>1, <2>2 DEF OnRecord, Init
<1>7. Found /\ Single /\ Lasting
  BY DEF Init, Found, Single, Lasting, Out, OnLane, InFlight, Ordinary, Situations
<1>8. QED
  BY <1>1, <1>2, <1>3, <1>5, <1>6, <1>7 DEF KInv

\* The invariant behind both theorems below: where a decision is, and what its row says meanwhile.
THEOREM Ordered == Spec => []KInv
<1>1. Init => KInv
  BY KInvInit
<1>2. KInv /\ [Next]_vars => KInv'
  BY KInvNext, KInvStutter
<1>3. QED
  BY <1>1, <1>2, PTL DEF Spec

------------------------------------------------------------------------------
(* The places of a decision, one by one *)

\* p is the place of d on shelf t.
Spot(t, d, p) ==
    \/ t \in {"held", "buf", "prot", "ordinary", "protective"} /\ p = <<t>>
    \/ t = "ord" /\ \E i \in DOMAIN ord : p = <<"ord", i>> /\ d \in Load(ord[i])
    \/ t = "protRetry" /\ \E i \in DOMAIN protRetry : p = <<"protRetry", i>> /\ d \in Load(protRetry[i])
    \/ t = "retry" /\ \E r \in retries : p = <<"retry", r>> /\ d \in r.ds
    \/ t = "deferred" /\ \E x \in deferred : p = <<"deferred", x>> /\ x.d = d
    \/ t = "todo" /\ \E x \in todo : p = <<"todo", x>> /\ x.d = d

LEMMA PlaceSpot ==
    ASSUME TypeOK, Whole, NEW d \in Decisions, NEW p \in Places(d)
    PROVE  \E t \in Tags : d \in Stock[t] /\ Spot(t, d, p)
<1>1. \/ p \in {<<"held">> : x \in held \cap {d}}
      \/ p \in {<<"buf">> : x \in buf \cap {d}}
      \/ p \in {<<"prot">> : x \in prot \cap {d}}
      \/ p \in {<<"ord", i>> : i \in {i \in DOMAIN ord : ord[i].kind # "digest" /\ d \in ord[i].ds}}
      \/ p \in {<<"protRetry", i>> : i \in {i \in DOMAIN protRetry : d \in protRetry[i].ds}}
      \/ p \in {<<"retry", r>> : r \in {r \in retries : d \in r.ds}}
      \/ p \in {<<"deferred", x>> : x \in {x \in deferred : x.d = d}}
      \/ p \in {<<"todo", x>> : x \in {x \in todo : x.d = d}}
      \/ p \in {<<l>> : l \in {l \in Lanes : lane[l].pc # "idle" /\ lane[l].kind # "digest"
                                              /\ d \in lane[l].rest}}
  BY DEF Places
<1>2. Tags = {"held", "buf", "ord", "prot", "protRetry", "retry", "deferred", "todo",
              "ordinary", "protective"}
  BY DEF Tags
<1>3. CASE p \in {<<"held">> : x \in held \cap {d}}
  BY <1>2, <1>3, Shelves DEF Spot
<1>4. CASE p \in {<<"buf">> : x \in buf \cap {d}}
  BY <1>2, <1>4, Shelves DEF Spot
<1>5. CASE p \in {<<"prot">> : x \in prot \cap {d}}
  BY <1>2, <1>5, Shelves DEF Spot
<1>6. CASE p \in {<<"ord", i>> : i \in {i \in DOMAIN ord : ord[i].kind # "digest" /\ d \in ord[i].ds}}
  <2>1. PICK i \in DOMAIN ord : p = <<"ord", i>> /\ ord[i].kind # "digest" /\ d \in ord[i].ds
    BY <1>6
  <2>2. d \in Load(ord[i])
    BY <2>1 DEF Load
  <2>3. d \in Stock["ord"]
    BY <2>2, Shelves DEF Queued
  <2>4. QED
    BY <1>2, <2>1, <2>2, <2>3 DEF Spot
<1>7. CASE p \in {<<"protRetry", i>> : i \in {i \in DOMAIN protRetry : d \in protRetry[i].ds}}
  <2>1. PICK i \in DOMAIN protRetry : p = <<"protRetry", i>> /\ d \in protRetry[i].ds
    BY <1>7
  <2>2. d \in Load(protRetry[i])
    BY <2>1 DEF Load, Whole
  <2>3. d \in Stock["protRetry"]
    BY <2>2, Shelves DEF Queued
  <2>4. QED
    BY <1>2, <2>1, <2>2, <2>3 DEF Spot
<1>8. CASE p \in {<<"retry", r>> : r \in {r \in retries : d \in r.ds}}
  <2>1. PICK r \in retries : p = <<"retry", r>> /\ d \in r.ds
    BY <1>8
  <2>2. d \in Stock["retry"]
    BY <2>1, Shelves DEF Waiting
  <2>3. QED
    BY <1>2, <2>1, <2>2 DEF Spot
<1>9. CASE p \in {<<"deferred", x>> : x \in {x \in deferred : x.d = d}}
  <2>1. PICK x \in deferred : p = <<"deferred", x>> /\ x.d = d
    BY <1>9
  <2>2. d \in Stock["deferred"]
    BY <2>1, Shelves DEF Listed
  <2>3. QED
    BY <1>2, <2>1, <2>2 DEF Spot
<1>10. CASE p \in {<<"todo", x>> : x \in {x \in todo : x.d = d}}
  <2>1. PICK x \in todo : p = <<"todo", x>> /\ x.d = d
    BY <1>10
  <2>2. d \in Stock["todo"]
    BY <2>1, Shelves DEF Listed
  <2>3. QED
    BY <1>2, <2>1, <2>2 DEF Spot
<1>11. CASE p \in {<<l>> : l \in {l \in Lanes : lane[l].pc # "idle" /\ lane[l].kind # "digest"
                                               /\ d \in lane[l].rest}}
  <2>1. PICK l \in Lanes : p = <<l>> /\ d \in Carried(lane[l])
    BY <1>11 DEF Carried
  <2>2. d \in Stock[l] /\ l \in Tags /\ l \in {"ordinary", "protective"}
    BY <2>1, Shelves DEF Lanes, Tags
  <2>3. QED
    BY <2>1, <2>2 DEF Spot
<1>12. QED
  BY <1>1, <1>3, <1>4, <1>5, <1>6, <1>7, <1>8, <1>9, <1>10, <1>11

LEMMA SpotOnce ==
    ASSUME Once, NEW t, NEW d, NEW p, NEW q, Spot(t, d, p), Spot(t, d, q)
    PROVE  p = q
<1>1. CASE t \in {"held", "buf", "prot", "ordinary", "protective"}
  BY <1>1 DEF Spot
<1>2. CASE t = "ord"
  <2>1. PICK i \in DOMAIN ord : p = <<"ord", i>> /\ d \in Load(ord[i])
    BY <1>2 DEF Spot
  <2>2. PICK j \in DOMAIN ord : q = <<"ord", j>> /\ d \in Load(ord[j])
    BY <1>2 DEF Spot
  <2>3. i = j
    BY <2>1, <2>2 DEF Once, OnceQueued
  <2>4. QED
    BY <2>1, <2>2, <2>3
<1>3. CASE t = "protRetry"
  <2>1. PICK i \in DOMAIN protRetry : p = <<"protRetry", i>> /\ d \in Load(protRetry[i])
    BY <1>3 DEF Spot
  <2>2. PICK j \in DOMAIN protRetry : q = <<"protRetry", j>> /\ d \in Load(protRetry[j])
    BY <1>3 DEF Spot
  <2>3. i = j
    BY <2>1, <2>2 DEF Once, OnceQueued
  <2>4. QED
    BY <2>1, <2>2, <2>3
<1>4. CASE t = "retry"
  <2>1. PICK r \in retries : p = <<"retry", r>> /\ d \in r.ds
    BY <1>4 DEF Spot
  <2>2. PICK s \in retries : q = <<"retry", s>> /\ d \in s.ds
    BY <1>4 DEF Spot
  <2>3. r = s
    BY <2>1, <2>2 DEF Once, OnceWaiting
  <2>4. QED
    BY <2>1, <2>2, <2>3
<1>5. CASE t = "deferred"
  <2>1. PICK x \in deferred : p = <<"deferred", x>> /\ x.d = d
    BY <1>5 DEF Spot
  <2>2. PICK y \in deferred : q = <<"deferred", y>> /\ y.d = d
    BY <1>5 DEF Spot
  <2>3. x = y
    BY <2>1, <2>2 DEF Once, OnceListed
  <2>4. QED
    BY <2>1, <2>2, <2>3
<1>6. CASE t = "todo"
  <2>1. PICK x \in todo : p = <<"todo", x>> /\ x.d = d
    BY <1>6 DEF Spot
  <2>2. PICK y \in todo : q = <<"todo", y>> /\ y.d = d
    BY <1>6 DEF Spot
  <2>3. x = y
    BY <2>1, <2>2 DEF Once, OnceListed
  <2>4. QED
    BY <2>1, <2>2, <2>3
<1>7. QED
  BY <1>1, <1>2, <1>3, <1>4, <1>5, <1>6 DEF Spot

LEMMA ShelfPlace ==
    ASSUME TypeOK, NEW d \in AllOf(Stock)
    PROVE  Places(d) # {}
<1>1. PICK t \in Tags : d \in Stock[t]
  BY DEF AllOf
<1>2. CASE t = "held"
  BY <1>1, <1>2, Shelves DEF Places
<1>3. CASE t = "buf"
  BY <1>1, <1>3, Shelves DEF Places
<1>4. CASE t = "prot"
  BY <1>1, <1>4, Shelves DEF Places
<1>5. CASE t = "ord"
  <2>1. PICK i \in DOMAIN ord : d \in Load(ord[i])
    BY <1>1, <1>5, Shelves DEF Queued
  <2>2. ord[i].kind # "digest" /\ d \in ord[i].ds
    BY <2>1 DEF Load
  <2>3. <<"ord", i>> \in {<<"ord", k>> : k \in {k \in DOMAIN ord : ord[k].kind # "digest" /\ d \in ord[k].ds}}
    BY <2>2
  <2>4. QED
    BY <2>3 DEF Places
<1>6. CASE t = "protRetry"
  <2>1. PICK i \in DOMAIN protRetry : d \in Load(protRetry[i])
    BY <1>1, <1>6, Shelves DEF Queued
  <2>2. d \in protRetry[i].ds
    BY <2>1 DEF Load
  <2>3. <<"protRetry", i>> \in {<<"protRetry", k>> : k \in {k \in DOMAIN protRetry : d \in protRetry[k].ds}}
    BY <2>2
  <2>4. QED
    BY <2>3 DEF Places
<1>7. CASE t = "retry"
  <2>1. PICK r \in retries : d \in r.ds
    BY <1>1, <1>7, Shelves DEF Waiting
  <2>2. <<"retry", r>> \in {<<"retry", u>> : u \in {u \in retries : d \in u.ds}}
    BY <2>1
  <2>3. QED
    BY <2>2 DEF Places
<1>8. CASE t = "deferred"
  <2>1. PICK x \in deferred : x.d = d
    BY <1>1, <1>8, Shelves DEF Listed
  <2>2. <<"deferred", x>> \in {<<"deferred", y>> : y \in {y \in deferred : y.d = d}}
    BY <2>1
  <2>3. QED
    BY <2>2 DEF Places
<1>9. CASE t = "todo"
  <2>1. PICK x \in todo : x.d = d
    BY <1>1, <1>9, Shelves DEF Listed
  <2>2. <<"todo", x>> \in {<<"todo", y>> : y \in {y \in todo : y.d = d}}
    BY <2>1
  <2>3. QED
    BY <2>2 DEF Places
<1>10. CASE t \in Lanes
  <2>1. d \in Carried(lane[t])
    BY <1>1, <1>10, Shelves DEF Lanes
  <2>2. lane[t].pc # "idle" /\ lane[t].kind # "digest" /\ d \in lane[t].rest
    BY <2>1 DEF Carried
  <2>3. <<t>> \in {<<l>> : l \in {l \in Lanes : lane[l].pc # "idle" /\ lane[l].kind # "digest"
                                                 /\ d \in lane[l].rest}}
    BY <1>10, <2>2
  <2>4. QED
    BY <2>3 DEF Places
<1>11. QED
  BY <1>2, <1>3, <1>4, <1>5, <1>6, <1>7, <1>8, <1>9, <1>10 DEF Tags, Lanes

LEMMA InOnePlace ==
    ASSUME TypeOK, Whole, Apart, NEW d \in Decisions
    PROVE  Cardinality(Places(d)) <= 1
<1>1. ASSUME NEW p \in Places(d), NEW q \in Places(d) PROVE p = q
  <2>1. PICK s \in Tags : d \in Stock[s] /\ Spot(s, d, p)
    BY PlaceSpot
  <2>2. PICK t \in Tags : d \in Stock[t] /\ Spot(t, d, q)
    BY PlaceSpot
  <2>3. s = t
    BY <2>1, <2>2 DEF Apart, Disjoint
  <2>4. QED
    BY <2>1, <2>2, <2>3, SpotOnce DEF Apart
<1>2. CASE Places(d) = {}
  BY <1>2, FS_EmptySet
<1>3. CASE Places(d) # {}
  <2>1. PICK p : Places(d) = {p}
    BY <1>1, <1>3
  <2>2. Cardinality({p}) = 1
    BY FS_Singleton
  <2>3. QED
    BY <2>1, <2>2
<1>4. QED
  BY <1>2, <1>3

(* A decision is never in two places of the memory, from the caller that   *)
(* made it over the buffer, the lanes, the retries and the backlog to its  *)
(* row; without a fault it is in one of them until its row is settled or it*)
(* is counted as lost (acceptLocked, scheduleRetry, giveUp, drainRetries). *)
THEOREM EachInOnePlace == Spec => []Accounted
<1>1. ASSUME KInv, NEW d \in Decisions
      PROVE  /\ Cardinality(Places(d)) <= 1
             /\ row[d] = "notify" /\ d \notin lost /\ faults = 0 => Places(d) # {}
  <2>1. Cardinality(Places(d)) <= 1
    BY <1>1, InOnePlace DEF KInv, IInv
  <2>2. ASSUME row[d] = "notify", d \notin lost, faults = 0 PROVE Places(d) # {}
    <3>1. d \in AllOf(Stock)
      BY <1>1, <2>2 DEF KInv, Found
    <3>2. QED
      BY <1>1, <3>1, ShelfPlace DEF KInv, IInv
  <2>3. QED
    BY <2>1, <2>2
<1>2. KInv => Accounted
  BY <1>1 DEF Accounted
<1>3. QED
  BY <1>2, Ordered, PTL

(* Of two decisions about a situation the ordinary lane sends the second,  *)
(* while no row fails to be written and the process lives, only if it is   *)
(* more severe than the first or than another one told before it was made: *)
(* otherwise it is not made while the reservation of the first holds, and  *)
(* the first is sent and recorded inside that (Repeats, pastLease,         *)
(* MarkDelivered).                                                         *)
THEOREM SentOnce == Spec => []OneMessage
<1>1. KInv => OneMessage
  BY DEF KInv, Single, OneMessage, Passes, Out, OnLane
<1>2. QED
  BY <1>1, Ordered, PTL
=============================================================================
