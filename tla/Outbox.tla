------------------------------- MODULE Outbox -------------------------------
(***************************************************************************)
(* The attention outbox (pkg/attention/outbox.go, handoff.go, retry.go)    *)
(* over the governor's decision rows (governor.go, digest.go, store.go).   *)
(*                                                                         *)
(* The governor decides a candidate in one transaction: its row reserves   *)
(* the situation (the dedup key) for Lease.  The caller then hands the     *)
(* decision to the outbox, which keeps it in memory only: in the group     *)
(* buffer, on a delivery lane, among the retries or in the backlog of      *)
(* decisions to move to the digest.  Four goroutines share that memory: the*)
(* caller, the tick of Run, and one worker per lane.  A process that dies  *)
(* loses the memory; the rows stay, and their reservations lapse.          *)
(*                                                                         *)
(* Time is counted in units of about a minute and a half: age[d] is how    *)
(* long ago d was decided, kept up to AgeCap and while d is in flight.     *)
(***************************************************************************)
EXTENDS Integers, Sequences, FiniteSets

CONSTANTS
    Decisions,      \* what may be decided, numbered in order like its ULIDs
    Protective,     \* those of them that are protective Criticals
    Situation,      \* the dedup key of each
    Severity,       \* how urgent each is
    Window,         \* GroupWindowSeconds: how long a group is held open
    Lease,          \* pendingLease
    MaxQueueAge,    \* the oldest an ordinary decision may be when it is sent
    ComposeTime,    \* composeTimeout
    SendTime,       \* deliverTimeout
    RetryDelays,    \* retryDelays
    ProtectiveEvery,    \* protectiveRetryEvery
    ProtectiveWindow,   \* protectiveRetryWindow
    DigestRetry,    \* wait before an undelivered digest is handed out again
    Slots,          \* ordinaryLaneSlots
    MaxBuffered,    \* decisions in one group
    MaxRetries,     \* maxPendingRetries
    MaxProtectiveRetries,
    MaxBacklog,     \* maxDeferBacklog
    DeferTries,     \* deferTries
    MaxFaults       \* bound: crashes and failed database calls

(***************************************************************************)
(* The longest delivery ends inside the lease of a message that was not    *)
(* too old when its lane took it: 6 min + 90 s + 90 s < 10 min in the code *)
(***************************************************************************)
ASSUME LeaseAssumption ==
    /\ {Window, Lease, MaxQueueAge, ComposeTime, SendTime, ProtectiveEvery,
        ProtectiveWindow, DigestRetry} \subseteq Nat
    /\ MaxQueueAge + ComposeTime + SendTime < Lease
    /\ Window < Lease

ASSUME DelayAssumption ==
    /\ RetryDelays \in Seq(Nat \ {0})
    /\ ProtectiveEvery > 0

ASSUME BoundAssumption ==
    {Slots, MaxBuffered, MaxRetries, MaxProtectiveRetries, MaxBacklog,
     DeferTries, MaxFaults} \subseteq Nat

ASSUME DecisionAssumption ==
    /\ Decisions \subseteq Nat /\ IsFiniteSet(Decisions)
    /\ Protective \subseteq Decisions
    /\ Severity \in [Decisions -> Nat]
    /\ \A p \in Protective, d \in Decisions : Severity[d] <= Severity[p]

VARIABLES
    row,        \* attention_decisions: what is on record about a decision
    age,        \* how long ago it was decided
    last,       \* attention_state: the severity last told of a situation, or Unsent
    digestDone, \* digest_day: today's digest is done
    digestWait, \* digest_attempt: how long until it may be handed out again
    run,        \* Run: "up", "stopping", "down"
    held,       \* decided, and not handed to the outbox yet
    buf, windowAge,         \* the group buffer, and how long it has been open
    ord, prot, protRetry,   \* the queues of the ordinary and protective lanes
    retries,    \* messages waiting for their next try
    deferred,   \* decisions to move to the digest, or to release
    tick, todo, \* where the tick stands, and the decisions it is settling
    digestBusy, \* a digest is queued or being sent
    lane,       \* what each lane's worker is doing
    told,       \* history: in which kinds of message the owner was told of d
    lost,       \* history: decisions dropped from memory, counted or not
    faults      \* history: crashes and failed database calls

database == <<row, age, last, digestDone, digestWait>>
process == <<run, held>>
queues == <<buf, windowAge, ord, prot, protRetry, retries, deferred>>
ticker == <<tick, todo, digestBusy>>
history == <<told, lost, faults>>
vars == <<database, process, queues, ticker, lane, history>>

-----------------------------------------------------------------------------

Larger(m, n) == IF m > n THEN m ELSE n
Smaller(m, n) == IF m < n THEN m ELSE n

AgeCap == Larger(Lease, ProtectiveWindow)

Ordinary == Decisions \ Protective
Lanes == {"ordinary", "protective"}

(* A message on a lane or between two tries.  wait counts down to due.     *)
Jobs == [kind : {"group", "retry", "digest"}, ds : SUBSET Decisions, failed : Nat]
Retries == [ds : SUBSET Decisions, failed : Nat, wait : Nat]
Deferrals == [d : Decisions, release : BOOLEAN, tries : Nat]

(***************************************************************************)
(* pc of a worker: "compose", "send"; "mark" and "complete" record that the*)
(* message was taken; "giveup" and "aged" move its decisions to the digest.*)
(* rest holds the decisions still to be recorded.                          *)
(***************************************************************************)
Workers == [pc : {"idle", "compose", "send", "mark", "complete", "giveup", "aged"},
            kind : {"group", "retry", "digest"}, ds : SUBSET Decisions, failed : Nat,
            elapsed : Nat, rest : SUBSET Decisions]

Idle == [pc |-> "idle", kind |-> "group", ds |-> {}, failed |-> 0, elapsed |-> 0, rest |-> {}]

(* Worker w has the outcome of its message and records it as pc.           *)
Recording(w, pc) == [w EXCEPT !.pc = pc, !.failed = 0, !.elapsed = 0]

Working(pc, j) ==
    [pc |-> pc, kind |-> j.kind, ds |-> j.ds, failed |-> j.failed, elapsed |-> 0, rest |-> j.ds]

\* Mutant: a message counts as protective only if all of it is.
OnlyProtective(ds) == ds \subseteq Protective

HasProtective(ds) == ds \cap Protective # {}

\* Mutant: the time the delivery itself takes is forgotten.
PastLeaseItself(ds, delay) == \E d \in ds : age[d] + delay >= Lease

PastLease(ds, delay) == \E d \in ds : age[d] + delay > MaxQueueAge

-----------------------------------------------------------------------------
(* The governor's rows *)

Situations == {Situation[d] : d \in Decisions}

Unsent == -1
Levels == {Unsent} \cup {Severity[d] : d \in Decisions}

(***************************************************************************)
(* Rules 3 and 3b: what the owner was last told of the situation was at    *)
(* least as severe (the dedup window outlasts the model), or a decision on *)
(* it that is at least as severe is in flight or queued for the digest.    *)
(* The last two do not hold back a protective Critical.                    *)
(***************************************************************************)
\* Mutant: a reservation is held no longer than a message may queue.
InFlightQueued(d) == row[d] = "notify" /\ age[d] <= MaxQueueAge

InFlight(d) == row[d] = "notify" /\ age[d] < Lease

Repeats(d) ==
    \/ last[Situation[d]] >= Severity[d]
    \/ /\ d \notin Protective
       /\ \E e \in Decisions \ {d} :
             /\ Situation[e] = Situation[d] /\ Severity[e] >= Severity[d]
             /\ InFlight(e) \/ row[e] = "digest"

(***************************************************************************)
(* What is recorded of d: its age counts only while it is in flight, and   *)
(* delivered for the first time, its severity becomes its situation's,     *)
(* whatever was told of that in between (markDeliveredTx).                 *)
(***************************************************************************)
Put(d, status) ==
    /\ row' = [row EXCEPT ![d] = status]
    /\ age' = [age EXCEPT ![d] = 0]
    /\ last' = IF status = "told" /\ row[d] # "told"
                 THEN [last EXCEPT ![Situation[d]] = Severity[d]] ELSE last

(* MarkDelivered(false) and DeferToDigest act on a row still in flight.    *)
SettledRow(d, release) ==
    CASE row[d] # "notify" -> row[d]
      [] row[d] = "notify" /\ release -> "released"
      [] OTHER -> "digest"

(* Rule 4, or one of rules 6 to 10; a repeat is dropped and leaves no trace here. *)
Decide(d) ==
    /\ run # "down"
    /\ row[d] = "none"
    /\ \A e \in Decisions : e > d => row[e] = "none"
    /\ ~Repeats(d)
    /\ \/ /\ Put(d, "notify")
          /\ held' = held \cup {d}
       \/ /\ d \notin Protective
          /\ Put(d, "digest")
          /\ UNCHANGED held
    /\ UNCHANGED <<digestDone, digestWait, run, queues, ticker, lane, history>>

-----------------------------------------------------------------------------
(* Handing over *)

(***************************************************************************)
(* deferLocked: what the backlog has no room for is abandoned.             *)
(***************************************************************************)
Backlog(entries) ==
    \E kept \in SUBSET entries :
        /\ Cardinality(kept) = Smaller(Cardinality(entries), MaxBacklog - Cardinality(deferred))
        /\ deferred' = deferred \cup kept
        /\ lost' = lost \cup {x.d : x \in entries \ kept}

Deferring(ds, release) == {[d |-> d, release |-> release, tries |-> 0] : d \in ds}

Job(kind, ds, failed) == [kind |-> kind, ds |-> ds, failed |-> failed]

LaneFull == Len(ord) >= Slots

(* pushOrdinaryLocked: the lane as it is with group on it, if there is room. *)
PushOrdinary(group) ==
    ord' = IF group = {} \/ LaneFull THEN ord ELSE Append(ord, Job("group", group, 0))

Overflow(group) == IF LaneFull THEN Deferring(group, FALSE) ELSE {}

(* addProtectiveLocked, one member of the group after the other: an earlier  *)
(* decision on the same situation, pending or in the group, gives way.       *)
Superseded(group) ==
    {e \in prot \cup group : \E d \in group : e < d /\ Situation[e] = Situation[d]}

\* Mutant: a protective Critical flushes what is buffered, if anything is.
FlushesGroup(d) == d \in Protective /\ buf # {}

Flushes(d) == d \in Protective

(***************************************************************************)
(* acceptLocked: the window closed before a tick got to it, or the group is*)
(* full: it goes to the ordinary lane and d opens the next one.  A         *)
(* protective Critical takes the group along to the protective lane.       *)
(***************************************************************************)
Accept(d) ==
    LET full == Cardinality(buf) >= MaxBuffered
        closes == buf # {} /\ (full \/ (Window > 0 /\ windowAge >= Window))
        expired == IF closes THEN buf ELSE {}
        group == (buf \ expired) \cup {d}
        flushed == IF Flushes(d) THEN group ELSE {}
    IN  /\ run = "up"
        /\ d \in held /\ \A e \in held : Situation[e] = Situation[d] => d <= e
        /\ held' = held \ {d}
        /\ buf' = group \ flushed
        /\ windowAge' = IF buf \ expired = {} \/ Flushes(d) THEN 0 ELSE windowAge
        /\ prot' = (prot \cup flushed) \ Superseded(flushed)
        /\ PushOrdinary(expired)
        /\ Backlog(Overflow(expired) \cup Deferring(Superseded(flushed), TRUE))
        /\ UNCHANGED <<database, run, protRetry, retries, ticker, lane, told, faults>>

(* HandoffClosed: after the outbox stopped the reservation is left to lapse. *)
AcceptClosed(d) ==
    /\ run = "stopping"
    /\ d \in held
    /\ held' = held \ {d}
    /\ lost' = lost \cup {d}
    /\ UNCHANGED <<database, run, queues, ticker, lane, told, faults>>

-----------------------------------------------------------------------------
(***************************************************************************)
(* The tick of Run: the due group, the due retries, the deferrals, the     *)
(* digest, in this order.  The parts that only touch memory are one step   *)
(* each; tick is "defer" while decisions are being settled in the database.*)
(***************************************************************************)

\* Mutant: only a full group is flushed.
GroupFull == Cardinality(buf) >= MaxBuffered

GroupDue == buf # {} /\ windowAge >= Window
DigestDue == ~digestBusy /\ ~digestDone /\ digestWait = 0
TickUrgent == GroupDue \/ deferred # {} \/ \E r \in retries : r.wait = 0

TickGroup ==
    /\ run = "up" /\ tick = "idle"
    /\ GroupDue
    /\ buf' = {} /\ windowAge' = 0
    /\ PushOrdinary(buf)
    /\ Backlog(Overflow(buf))
    /\ UNCHANGED <<database, process, prot, protRetry, retries, ticker, lane, told, faults>>

(* handOverDueRetries, one retry at a time. *)
TickRetry(r) ==
    /\ run = "up" /\ tick = "idle"
    /\ ~GroupDue
    /\ r \in retries /\ r.wait = 0
    /\ retries' = retries \ {r}
    /\ IF HasProtective(r.ds)
         THEN protRetry' = Append(protRetry, Job("retry", r.ds, r.failed)) /\ UNCHANGED ord
         ELSE ord' = Append(ord, Job("retry", r.ds, r.failed)) /\ UNCHANGED protRetry
    /\ UNCHANGED <<database, process, buf, windowAge, prot, deferred, ticker, lane, history>>

(* processDeferrals takes the backlog. *)
TickTakeDeferred ==
    /\ run = "up" /\ tick = "idle"
    /\ ~GroupDue /\ \A r \in retries : r.wait > 0
    /\ deferred # {} \/ DigestDue
    /\ tick' = "defer"
    /\ todo' = deferred
    /\ deferred' = {}
    /\ UNCHANGED <<database, process, buf, windowAge, ord, prot, protRetry, retries, digestBusy,
                   lane, history>>

(* A deferral that fails is tried on later ticks, DeferTries times in all. *)
TickSettle(x) ==
    /\ tick = "defer"
    /\ x \in todo
    /\ todo' = todo \ {x}
    /\ \/ /\ Put(x.d, SettledRow(x.d, x.release))
          /\ UNCHANGED <<deferred, lost, faults>>
       \/ /\ faults < MaxFaults
          /\ faults' = faults + 1
          /\ IF x.tries + 1 < DeferTries
               THEN Backlog({[x EXCEPT !.tries = x.tries + 1]})
               ELSE lost' = lost \cup {x.d} /\ UNCHANGED deferred
          /\ UNCHANGED <<row, age, last>>
    /\ UNCHANGED <<digestDone, digestWait, process, buf, windowAge, ord, prot, protRetry,
                   retries, tick, digestBusy, lane, told>>

(***************************************************************************)
(* pendingDigest and handOverDigest: with an empty queue the day is done.  *)
(* A full lane leaves the digest to a later attempt, as a failed read does.*)
(***************************************************************************)
TickDigest ==
    LET items == {d \in Decisions : row[d] = "digest"}
    IN  /\ run = "up" /\ tick = "defer" /\ todo = {}
        /\ tick' = "idle"
        /\ \/ ~DigestDue /\ UNCHANGED <<ord, digestBusy, digestDone, digestWait, faults>>
           \/ /\ DigestDue /\ items = {}
              /\ digestDone' = TRUE
              /\ UNCHANGED <<ord, digestBusy, digestWait, faults>>
           \/ /\ DigestDue /\ items # {}
              /\ digestWait' = DigestRetry
              /\ digestBusy' = ~LaneFull
              /\ ord' = IF LaneFull THEN ord ELSE Append(ord, Job("digest", items, 0))
              /\ UNCHANGED <<digestDone, faults>>
           \/ /\ DigestDue /\ faults < MaxFaults
              /\ faults' = faults + 1
              /\ UNCHANGED <<ord, digestBusy, digestDone, digestWait>>
        /\ UNCHANGED <<row, age, last, process, buf, windowAge, prot, protRetry, retries, deferred,
                       todo, lane, told, lost>>

-----------------------------------------------------------------------------
(* The lanes *)

SetLane(l, w) == lane' = [lane EXCEPT ![l] = w]

(***************************************************************************)
(* ordinaryStep: a retry or a group that waited too long is moved to the   *)
(* digest; only an escalate group (the FALSE/TRUE choice) is composed.     *)
(***************************************************************************)
PopOrdinary ==
    /\ run # "down"
    /\ lane["ordinary"].pc = "idle"
    /\ ord # <<>>
    /\ ord' = Tail(ord)
    /\ LET j == Head(ord)
           late == j.kind # "digest" /\ PastLease(j.ds, 0)
       IN  \/ late /\ SetLane("ordinary", Working(IF j.kind = "retry" THEN "giveup" ELSE "aged", j))
           \/ ~late /\ SetLane("ordinary", Working("send", j))
           \/ ~late /\ j.kind = "group" /\ SetLane("ordinary", Working("compose", j))
    /\ UNCHANGED <<database, process, buf, windowAge, prot, protRetry, retries, deferred,
                   ticker, history>>

(* The composer answers, fails or times out: a message goes out all the same. *)
Compose ==
    /\ lane["ordinary"].pc = "compose"
    /\ SetLane("ordinary", [lane["ordinary"] EXCEPT !.pc = "send", !.elapsed = 0])
    /\ UNCHANGED <<database, process, queues, ticker, history>>

(* protectiveStep: a retry first, else what is pending, MaxBuffered at most. *)
PopProtective ==
    /\ run # "down"
    /\ lane["protective"].pc = "idle"
    /\ \/ /\ protRetry # <<>>
          /\ protRetry' = Tail(protRetry)
          /\ SetLane("protective", Working("send", Head(protRetry)))
          /\ UNCHANGED prot
       \/ /\ protRetry = <<>> /\ prot # {}
          /\ \E group \in SUBSET prot :
                /\ Cardinality(group) = Smaller(Cardinality(prot), MaxBuffered)
                /\ prot' = prot \ group
                /\ SetLane("protective", Working("send", Job("group", group, 0)))
          /\ UNCHANGED protRetry
    /\ UNCHANGED <<database, process, buf, windowAge, ord, retries, deferred, ticker, history>>

(* The deliverer took the message: the owner has it, whatever the rows say. *)
Delivered(l) ==
    /\ lane[l].pc = "send"
    /\ told' = [d \in Decisions |->
                   IF d \notin lane[l].ds THEN told[d]
                   ELSE told[d] \cup {IF lane[l].kind = "digest" THEN "digest" ELSE l}]
    /\ SetLane(l, Recording(lane[l], IF lane[l].kind = "digest" THEN "complete" ELSE "mark"))
    /\ UNCHANGED <<database, process, queues, ticker, lost, faults>>

(* MarkDelivered, one decision after the other in the order of the message:  *)
(* the most severe first (ranksBefore).  An error is logged.                 *)
Mark(l) ==
    /\ lane[l].pc = "mark"
    /\ \E d \in lane[l].rest :
          /\ \A e \in lane[l].rest : Severity[e] <= Severity[d]
          /\ \/ Put(d, "told") /\ UNCHANGED faults
             \/ faults < MaxFaults /\ faults' = faults + 1 /\ UNCHANGED <<row, age, last>>
          /\ SetLane(l, IF lane[l].rest = {d} THEN Idle ELSE [lane[l] EXCEPT !.rest = @ \ {d}])
    /\ UNCHANGED <<digestDone, digestWait, process, queues, ticker, told, lost>>

\* Mutant: the whole queue is flushed, with what joined it meanwhile.
WholeQueue == {d \in Decisions : row[d] = "digest"}

DigestItems == lane["ordinary"].ds

NewlyTold(s) == {d \in DigestItems : row[d] # "told" /\ Situation[d] = s}

(***************************************************************************)
(* CompleteDigest after a delivery: all the items of the digest, or none.  *)
(* Of several on one situation the last to have been queued sets last.     *)
(***************************************************************************)
CompleteDigest ==
    /\ lane["ordinary"].pc = "complete"
    /\ \/ /\ row' = [d \in Decisions |-> IF d \in DigestItems THEN "told" ELSE row[d]]
          /\ last' \in [Situations -> Levels]
          /\ \A s \in Situations :
                last'[s] \in IF NewlyTold(s) = {} THEN {last[s]}
                                                  ELSE {Severity[d] : d \in NewlyTold(s)}
          /\ digestDone' = TRUE
          /\ UNCHANGED faults
       \/ faults < MaxFaults /\ faults' = faults + 1 /\ UNCHANGED <<row, last, digestDone>>
    /\ digestBusy' = FALSE
    /\ SetLane("ordinary", Idle)
    /\ UNCHANGED <<age, digestWait, process, queues, tick, todo, told, lost>>

(* sendDigest without a delivery: the items stay queued. *)
DigestNotDelivered ==
    /\ lane["ordinary"].pc = "send" /\ lane["ordinary"].kind = "digest"
    /\ digestBusy' = FALSE
    /\ SetLane("ordinary", Idle)
    /\ UNCHANGED <<database, process, queues, tick, todo, history>>

(***************************************************************************)
(* scheduleRetry: whether a message that has failed this often is tried    *)
(* again, and after how long.                                              *)
(***************************************************************************)
Delay(failed) == IF failed <= Len(RetryDelays) THEN RetryDelays[failed] ELSE ProtectiveEvery

Alike(ds) == {r \in retries : HasProtective(r.ds) = HasProtective(ds)}

TriesAgain(ds, failed) ==
    /\ run = "up"
    /\ IF HasProtective(ds)
         THEN /\ \A d \in ds \cap Protective : age[d] + Delay(failed) <= ProtectiveWindow
              /\ Cardinality(Alike(ds)) < MaxProtectiveRetries
         ELSE /\ failed <= Len(RetryDelays)
              /\ ~PastLease(ds, Delay(failed))
              /\ Cardinality(Alike(ds)) < MaxRetries

(* deliveryFailed: an error, a refusal, a panic or the timeout. *)
NotDelivered(l) ==
    LET failed == lane[l].failed + 1
    IN  /\ lane[l].pc = "send" /\ lane[l].kind # "digest"
        /\ IF TriesAgain(lane[l].ds, failed)
             THEN /\ retries' = retries \cup
                        {[ds |-> lane[l].ds, failed |-> failed, wait |-> Delay(failed)]}
                  /\ SetLane(l, Idle)
             ELSE /\ SetLane(l, Recording(lane[l], "giveup"))
                  /\ UNCHANGED retries
        /\ UNCHANGED <<database, process, buf, windowAge, ord, prot, protRetry, deferred,
                       ticker, history>>

(* giveUp: what cannot be recorded joins the backlog of the tick. *)
GiveUp(l) ==
    /\ lane[l].pc = "giveup"
    /\ \E d \in lane[l].rest :
          /\ \/ /\ Put(d, SettledRow(d, d \in Protective))
                /\ UNCHANGED <<deferred, lost, faults>>
             \/ /\ faults < MaxFaults /\ faults' = faults + 1
                /\ Backlog(Deferring({d}, d \in Protective))
                /\ UNCHANGED <<row, age, last>>
          /\ SetLane(l, IF lane[l].rest = {d} THEN Idle ELSE [lane[l] EXCEPT !.rest = @ \ {d}])
    /\ UNCHANGED <<digestDone, digestWait, process, buf, windowAge, ord, prot, protRetry,
                   retries, ticker, told>>

(* A group that is too old is settled by the worker, once. *)
Aged ==
    /\ lane["ordinary"].pc = "aged"
    /\ \E d \in lane["ordinary"].rest :
          /\ \/ Put(d, SettledRow(d, FALSE)) /\ UNCHANGED <<lost, faults>>
             \/ /\ faults < MaxFaults /\ faults' = faults + 1
                /\ lost' = lost \cup {d}
                /\ UNCHANGED <<row, age, last>>
          /\ SetLane("ordinary", IF lane["ordinary"].rest = {d} THEN Idle
                                 ELSE [lane["ordinary"] EXCEPT !.rest = @ \ {d}])
    /\ UNCHANGED <<digestDone, digestWait, process, queues, ticker, told>>

-----------------------------------------------------------------------------
(* Stopping, crashing, and time *)

(* shutdown: nothing more is accepted; the buffer goes out past the slot limit. *)
Stop ==
    /\ run = "up" /\ tick = "idle"
    /\ run' = "stopping"
    /\ buf' = {} /\ windowAge' = 0
    /\ ord' = IF buf = {} THEN ord ELSE Append(ord, Job("group", buf, 0))
    /\ UNCHANGED <<database, held, prot, protRetry, retries, deferred, ticker, lane,
                   history>>

WorkersDone ==
    /\ ord = <<>> /\ prot = {} /\ protRetry = <<>>
    /\ \A l \in Lanes : lane[l].pc = "idle"

\* Mutant: the members a protective alert took along are forgotten.
DrainedAlert(ds) ==
    IF HasProtective(ds) THEN Deferring(ds \cap Protective, TRUE) ELSE Deferring(ds, FALSE)

Drained(ds) == Deferring(ds \cap Protective, TRUE) \cup Deferring(ds \ Protective, FALSE)

(* drainRetries: none is tried again. *)
Drain ==
    /\ run = "stopping" /\ tick = "idle" /\ WorkersDone
    /\ tick' = "drain"
    /\ todo' = UNION {Drained(r.ds) : r \in retries}
    /\ retries' = {}
    /\ UNCHANGED <<database, process, buf, windowAge, ord, prot, protRetry, deferred, digestBusy,
                   lane, history>>

DrainSettle(x) ==
    /\ tick = "drain"
    /\ x \in todo
    /\ todo' = todo \ {x}
    /\ \/ /\ Put(x.d, SettledRow(x.d, x.release))
          /\ UNCHANGED <<deferred, lost, faults>>
       \/ /\ faults < MaxFaults /\ faults' = faults + 1
          /\ Backlog({x})
          /\ UNCHANGED <<row, age, last>>
    /\ UNCHANGED <<digestDone, digestWait, process, buf, windowAge, ord, prot, protRetry,
                   retries, tick, digestBusy, lane, told>>

(* The deferrals, once. *)
LastDeferrals ==
    /\ tick = "drain" /\ todo = {}
    /\ tick' = "defer"
    /\ todo' = deferred
    /\ deferred' = {}
    /\ UNCHANGED <<database, process, buf, windowAge, ord, prot, protRetry, retries, digestBusy,
                   lane, history>>

MemoryGone ==
    /\ held' = {} /\ buf' = {} /\ windowAge' = 0
    /\ ord' = <<>> /\ prot' = {} /\ protRetry' = <<>>
    /\ retries' = {} /\ deferred' = {}
    /\ tick' = "idle" /\ todo' = {} /\ digestBusy' = FALSE
    /\ lane' = [l \in Lanes |-> Idle]
    /\ lost' = lost \cup {d \in Decisions : row[d] = "notify"}
    /\ UNCHANGED <<database, told>>

Exit ==
    /\ run = "stopping" /\ tick = "defer" /\ todo = {}
    /\ run' = "down"
    /\ MemoryGone
    /\ UNCHANGED faults

(* The process dies, while stopping or not, and is started again. *)
Crash ==
    /\ run # "down"
    /\ faults < MaxFaults /\ faults' = faults + 1
    /\ run' = "up"
    /\ MemoryGone

(***************************************************************************)
(* A unit of time passes, but not while someone has something to do that   *)
(* takes seconds: the tick (it comes every second), a caller with a        *)
(* decision in hand, a worker with a queue to take from or an outcome to   *)
(* record (bookkeepTimeout), a stop; nor past the timeouts of the composer *)
(* and of the deliverer.                                                   *)
(***************************************************************************)
Queue(l) == IF l = "ordinary" THEN ord # <<>> ELSE prot # {} \/ protRetry # <<>>

MayWait(l) ==
    CASE lane[l].pc = "idle" -> ~Queue(l)
      [] lane[l].pc = "compose" -> lane[l].elapsed < ComposeTime
      [] lane[l].pc = "send" -> lane[l].elapsed < SendTime
      [] OTHER -> FALSE

Advance ==
    /\ run # "stopping"
    /\ tick = "idle"
    /\ run = "up" => ~TickUrgent
    /\ held = {}
    /\ \A l \in Lanes : MayWait(l)
    /\ age' = [d \in Decisions |-> IF row[d] = "notify" THEN Smaller(age[d] + 1, AgeCap) ELSE 0]
    /\ windowAge' = IF buf = {} THEN 0 ELSE Smaller(windowAge + 1, Window)
    /\ digestWait' = IF digestWait = 0 THEN 0 ELSE digestWait - 1
    /\ digestDone' \in {digestDone, FALSE}      \* a new day may begin
    /\ retries' = {[r EXCEPT !.wait = IF @ = 0 THEN 0 ELSE @ - 1] : r \in retries}
    /\ lane' = [l \in Lanes |->
                   IF lane[l].pc = "idle" THEN lane[l] ELSE [lane[l] EXCEPT !.elapsed = @ + 1]]
    /\ UNCHANGED <<row, last, process, buf, ord, prot, protRetry, deferred, ticker, history>>

-----------------------------------------------------------------------------

Init ==
    /\ row = [d \in Decisions |-> "none"]
    /\ age = [d \in Decisions |-> 0]
    /\ last = [s \in Situations |-> Unsent]
    /\ digestDone = FALSE /\ digestWait = 0
    /\ run = "up" /\ held = {}
    /\ buf = {} /\ windowAge = 0
    /\ ord = <<>> /\ prot = {} /\ protRetry = <<>>
    /\ retries = {} /\ deferred = {}
    /\ tick = "idle" /\ todo = {} /\ digestBusy = FALSE
    /\ lane = [l \in Lanes |-> Idle]
    /\ told = [d \in Decisions |-> {}]
    /\ lost = {}
    /\ faults = 0

HandOver == \E d \in Decisions : Accept(d) \/ AcceptClosed(d)

Tick ==
    \/ TickGroup
    \/ \E r \in retries : TickRetry(r)
    \/ TickTakeDeferred
    \/ \E x \in todo : TickSettle(x)
    \/ TickDigest

Outcome(l) == Delivered(l) \/ NotDelivered(l) \/ Mark(l) \/ GiveUp(l)

OrdinaryWorker ==
    PopOrdinary \/ Compose \/ Outcome("ordinary") \/ DigestNotDelivered \/ CompleteDigest \/ Aged

ProtectiveWorker == PopProtective \/ Outcome("protective")

Shutdown == Drain \/ (\E x \in todo : DrainSettle(x)) \/ LastDeferrals \/ Exit

Next ==
    \/ \E d \in Decisions : Decide(d)
    \/ HandOver
    \/ Tick
    \/ OrdinaryWorker
    \/ ProtectiveWorker
    \/ Shutdown
    \/ Stop \/ Crash
    \/ Advance

Spec == Init /\ [][Next]_vars

(* The goroutines are scheduled and time passes; nothing obliges the owner's  *)
(* channel to work, a candidate to appear or the process to live.             *)
Fairness ==
    /\ WF_vars(HandOver)
    /\ WF_vars(Tick \/ Shutdown)       \* the goroutine of Run
    /\ WF_vars(OrdinaryWorker)
    /\ WF_vars(ProtectiveWorker)
    /\ WF_vars(Advance)

FairSpec == Spec /\ Fairness

-----------------------------------------------------------------------------
(* Properties *)

TypeOK ==
    /\ row \in [Decisions -> {"none", "notify", "digest", "told", "released"}]
    /\ age \in [Decisions -> 0..AgeCap]
    /\ last \in [Situations -> Levels]
    /\ digestDone \in BOOLEAN /\ digestWait \in 0..DigestRetry
    /\ run \in {"up", "stopping", "down"} 
    /\ held \subseteq Decisions /\ buf \subseteq Ordinary /\ windowAge \in 0..Window
    /\ ord \in Seq(Jobs) /\ prot \subseteq Decisions /\ protRetry \in Seq(Jobs)
    /\ retries \subseteq Retries /\ deferred \subseteq Deferrals
    /\ tick \in {"idle", "defer", "drain"}
    /\ todo \subseteq Deferrals /\ digestBusy \in BOOLEAN
    /\ lane \in [Lanes -> Workers]
    /\ told \in [Decisions -> SUBSET (Lanes \cup {"digest"})]
    /\ lost \subseteq Decisions /\ faults \in Nat

(* Where the memory of the process holds d as work to be done. *)
Places(d) ==
    {<<"held">> : x \in held \cap {d}}
      \cup {<<"buf">> : x \in buf \cap {d}}
      \cup {<<"prot">> : x \in prot \cap {d}}
      \cup {<<"ord", i>> : i \in {i \in DOMAIN ord : ord[i].kind # "digest" /\ d \in ord[i].ds}}
      \cup {<<"protRetry", i>> : i \in {i \in DOMAIN protRetry : d \in protRetry[i].ds}}
      \cup {<<"retry", r>> : r \in {r \in retries : d \in r.ds}}
      \cup {<<"deferred", x>> : x \in {x \in deferred : x.d = d}}
      \cup {<<"todo", x>> : x \in {x \in todo : x.d = d}}
      \cup {<<l>> : l \in {l \in Lanes : lane[l].pc # "idle" /\ lane[l].kind # "digest"
                                          /\ d \in lane[l].rest}}

(***************************************************************************)
(* A decision is in exactly one place: none is forgotten on its way from   *)
(* the buffer over the lanes, the retries and the backlog, and none is     *)
(* twice on its way to the owner.  What is dropped is counted.             *)
(* pkg/attention: acceptLocked, addProtectiveLocked, scheduleRetry, giveUp,*)
(* processDeferrals, drainRetries.                                         *)
(***************************************************************************)
Accounted ==
    \A d \in Decisions :
        /\ Cardinality(Places(d)) <= 1
        /\ row[d] = "notify" /\ d \notin lost /\ faults = 0 => Places(d) # {}

(***************************************************************************)
(* A row that says delivered is about a message the owner got: neither the *)
(* digest that closes a day nor a batch of MarkDelivered covers a decision *)
(* that was not in the message (CompleteDigest, delivered).                *)
(***************************************************************************)
Truthful == \A d \in Decisions : row[d] = "told" => told[d] # {}

(***************************************************************************)
(* The ordinary lane sends a message only while the reservations of all its*)
(* decisions hold, however long the message queued, was composed, was sent *)
(* and waited between its tries (tooOld, pastLease, the timeouts).         *)
(***************************************************************************)
LeaseKept ==
    lane["ordinary"].pc = "send" /\ lane["ordinary"].kind # "digest"
        => \A d \in lane["ordinary"].ds : age[d] < Lease

(***************************************************************************)
(* One situation, one message: unless the process died or could not write  *)
(* the rows, the ordinary lane takes a second one about it only if that is *)
(* more severe than the first, or than an earlier one of which the owner   *)
(* was told: that one, recorded last, lowers what a repeat is held to      *)
(* (gather, inFlight, markDeliveredTx).                                    *)
(***************************************************************************)
MoreSevere(e, d) == Situation[d] = Situation[e] /\ Severity[e] > Severity[d]

OneMessage ==
    faults = 0 =>
        \A d, e \in Ordinary :
            /\ d < e /\ Situation[d] = Situation[e]
            /\ "ordinary" \in told[d] /\ "ordinary" \in told[e]
            => \/ MoreSevere(e, d)
               \/ \E c \in Decisions : c < e /\ MoreSevere(e, c) /\ row[c] = "told"

(***************************************************************************)
(* A protective alert that was not delivered is given up only once a newer *)
(* one replaced it, its next try would come after its retry window, or the *)
(* outbox stops: not because a lease lapsed, a lane is full or slow, or a  *)
(* group it travels with cannot go on (scheduleRetry, giveUp).  The window *)
(* of retry.go is the message's: it counts from its oldest protective alert*)
(* (protectiveSince), so a message of several alerts ends for all of them  *)
(* together; of alerts on one situation a message has one, as the older    *)
(* gives way.                                                              *)
(***************************************************************************)
Replaced(p) == \E q \in Protective : p < q /\ Situation[p] = Situation[q] /\ row[q] # "none"

ProtectiveKept ==
    [][\A p \in Protective :
          row[p] = "notify" /\ row'[p] = "released" /\ told[p] = {} =>
              \/ run = "stopping" \/ Replaced(p)
              \/ age[p] + ProtectiveEvery > ProtectiveWindow]_vars

(***************************************************************************)
(* Every decision to tell the owner ends: told, queued for the digest,     *)
(* released, or counted as lost.  Decisions are finite in number, so it is *)
(* enough that again and again nothing is left pending.                    *)
(***************************************************************************)
Pending(d) == row[d] = "notify" /\ told[d] = {} /\ d \notin lost

Heard == []<>(\A d \in Decisions : ~Pending(d))
=============================================================================
