------------------------------- MODULE Journal -------------------------------
(***************************************************************************)
(* The durable workflow engine, pkg/journal: one workflow row with its     *)
(* step rows in SQLite, and the runners (engines, in one process or        *)
(* several) that claim it, replay it, run its steps, renew its lease, lose *)
(* it, crash and resume it.                                                *)
(*                                                                         *)
(* One workflow is enough: every statement of the store but the listings   *)
(* of due and prune names one id, and workflows share only the worker      *)
(* pool (not modelled here).                                               *)
(*                                                                         *)
(* Time.  A stored time is kept as its distance from the wall clock, so    *)
(* the clock itself is no variable and Tick moves every distance: lease is *)
(* lease_until_ms - now, wake is wake_at_ms - now, and so on, each with a  *)
(* floor below which no guard tells values apart.  A transaction uses a    *)
(* clock reading taken before it began; a (its age) is how long before.    *)
(***************************************************************************)
EXTENDS Integers, Sequences, FiniteSets

CONSTANTS
    Runners,          \* engines, each with its own runner id
    NoRunner,         \* the empty runner_id
    StepNames,        \* names a workflow function gives its steps
    Program,          \* Program[r]: the slots runner r's workflow function asks for
    MaxStepAttempts,  \* types.go: executions of one step, crash re-runs included
    MaxSteps,         \* journal records per workflow
    MaxBackoff,       \* longest wait before a retry
    Lease,            \* length of a lease
    Interval,         \* lease/3: renewal interval and timeout of a renewal
    Grace,            \* wait after a lease ran out before a takeover
    StoreTimeout,     \* bound on one transaction
    Retention,        \* how long a finished workflow is kept
    MaxFaults,        \* bound: crashes, stops, power cuts and failed transactions
    MaxStalls,        \* bound: times a process is suspended (scheduler, laptop lid)
    MaxJumps,         \* bound: times the wall clock steps back by one unit
    MaxClaims         \* bound: claims of one workflow (a slow store can cost every lease)

Sleep == "$sleep"
NowName == "$now"
Names == StepNames \cup {Sleep, NowName}

\* One call the workflow function makes: Step(name, Retries, Backoff), SleepUntil
\* or Now.  handles: the function goes on after the step's StepError instead of
\* returning it.  until: how far ahead the time given to SleepUntil is.
Slots == [name : Names, retries : 0 .. (MaxStepAttempts - 1), backoff : Nat,
          handles : BOOLEAN, until : Nat]

ASSUME RunnersAssumption == NoRunner \notin Runners
ASSUME NamesAssumption == Sleep \notin StepNames /\ NowName \notin StepNames
ASSUME ProgramAssumption == Program \in [Runners -> Seq(Slots)]
ASSUME LimitsAssumption ==
    /\ MaxStepAttempts \in 1 .. 10
    /\ MaxSteps \in Nat /\ MaxBackoff \in Nat
    /\ Lease \in Nat /\ Interval \in Nat /\ Grace \in Nat
    /\ StoreTimeout \in Nat /\ Retention \in Nat
    /\ MaxFaults \in Nat /\ MaxStalls \in Nat /\ MaxJumps \in Nat
    /\ MaxClaims \in Nat

VARIABLES
    db,       \* the workflows row, its workflow_steps rows and their times
    synced,   \* what a power cut leaves of db: the state of the last FULL commit
    run,      \* run[r]: the execution of the workflow by runner r (volatile)
    eng,      \* eng[r]: what the process of runner r is doing
    stalled,  \* runners whose process is suspended
    faults, stalls, jumps,   \* how much of each bound is spent
    calls     \* history: every call of a step function, by slot, name, attempt

vars == <<db, synced, run, eng, stalled, faults, stalls, jumps, calls>>

Terminal == {"succeeded", "failed", "cancelled"}
Statuses == {"absent", "pending", "running", "waiting"} \cup Terminal

WakeFloor == -(StoreTimeout + MaxJumps)
LeaseFloor == -(Grace + StoreTimeout + MaxJumps)

Absent == [status |-> "absent", runner |-> NoRunner, epoch |-> 0, cancel |-> FALSE,
           lease |-> LeaseFloor, wake |-> WakeFloor, stepWake |-> WakeFloor,
           fin |-> 0, rows |-> << >>]

IdleRun == [pc |-> "idle", epoch |-> 0, rows |-> << >>, seq |-> 0, retrying |-> FALSE,
            attempt |-> 0, result |-> "none", verdict |-> "none", lost |-> FALSE,
            leaseLeft |-> 0, age |-> 0, renewer |-> "off", timer |-> 0]

Init ==
    /\ db = Absent
    /\ synced = Absent
    /\ run = [r \in Runners |-> IdleRun]
    /\ eng = [r \in Runners |-> "up"]
    /\ stalled = {}
    /\ faults = 0 /\ stalls = 0 /\ jumps = 0
    /\ calls = {}

----------------------------------------------------------------------------
(* The store: transactions and the fence.                                  *)

\* Full commits at synchronous=FULL, Normal at NORMAL.
Normal(d) == db' = d /\ UNCHANGED synced
FullLazily(d) == Normal(d)                                       \* mutant
Full(d) == db' = d /\ synced' = d

FencedByLease(r, a) == db.status = "running" /\ db.lease + a > 0     \* mutant

\* First statement of every fenced transaction of runner r, with a clock
\* reading of age a.
Fenced(r, a) ==
    /\ db.status = "running"
    /\ db.runner = r
    /\ db.epoch = run[r].epoch
    /\ db.lease + a > 0

Ended(d, s) == [d EXCEPT !.status = s, !.runner = NoRunner, !.lease = LeaseFloor,
                         !.wake = WakeFloor, !.cancel = FALSE, !.fin = 0]

SuspendedUncancelled(d, w) ==                                    \* mutant
    [d EXCEPT !.status = "waiting", !.wake = w, !.runner = NoRunner, !.cancel = FALSE,
              !.lease = LeaseFloor]

Suspended(d, w) == [d EXCEPT !.status = "waiting", !.wake = w, !.runner = NoRunner,
                             !.lease = LeaseFloor]

EndRun(r) == run' = [run EXCEPT ![r] = IdleRun]
UnchangedEnv == UNCHANGED <<eng, stalled, faults, stalls, jumps>>
Awake(r) == r \notin stalled

----------------------------------------------------------------------------
(* Callers: Start, Cancel; the engine's housekeeping.                      *)

\* Start and StartWithID; on an id that exists StartWithID writes nothing.
StartWithID ==
    /\ db.status = "absent"
    /\ Full([Absent EXCEPT !.status = "pending"])
    /\ UNCHANGED <<run, calls>> /\ UnchangedEnv

Cancel ==
    /\ \/ /\ db.status \in {"pending", "waiting"}
          /\ Full(Ended(db, "cancelled"))
       \/ /\ db.status = "running" /\ ~db.cancel
          /\ Full([db EXCEPT !.cancel = TRUE])
    /\ UNCHANGED <<run, calls>> /\ UnchangedEnv

\* housekeeping of an engine; the same id can be started again afterwards.
Prune ==
    /\ \E r \in Runners : Awake(r) /\ eng[r] = "up"
    /\ db.status \in Terminal
    /\ db.fin > Retention
    /\ Normal(Absent)
    /\ calls' = {}
    /\ UNCHANGED run /\ UnchangedEnv

----------------------------------------------------------------------------
(* Claiming and loading.                                                   *)

Unheld(a) ==
    \/ db.status = "pending"
    \/ db.status = "waiting" /\ db.wake + a <= 0

ClaimableNoTakeover(a) == Unheld(a)                              \* mutant
ClaimableNoGrace(a) ==                                           \* mutant
    Unheld(a) \/ (db.status = "running" /\ db.lease + a <= 0)
ClaimableEnded(a) == Unheld(a) \/ db.status \in Terminal         \* mutant

Claimable(a) ==
    \/ Unheld(a)
    \/ db.status = "running" /\ db.lease + Grace + a <= 0

Claim(r) ==
    /\ Awake(r) /\ eng[r] = "up"
    /\ run[r].pc = "idle"               \* the in-flight mark: one run per engine
    /\ db.epoch < MaxClaims
    /\ \E a \in 0 .. StoreTimeout :
        /\ Claimable(a)
        /\ Normal([db EXCEPT !.status = "running", !.runner = r, !.epoch = @ + 1,
                             !.lease = Lease - a, !.wake = WakeFloor])
        /\ run' = [run EXCEPT ![r] = [IdleRun EXCEPT !.pc = "claimed",
                                        !.epoch = db.epoch + 1, !.leaseLeft = Lease - a]]
    /\ UNCHANGED calls /\ UnchangedEnv

\* The claimer reads the step rows, starts the renewer and calls the function.
Load(r) ==
    /\ Awake(r)
    /\ run[r].pc = "claimed"
    /\ IF db.status = "absent"
       THEN EndRun(r)
       ELSE run' = [run EXCEPT ![r] = [@ EXCEPT !.pc = "boundary", !.rows = db.rows,
                                          !.age = 0, !.renewer = "sleep", !.timer = Interval]]
    /\ UNCHANGED <<db, synced, calls>> /\ UnchangedEnv

----------------------------------------------------------------------------
(* The workflow function walks its slots.                                  *)

AtSlot(r) == Awake(r) /\ run[r].pc = "boundary" /\ run[r].seq < Len(Program[r])
SlotOf(r) == Program[r][run[r].seq + 1]
NeverJournaled(r) == FALSE                                       \* mutant
Journaled(r) == run[r].seq < Len(run[r].rows)
LocalRow(r) == run[r].rows[run[r].seq + 1]

RefusedByLength(r) == ~run[r].retrying /\ run[r].seq >= MaxSteps  \* mutant

\* nextSlot refuses: too many records, or the journal has another name here.  Now
\* refuses a time record that cannot be read.
Refused(r) ==
    /\ ~run[r].retrying
    /\ \/ run[r].seq >= MaxSteps
       \/ Journaled(r) /\ LocalRow(r).name # SlotOf(r).name
       \/ Journaled(r) /\ LocalRow(r).name = NowName /\ ~LocalRow(r).done

ReplayableSuccess(r) ==                                          \* mutant
    ~run[r].retrying /\ ~Refused(r) /\ Journaled(r) /\ LocalRow(r).out = "ok"
Replayable(r) == ~run[r].retrying /\ ~Refused(r) /\ Journaled(r) /\ LocalRow(r).done

FinishWith(r, v) ==
    run' = [run EXCEPT ![r] = [@ EXCEPT !.pc = "finish", !.verdict = v, !.result = "none",
                                        !.age = 0, !.renewer = "off", !.timer = 0]]

Interrupt(r) ==
    run' = [run EXCEPT ![r] = [@ EXCEPT !.pc = "interrupt", !.age = 0,
                                        !.renewer = "off", !.timer = 0]]

\* The next slot; an error the function does not handle ends it instead.
Advance(r, out) ==
    IF out = "err" /\ ~SlotOf(r).handles
    THEN FinishWith(r, "failed")
    ELSE run' = [run EXCEPT ![r] = [@ EXCEPT !.pc = "boundary", !.seq = run[r].seq + 1,
                                        !.retrying = FALSE, !.attempt = 0,
                                        !.result = "none", !.age = 0]]

NonDeterministic(r) ==
    /\ AtSlot(r) /\ Refused(r)
    /\ FinishWith(r, "failed")
    /\ UNCHANGED <<db, synced, calls>> /\ UnchangedEnv

Replay(r) ==
    /\ AtSlot(r) /\ Replayable(r)
    /\ Advance(r, LocalRow(r).out)
    /\ UNCHANGED <<db, synced, calls>> /\ UnchangedEnv

LeftoverIgnored(r) == FALSE                                      \* mutant
Leftover(r) == Len(run[r].rows) > run[r].seq

\* The function returns nil; rows it never asked for make that a failure.
ReturnNil(r) ==
    /\ Awake(r) /\ run[r].pc = "boundary" /\ run[r].seq >= Len(Program[r])
    /\ FinishWith(r, IF Leftover(r) THEN "failed" ELSE "succeeded")
    /\ UNCHANGED <<db, synced, calls>> /\ UnchangedEnv

NeedsRow(r) == AtSlot(r) /\ ~Refused(r) /\ ~Replayable(r)

\* pre: nothing new starts once the lease is lost or the engine is stopping.
HaltAtBoundary(r) ==
    /\ NeedsRow(r)
    /\ \/ run[r].lost /\ EndRun(r)
       \/ ~run[r].lost /\ eng[r] # "up"
          /\ Interrupt(r)
    /\ UNCHANGED <<db, synced, calls>> /\ UnchangedEnv

Ready(r) == NeedsRow(r) /\ ~run[r].lost /\ eng[r] = "up"
UserSlot(r) == SlotOf(r).name \in StepNames
HasRow(r) == run[r].retrying \/ Journaled(r)

BackingNever(r, a) == FALSE                                      \* mutant

\* A failed attempt loaded from the journal still waits out its backoff.
Backing(r, a) == ~run[r].retrying /\ Journaled(r) /\ db.stepWake + a > 0

StillBackingOff(r) ==
    /\ Ready(r) /\ UserSlot(r)
    /\ \E a \in 0 .. run[r].age :
        /\ Fenced(r, a) /\ Backing(r, a)
        /\ Full(Suspended(db, db.stepWake))
    /\ EndRun(r)
    /\ UNCHANGED calls /\ UnchangedEnv

CancelAtBoundary(r) ==
    /\ Ready(r) /\ SlotOf(r).name # NowName
    /\ db.cancel
    /\ \E a \in 0 .. run[r].age : Fenced(r, a) /\ ~(UserSlot(r) /\ Backing(r, a))
    /\ Full(Ended(db, "cancelled"))
    /\ EndRun(r)
    /\ UNCHANGED calls /\ UnchangedEnv

NewRow(n) == [name |-> n, attempts |-> 1, failures |-> 0, done |-> FALSE, out |-> "none"]

Call(r, n) ==
    /\ run' = [run EXCEPT ![r] = [@ EXCEPT !.pc = "running", !.attempt = n, !.age = 0]]
    /\ calls' = calls \cup {[seq |-> run[r].seq + 1, name |-> SlotOf(r).name, attempt |-> n]}

\* beginStep: journal "started" and only then call the function.
BeginFirst(r) ==
    /\ Ready(r) /\ UserSlot(r) /\ ~HasRow(r)
    /\ ~db.cancel
    /\ \E a \in 0 .. run[r].age : Fenced(r, a)
    /\ Full([db EXCEPT !.rows = Append(@, NewRow(SlotOf(r).name)), !.stepWake = WakeFloor])
    /\ Call(r, 1)
    /\ UnchangedEnv

GivenUpLate(n) == n > MaxStepAttempts                            \* mutant
GivenUpNever(n) == FALSE                                         \* mutant
GivenUp(n) == n >= MaxStepAttempts

BeginAgain(r) ==
    /\ Ready(r) /\ UserSlot(r) /\ HasRow(r)
    /\ ~db.cancel
    /\ \E a \in 0 .. run[r].age : Fenced(r, a) /\ ~Backing(r, a)
    /\ LET i == run[r].seq + 1
           n == db.rows[i].attempts IN
       \/ /\ ~GivenUp(n)
          /\ Full([db EXCEPT !.rows[i].attempts = n + 1, !.stepWake = WakeFloor])
          /\ Call(r, n + 1)
       \/ /\ GivenUp(n)                  \* started too often
          /\ Full(Ended(db, "failed"))
          /\ EndRun(r)
          /\ UNCHANGED calls
    /\ UnchangedEnv

----------------------------------------------------------------------------
(* The step function returns and its outcome is journaled.                 *)

\* "fatal" is an error the step's NonRetryable matches; "unstorable" an output over
\* 64 KB or not JSON.
Results == {"ok", "err", "fatal", "panic", "unstorable"}

Return(r) ==
    /\ Awake(r) /\ run[r].pc = "running"
    /\ \E res \in Results :
        run' = [run EXCEPT ![r] = [@ EXCEPT !.pc = "returned", !.result = res, !.age = 0]]
    /\ UNCHANGED <<db, synced, calls>> /\ UnchangedEnv

\* stepCtx is done: the lease is lost, or the shutdown wait is over.
CtxDone(r) == run[r].lost \/ eng[r] = "cancelled"

Interrupted(r) == run[r].result \in {"err", "fatal"} /\ CtxDone(r)

\* The error of an interrupted step says nothing about the step: not journaled.
StepInterrupted(r) ==
    /\ Awake(r) /\ run[r].pc = "returned" /\ Interrupted(r)
    /\ IF run[r].lost
       THEN EndRun(r)
       ELSE Interrupt(r)
    /\ UNCHANGED <<db, synced, calls>> /\ UnchangedEnv

Outcome(r) == Awake(r) /\ run[r].pc = "returned" /\ ~Interrupted(r)

Failures(r) == db.rows[run[r].seq + 1].failures + 1

CanRetry(r) ==
    /\ run[r].result = "err"
    /\ Failures(r) <= SlotOf(r).retries
    /\ run[r].attempt < MaxStepAttempts

Doubling == <<1, 2, 4, 8, 16, 32, 64, 128, 256, 512>>
BackoffFor(base, n) ==
    IF base * Doubling[n] > MaxBackoff THEN MaxBackoff ELSE base * Doubling[n]

RowDone(d, i, out) ==
    [d EXCEPT !.rows[i].done = TRUE, !.rows[i].out = out, !.stepWake = WakeFloor]

\* finishStep with an output or with the step's final error.
FinishStep(r) ==
    /\ Outcome(r)
    /\ run[r].result \in {"ok", "err", "fatal"}
    /\ \E a \in 0 .. run[r].age : Fenced(r, a)
    /\ ~CanRetry(r)
    /\ LET out == IF run[r].result = "ok" THEN "ok" ELSE "err" IN
        /\ Full(RowDone(db, run[r].seq + 1, out))
        /\ Advance(r, out)
    /\ UNCHANGED calls /\ UnchangedEnv

\* finishStep with failWorkflow: a panic, or an output that cannot be stored.
FailWorkflow(r) ==
    /\ Outcome(r)
    /\ run[r].result \in {"panic", "unstorable"}
    /\ \E a \in 0 .. run[r].age : Fenced(r, a)
    /\ Full(Ended(RowDone(db, run[r].seq + 1, "err"), "failed"))
    /\ EndRun(r)
    /\ UNCHANGED calls /\ UnchangedEnv

\* retryStep: count the failure and suspend until the backoff is over, or go round
\* the loop of runStep at once.
RetryStep(r) ==
    /\ Outcome(r)
    /\ \E a \in 0 .. run[r].age :
        /\ Fenced(r, a)
        /\ CanRetry(r)
        /\ LET delay == BackoffFor(SlotOf(r).backoff, Failures(r))
               failed == [db EXCEPT !.rows[run[r].seq + 1].failures = @ + 1,
                                    !.stepWake = delay - a] IN
           \/ /\ delay > 0
              /\ Full(Suspended(failed, delay - a))
              /\ EndRun(r)
           \/ /\ delay = 0
              /\ Full(failed)
              /\ run' = [run EXCEPT ![r] = [@ EXCEPT !.pc = "boundary", !.retrying = TRUE,
                                                      !.attempt = 0, !.result = "none",
                                                      !.age = 0]]
    /\ UNCHANGED calls /\ UnchangedEnv

----------------------------------------------------------------------------
(* $sleep and $now records.                                                *)

\* sleepStep: the wake time of a record from an earlier run wins over the argument.
SleepStep(r) ==
    /\ Ready(r) /\ SlotOf(r).name = Sleep
    /\ ~db.cancel
    /\ \E a \in 0 .. run[r].age :
        /\ Fenced(r, a)
        /\ LET i == run[r].seq + 1
               wake == IF HasRow(r) THEN db.stepWake ELSE SlotOf(r).until - a
               noted == IF HasRow(r) THEN db
                        ELSE [db EXCEPT !.rows = Append(@, NewRow(Sleep)), !.stepWake = wake] IN
           \/ /\ wake + a <= 0
              /\ Full(RowDone(noted, i, "ok"))
              /\ Advance(r, "ok")
           \/ /\ wake + a > 0
              /\ Full(Suspended(noted, wake))
              /\ EndRun(r)
    /\ UNCHANGED calls /\ UnchangedEnv

\* nowStep: one finished record; it does not read the cancel request.
NowStep(r) ==
    /\ Ready(r) /\ SlotOf(r).name = NowName /\ ~HasRow(r)
    /\ \E a \in 0 .. run[r].age : Fenced(r, a)
    /\ Full([db EXCEPT !.rows = Append(@, [NewRow(NowName) EXCEPT !.done = TRUE, !.out = "ok"])])
    /\ Advance(r, "ok")
    /\ UNCHANGED calls /\ UnchangedEnv

----------------------------------------------------------------------------
(* The end of a run.                                                       *)

\* A fenced transaction finds the workflow no longer this runner's.
FencedOut(r) ==
    /\ \/ Ready(r)
       \/ Outcome(r)
       \/ Awake(r) /\ run[r].pc = "finish"
    /\ \E a \in 0 .. run[r].age : ~Fenced(r, a)
    /\ EndRun(r)
    /\ UNCHANGED <<db, synced, calls>> /\ UnchangedEnv

Finalize(r) ==
    /\ Awake(r) /\ run[r].pc = "finish"
    /\ \E a \in 0 .. run[r].age : Fenced(r, a)
    /\ Full(Ended(db, run[r].verdict))
    /\ EndRun(r)
    /\ UNCHANGED calls /\ UnchangedEnv

\* release checks the owner, not the lease.
Release(r) ==
    /\ Awake(r) /\ run[r].pc = "interrupt"
    /\ IF db.status = "running" /\ db.runner = r /\ db.epoch = run[r].epoch
       THEN Normal([db EXCEPT !.status = "pending", !.runner = NoRunner, !.lease = LeaseFloor])
       ELSE UNCHANGED <<db, synced>>
    /\ EndRun(r)
    /\ UNCHANGED calls /\ UnchangedEnv

\* A read or a transaction of this run fails: the workflow stays claimed.
StoreFails(r) ==
    /\ Awake(r) /\ faults < MaxFaults
    /\ \/ run[r].pc = "claimed"
       \/ Ready(r)
       \/ Outcome(r)
       \/ run[r].pc \in {"finish", "interrupt"}
    /\ EndRun(r)
    /\ faults' = faults + 1
    /\ UNCHANGED <<db, synced, eng, stalled, stalls, jumps, calls>>

----------------------------------------------------------------------------
(* The lease renewer, a goroutine beside the function.                     *)

Renewer(r, f) == run' = [run EXCEPT ![r] = [@ EXCEPT !.renewer = f]]
LoseLease(r) == run' = [run EXCEPT ![r] = [@ EXCEPT !.lost = TRUE, !.renewer = "off", !.timer = 0]]

\* The interval is over: check the own clock against the last confirmed lease end
\* and start the renewal, which must end within another interval.
RenewWake(r) ==
    /\ Awake(r) /\ run[r].renewer = "sleep" /\ run[r].timer = 0
    /\ IF run[r].leaseLeft <= 0
       THEN LoseLease(r)
       ELSE run' = [run EXCEPT ![r] = [@ EXCEPT !.renewer = "renew", !.timer = Interval]]
    /\ UNCHANGED <<db, synced, calls>> /\ UnchangedEnv

\* renew, with the clock reading RenewWake took.  releasedByOwner answers no while
\* this run goes on: a run that gives the workflow up ends in the same step.
RenewTx(r) ==
    /\ Awake(r) /\ run[r].renewer = "renew"
    /\ LET a == Interval - run[r].timer IN
       \/ /\ Fenced(r, a)
          /\ Normal([db EXCEPT !.lease = Lease - a])
          /\ run' = [run EXCEPT ![r] = [@ EXCEPT !.renewer = "sleep", !.timer = Interval,
                                                  !.leaseLeft = Lease - a]]
       \/ /\ ~Fenced(r, a)
          /\ LoseLease(r)
          /\ UNCHANGED <<db, synced>>
    /\ UNCHANGED calls /\ UnchangedEnv

\* The renewal fails or times out.
RenewFails(r) ==
    /\ Awake(r) /\ run[r].renewer = "renew" /\ faults < MaxFaults
    /\ LoseLease(r)
    /\ faults' = faults + 1
    /\ UNCHANGED <<db, synced, eng, stalled, stalls, jumps, calls>>

----------------------------------------------------------------------------
(* Processes: clean stop, crash, restart, power cut, suspension.           *)

EngineTo(r, e) == eng' = [eng EXCEPT ![r] = e]

\* The context given to Run ends: no new step starts from now on.
Stop(r) ==
    /\ Awake(r) /\ eng[r] = "up" /\ faults < MaxFaults
    /\ EngineTo(r, "stopping")
    /\ faults' = faults + 1
    /\ UNCHANGED <<db, synced, run, stalled, stalls, jumps, calls>>

\* The shutdown wait is over: the contexts of running steps are cancelled.
CancelSteps(r) ==
    /\ Awake(r) /\ eng[r] = "stopping" /\ run[r].pc # "idle"
    /\ EngineTo(r, "cancelled")
    /\ UNCHANGED <<db, synced, run, stalled, faults, stalls, jumps, calls>>

\* Run returns and the process ends; a workflow still in a step stays claimed.
Exit(r) ==
    /\ Awake(r)
    /\ \/ eng[r] = "stopping" /\ run[r].pc = "idle"
       \/ eng[r] = "cancelled"
    /\ EngineTo(r, "down")
    /\ EndRun(r)
    /\ UNCHANGED <<db, synced, stalled, faults, stalls, jumps, calls>>

Crash(r) ==
    /\ eng[r] # "down" /\ faults < MaxFaults
    /\ EngineTo(r, "down")
    /\ EndRun(r)
    /\ stalled' = stalled \ {r}
    /\ faults' = faults + 1
    /\ UNCHANGED <<db, synced, stalls, jumps, calls>>

Restart(r) ==
    /\ eng[r] = "down"
    /\ EngineTo(r, "up")
    /\ UNCHANGED <<db, synced, run, stalled, faults, stalls, jumps, calls>>

\* Every process dies and what NORMAL committed since the last FULL commit is gone.
PowerCut ==
    /\ faults < MaxFaults
    /\ db' = synced /\ UNCHANGED synced
    /\ run' = [r \in Runners |-> IdleRun]
    /\ eng' = [r \in Runners |-> "down"]
    /\ stalled' = {}
    /\ faults' = faults + 1
    /\ UNCHANGED <<stalls, jumps, calls>>

Stall(r) ==
    /\ Awake(r) /\ run[r].pc # "idle" /\ stalls < MaxStalls
    /\ stalled' = stalled \cup {r}
    /\ stalls' = stalls + 1
    /\ UNCHANGED <<db, synced, run, eng, faults, jumps, calls>>

Resume(r) ==
    /\ r \in stalled
    /\ stalled' = stalled \ {r}
    /\ UNCHANGED <<db, synced, run, eng, faults, stalls, jumps, calls>>

----------------------------------------------------------------------------
(* Time.                                                                   *)

InStore(r) == run[r].pc \in {"claimed", "boundary", "returned", "finish", "interrupt"}

\* An awake process does not let a timer or the timeout of a transaction pass.
MayTick(r) ==
    Awake(r) => /\ run[r].renewer # "off" => run[r].timer > 0
                /\ InStore(r) => run[r].age < StoreTimeout

Down(x, floor) == IF x > floor THEN x - 1 ELSE floor
Later(d) == [d EXCEPT !.lease = Down(@, LeaseFloor), !.wake = Down(@, WakeFloor),
                      !.stepWake = Down(@, WakeFloor),
                      !.fin = IF d.status \in Terminal /\ @ <= Retention THEN @ + 1 ELSE @]

\* One unit of time; the timers of a suspended process stand still, the clock not.
Tick ==
    /\ \A r \in Runners : MayTick(r)
    /\ db' = Later(db) /\ synced' = Later(synced)
    /\ run' = [r \in Runners |->
                [run[r] EXCEPT !.leaseLeft = Down(@, -MaxJumps),
                               !.age = IF InStore(r) /\ @ < StoreTimeout THEN @ + 1 ELSE @,
                               !.timer = IF Awake(r) THEN Down(@, 0) ELSE @]]
    /\ UNCHANGED <<eng, stalled, faults, stalls, jumps, calls>>

Earlier(d) == [d EXCEPT !.lease = @ + 1, !.wake = @ + 1, !.stepWake = @ + 1,
                        !.fin = IF @ > 0 THEN @ - 1 ELSE 0]

\* The wall clock is set back.  Taken while no transaction holds an older reading.
JumpBack ==
    /\ jumps < MaxJumps
    /\ \A r \in Runners : run[r].age = 0 /\ run[r].renewer # "renew"
    /\ db' = Earlier(db) /\ synced' = Earlier(synced)
    /\ run' = [r \in Runners |-> [run[r] EXCEPT !.leaseLeft = IF run[r].pc = "idle" THEN @ ELSE @ + 1]]
    /\ jumps' = jumps + 1
    /\ UNCHANGED <<eng, stalled, faults, stalls, calls>>

----------------------------------------------------------------------------

Function(r) ==
    \/ Load(r) \/ NonDeterministic(r) \/ Replay(r) \/ ReturnNil(r) \/ HaltAtBoundary(r)
    \/ StillBackingOff(r) \/ CancelAtBoundary(r) \/ BeginFirst(r) \/ BeginAgain(r)
    \/ Return(r) \/ StepInterrupted(r) \/ FinishStep(r) \/ FailWorkflow(r) \/ RetryStep(r)
    \/ SleepStep(r) \/ NowStep(r) \/ FencedOut(r) \/ Finalize(r) \/ Release(r)

Renewal(r) == RenewWake(r) \/ RenewTx(r)
Shutdown(r) == CancelSteps(r) \/ Exit(r)

Next ==
    \/ StartWithID \/ Cancel \/ Prune
    \/ \E r \in Runners :
        \/ Claim(r) \/ Function(r) \/ StoreFails(r)
        \/ Renewal(r) \/ RenewFails(r)
        \/ Stop(r) \/ Shutdown(r) \/ Crash(r) \/ Restart(r) \/ Stall(r) \/ Resume(r)
    \/ PowerCut \/ Tick \/ JumpBack

Spec == Init /\ [][Next]_vars

\* Run claims what is due on every tick, workers and renewers are goroutines that
\* get to run, step functions return, time passes, a process that went down is
\* started again and a suspended one resumed.  No caller has to call anything.
Fairness ==
    /\ WF_vars(Tick)
    /\ \A r \in Runners :
        /\ WF_vars(Claim(r)) /\ WF_vars(Function(r)) /\ WF_vars(Renewal(r))
        /\ WF_vars(Shutdown(r)) /\ WF_vars(Restart(r)) /\ WF_vars(Resume(r))

FairSpec == Spec /\ Fairness

----------------------------------------------------------------------------
(* Types.                                                                  *)

Outs == {"none", "ok", "err"}
Rows == [name : Names, attempts : 1 .. MaxStepAttempts, failures : Nat, done : BOOLEAN, out : Outs]
Workflows == [status : Statuses, runner : Runners \cup {NoRunner}, epoch : Nat,
              cancel : BOOLEAN, lease : Int, wake : Int, stepWake : Int, fin : Nat,
              rows : Seq(Rows)]
Runs == [pc : {"idle", "claimed", "boundary", "running", "returned", "finish", "interrupt"},
         epoch : Nat, rows : Seq(Rows), seq : Nat, retrying : BOOLEAN, attempt : Nat,
         result : Results \cup {"none"}, verdict : {"none", "succeeded", "failed"},
         lost : BOOLEAN, leaseLeft : Int, age : Nat, renewer : {"off", "sleep", "renew"},
         timer : Nat]
Calls == [seq : Nat, name : Names, attempt : Nat]

TypeOK ==
    /\ db \in Workflows /\ synced \in Workflows
    /\ run \in [Runners -> Runs]
    /\ eng \in [Runners -> {"up", "stopping", "cancelled", "down"}]
    /\ stalled \subseteq Runners
    /\ faults \in Nat /\ stalls \in Nat /\ jumps \in Nat
    /\ calls \subseteq Calls

----------------------------------------------------------------------------
(* Safety.                                                                 *)

\* doc.go: the function "carries on for real at the first step that has no
\* output".  The journal is a log: whatever crashes, takeovers and lost leases
\* come between, no step is journaled after an unfinished one.
OneUnfinished ==
    \A d \in {db, synced} : \A i \in 1 .. Len(d.rows) - 1 : d.rows[i].done

\* doc.go: Step writes its row, committed, before the function runs.  Every call of
\* a step function, by any runner, is on the disk a power cut leaves, under its
\* name and with an attempt number at least its own.
WriteAhead ==
    \A c \in calls :
        /\ c.seq \in 1 .. Len(synced.rows)
        /\ synced.rows[c.seq].name = c.name
        /\ synced.rows[c.seq].attempts >= c.attempt

\* types.go: a step is never started more than MaxStepAttempts times, crash
\* re-runs and takeovers included.
BoundedAttempts ==
    \A c \in calls : Cardinality({d \in calls : d.seq = c.seq}) <= MaxStepAttempts

Begins(r) == run[r].pc = "boundary" /\ run'[r].pc = "running"

\* doc.go: attempt > 1 is how a step function knows that an earlier attempt may
\* have acted.  No two calls of a step get the same attempt number, so a call whose
\* predecessor was cut short always knows.
AttemptsNeverRepeat ==
    [][\A r \in Runners : Begins(r) =>
         [seq |-> run[r].seq + 1, name |-> SlotOf(r).name, attempt |-> run'[r].attempt]
            \notin calls]_vars

\* doc.go: "a step that completed is never run again".  No call starts for a slot
\* whose row is finished, and a finished row keeps its outcome as long as the
\* workflow exists.
CompletedStaysCompleted ==
    [][/\ \A r \in Runners : Begins(r) =>
            ~(run[r].seq < Len(db.rows) /\ db.rows[run[r].seq + 1].done)
       /\ (db.status # "absent" /\ db'.status # "absent") =>
            \A i \in 1 .. Len(db.rows) : db.rows[i].done =>
                i <= Len(db'.rows) /\ db'.rows[i] = db.rows[i]]_vars

\* engine.go, Cancel: the request is durable and is obeyed at the next step boundary.
\* Once it is recorded no step function is called, through suspension, takeover,
\* crash and power cut, and it is dropped only by the end of the workflow.
CancelObeyed ==
    [][(db.cancel \/ db.status = "cancelled") =>
        /\ calls' \subseteq calls
        /\ db'.cancel \/ db'.status \in Terminal \cup {"absent"}]_vars

\* types.go: no further work is done on a workflow in a terminal status; a runner
\* that still holds it changes neither its status nor its journal.
TerminalStays ==
    [][(db.status \in Terminal /\ db'.status # "absent") =>
        db'.status = db.status /\ db'.rows = db.rows]_vars

\* run.go, finalize: a workflow is recorded as succeeded only when every step that
\* some runner's function asks for, and no other, is journaled as finished, with an
\* output or with an error the function handles.
SuccessIsComplete ==
    db.status = "succeeded" => \E r \in Runners :
        /\ Len(db.rows) = Len(Program[r])
        /\ \A i \in 1 .. Len(db.rows) :
            /\ db.rows[i].name = Program[r][i].name
            /\ db.rows[i].done
            /\ db.rows[i].out = "ok" \/ Program[r][i].handles

\* doc.go: "a restart in the middle of either does not reset it and does not shorten
\* it".  A retry is not called, and a sleep is not finished, before its persisted
\* wake time, even when the clock was set back after the claim.
WaitsOut ==
    [][\A r \in Runners :
        (run[r].seq < Len(Program[r]) /\ run[r].pc = "boundary" /\ db.stepWake > 0) =>
            /\ Begins(r) => SlotOf(r).backoff = 0
            /\ ~(SlotOf(r).name = Sleep /\ run'[r].pc = "boundary" /\ run'[r].seq > run[r].seq
                   /\ ~Replayable(r))]_vars

Acting(r) == run[r].pc = "running" /\ ~CtxDone(r)

\* doc.go, Leases: the grace period gives a slow runner the time to notice.  Two step
\* functions run with live contexts only after a process was suspended, and then
\* one of the two outlived the lease it had last confirmed.
StepExclusive ==
    \A r, s \in Runners :
        r # s /\ Acting(r) /\ Acting(s) =>
            /\ stalls > 0
            /\ run[r].leaseLeft <= 0 \/ run[s].leaseLeft <= 0

----------------------------------------------------------------------------
(* Refinement.                                                             *)

\* The abstract workflow is what a power cut leaves: a claim, a renewal, a release
\* and a takeover are no steps of it.
LastOpen(d) == Len(d.rows) > 0 /\ ~d.rows[Len(d.rows)].done

StateOf(d) ==
    CASE d.status = "absent" -> "none"
      [] d.status \in Terminal -> d.status
      [] OTHER -> "active"
LogOf(d) ==
    [i \in 1 .. IF LastOpen(d) THEN Len(d.rows) - 1 ELSE Len(d.rows) |->
        [name |-> d.rows[i].name, out |-> d.rows[i].out]]
OpenOf(d) ==
    IF LastOpen(d)
    THEN [name |-> d.rows[Len(d.rows)].name, tries |-> d.rows[Len(d.rows)].attempts]
    ELSE [name |-> "none", tries |-> 0]

Durable == INSTANCE DurableWorkflow WITH
    MaxAttempts <- MaxStepAttempts, state <- StateOf(synced), asked <- synced.cancel,
    log <- LogOf(synced), open <- OpenOf(synced)

\* doc.go, Model: with every runner, crash, power cut and takeover the database that
\* survives behaves as one workflow with a growing journal, one step in progress and
\* one end.
ImplementsDurable == Durable!Spec

----------------------------------------------------------------------------
(* Liveness.                                                               *)

\* engine.go, Run: what is due is resumed "when it starts and then on every tick".  A
\* started workflow ends, whatever mixture of failures, crashes, backoffs,
\* takeovers and stops (bounded by MaxFaults, MaxStalls) it meets.
Finishes == db.status \in {"pending", "running", "waiting"} ~> db.status \in Terminal

=============================================================================
