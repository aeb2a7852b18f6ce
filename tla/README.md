# KhunQuant in TLA+

KhunQuant is a trading assistant: a gateway process in which an agent talks to the owner
over chat channels, proposes orders, and runs long-lived work (orders, purchase plans,
hedges) that survives restarts. This directory models the parts in which money depends
on the order of events: the durable workflow engine, the placement of an order against
an unreliable exchange, the life of an order proposal between the owner, the workflow,
the sweeper and `/stop`, the kill switch and the `/stop` sequence over any workflows,
and the outbox through which the owner hears of what happens.

| module | models | source |
|---|---|---|
| `Journal` | the workflow engine: runners, leases, fence, journal, crashes | `src/pkg/journal` |
| `DurableWorkflow` | what the engine promises of one workflow | `src/pkg/journal/doc.go` and the code behind it |
| `OrderPlacement` | `PlaceOrderIdempotent` against an exchange | `src/pkg/providers/broker` |
| `Approval` | a proposal, its workflow, the sweeper, `/stop` | `src/pkg/approval`, `src/pkg/control` |
| `KillSwitch` | the cached switch and the `/stop` sequence | `src/pkg/control` |
| `Outbox` | delivery of decisions: buffer, lanes, retries, digest | `src/pkg/attention` |
| `MCJournal`, `MCOrderPlacement`, `MCApproval`, `MCKillSwitch`, `MCOutbox` | the programs, venues, decisions and symmetry sets of the runs | |
| `JournalProofs`, `JournalStepProofs`, `OrderPlacementProofs`, `ApprovalProofs`, `ApprovalEndProofs`, `KillSwitchProofs`, `KillStopProofs`, `OutboxProofs` | theorems | |

`PROJECT.json` lists every component of the repository (the unmodelled ones with the
reason), every run, a mutant for each property of each passing run, the source lines of
each definition, the findings, the hazards and the theorems.

## 1. The system

Components that keep state of their own and decide something from it; the adapters,
prompts and renderers around them are in `PROJECT.json`.

**Workflow engine** (`journal`). State: `workflows` and `workflow_steps` rows in SQLite
(status, runner, epoch, lease, wake time, cancel flag; per step its name, attempts,
failures, output), and per runner a copy of the journal, a context, a renewal timer.
Operations: `StartWithID`, `Cancel`, claim, `Step`, `SleepUntil`, `Now`, renewal,
release, takeover, finalize, prune. Hard: a crash between a step's effect and its
record, two runners of one workflow, a slow store or a suspended process, two versions
of a workflow function, commits that a power cut takes back. Correct if no completed
step is run again, each rerun knows that it is one, a cancel is never lost, an ended
workflow never moves, and what was started ends.

**Order placement** (`providers/broker`). State: none of its own; it is one journaled
step whose attempt number and first start come from the engine, and the exchange's
books. Operations: look up by client order ID, or read open and then closed orders and
match; place; reconcile after an error. Hard: lost requests and answers, an order that
is accepted and not yet shown, an attempt that lost its workflow and is still in its
call, truncated listings, exchanges without client order IDs. Correct if one order at
most reaches the exchange and what the step records is true.

**Approvals** (`approval`). State: `proposals` rows (status, decision time, outcome,
notified) in the journal's database file. Operations: `Propose`, `Decide`, `ExpireDue`,
`startExecution`, the steps of `approval.order`, `Recover`, `CancelPending`. Calls the
engine (`StartWithID`, `Get`, `Steps`, `Cancel`), the policy gates, the broker; is
called by the agent's tools, by the dispatcher of chat commands, by the web console and
by `/stop`. Hard: every one of them races for one row; approval, start of the workflow
and the mark that it is executing are three transactions; the row's commits are not
durable and the workflow's are. Correct if nothing is placed without approval, each
proposal ends once, and the owner reads what happened.

**Kill control** (`control`). State: one row `control_state`, cached in memory by each
process; the summary of the `/stop` under way. Operations: `Engage`, `Clear`, `Killed`,
and the `/stop` sequence over turns, workflows, mandates, proposals and orders, with a
reply that may leave before its end. Hard: the sequence runs beside the workflows it
stops; a cached read may overwrite a fresh engage; calls fail and panic; a workflow is
in mid-step when the orders are looked for. Correct if the switch is seen within a known
time, no order that can still fill is passed over in silence, and the owner gets the
final summary once.

**Intent ledger** (`intent`). State: intents with status, version, fire counts, expiry;
written in transactions that expire others on the way. Operations: propose, activate,
fire, supersede, sweep. Hard: refused moves roll back expiries recorded in the same
transaction; fires are counted by several triggers. Correct if an intent fires no more
than its limit and never after its end.

**Attention** (`attention`). State: decision rows, each a reservation of its situation
for ten minutes, the state of the digest; in memory only, the group buffer, two lanes,
retries and a backlog. Operations: `Decide`, `Accept`, the tick (group, retries,
deferrals, digest), the two lanes' workers, shutdown. Hard: four goroutines move the
same decisions; send and record are two steps; retries, lanes and the lease of the
reservation run on three clocks; a protective alert takes ordinary decisions along.
Correct if a decision is in one place until it ends, ordinary messages are sent inside
their lease, protective alerts are kept until their window ends, and rows tell the
truth.

**Triggers and perception** (`triggers`, `perception`, `proactive`). State: trigger rows
with last-fired times and cool-downs, feed cursors, timers. Hard: fire and re-arm around
a crash, stale observations, two sweeps at once.

**Purchase plans and hedges** (`dca`, `deltaneutral`). State: plans, mandates, cycles,
the workflow's journal. They compose the engine and order placement: one purchase per
due time; two legs that open and unwind together. Hard: one leg of two, a mandate
revoked in mid-purchase, a missed window.

**Event bus, message bus, sessions, cron, loss tracker, pairing, pid file, configuration
reload**: bounded queues with overflow and close, append-only files with truncation, due
jobs that overlap, windows of loss; each self-contained.

### How the modelled parts interact

    owner --tap/reply--> Decide --StartWithID--> journal --runs--> approval.order
                           |                        |                 | place step
      sweeper: ExpireDue, Recover (start, settle, tell)               v
    /stop: Engage -> Cancel workflows -> CancelPending -> orders   PlaceOrderIdempotent -> exchange

Each module shows its neighbours by what the neighbour's own module establishes, not by
its internals:

- `Approval` has one runner of its workflow and records each step boundary durably:
  `Journal`'s `WriteAhead`, `AttemptsNeverRepeat`, `BoundedAttempts` and `Finishes` are
  what it relies on.
- `Approval`'s venue answers as `OrderPlacement` leaves it: a definite refusal says that
  no attempt placed the order (`NothingPlacedIsTrue`), anything else leaves it open.
- `OrderPlacement` sees attempt numbers that are never reused, a result recorded only by
  the holder of the workflow, and the times between attempts that `Journal`'s backoff,
  release and lease give.
- `KillSwitch` shows a workflow by what `FlowOrders` and the engine let `/stop` see of
  it: whether its place step has begun, how it ended, and that a cancel is obeyed at the
  next step boundary (`Journal`'s `CancelObeyed`). `Approval` has the switch's row and the
  memory that answers for it, and takes from `KillSwitch` when the two differ: when a
  read that began before `Engage` is stored after it (finding 4).
- `Outbox` stands alone: what the governor picks for a candidate is a free choice.

## 2. The models and the code

### Journal

One workflow with all its runners. `db` is its row and step rows, `synced` what a power
cut leaves (the last commit at `synchronous=FULL`), `run[r]` what runner `r` holds in
memory, `eng[r]` and `stalled` the state of its process, `calls` the history of
step-function calls. Times are distances from the wall clock, so the clock is no
variable and a stored time stays meaningful when the clock jumps (`JumpBack`). Each
transaction is one action guarded by the fence on runner, epoch and lease, with the age
of the clock reading it was given. `Claim` is the conditional UPDATE of the scan,
`BeginFirst`/`BeginAgain` the row written before a step function runs, `FinishStep`,
`RetryStep`, `FailWorkflow`, `SleepStep`, `NowStep` the ways a slot ends, `Replay` and
`NonDeterministic` the comparison of the journal with the function, `Finalize` and
`Release` the end of a run, `RenewTx` and `RenewFails` the lease, `Stop`, `CancelSteps`
and `Exit` the clean shutdown. A workflow function is data, `Program[r]`: the slots it
asks for. That is all the engine sees of it, and two versions of a binary are two
programs.

Decisions: a failed transaction (`StoreFails`) fails before its commit, because a commit
whose acknowledgement is lost and a crash just after the commit are the same to everyone
else. `Exit` stands for the halt of the renewals too. The worker pool is left out: it
delays a claimed workflow and writes nothing. `JumpBack` is taken with no transaction
under way, as a reading from before the jump is a reading of greater age.

### OrderPlacement

`pc[n]` is where attempt `n` is, `cut` the attempts whose context has ended and which
may still be in a call, `order[n]` what became of the request attempt `n` sent, `shown`
what the exchange's lookups return. `FirstAttempt`, `FetchByClientID`,
`FetchOpenOrders`, `FetchClosedOrders` and `Decide` are the ways to the place call,
`Send`, `Placed`, `CallFails`, `AfterPlaceError` the call and its errors; `Begin`,
`Cut`, `Crash` and `GiveUp` are the engine's part; `Arrive`, `Appear`, `Fill` are the
exchange's. The three adapters of the code are the three values of `Adapter`: a lookup
by client order ID, client order IDs without one, and neither (then orders are matched
by shape and the owner may have placed the same order by hand, `foreign`).

Decisions: `Settle` is `ReconcileSettleDelay`. `Backoff` is the shortest wait after a
failed attempt (the code doubles it). `Takeover` is the shortest time between an
attempt's end and the takeover of its lease: the lease is 30 s, renewed every third of
it, and a takeover waits one third more, so it is at least a third of the lease.
`Restart` is the time between a clean stop's release and the next claim, which nothing
bounds from below. `Gates`, `Flight` and `Show` bound the gates before the call, the
request's way and the time to show it: assumptions about the surroundings. A result the
store fails to record is `Crash`. The exchange may refuse a repeated client order ID and
need not.

### Approval

One proposal. `row` is its database row, `flow` the workflow (status, next step,
attempts, failures, what failed), `killed` the switch (`row`, what `control_state` says,
and `memory`, what `State.Killed` answers), `saved` the last durable commit of the three,
`pc` the processes: each call of `Decide` in progress (`Owners`), the
sweeper, the workflow's goroutine, the proposing turn, `/stop`. Every conditional UPDATE
is one action whose status is tested again; what a process read before is in its place
and in `saw`. `Start`/`MarkExecuting`/`StartFails` are `startExecution`; `ExpireDue`,
`StartLost`, `SettleEnded`, `Renotify` the parts of a sweep; `Recheck`, `Throttle`,
`Place`... the steps with the error each leaves in the journal; `Engage`, `ReadFlow`,
`CancelFlow`, `CancelPending`, `TooLate`, `Withdraw` the part of `/stop` that concerns a
proposal. `MayExist` is `describeFailure` and `NoOrder` is `FlowOrders`: both judge from
the journal alone whether an order may exist, and each in its own way.

Decisions: the record step is merged with verify (neither changes anything here); a
failed message is tried again by the next sweep; the sweeper's parts are taken in any
order; the card's delivery is one step (`NotDelivered` never happens to a card that was
delivered); a process runs in one trading mode (`paper`). Of the cached switch, whose
reads `KillSwitch` takes apart, two things matter here: a read that began before `Engage`
may store its "off" after it (`Outdated`, once `/stop` has engaged the switch and as often
as one likes), and a later read puts the memory right (`Reread`), both where somebody is
about to ask (`Asking`). What `/stop`
promises is stated with that (`Answerable`): of a workflow it had listed without any
condition on the switch; of one that began later only as long as the switch stayed engaged
and no older reading was stored over it. The rest is finding 4, not a promise.

### KillSwitch

`row` is the row of `control_state`, `killed`, `degraded` and `checked` the memory of
the process, `call[c]` where each caller of the switch stands: an executor (one for each
workflow), the goroutine of `/stop`, a second `/stop` that finds one running (`busy`)
and `/resume`. `Killed` claims the refresh under the lock; `ReadRow` and `Store` are the
two halves of `read`, with the lock released in between; `Write` is the UPDATE of
`Engage` and `Clear`, `ReadFails` fails closed; `OtherProcess` changes the row alone.
Time is relative: `checked` and `offAgo` (how long ago the row was last off) count up to
caps that no property looks beyond, `elapsed` is kept within `stateTimeout`.

`flow[f]` is a workflow of one of three kinds: `plain` (an approved order, a purchase),
`hedge` (must not be cut once it has begun to place) and `exit` (only reduces risk, and
is protected). Its `place` is what its journal says of its place step, `order` what
became of its order. `stop` is `stopRun`: `List`, `Classify`, `Cancel` are
`cancelFlows`, `Settle`/`Settled` the two waits, `Scan`, `Examine`, `Lookup`, `Withdraw`
are `scanOrders` and `handleOrder`, `Examined` the second pass over the workflows that
have left their step since, `Finish` and `Detach` the reply. Each may fail where the
code calls out, and panic where `guard` recovers.

Decisions: `Settles` and `Described` are `FlowOrders` of the packages that have one
(`approval`, `dca`, `deltaneutral`). Turns, mandates and the proposals' own step are
left out: they touch nothing that the properties see, and one that fails only adds a
line. `OrdersAccounted` speaks of workflows that existed when `/stop` listed them
(`known`); for the others see finding 4. It excepts a hedge whose outcome is unknown
(`dn.recover` reads the exchange for it) and a hedge cut in its place step, which takes
a cancel that raced with a switch not yet seen. The lookup budget starts anywhere up to
`MaxOrders`, as other orders may have used some of it.

### Outbox

`row[d]` is the decision row (`notify`: decided and in flight; `told`, `digest`,
`released`), `age[d]` the age of its reservation. The memory of the process is `held`
(decided, and the caller has not handed it over), `buf`, the lanes `ord`, `prot` and
`protRetry`, `retries`, `deferred`, the tick's `todo`, and `lane`, what each worker is
doing. `Decide` is the governor's transaction as far as the outbox depends on it (rules
3 and 3b); `Accept` is `acceptLocked` with `addProtectiveLocked` (`Superseded`),
`TickGroup` to `TickDigest` the parts of `tick`
in their order, `PopOrdinary`, `PopProtective`, `Delivered`, `NotDelivered`, `Mark`,
`GiveUp`, `Aged`, `CompleteDigest` the workers, `Stop` to `Exit` `shutdown`. Parts that
only touch memory under the lock are one step; every database call and every call of the
deliverer is a step of its own, and may fail.

`Repeats` is what `gather` finds of the situation, with the severity tests of its three
queries: the severity last told (`last`, of `attention_state`), a decision in flight and
one queued for the digest each hold back only what is no more severe. `Put` records a
delivery and with it that severity, whatever was told in between; `Mark` takes the
decisions of a message most severe first, as `ranksBefore` has sorted them.

Decisions: decisions are numbered as they are decided, and any of them may not come. A
unit of time is about a minute and a half, and it does not pass while
someone has something to do that takes seconds. A repeat that the governor drops leaves
no trace. Which of `notify` and `digest` the governor picks, and whether a group is
composed, are free choices, and so is the order in which a digest's items on one situation
are recorded. The deduplication window outlasts the model's clock. `lost` marks what the
code counts as dropped.

## 3. The runs

| run | bounds | shows |
|---|---|---|
| `journal_crash` | fair, 1 runner, time record + sleep + step with a backed-off retry, 2 attempts, 2 faults, 1 suspension, 1 clock jump | write-ahead log, completed steps final, cap on attempts, no wait cut short; every workflow ends |
| `journal_versions` | 2 runners of one version, 1 of another, 2 claims, 1 fault | no step under another one's row, cancel never lost, an end is an end, refinement of `DurableWorkflow` |
| `journal_lease` | 2 runners in real time, lease 3, grace 1, store timeout 1, 1 suspension | steps overlap only after a suspension outlived a lease; no attempt number twice; no success from half a journal |
| `order_venues` | fair, 3 kinds of adapter on spot and futures, 3 attempts, an order of the owner's | one order at most, true refusals, no stray order, retries outlast the settle delay; the step ends |
| `order_restart` | lookup by ID, resumed one unit after a clean stop | violated: finding 1 |
| `approval_races` | 2 decisions, 1 retry, `/stop` and a switch whose memory may fall behind, panics | the order of approval, placement and report; `/stop` accounts and holds; ends are final |
| `approval_recovery` | fair, 1 decision, 2 crashes or power cuts, panics, unbuildable providers | failures are told truthfully; every proposal ends and is told |
| `approval_panic` | 1 decision, panics | violated: finding 2 |
| `approval_mode` | 1 crash, the new process may be in the other mode | violated: finding 3 |
| `outbox_lanes` | fair, 2 margin alerts and 2 funding decisions of equal severity, 1 fault, all queues at 1 or 2 | each decision in one place, true rows, sends inside the lease, one message, protective alerts kept; every decision ends |
| `kill_stop` | 1 workflow of any kind, 1 failed or panicking call, 1 outside call | the switch seen in time, orders accounted for, one final summary |
| `kill_refuses` | 2 workflows, nothing fails, no outside call | violated: finding 4 |

Why the bounds are enough to meet the cases. Two runners, or three where two versions
meet, are what a takeover race needs, and `MaxClaims` bounds only how often the workflow
changes hands. Three faults let a crash meet a recovery and then a power cut. Two
attempts show a retry; three are what finding 1 needs, because the settle delay is right
for the second. The times are small units. They keep what the code's keep (`Interval <
Lease`, `Interval <= Grace`) and are else an instance: with 15 s for a transaction and a
renewal every 10 s, for one, the code's store timeout is longer than its interval, and
in `journal_lease` the two are equal; `StepsExclude` is for any timeout. Where a slow
store could cost every lease for ever, `journal_crash` has `StoreTimeout = 0`, since no fairness
excludes it. Two decisions and the sweeper are the three competitors for a pending row.
`Window = 1` with a clock up to `2 * Window` separates in time, expired, approval good
and approval stale. Symmetry is used only over runners of one version and over
decisions, in runs without liveness. `CHECK_DEADLOCK FALSE` is set in `Approval`'s runs:
with a clock that stops at the horizon a finished proposal has nothing left to do, nor
has one nobody decides on when the sweeper has expired it. It is set in `KillSwitch`'s
runs because a call that has reached its timeout and may not fail any more (`MaxFaults`)
stops the clock, and because workflows and `/stop` end.

In `outbox_lanes` two decisions on each of two situations, in turn, meet in the group
buffer, on both lanes and in the digest; `MaxQueueAge + ComposeTime + SendTime < Lease`
is met with one unit to spare, as in the code, so that an off-by-one shows, and a
delivery of two units lets a group on the lane behind it grow too old. Queue bounds of
one and two make the retries and the backlog fill up. After the one short delay an alert
is tried at its steady interval (`ProtectiveEvery`), the last time when its own lease is
over. The lane being full (`LaneFull`, 256 slots in the code) meets a digest, but never a
group, in four decisions; that a group then goes to the backlog is covered by the types
and theorems only. The two funding decisions are equally severe, the boundary at which a
repeat is still held back; that a more severe one passes, and what `OneMessage` says of it,
is covered by `SentOnce` for every assignment of severities. `kill_stop` has one
workflow, because the switch with three other callers and the sequence with failures
multiply; what it cannot show, workflows that share a pass and a budget, is shown for
any number of them by the proof of `OrdersAccounted`, and `kill_refuses` has two. One
failure at any call is enough to separate the steps; a second `/stop`, a `/resume` and
another process are the three callers from outside.

Fairness. `Journal`: `Run` scans on a ticker, workers and renewers are goroutines, a
service manager restarts the process, a suspended machine wakes, the clock runs. No
caller is obliged to call. `OrderPlacement`: the engine runs a due workflow, adapter
calls have timeouts, the exchange delivers or loses what was sent, in bounded time.
Nobody has to crash, cut or stop. `Approval`: the sweeper's ticker and the workers run
(weak fairness), time passes, and strong fairness says that a message, a start and the
mark that follows it do not fail every time they are tried; `Recover` tries them on each
sweep, and for the message it stops after `renotifyWindow` (24 h), which the model takes
as long enough. Nothing obliges the owner, the turn or `/stop`. `Outbox`: the caller
hands over what it decided, tick and workers are goroutines, time passes; no channel has
to work, no process to live. `KillSwitch` states none: its properties are safety
properties.

## 4. Findings

1. `order_restart` (`AtMostOneOrder`): the settle delay counts from the first attempt,
   so a third attempt that follows a clean restart at once does not wait for the second
   one's order to appear and places another.
2. `approval_panic` (`FailureAlwaysTruthful`): when a step after the placement panics,
   `describeFailure` looks only at the failed step and the owner reads that nothing was
   placed.
3. `approval_mode` (`ModeHolds`): the trading mode is compared with the card only in the
   recheck step, whose result is replayed after a restart in the other mode.

4. `kill_refuses` (`RefusesFromHere`): a read of the switch that began before `/stop`
   stores its "off" after `Engage` has read the row back. Until the next refresh
   `Killed` answers "off" from memory, and a workflow that begins after `/stop` listed
   the workflows places its order.

More divergences have no run of their own. An attempt after the first whose provider
cannot be built (`stepPlace`, before `PlaceOrderIdempotent`) is tagged as not placed
whatever the first attempt sent, against `execute.go:188-190`; `FailureIsTruthful`
excepts it by name (`Misjudged`), and `FailureAlwaysTruthful` with `Events = {"no
provider"}` and `Retries = 1` fails in it. `FlowOrders` takes a place step that panicked
for one that placed nothing; `StopAccounts` excepts it. The summary says that the switch
is engaged when its write failed and the read that follows failed too, because `Killed`
fails closed (`kill.go:277`). A caller that finds a refresh claimed answers from memory
of any age, which is why `SeenInTime` speaks of moments with no refresh under way. An
ordinary decision that a protective alert took along is retried with the alert past its
own lease, and its situation may be decided and told again; `OneMessage` therefore
speaks of the ordinary lane. `rules.go:164-165` says of a repeat that is held back that
the owner "was already told about this situation at this tier or higher". A message with a
notice and a warning on one situation is recorded warning first (`outbox.go:419`,
`467-478`), and each record overwrites the severity (`governor.go:517-520`): the notice's
stays, and a second warning passes although the owner has read the first. That is the
second disjunct of `OneMessage`, without which three decisions on one situation with
severities 1, 2, 2 refute it.

## 5. The proofs

TLAPS checks them with Z3, Zenon and LS4, from the named assumptions on constants only.
Each follows one pattern: an inductive invariant, a lemma for each action, a theorem by
temporal logic.

**`JournalProofs`** and **`JournalStepProofs`**, for any runners and programs. None of
the properties is inductive: a runner acts on its own copy of the journal, and `synced`
may lag behind `db`. The invariant is

    IInv == TypeOK /\ Sound(db, calls) /\ Sound(synced, calls) /\ \A r : Good(r, db, run[r])

`Sound(d, calls)` says that journal `d` has at most its last row unfinished and that
every call is under a row of it with its name and at least its attempt number. `Good`
says what a runner knows of the journal as long as the fence would let it write: between
two steps the journal is its snapshot or, beyond that, exactly the steps it has
completed; within a step the last row is that step's, unfinished, with its attempt
number. On top of it:

- `RowsSynced` says that a power cut takes no row away, which `CompletedIsFinal` needs,
  and `CallsBounded` that the attempts are within the cap, which with their distinctness
  bounds the cardinality. Theorems: `TypeCorrect`, `JournalIsALog` (`OneUnfinished`),
  `CallsAreJournaled` (`WriteAhead`), `AttemptsAreFresh` (`AttemptsNeverRepeat`),
  `CompletedIsFinal` (`CompletedStaysCompleted`), `AttemptsAreBounded`
  (`BoundedAttempts`).
- `JInv` says that a finished row has an outcome and only a workflow that goes on can
  have a cancel (`Tidy`), that the journal a power cut leaves says what the live one says
  (`Tied`), that the owner has passed only rows of its own program, finished in a way
  that lets it go on, and all of them when it is about to report success (`Walked`), and
  that a journal which says succeeded is the whole of some program (`Succeeded`).
  `StepKinds` sorts every step by what it does to the row, so that `EndIsFinal`
  (`TerminalStays`) and `CancelIsObeyed` (`CancelObeyed`) are read off one case
  distinction. `SuccessCoversAll` proves `SuccessIsComplete`.
- `DurableIsImplemented` is the refinement: from `JInv`, every initial state of `Journal`
  maps to one of `DurableWorkflow`, every commit that reaches the disk to one of its
  steps, and every other step (a claim, a renewal, a takeover, an unsynced commit) to a
  stutter. It is for any runners and programs and covers safety; `Spec` of both sides is
  without fairness.
- `StepsExclude` (`StepExclusive`) is about real time and assumes

      Margins == Interval < Lease /\ Interval <= Grace /\ MaxJumps <= Grace

  The first two hold in the code (`engine.go` renews every third of the lease and makes
  the grace at least a third of it); the third says that the clock is set back by no
  more than the grace in all, which is what the grace is for. `XInv` says that a
  runner's own view of its lease never outlasts the lease in the row, that one which
  lost the workflow has seen its lease run out but for what the clock may still be set
  back (`Lapsing`), and that with no suspension so far a runner in a step owns the
  workflow under a lease that lasts until its renewal in progress ends (`Holding`).
  The grace is what makes `Lapsing` survive a takeover.
- `WaitsAreKept` (`WaitsOut`) assumes `MaxBackoff > 0` (an hour in the code; with a cap
  of zero a retry has nothing to wait for). `WInv` says that a wake time is left behind
  only by the unfinished last step (`Settled`, of `db` and of `synced`; otherwise it is
  over, but for what the clock was set back), and that a runner goes round a retry
  without suspending only when its backoff is zero (`AtOnce`).

**`OrderPlacementProofs`**, for any number of attempts and any times. `Typed` (`TypeOK`)
has no condition; it needs that a request on the wire has at most `Flight` left and that
nothing began before the first attempt (`Timed`). `AtMostOneOrder` is not true without a
condition, which finding 1 shows, so three theorems assume

    Safe == Patient \/ ~PlacesAgain

either the next attempt begins later than the exchange can show what the last one sent
(`Patient`: `Flight + Show` is less than `Backoff`, `Restart` and `Takeover`), or the
adapter never places on a retry. The invariant adds to the types that older attempts
hold nothing (`Overtaken`), later ones have done nothing (`Unbegun`), requests are
within their time (`InTime`), an attempt about to send knows that nothing is at large
(`Clean`) and what it saw in the first listing still exists (`Listed`). Theorems:
`PlacedAtMostOnce`, `RefusalIsFinal` (`NothingPlacedIsTrue`), `NothingIsLeftBehind`
(`NoStrayOrder`, with client order IDs). `RetriesSuffice` (`RetriesOutlastSettle`)
assumes instead what every caller in the repository declares,

    PatientRetries == Retries > 0 /\ Backoff >= Settle

and its invariant `RInv` says that once a failure was counted, and its retry has begun,
the settle delay has passed since the first attempt (`SettledFirst`): then no attempt
ends as "not yet settled" any more, unless interruptions have used up the cap.

**`ApprovalProofs`**, for any number of decisions, window, retries, crashes.
`ApprovedFirst` is not inductive: the order goes out long after the row was read, and a
power cut replaces the row. `Agreement` says that a workflow exists only over an
approved row, in the database and separately in `saved`; that a step runs only when
`saved` has the workflow; and that where a process is about to start a workflow the row
is past approval. `StepKeeps` reduces each action to what it writes; only the restart is
apart. Theorems: `TypeCorrect`, `ApprovalComesFirst` (`ApprovedFirst`),
`FinalNeverChanges` (`FinalStays`).

**`ApprovalEndProofs`** is about what the row, the owner and `/stop` say of the order.
The journal is where all three read it, each in its own way, so the invariant `EInv`
says what the journal's failed step, next step and attempts tell of `sent`, in the
running process and in `saved`; which ends of the row belong to which ends of the
workflow; and what `/stop` has read of the workflow at each of its places. Theorems:
`ToldOnlyIfPlaced` (`ExecutedWasPlaced`), `StopKeepsHolding` (`StopHolds`, of the workflows `Answerable` speaks of), and

    SameMode == "new mode" \notin Events

for `NothingPlacedIsSo` (`FailureIsTruthful`) and `StopAnswers` (`StopAccounts`): no
restart changes the trading mode. Without `SameMode` both are false, from the cause
of finding 3: a place step that is repeated after a restart in the other mode looks for
its order at the other venue, does not find it, and may record that nothing was placed.
Restarts in the same mode, crashes and power cuts are within the theorems.

**`KillSwitchProofs`**, for any workflows, refresh interval and timeout. `SeenInTime` is
nearly inductive; it lacks that a row that is off was last off just now (`OffNow`) and
that `/stop` has no call before it starts (`NotStarted`). The hard steps are `Store` (an
answer is no older than its read) and `Advance` (all ages grow together). `FinalOnce`
needs how far the reply and the second message can be at each place of the sequence
(`Handed`). Theorems: `Types` (`TypeOK`), `Seen` (`SeenInTime`), `SummaryOnce`
(`FinalOnce`).

**`KillStopProofs`**, for any workflows, budget and failures. `OrdersAccounted` speaks
of the end only. The invariant says of each known workflow how far the sequence has come
with it: past `cancelFlows` it will not begin to place (`Quiet`), past `scanOrders` its
order is named or cannot fill (`SeenTo`), and until then it is among what is still to be
looked at (`Open`, `Late`). `Covers` ties these to the place of the sequence, unless a
step is named as failed. `Shape` relates a workflow's place to its journal and its
order. A step of a workflow keeps `Quiet` and `SeenTo` (`WorksKeepStop`); a step of the
sequence moves one workflow from one set to the next. Theorem: `NothingPassedOver`
(`OrdersAccounted`).

**`OutboxProofs`**, for any decisions, bounds and times that satisfy the assumptions.
`InsideLease` needs what the ages are when a message leaves the queue and how long its
worker has taken since: an ordinary message is at most `MaxQueueAge` old when its lane
takes it, and composing and sending end at their timeouts, which with `LeaseAssumption`
is less than `Lease`. `RowsTruthful` needs that what a worker records was told.
`EachInOnePlace` (`Accounted`) and `SentOnce` (`OneMessage`) rest on `KInv`: the places
a decision can be in are pairwise apart (`Apart`) and hold only what is on record
(`OnRecord`); a worker's remaining work is part of its message (`Whole`); a decision in
flight that was not dropped is somewhere, while nothing has failed (`Found`); of two
ordinary decisions on a situation that are in flight or were sent on the ordinary lane,
the later one was let pass (`Single`): it is more severe than the other, or than an
earlier one that was told (`Passes`); and a situation's last severity is that of a
decision told of it, once any was (`Lasting`). Theorems: `Types` (`TypeOK`), `InsideLease` (`LeaseKept`),
`RowsTruthful` (`Truthful`), `EachInOnePlace`, `SentOnce`.

Only model-checked. `ProtectiveKept`: the retry window of a message counts from its
oldest protective alert, protective retries have a cap, and the row is released steps
after the message was given up, when what the message held is forgotten; as it stands
the property is true of alerts on one situation within the cap, which is the instance,
and not of all constants. Liveness under fairness (`Finishes`, `Concludes`,
`ProposalEnds`, `Heard`), anything about ENABLED, and induction over data are out of the
prover's reach and stay with TLC. No module here has a RECURSIVE operator.

## 6. Not modelled

The reason is beside each component in `PROJECT.json`. In short: adapters, prompts,
rendering and transport (I/O with external services); indicators, sizing and the world
model (floating-point); parsing and migration (pure functions of text). Inside the
modelled components: the worker pool, `Wait` and the listings of the engine; the
tolerances of the shape match and the format of client order IDs; limits on pending
proposals, mandates, memory and reflection proposals, card editing, plan-closed
cancellation and pruning of proposals; turns, queues and mandates in `/stop`; the
governor's budgets, quiet hours, mutes and scores, and panics outside the deliverer, in
the outbox.

## 7. Plan

Done: `Journal` with `DurableWorkflow`, `OrderPlacement`, `Approval`, `KillSwitch`,
`Outbox`, each with its runs and theorems.

Next, in this order:

1. `IntentLedger`: transactions with expiries, fire accounting; abstract specification:
   an intent fires at most its limit.
2. `WorkerPool`: scan, queue, workers and shutdown of the engine; deadlock and liveness
   of shutdown.
3. `PurchasePlan` (DCA) and `Hedge` (delta neutral), which compose `DurableWorkflow` and
   the promise of `OrderPlacement`: one purchase per due time, both legs or an unwind.
4. The governor's budgets and the hand-off of its digest across restarts, over `Outbox`.
5. `EventBus`, `Cron`, `LossTracker`, `Triggers`, and the policy rules as operators
   against a reference definition.

Runs are kept few: each new module makes room by dropping a run whose question a theorem
answers for every instance.

Proofs to come: the theorems of the new modules; `ProtectiveKept` stated of a message
rather than of its rows, which would hold for all constants. Every safety invariant and
every other action property that the runs check is proved.
