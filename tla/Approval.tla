------------------------------- MODULE Approval -------------------------------
(***************************************************************************)
(* One order proposal, from the card to the message that says how it ended *)
(* (pkg/approval), with the kill switch's /stop running beside it          *)
(* (pkg/control) and the approval.order workflow run by the journal.       *)
(*                                                                         *)
(* The row and the workflow live in one database file.  Every change of    *)
(* the row is one conditional UPDATE at synchronous=NORMAL; the records of *)
(* a running workflow are written at FULL, which makes all that precedes   *)
(* them durable too.  The journal appears as module Journal shows it, with *)
(* one runner, and the venue as module OrderPlacement leaves it: a      *)
(* definite refusal says that no attempt placed the order.                 *)
(*                                                                         *)
(* now is the time since the card was made; it stops when nothing can tell *)
(* later times apart.                                                      *)
(***************************************************************************)
EXTENDS Integers, FiniteSets

CONSTANTS
    Modes,            \* what a card may say: "live", "paper"
    Owners,           \* calls of Decide in progress at once: taps, replies, the web
    Window,           \* the proposal's life, and how long an approval is good for
    Retries,          \* placeRetries and throttleRetries
    MaxStepAttempts,  \* journal/types.go: executions of one step
    Events,           \* bound: which of "stop", "no provider", "panic", "new mode" happen
    MaxCrashes        \* bound: crashes and power cuts

ASSUME BoundAssumption ==
    /\ Window \in Nat \ {0} /\ Retries \in Nat
    /\ MaxStepAttempts \in Nat \ {0} /\ MaxCrashes \in Nat
ASSUME OwnersAssumption == Owners \cap {"sweep", "run", "agent", "stop"} = {}
ASSUME ModeAssumption == Modes \subseteq {"live", "paper"}
ASSUME EventAssumption == Events \subseteq {"stop", "no provider", "panic", "new mode"}

VARIABLES
    now,      \* the clock, up to 2 * Window
    card,     \* what the card says: its mode, and that the order only reduces risk
    row,      \* the proposals row
    flow,     \* the approval.order workflow in the journal
    killed,   \* the kill switch: the row of control_state, and this process's memory of it
    saved,    \* row, workflow and switch as of the last durable commit
    paper,    \* the configuration of the running process: paper mode
    sent,     \* where the order was accepted: "live", "paper"
    pc,       \* where each process is
    saw,      \* the time a call of Decide read on entry
    told,     \* what the owner has been told of the execution
    stop,     \* what the last /stop found and said of this proposal
    crashes   \* crashes and power cuts so far

database == <<row, flow, killed, saved>>
owner == <<told, stop>>
vars == <<now, card, database, paper, sent, pc, saw, owner, crashes>>

\* The sweeper, the workflow's goroutine, the proposing turn and /stop.
Sweep == "sweep"
Run == "run"
Agent == "agent"
Stop == "stop"
Procs == Owners \cup {Sweep, Run, Agent, Stop}

Steps == {"recheck", "throttle", "place", "verify", "receipt", "settle_failure"}
After == [s \in Steps |->
    CASE s = "recheck" -> "throttle" [] s = "throttle" -> "place" [] s = "place" -> "verify"
      [] s = "verify" -> "receipt" [] OTHER -> "end"]

Final == {"rejected", "expired", "cancelled", "executed", "failed"}
Statuses == {"none", "pending", "approved", "executing"} \cup Final
Ended == {"succeeded", "failed", "cancelled"}

\* What a failed step left in the journal: an error with the tag that nothing was
\* placed, or with the tag that the order may exist, or the engine's own text.
NotPlaced == {"not placed", "no provider"}
Errors == {"", "refused", "may exist", "panic"} \cup NotPlaced

NewFlow == [state |-> "pending", asked |-> FALSE, step |-> "recheck",
            tries |-> 0, failures |-> 0, failed |-> "", error |-> "", reducing |-> FALSE]
NoFlow == [NewFlow EXCEPT !.state = "none"]
NoRow == [status |-> "none", decided |-> 0, outcome |-> "", notified |-> FALSE]

At(p, place) == pc[p] = place
Goto(p, place) == pc' = [pc EXCEPT ![p] = place]
Durably == saved' = [row |-> row', flow |-> flow', killed |-> killed'.row]
Became(s) == row' = [row EXCEPT !.status = s]

Venue == IF paper THEN "paper" ELSE "live"
Stale == now - row.decided > Window
\* State.Killed answers from memory between two reads of its row.
Stopped == killed.memory /\ ~flow.reducing

------------------------------------------------------------------------------
\* Propose: the gates, the insert, and the card, cancelled if it cannot be delivered.

Propose ==
    /\ At(Agent, "idle") /\ now = 0 /\ (killed.memory => card.reducing)
    /\ Goto(Agent, "insert")
    /\ UNCHANGED <<now, card, database, paper, sent, saw, owner, crashes>>

Insert ==
    /\ At(Agent, "insert")
    /\ Became("pending")
    /\ Goto(Agent, "deliver")
    /\ UNCHANGED <<now, card, flow, killed, saved, paper, sent, saw, owner, crashes>>

\* A card that was delivered is one to which this never happens.
NotDelivered ==
    /\ At(Agent, "deliver") /\ row.status = "pending"
    /\ Became("cancelled")
    /\ Goto(Agent, "done")
    /\ UNCHANGED <<now, card, flow, killed, saved, paper, sent, saw, owner, crashes>>

------------------------------------------------------------------------------
\* Decide.

\* The pending row is read; one past its time is expired on the spot.
Ask(o) ==
    /\ At(o, "idle") /\ row.status = "pending"
    /\ IF now < Window
       THEN /\ Goto(o, "read") /\ saw' = [saw EXCEPT ![o] = now]
            /\ UNCHANGED row
       ELSE Became("expired") /\ UNCHANGED <<pc, saw>>
    /\ UNCHANGED <<now, card, flow, killed, saved, paper, sent, owner, crashes>>

\* Also when the switch cannot be read: Killed then says that it is engaged.
Refuse(o) ==
    /\ At(o, "read") /\ ~card.reducing
    /\ Goto(o, "idle")
    /\ UNCHANGED <<now, card, database, paper, sent, saw, owner, crashes>>

Agree(o) ==
    /\ At(o, "read") /\ (killed.memory => card.reducing)
    /\ Goto(o, "approve")
    /\ UNCHANGED <<now, card, database, paper, sent, saw, owner, crashes>>

\* The one statement that decides.
DecidableOnceRead(o) == row.status \notin {"none", "executing"}    \* mutant
Decidable(o) == row.status = "pending" /\ saw[o] < Window

Approve(o) ==
    /\ At(o, "approve")
    /\ IF Decidable(o)
       THEN /\ row' = [row EXCEPT !.status = "approved", !.decided = saw[o]]
            /\ Goto(o, "start")
       ELSE UNCHANGED row /\ Goto(o, "idle")
    /\ UNCHANGED <<now, card, flow, killed, saved, paper, sent, saw, owner, crashes>>

Reject(o) ==
    /\ At(o, "read")
    /\ IF Decidable(o)
       THEN row' = [row EXCEPT !.status = "rejected", !.decided = saw[o]]
       ELSE UNCHANGED row
    /\ Goto(o, "idle")
    /\ UNCHANGED <<now, card, flow, killed, saved, paper, sent, saw, owner, crashes>>

------------------------------------------------------------------------------
\* startExecution, by Decide and by the sweeper.

\* StartWithID: nothing happens if the workflow exists.
Start(p) ==
    /\ At(p, "start")
    /\ flow' = IF flow.state = "none" THEN NewFlow ELSE flow
    /\ Goto(p, "mark executing")
    /\ UNCHANGED <<now, card, row, killed, saved, paper, sent, saw, owner, crashes>>

MarkExecutingUnconditionally(p) ==                                 \* mutant
    /\ At(p, "mark executing")
    /\ Became("executing")
    /\ Goto(p, "idle")
    /\ UNCHANGED <<now, card, flow, killed, saved, paper, sent, saw, owner, crashes>>
MarkExecuting(p) ==
    /\ At(p, "mark executing")
    /\ IF row.status = "approved" THEN Became("executing") ELSE UNCHANGED row
    /\ Goto(p, "idle")
    /\ UNCHANGED <<now, card, flow, killed, saved, paper, sent, saw, owner, crashes>>

\* No engine attached yet, or a database error: the sweeper tries again.
StartFails(p) ==
    /\ pc[p] \in {"start", "mark executing"}
    /\ Goto(p, "idle")
    /\ UNCHANGED <<now, card, database, paper, sent, saw, owner, crashes>>

------------------------------------------------------------------------------
\* How an execution ended, told to the owner: settleExecuted, settleFailed, notifyOutcome.

Tellers == {Sweep, Run}
Finish(s, text) ==
    IF row.status = "executing"
    THEN row' = [row EXCEPT !.status = s, !.outcome = text] ELSE UNCHANGED row

\* describeFailure: the tag counts when the place step failed; when no step did, the
\* order may exist once the place step has a record.
PlaceStarted ==
    flow.step \in {"verify", "receipt", "end"} \/ (flow.step = "place" /\ flow.tries > 0)
MayExistByError == flow.failed = "place" /\ flow.error \notin NotPlaced   \* mutant
MayExist ==
    IF flow.failed = "" THEN PlaceStarted
    ELSE flow.failed = "place" /\ flow.error \notin NotPlaced
FailureText == IF MayExist THEN "may exist" ELSE "not placed"

\* The title says executed unless the row says failed.
Title == IF row.outcome = "" THEN "executed" ELSE row.outcome

Skip(p) == Goto(p, IF p = Sweep THEN "idle" ELSE "over")

Tell(p) ==
    /\ At(p, "tell")
    /\ \/ ~row.notified /\ Goto(p, "told") /\ told' = told \cup {Title}
       \/ Skip(p) /\ UNCHANGED told
    /\ UNCHANGED <<now, card, database, paper, sent, saw, stop, crashes>>

MarkNotified(p) ==
    /\ At(p, "told")
    /\ row' = [row EXCEPT !.notified = TRUE]
    /\ Skip(p)
    /\ UNCHANGED <<now, card, flow, killed, saved, paper, sent, saw, owner, crashes>>

------------------------------------------------------------------------------
\* The sweeper: ExpireDue, then Recover.  Each part lists its rows anew, so a sweep is any
\* of them, over and over.

ExpireDue ==
    /\ At(Sweep, "idle") /\ row.status = "pending" /\ now >= Window
    /\ Became("expired")
    /\ UNCHANGED <<now, card, flow, killed, saved, paper, sent, pc, saw, owner, crashes>>

\* An approved row, or an executing one without a workflow.
StartLostWorkflow ==                                               \* mutant
    /\ At(Sweep, "idle") /\ row.status = "executing" /\ flow.state = "none"
    /\ Goto(Sweep, "start")
    /\ UNCHANGED <<now, card, database, paper, sent, saw, owner, crashes>>
StartLost ==
    /\ At(Sweep, "idle")
    /\ row.status = "approved" \/ (row.status = "executing" /\ flow.state = "none")
    /\ Goto(Sweep, "start")
    /\ UNCHANGED <<now, card, database, paper, sent, saw, owner, crashes>>

\* An executing row whose workflow has ended, which it then stays.
SettleEndedAsExecuted ==                                           \* mutant
    /\ At(Sweep, "idle") /\ row.status = "executing" /\ flow.state \in Ended
    /\ Finish("executed", "executed")
    /\ Goto(Sweep, "tell")
    /\ UNCHANGED <<now, card, flow, killed, saved, paper, sent, saw, owner, crashes>>
SettleEnded ==
    /\ At(Sweep, "idle") /\ row.status = "executing" /\ flow.state \in Ended
    /\ IF flow.state = "succeeded"
       THEN Finish("executed", "executed") ELSE Finish("failed", FailureText)
    /\ Goto(Sweep, "tell")
    /\ UNCHANGED <<now, card, flow, killed, saved, paper, sent, saw, owner, crashes>>

Renotify ==
    /\ At(Sweep, "idle") /\ row.status \in {"executed", "failed"} /\ ~row.notified
    /\ Goto(Sweep, "tell")
    /\ UNCHANGED <<now, card, database, paper, sent, saw, owner, crashes>>

------------------------------------------------------------------------------
\* The workflow, run by the journal: every record of it is durable.

Claim ==
    /\ At(Run, "idle") /\ flow.state \in {"pending", "waiting", "running"}
    /\ flow' = [flow EXCEPT !.state = "running"]
    /\ Goto(Run, "next")
    /\ UNCHANGED <<now, card, row, killed, saved, paper, sent, saw, owner, crashes>>

Record(f, place) ==
    /\ flow' = f
    /\ Goto(Run, place)
    /\ UNCHANGED <<row, killed>> /\ Durably
    /\ UNCHANGED <<now, card, paper, saw, owner, crashes>>

StepSucceeds(f) ==
    Record([f EXCEPT !.step = After[flow.step], !.tries = 0, !.failures = 0], "next")

\* The step function's error is final; runOrder goes on to the settle_failure step.
StepFails(error) ==
    Record([flow EXCEPT !.failed = flow.step, !.error = error, !.step = "settle_failure",
                        !.tries = 0, !.failures = 0], "next")

\* A retryable error: the workflow waits out its backoff while retries are left.
StepErrsForever(error) ==                                          \* mutant
    Record([flow EXCEPT !.state = "waiting", !.failures = @ + 1], "idle")
StepErrs(error) ==
    IF flow.failures < Retries /\ flow.tries < MaxStepAttempts
    THEN Record([flow EXCEPT !.state = "waiting", !.failures = @ + 1], "idle")
    ELSE StepFails(error)

BeginStep ==
    /\ At(Run, "next") /\ flow.step # "end" /\ ~flow.asked /\ flow.tries < MaxStepAttempts
    /\ Record([flow EXCEPT !.tries = @ + 1], flow.step)
    /\ UNCHANGED sent

Cancelled ==
    /\ At(Run, "next") /\ flow.step # "end" /\ flow.asked
    /\ Record([flow EXCEPT !.state = "cancelled"], "idle")
    /\ UNCHANGED sent

GiveUp ==
    /\ At(Run, "next") /\ flow.step # "end" /\ ~flow.asked /\ flow.tries = MaxStepAttempts
    /\ Record([flow EXCEPT !.state = "failed"], "idle")
    /\ UNCHANGED sent

End ==
    /\ At(Run, "next") /\ flow.step = "end"
    /\ Record([flow EXCEPT !.state = IF flow.failed = "" THEN "succeeded" ELSE "failed"], "idle")
    /\ UNCHANGED sent

\* A panic ends the step and the workflow together.
Panic ==
    /\ "panic" \in Events /\ pc[Run] \in (Steps \ {"settle_failure"}) \cup {"placing", "sent"}
    /\ Record([flow EXCEPT !.state = "failed", !.failed = flow.step, !.error = "panic"], "idle")
    /\ UNCHANGED sent

------------------------------------------------------------------------------
\* The steps of approval.order.

Executable == row.status \in {"approved", "executing"}

\* The gates may refuse for reasons of their own.
Recheck ==
    /\ At(Run, "recheck")
    /\ \/ StepFails("refused")
       \/ \E reducing \in BOOLEAN :
            /\ Executable /\ ~Stale /\ Venue = card.mode
            /\ card.reducing => reducing
            /\ killed.memory => reducing
            /\ StepSucceeds([flow EXCEPT !.reducing = reducing])
    /\ UNCHANGED sent

Throttle ==
    /\ At(Run, "throttle")
    /\ \/ StepFails("refused")
       \/ Executable /\ ~Stale /\ (StepSucceeds(flow) \/ StepErrs("refused"))
    /\ UNCHANGED sent

RefusalOnAnyAttempt == "not placed"                                \* mutant
Refusal == IF flow.tries > 1 THEN "may exist" ELSE "not placed"

\* Every attempt reads the row, the clock and the switch before it places.
Place ==
    /\ At(Run, "place") /\ Executable /\ ~Stale /\ ~Stopped
    /\ Goto(Run, "placing")
    /\ UNCHANGED <<now, card, database, paper, sent, saw, owner, crashes>>

\* A row that cannot be read, or no longer matches its hash and owner, is refused too.
PlaceRefused ==
    /\ At(Run, "place")
    /\ StepFails(Refusal)
    /\ UNCHANGED sent

\* PlaceApprovedOrder: TradingProviderFor, then PlaceOrderIdempotent.
NoProvider ==
    /\ At(Run, "placing") /\ "no provider" \in Events
    /\ StepFails("no provider")
    /\ UNCHANGED sent

Accept ==
    /\ At(Run, "placing")
    /\ sent' = sent \cup {Venue}
    /\ Goto(Run, "sent")
    /\ UNCHANGED <<now, card, database, paper, saw, owner, crashes>>

Rejected ==
    /\ At(Run, "placing") /\ Venue \notin sent
    /\ StepFails("not placed")
    /\ UNCHANGED sent

\* The answer is lost, or a later attempt cannot look its order up.
Unknown ==
    /\ pc[Run] \in {"placing", "sent"}
    /\ StepErrs("may exist")
    /\ UNCHANGED sent

\* Ambiguous or unproven: only an attempt after the first looks.
Undecided ==
    /\ At(Run, "placing") /\ flow.tries > 1
    /\ StepFails("may exist")
    /\ UNCHANGED sent

Placed ==
    /\ At(Run, "sent")
    /\ StepSucceeds(flow)
    /\ UNCHANGED sent

\* The verify step and the record step: neither changes anything here.
Verify ==
    /\ At(Run, "verify")
    /\ StepSucceeds(flow)
    /\ UNCHANGED sent

Receipt ==
    /\ At(Run, "receipt")
    /\ Finish("executed", "executed")
    /\ Goto(Run, "tell")
    /\ UNCHANGED <<now, card, flow, killed, saved, paper, sent, saw, owner, crashes>>

SettleFailure ==
    /\ At(Run, "settle_failure")
    /\ Finish("failed", FailureText)
    /\ Goto(Run, IF row' # row THEN "tell" ELSE "over")
    /\ UNCHANGED <<now, card, flow, killed, saved, paper, sent, saw, owner, crashes>>

StepOver ==
    /\ At(Run, "over")
    /\ StepSucceeds(flow)
    /\ UNCHANGED sent

------------------------------------------------------------------------------
\* /stop: the switch, the workflows, the pending proposals, the orders.

Engage ==
    /\ "stop" \in Events /\ At(Stop, "idle")
    /\ killed' = [row |-> TRUE, memory |-> TRUE]
    /\ stop' = {}
    /\ Goto(Stop, "flows")
    /\ UNCHANGED <<now, card, row, flow, saved, paper, sent, saw, told, crashes>>

Says(word) == stop' = stop \cup {word}

\* FlowOrders: an exit is protected, and a workflow that has placed settles.
HasPlaced == flow.failed = "" /\ flow.step \in {"verify", "receipt", "end"}
ReadFlow ==
    /\ At(Stop, "flows")
    /\ Goto(Stop, IF flow.state \in Ended \cup {"none"} \/ card.reducing \/ HasPlaced
                  THEN "proposals" ELSE "cancel")
    /\ stop' = IF flow.state = "none" THEN stop ELSE {"known"}
    /\ UNCHANGED <<now, card, database, paper, sent, saw, told, crashes>>

CancelFlow ==
    /\ At(Stop, "cancel")
    /\ CASE flow.state \in {"pending", "waiting"} ->
              flow' = [flow EXCEPT !.state = "cancelled"] /\ UNCHANGED stop
         [] flow.state = "running" -> flow' = [flow EXCEPT !.asked = TRUE] /\ Says("stopping")
         [] OTHER -> UNCHANGED <<flow, stop>>
    /\ Goto(Stop, "proposals")
    /\ UNCHANGED <<row, killed>> /\ Durably
    /\ UNCHANGED <<now, card, paper, sent, saw, told, crashes>>

\* A proposal decided in the meantime is not touched.
CancelPending ==
    /\ At(Stop, "proposals")
    /\ IF row.status = "pending" THEN Became("cancelled") ELSE UNCHANGED row
    /\ Goto(Stop, "orders")
    /\ UNCHANGED <<now, card, flow, killed, saved, paper, sent, saw, owner, crashes>>

\* A cancelled workflow in the middle of a step is given time to reach its boundary; one
\* that does not in time is named and its orders are not looked for.
NeverMidStep == FALSE                                              \* mutant
MidStep == "stopping" \in stop /\ flow.state = "running"
TooLate ==
    /\ At(Stop, "orders") /\ MidStep
    /\ Says("mid-step")
    /\ Goto(Stop, "done")
    /\ UNCHANGED <<now, card, database, paper, sent, saw, told, crashes>>

\* FlowOrders: no order when the place step has no record or ended in an error without
\* the tag that the order may exist.
NoOrderUnlessFinished ==                                           \* mutant
    IF flow.failed = "" THEN flow.step \notin {"verify", "receipt", "end"}
    ELSE flow.failed \in {"recheck", "throttle"} \/ flow.error # "may exist"
NoOrder ==
    IF flow.failed = "" THEN ~PlaceStarted
    ELSE \/ flow.failed \in {"recheck", "throttle"}
         \/ flow.failed = "place" /\ flow.error # "may exist"

Withdraw ==
    /\ At(Stop, "orders") /\ ~MidStep
    /\ IF NoOrder \/ card.reducing THEN UNCHANGED stop
       ELSE Says("may exist") \/ (card.mode \in sent /\ Says("over"))
    /\ Goto(Stop, "done")
    /\ UNCHANGED <<now, card, database, paper, sent, saw, told, crashes>>

\* From here the switch holds nothing back: that it was outdated is of no account.
Resume ==
    /\ killed.row
    /\ killed' = [row |-> FALSE, memory |-> FALSE]
    /\ stop' = stop \ {"outdated"}
    /\ UNCHANGED <<now, card, row, flow, saved, paper, sent, pc, saw, told, crashes>>

\* Somebody is about to ask State.Killed, and the answer matters.  The memory changes only
\* in calls like that, and what it is in between nobody sees.
Asking ==
    \/ At(Agent, "idle") /\ now = 0
    \/ pc[Run] \in {"recheck", "place"}
    \/ row.status = "pending" /\ \E o \in Owners : At(o, "read")

\* A read of the switch that began before Engage is stored after it, any number of times,
\* and a later one puts it right.  (An "engaged" that is out of date refuses only what may
\* be refused anyway.)
Outdated ==
    /\ Asking
    /\ killed.row /\ killed.memory /\ ~At(Stop, "idle")
    /\ killed' = [killed EXCEPT !.memory = FALSE]
    /\ IF "known" \in stop THEN UNCHANGED stop ELSE Says("outdated")
    /\ UNCHANGED <<now, card, row, flow, saved, paper, sent, pc, saw, told, crashes>>

Reread ==
    /\ Asking
    /\ killed.memory # killed.row
    /\ killed' = [killed EXCEPT !.memory = killed.row]
    /\ UNCHANGED <<now, card, row, flow, saved, paper, sent, pc, saw, owner, crashes>>

------------------------------------------------------------------------------
\* The process dies; a power cut takes what was not yet durable with it.  The next
\* process may have been configured anew.

Dead == [p \in Procs |-> IF p = Agent THEN "done" ELSE "idle"]
Restart ==
    /\ crashes < MaxCrashes /\ row.status # "none"
    /\ crashes' = crashes + 1
    /\ pc' = Dead /\ saw' = [o \in Owners |-> 0] /\ stop' = {}
    /\ paper' \in IF "new mode" \in Events THEN BOOLEAN ELSE {paper}
    /\ UNCHANGED <<now, card, saved, sent, told>>

\* NewState reads the switch.
Crash == Restart /\ UNCHANGED <<row, flow>> /\ killed' = [killed EXCEPT !.memory = killed.row]
PowerCut ==
    /\ Restart
    /\ row' = saved.row /\ flow' = saved.flow
    /\ killed' = [row |-> saved.killed, memory |-> saved.killed]

Tick ==
    /\ now < 2 * Window
    /\ now' = now + 1
    /\ UNCHANGED <<card, database, paper, sent, pc, saw, owner, crashes>>

------------------------------------------------------------------------------
Init ==
    /\ now = 0
    /\ card \in [mode : Modes, reducing : BOOLEAN]
    /\ row = NoRow /\ flow = NoFlow /\ killed = [row |-> FALSE, memory |-> FALSE]
    /\ saved = [row |-> row, flow |-> flow, killed |-> FALSE]
    /\ paper = (card.mode = "paper")
    /\ sent = {}
    /\ pc = [p \in Procs |-> "idle"] /\ saw = [o \in Owners |-> 0]
    /\ told = {} /\ stop = {}
    /\ crashes = 0

Agents == Propose \/ Insert \/ NotDelivered
Decide(o) ==
    Ask(o) \/ Refuse(o) \/ Agree(o) \/ Approve(o) \/ Reject(o)
Begins(p) == Start(p) \/ MarkExecuting(p) \/ StartFails(p)
Sweeps ==
    \/ ExpireDue \/ StartLost \/ SettleEnded \/ Renotify
    \/ Tell(Sweep) \/ MarkNotified(Sweep) \/ Begins(Sweep)
Runs ==
    \/ Claim \/ BeginStep \/ Cancelled \/ GiveUp \/ End \/ Panic
    \/ Recheck \/ Throttle \/ Place \/ PlaceRefused
    \/ NoProvider \/ Accept \/ Rejected \/ Unknown \/ Undecided \/ Placed
    \/ Verify \/ Receipt \/ SettleFailure
    \/ Tell(Run) \/ MarkNotified(Run) \/ StepOver
Stops ==
    \/ Engage \/ ReadFlow \/ CancelFlow \/ CancelPending \/ TooLate \/ Withdraw

Next ==
    \/ Agents \/ Sweeps \/ Runs \/ Stops \/ Resume \/ Outdated \/ Reread
    \/ \E o \in Owners : Decide(o) \/ Begins(o)
    \/ Crash \/ PowerCut \/ Tick

Spec == Init /\ [][Next]_vars

\* The sweeper's ticker and the journal's workers run for as long as the process does,
\* and time passes.  A message to the owner, and the start of a workflow, may fail any
\* number of times but not every time they are tried.  Nothing obliges the owner, the
\* proposing turn or /stop to act.
Fairness ==
    /\ WF_vars(Tick) /\ WF_vars(Runs)
    /\ WF_vars(ExpireDue \/ StartLost \/ SettleEnded \/ Renotify)
    /\ WF_vars(Tell(Sweep) \/ Begins(Sweep)) /\ WF_vars(MarkNotified(Sweep))
    /\ SF_vars(Tell(Sweep) /\ At(Sweep, "told")')
    /\ SF_vars(Start(Sweep)) /\ SF_vars(MarkExecuting(Sweep))

FairSpec == Spec /\ Fairness

------------------------------------------------------------------------------
Places == {"idle", "next", "placing", "sent", "over", "tell", "told",
           "insert", "deliver", "done", "read", "approve", "start", "mark executing",
           "flows", "cancel", "proposals",
           "orders"} \cup Steps
Switches == [row : BOOLEAN, memory : BOOLEAN]
Texts == {"", "executed", "not placed", "may exist"}
Rows == [status : Statuses, decided : 0 .. 2 * Window, outcome : Texts, notified : BOOLEAN]
Flows == [state : {"none", "pending", "waiting", "running"} \cup Ended, asked : BOOLEAN,
          step : Steps \cup {"end"}, tries : 0 .. MaxStepAttempts, failures : 0 .. Retries,
          failed : Steps \cup {""}, error : Errors, reducing : BOOLEAN]

\* Every variable has its type.
TypeOK ==
    /\ now \in 0 .. 2 * Window /\ crashes \in 0 .. MaxCrashes
    /\ card \in [mode : Modes, reducing : BOOLEAN]
    /\ row \in Rows /\ flow \in Flows /\ saved \in [row : Rows, flow : Flows, killed : BOOLEAN]
    /\ killed \in Switches /\ paper \in BOOLEAN
    /\ sent \subseteq {"live", "paper"}
    /\ pc \in [Procs -> Places] /\ saw \in [Owners -> 0 .. 2 * Window]
    /\ told \subseteq Texts /\ stop \subseteq {"known", "stopping", "mid-step",
                                              "may exist", "over", "outdated"}

\* "No order is placed from a proposal unless the owner approved it" (doc.go): whatever
\* races with the decision, and whatever a power cut takes back, a row whose order went
\* out is one the owner approved.
ApprovedFirst ==
    sent # {} => row.status \in {"approved", "executing", "executed", "failed"}

\* The owner is told an order was executed only if it was: settleExecuted, in the
\* receipt step and in Recover.
ExecutedWasPlaced == row.status = "executed" \/ "executed" \in told => sent # {}

\* The owner reads "NOTHING was placed" (failureText) only if nothing was: on any attempt,
\* after any refusal, cancellation, crash or panic, but for the two cases of Misjudged.
Misjudged ==
    flow.error = "no provider" \/ (flow.error = "panic" /\ flow.failed \in {"verify", "receipt"})
FailureIsTruthful == row.outcome = "not placed" /\ ~Misjudged => sent = {}

\* What /stop answers for: a workflow that existed when it listed them, and one that began
\* later as long as the switch has held, in the memory of the process too.
Answerable == "known" \in stop \/ (killed.row /\ "outdated" \notin stop)

\* /stop answers for every order that adds risk: by the time its sequence is over, an
\* order that went out was withdrawn, was found closed, or is named as one to check.
StopAccounts ==
    /\ At(Stop, "done") /\ Answerable /\ sent # {} /\ ~flow.reducing
    /\ ~(flow.failed = "place" /\ flow.error \in {"panic", "no provider"})   \* no tag
    => stop \cap {"over", "may exist", "mid-step"} # {}

\* When /stop is over and has named no workflow still in a step, nothing that adds risk
\* goes out any more: from a workflow it listed, not even when the switch is cleared;
\* from one that began too late to be listed, unless the switch was cleared or a read
\* that began before Engage was stored after it (state.go:116-140).
StopHolds ==
    [][At(Stop, "done") /\ "mid-step" \notin stop /\ Answerable /\ ~flow.reducing
       => sent' = sent]_vars

\* A final status never changes in a process that lives: the conditional UPDATEs of
\* the sweeper, the workflow, Decide and /stop never overwrite one another's ends.
FinalStays ==
    [][row.status \in Final /\ row'.status # row.status => crashes' # crashes]_vars

\* A proposal does not stay undecided or half executed, whatever fails, panics or dies:
\* it ends, and the owner is told how (doc.go: "on every sweep the service starts every
\* approved proposal that has no workflow, and settles every executing one whose
\* workflow has ended").  A power cut may take back a row that no record followed.
ProposalEnds ==
    row.status # "none" ~>
        \/ row.status \in {"none", "rejected", "expired", "cancelled"}
        \/ row.status \in {"executed", "failed"} /\ row.notified /\ told # {}

\* The same without exception, as failureText puts it to the owner: "failed and NOTHING
\* was placed" when nothing was.
FailureAlwaysTruthful == row.outcome = "not placed" => sent = {}
\* "An approval of a simulated order is not an approval of a real one, nor the reverse"
\* (stepRecheck): the order goes where the card said it would.
ModeHolds == sent \subseteq {card.mode}
==============================================================================
