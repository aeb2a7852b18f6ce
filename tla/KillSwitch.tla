----------------------------- MODULE KillSwitch -----------------------------
(***************************************************************************)
(* The kill switch (pkg/control/state.go), the /stop sequence over it      *)
(* (kill.go), and the workflows it stops, each of which asks the switch    *)
(* before it places its order.                                             *)
(*                                                                         *)
(* The switch is a row of the shared database.  A process answers Killed   *)
(* from memory and reads the row again at most every Refresh; a caller that*)
(* finds the memory old claims the refresh, reads without the lock and     *)
(* stores what it read under it.  Another process changes the row only.    *)
(***************************************************************************)
EXTENDS Integers, FiniteSets

CONSTANTS
    Flows,      \* the workflows
    Refresh,    \* DefaultRefresh
    ReadTime,   \* stateTimeout
    MaxOrders,  \* orders one /stop looks up
    MaxFaults,  \* bound: failed or panicking calls
    MaxCalls    \* bound: /resume, a second /stop, or a change by another process

ASSUME TimeAssumption == Refresh \in Nat \ {0} /\ ReadTime \in Nat
ASSUME CountAssumption == {MaxOrders, MaxFaults, MaxCalls} \subseteq Nat
ASSUME FlowAssumption == Flows \cap {"stop", "busy", "resume"} = {}

VARIABLES
    row,        \* control_state: the switch is engaged
    offAgo,     \* history: how long ago it was last off
    killed, degraded,   \* State: what was read last; the last read failed
    checked,    \* how long ago a refresh was claimed or stored
    call,       \* where each caller of the switch stands
    kind,       \* what each workflow is for
    flow,       \* the workflows, their journals and their orders
    stop,       \* the goroutine of Stop
    sum,        \* its summary
    known,      \* history: the workflows that existed when it listed them
    reply,      \* what the owner was answered
    followup,   \* the second message was sent
    faults, calls

memory == <<killed, degraded, checked>>
switch == <<row, offAgo, memory, call>>
flows == <<kind, flow>>
summary == <<sum, known>>
answers == <<reply, followup>>
bounds == <<faults, calls>>
vars == <<switch, flows, stop, summary, answers, bounds>>

-----------------------------------------------------------------------------

Callers == Flows \cup {"stop", "busy", "resume"}

(***************************************************************************)
(* A call: "write" (the UPDATE of Engage or Clear), "read", "store" (the   *)
(* row was read and is not stored yet), "answered" with value; "failed" if *)
(* the write failed.  elapsed is how long a read or write has taken, less  *)
(* than the timeout of the call.                                           *)
(***************************************************************************)
Calls == [pc : {"none", "write", "read", "store", "answered", "failed"},
          op : {"killed", "engage", "clear"}, value : BOOLEAN, elapsed : 0..ReadTime]

NewCall(pc, op, value) == [pc |-> pc, op |-> op, value |-> value, elapsed |-> 0]
NoCall == NewCall("none", "killed", FALSE)

Horizon == Refresh + ReadTime + 1

Smaller(m, n) == IF m < n THEN m ELSE n

Fault == faults < MaxFaults /\ faults' = faults + 1 /\ UNCHANGED calls

-----------------------------------------------------------------------------
(* The switch *)

Become(c, pc, value) ==
    call' = [call EXCEPT ![c] = [pc |-> pc, op |-> call[c].op,
                                 value |-> value, elapsed |-> call[c].elapsed]]

(* What /resume and a busy /stop are answered is not looked at. *)
Answer(c, pc, value) ==
    call' = [call EXCEPT ![c] = IF c \in {"busy", "resume"} /\ pc = "answered" THEN NoCall
                                ELSE NewCall(pc, "killed", value)]

Due == checked >= Refresh

(***************************************************************************)
(* Killed: from memory, or this caller claims the refresh, so that the     *)
(* others answer from memory meanwhile.                                    *)
(***************************************************************************)
Killed(c) ==
    IF Due
      THEN /\ checked' = 0
           /\ call' = [call EXCEPT ![c] = NewCall("read", "killed", FALSE)]
           /\ UNCHANGED <<row, offAgo, killed, degraded>>
      ELSE /\ Answer(c, "answered", killed \/ degraded)
           /\ UNCHANGED <<row, offAgo, memory>>

Change(c, op) ==
    /\ call' = [call EXCEPT ![c] = NewCall("write", op, FALSE)]
    /\ UNCHANGED <<row, offAgo, memory>>

(* Engage and Clear write, then read the row back. *)
Write(c) ==
    /\ call[c].pc = "write"
    /\ \/ /\ row' = (call[c].op = "engage")
          /\ offAgo' = IF row' THEN offAgo ELSE 0
          /\ Become(c, "read", FALSE)
          /\ UNCHANGED bounds
       \/ /\ Fault
          /\ Answer(c, "failed", FALSE)
          /\ UNCHANGED <<row, offAgo>>
    /\ UNCHANGED <<memory, flows, stop, summary, answers>>

ReadRow(c) ==
    /\ call[c].pc = "read"
    /\ Become(c, "store", row)
    /\ UNCHANGED <<row, offAgo, memory, flows, stop, summary, answers, bounds>>

\* Mutant: a read that fails leaves the memory as it was.
NotDegraded == degraded

Degraded == TRUE

(* Killed fails closed; Engage and Clear go by what they wrote. *)
ReadFails(c) ==
    /\ call[c].pc = "read"
    /\ Fault
    /\ degraded' = Degraded
    /\ IF call[c].op = "killed" THEN UNCHANGED <<killed, checked>>
       ELSE killed' = (call[c].op = "engage") /\ checked' = 0
    /\ Answer(c, "answered", TRUE)
    /\ UNCHANGED <<row, offAgo, flows, stop, summary, answers>>

Store(c) ==
    /\ call[c].pc = "store"
    /\ killed' = call[c].value
    /\ degraded' = FALSE
    /\ checked' = 0
    /\ Answer(c, "answered", call[c].value)
    /\ UNCHANGED <<row, offAgo, flows, stop, summary, answers, bounds>>

(* /resume, a /stop while one runs (busy), and what another process does. *)
Another == calls < MaxCalls /\ calls' = calls + 1 /\ UNCHANGED faults

Resume ==
    /\ call["resume"].pc \in {"none", "failed"}
    /\ Another
    /\ Change("resume", "clear")
    /\ UNCHANGED <<flows, stop, summary, answers>>

Busy ==
    /\ stop.pc \notin {"idle", "over"}
    /\ call["busy"].pc = "none"
    /\ Another
    /\ Change("busy", "engage")
    /\ UNCHANGED <<flows, stop, summary, answers>>

BusyAsks ==
    /\ call["busy"].pc = "failed"
    /\ Killed("busy")
    /\ UNCHANGED <<flows, stop, summary, answers, bounds>>

OtherProcess ==
    /\ Another
    /\ row' \in BOOLEAN
    /\ offAgo' = IF row' THEN offAgo ELSE 0
    /\ UNCHANGED <<memory, call, flows, stop, summary, answers>>

-----------------------------------------------------------------------------
(* The workflows *)

(***************************************************************************)
(* A workflow waits for its turn, checks, and runs its place step; then it *)
(* settles (verify, record, tell).  place is what its journal says of the  *)
(* place step: none, begun, or how it finished.  An "exit" only reduces    *)
(* risk; a "hedge" (dn.open) must not be cut once it has begun to place.   *)
(***************************************************************************)
Kinds == {"plain", "hedge", "exit"}

FlowStates ==
    [st : {"idle", "waiting", "check", "place", "sent", "settling", "ended", "cancelled"},
     asked : BOOLEAN, place : {"none", "started", "placed", "unknown", "refused"},
     order : {"none", "open", "closed", "withdrawn"}]

NoFlow == [st |-> "idle", asked |-> FALSE, place |-> "none", order |-> "none"]

Running(f) == flow[f].st \in {"check", "place", "sent", "settling"}
Active(f) == Running(f) \/ flow[f].st = "waiting"

Move(f, s) == flow' = [flow EXCEPT ![f].st = s]

Begin(f) ==
    /\ flow[f].st = "idle"
    /\ Move(f, "waiting")
    /\ UNCHANGED <<kind, switch, stop, summary, answers, bounds>>

Claim(f) ==
    /\ flow[f].st = "waiting"
    /\ Move(f, "check")
    /\ UNCHANGED <<kind, switch, stop, summary, answers, bounds>>

(* Every step boundary obeys a cancel; the place step is recorded before it runs. *)
BeginPlace(f) ==
    /\ flow[f].st = "check"
    /\ flow' = IF flow[f].asked THEN [flow EXCEPT ![f].st = "cancelled"]
               ELSE [flow EXCEPT ![f].st = "place", ![f].place = "started"]
    /\ UNCHANGED <<kind, switch, stop, summary, answers, bounds>>

AskSwitch(f) ==
    /\ flow[f].st = "place" /\ kind[f] # "exit"
    /\ call[f].pc = "none"
    /\ Killed(f)
    /\ UNCHANGED <<flows, stop, summary, answers, bounds>>

Refuse(f) ==
    /\ flow[f].st = "place" /\ call[f].pc = "answered" /\ call[f].value
    /\ flow' = [flow EXCEPT ![f].st = IF flow[f].asked THEN "cancelled" ELSE "settling",
                            ![f].place = "refused"]
    /\ UNCHANGED <<kind, switch, stop, summary, answers, bounds>>

(* The order reaches the exchange, or does not. *)
Send(f) ==
    /\ flow[f].st = "place"
    /\ kind[f] = "exit" \/ (call[f].pc = "answered" /\ ~call[f].value)
    /\ \E o \in {"none", "open"} :
          flow' = [flow EXCEPT ![f].st = "sent", ![f].order = o]
    /\ UNCHANGED <<kind, switch, stop, summary, answers, bounds>>

EndPlace(f) ==
    /\ flow[f].st = "sent"
    /\ \E outcome \in {"unknown", IF flow[f].order = "none" THEN "refused" ELSE "placed"} :
          flow' = [flow EXCEPT ![f].st = IF flow[f].asked THEN "cancelled" ELSE "settling",
                               ![f].place = outcome]
    /\ UNCHANGED <<kind, switch, stop, summary, answers, bounds>>

EndFlow(f) ==
    /\ flow[f].st = "settling"
    /\ Move(f, IF flow[f].asked THEN "cancelled" ELSE "ended")
    /\ UNCHANGED <<kind, switch, stop, summary, answers, bounds>>

Fills(f) ==
    /\ flow[f].order = "open"
    /\ flow' = [flow EXCEPT ![f].order = "closed"]
    /\ UNCHANGED <<kind, switch, stop, summary, answers, bounds>>

(***************************************************************************)
(* FlowOrders: a hedge settles once it has begun to place, the others once *)
(* they have finished it; an order that may exist is described, a hedge's  *)
(* only when it is known to (dn.recover reads the exchange for the rest).  *)
(***************************************************************************)
Settles(f) == flow[f].place \notin IF kind[f] = "hedge" THEN {"none"} ELSE {"none", "started"}

\* Mutant: an order whose place step was cut is not described.
DescribedWhenFinished(f) == flow[f].place \in {"placed", "unknown"}

Described(f) ==
    flow[f].place \in IF kind[f] = "hedge" THEN {"placed"} ELSE {"started", "placed", "unknown"}

-----------------------------------------------------------------------------
(***************************************************************************)
(* /stop.  The steps that cancel turns, revoke mandates and cancel         *)
(* proposals are left out: they change nothing here, and one that fails    *)
(* only adds a line.                                                       *)
(***************************************************************************)

Errors == {"flag", "workflows", "orders", "still"}

StopStates ==
    [pc : {"idle", "flag", "flagcheck", "list", "classify", "cancel", "settle", "scan",
           "examine", "lookup", "withdraw", "wait", "finish", "over"},
     todo : SUBSET Flows,       \* listed and not looked at yet
     at : SUBSET Flows,         \* the one it is at
     stopping : SUBSET Flows,   \* cancelled, and mid-step when last read
     late : BOOLEAN,            \* the second pass
     budget : 0..MaxOrders, detached : BOOLEAN]

Summaries == [engaged : BOOLEAN, finishing : SUBSET Flows, mayExist : SUBSET Flows,
              errors : SUBSET Errors]

At(pc) == stop.pc = pc
Goto(pc) == stop' = [stop EXCEPT !.pc = pc]
Fails(step) == sum' = [sum EXCEPT !.errors = @ \cup {step}]
MayExist(f) == sum' = [sum EXCEPT !.mayExist = @ \cup {f}]

Start ==
    /\ At("idle")
    /\ Goto("flag")
    /\ Change("stop", "engage")
    /\ UNCHANGED <<flows, summary, answers, bounds>>

Engaged ==
    /\ At("flag") /\ call["stop"].pc = "answered"
    /\ sum' = [sum EXCEPT !.engaged = TRUE]
    /\ Goto("list")
    /\ UNCHANGED <<switch, flows, known, answers, bounds>>

(* "A flag that did not write may still read engaged": it is asked. *)
NotEngaged ==
    /\ At("flag") /\ call["stop"].pc = "failed"
    /\ Fails("flag")
    /\ Goto("flagcheck")
    /\ Killed("stop")
    /\ UNCHANGED <<flows, known, answers, bounds>>

FlagChecked ==
    /\ At("flagcheck") /\ call["stop"].pc = "answered"
    /\ sum' = [sum EXCEPT !.engaged = call["stop"].value]
    /\ Goto("list")
    /\ UNCHANGED <<switch, flows, known, answers, bounds>>

(* cancelFlows: the active workflows are listed, ... *)
List ==
    /\ At("list")
    /\ \/ /\ stop' = [stop EXCEPT !.pc = "classify", !.todo = {f \in Flows : Active(f)}]
          /\ known' = {f \in Flows : flow[f].st # "idle"}
          /\ UNCHANGED <<sum, bounds>>
       \/ /\ Fault /\ Fails("workflows")
          /\ Goto("settle")
          /\ UNCHANGED known
    /\ UNCHANGED <<switch, flows, answers>>

(* ... looked at one after the other (one that cannot be read counts as a  *)
(* risk and its orders as possible), ...                                   *)
Classify(f) ==
    /\ At("classify") /\ f \in stop.todo
    /\ LET step == [stop EXCEPT !.todo = @ \ {f}]
           cancel == [step EXCEPT !.pc = "cancel", !.at = {f}]
       IN  \/ kind[f] = "exit" /\ stop' = step /\ UNCHANGED <<sum, bounds>>
           \/ /\ kind[f] # "exit" /\ Settles(f)
              /\ stop' = step
              /\ sum' = [sum EXCEPT !.finishing = @ \cup {f}]
              /\ UNCHANGED bounds
           \/ kind[f] # "exit" /\ ~Settles(f) /\ stop' = cancel /\ UNCHANGED <<sum, bounds>>
           \/ /\ Fault
              /\ stop' = cancel
              /\ sum' = [sum EXCEPT !.errors = @ \cup {"workflows"}, !.mayExist = @ \cup {f}]
    /\ UNCHANGED <<switch, flows, known, answers>>

(* ... cancelled, and read again: one that cannot be read is not waited for. *)
Cancel(f) ==
    /\ At("cancel") /\ f \in stop.at
    /\ LET next == [stop EXCEPT !.pc = "classify", !.at = {}]
           waits == [next EXCEPT !.stopping = @ \cup {f}]
       IN  \/ /\ flow' = IF flow[f].st = "waiting" THEN [flow EXCEPT ![f].st = "cancelled"]
                         ELSE IF Running(f) THEN [flow EXCEPT ![f].asked = TRUE] ELSE flow
              /\ \/ stop' = (IF Running(f) THEN waits ELSE next) /\ UNCHANGED bounds
                 \/ Running(f) /\ Fault /\ stop' = next
              /\ UNCHANGED sum
           \/ /\ Fault /\ Fails("workflows")
              /\ stop' = next
              /\ UNCHANGED flow
    /\ UNCHANGED <<kind, switch, known, answers>>

Classified ==
    /\ At("classify") /\ stop.todo = {}
    /\ Goto("settle")
    /\ UNCHANGED <<switch, flows, summary, answers, bounds>>

(* A panic ends the step, and what it had found is lost. *)
Panic ==
    /\ At("classify") /\ stop.todo # {}
    /\ Fault /\ Fails("workflows")
    /\ stop' = [stop EXCEPT !.pc = "settle", !.todo = {}, !.stopping = {}]
    /\ UNCHANGED <<switch, flows, known, answers>>

(***************************************************************************)
(* settle: until the cancelled workflows have left their steps, or the wait*)
(* is over.  One that cannot be read is not waited for any longer.         *)
(***************************************************************************)
Settle(f) ==
    /\ stop.pc \in {"settle", "wait"} /\ f \in stop.stopping
    /\ \/ ~Running(f) /\ UNCHANGED bounds
       \/ Running(f) /\ Fault
    /\ stop' = [stop EXCEPT !.stopping = @ \ {f},
                            !.todo = IF stop.late THEN @ \cup {f} ELSE @]
    /\ UNCHANGED <<switch, flows, summary, answers>>

Settled ==
    /\ stop.pc \in {"settle", "wait"}
    /\ Goto("scan")
    /\ UNCHANGED <<switch, flows, summary, answers, bounds>>

(* scanOrders: the workflows of the look-back window that are not still    *)
(* mid-step; on the second pass those that have stopped since.             *)
Scan ==
    /\ At("scan")
    /\ \/ /\ stop' = [stop EXCEPT !.pc = "examine",
                         !.todo = IF stop.late THEN @
                                  ELSE {f \in Flows : flow[f].st # "idle"} \ stop.stopping]
          /\ UNCHANGED <<sum, bounds>>
       \/ /\ Fault /\ Fails("orders")
          /\ stop' = [stop EXCEPT !.pc = "examine", !.todo = {}]
    /\ UNCHANGED <<switch, flows, known, answers>>

\* Mutant: the budget of lookups is never used up.
NeverSpent == FALSE

Spent == stop.budget = 0

(* The journal says whether there is an order to look for; a panic ends the pass. *)
Examine(f) ==
    /\ At("examine") /\ f \in stop.todo
    /\ LET step == [stop EXCEPT !.todo = @ \ {f}]
       IN  \/ /\ ~Described(f) \/ kind[f] = "exit"
              /\ stop' = step /\ UNCHANGED <<sum, bounds>>
           \/ /\ Described(f) /\ kind[f] # "exit"
              /\ IF Spent
                   THEN stop' = step /\ MayExist(f)
                   ELSE /\ stop' = [step EXCEPT !.pc = "lookup", !.at = {f}, !.budget = @ - 1]
                        /\ UNCHANGED sum
              /\ UNCHANGED bounds
           \/ /\ Fault /\ Fails("orders")
              /\ stop' \in {step, [step EXCEPT !.todo = {}]}
    /\ UNCHANGED <<switch, flows, known, answers>>

Lookup(f) ==
    /\ At("lookup") /\ f \in stop.at
    /\ \/ /\ flow[f].order = "open"
          /\ Goto("withdraw") /\ UNCHANGED <<sum, bounds>>
       \/ /\ flow[f].order \in {"closed", "withdrawn"}
          /\ stop' = [stop EXCEPT !.pc = "examine", !.at = {}] /\ UNCHANGED <<sum, bounds>>
       \/ /\ (flow[f].order = "none" /\ UNCHANGED bounds) \/ Fault
          /\ stop' = [stop EXCEPT !.pc = "examine", !.at = {}] /\ MayExist(f)
    /\ UNCHANGED <<switch, flows, known, answers>>

Withdraw(f) ==
    /\ At("withdraw") /\ f \in stop.at
    /\ stop' = [stop EXCEPT !.pc = "examine", !.at = {}]
    /\ \/ /\ flow[f].order = "open"
          /\ flow' = [flow EXCEPT ![f].order = "withdrawn"]
          /\ UNCHANGED <<sum, bounds>>
       \/ flow[f].order # "open" /\ MayExist(f) /\ UNCHANGED <<flow, bounds>>
       \/ Fault /\ MayExist(f) /\ UNCHANGED flow
    /\ UNCHANGED <<kind, switch, known, answers>>

Examined ==
    /\ At("examine") /\ stop.todo = {}
    /\ \/ /\ ~stop.late /\ stop.stopping # {}
          /\ stop' = [stop EXCEPT !.pc = "wait", !.late = TRUE]
          /\ UNCHANGED sum
       \/ /\ stop.late \/ stop.stopping = {}
          /\ IF stop.stopping # {} THEN Fails("still") ELSE UNCHANGED sum
          /\ Goto("finish")
    /\ UNCHANGED <<switch, flows, known, answers, bounds>>

(* finish hands the summary over if a reply has gone out without it. *)
Finish ==
    /\ At("finish")
    /\ Goto("over")
    /\ followup' = stop.detached
    /\ UNCHANGED <<switch, flows, summary, reply, bounds>>

\* Mutant: only a reply after the end of the sequence is remembered.
ForgetsDetach == At("over")

Detaches == ~At("over")

(* detach: the reply, when the sequence or the reply budget is over.  The  *)
(* switch is asked with the summary locked.                                *)
Detach ==
    /\ reply = "none" /\ stop.pc \notin {"idle", "flagcheck"}
    /\ reply' = IF At("over") THEN "final" ELSE "pending"
    /\ stop' = [stop EXCEPT !.detached = Detaches]
    /\ UNCHANGED <<switch, flows, summary, followup, bounds>>

-----------------------------------------------------------------------------
(* Time passes, but no call of the switch outlasts its timeout. *)
Advance ==
    /\ \A c \in Callers :
          call[c].pc \in {"write", "read", "store"} => call[c].elapsed < ReadTime
    /\ call' = [c \in Callers |->
                   IF call[c].pc \in {"write", "read", "store"}
                     THEN [call[c] EXCEPT !.elapsed = @ + 1] ELSE call[c]]
    /\ checked' = Smaller(checked + 1, Refresh)
    /\ offAgo' = IF row THEN Smaller(offAgo + 1, Horizon) ELSE 0
    /\ UNCHANGED <<row, killed, degraded, flows, stop, summary, answers, bounds>>

Init ==
    /\ row = FALSE /\ offAgo = 0
    /\ killed = FALSE /\ degraded = FALSE /\ checked = 0
    /\ call = [c \in Callers |-> NoCall]
    /\ kind \in [Flows -> Kinds]
    /\ flow = [f \in Flows |-> NoFlow]
    /\ \E rest \in 0..MaxOrders :  \* other orders may have used some of the budget
         stop = [pc |-> "idle", todo |-> {}, at |-> {}, stopping |-> {}, late |-> FALSE,
                 budget |-> rest, detached |-> FALSE]
    /\ sum = [engaged |-> FALSE, finishing |-> {}, mayExist |-> {}, errors |-> {}]
    /\ known = {}
    /\ reply = "none" /\ followup = FALSE
    /\ faults = 0 /\ calls = 0

Reading(c) == Write(c) \/ ReadRow(c) \/ ReadFails(c) \/ Store(c)

Works(f) ==
    \/ Begin(f) \/ Claim(f) \/ BeginPlace(f) \/ AskSwitch(f) \/ Refuse(f) \/ Send(f)
    \/ EndPlace(f) \/ EndFlow(f) \/ Fills(f)

Stops ==
    \/ Engaged \/ NotEngaged \/ FlagChecked
    \/ List \/ Classified \/ Panic
    \/ Settled \/ Scan \/ Examined \/ Finish
    \/ \E f \in Flows :
          Classify(f) \/ Cancel(f) \/ Settle(f) \/ Examine(f) \/ Lookup(f) \/ Withdraw(f)

Next ==
    \/ \E c \in Callers : Reading(c)
    \/ \E f \in Flows : Works(f)
    \/ Start \/ Stops \/ Detach
    \/ Resume \/ Busy \/ BusyAsks \/ OtherProcess
    \/ Advance

Spec == Init /\ [][Next]_vars

-----------------------------------------------------------------------------
(* Properties *)

TypeOK ==
    /\ row \in BOOLEAN /\ offAgo \in 0..Horizon
    /\ killed \in BOOLEAN /\ degraded \in BOOLEAN /\ checked \in 0..Refresh
    /\ call \in [Callers -> Calls]
    /\ kind \in [Flows -> Kinds] /\ flow \in [Flows -> FlowStates]
    /\ stop \in StopStates /\ sum \in Summaries /\ known \subseteq Flows
    /\ reply \in {"none", "pending", "final"} /\ followup \in BOOLEAN
    /\ faults \in Nat /\ calls \in Nat

(***************************************************************************)
(* How stale the switch can be: while no refresh is under way the memory   *)
(* says "off" only of a row that was off within Refresh and the time of one*)
(* read, and a caller that reads goes by a row that was off during its     *)
(* read, whatever reads, changes, failures and timeouts overlapped before  *)
(* (Killed, read, Engage, Clear).                                          *)
(***************************************************************************)
NoRefresh == \A c \in Callers : call[c].pc \notin {"read", "store"}

SeenInTime ==
    /\ NoRefresh /\ ~Due /\ ~killed /\ ~degraded => offAgo <= checked + ReadTime
    /\ \A c \in Callers :
          call[c].pc = "store" /\ ~call[c].value => offAgo <= call[c].elapsed

(***************************************************************************)
(* After /stop every order that can still fill, of a workflow that existed *)
(* when it listed them and that does not only reduce risk, is named as one *)
(* that may exist, belongs to a hedge named as finishing, or one of the    *)
(* steps is named as failed: whatever failed, panicked, was cut or was     *)
(* still running (cancelFlows, settle, scanOrders, handleOrder,            *)
(* FlowOrders).  Two hedges are excepted (Looked): one whose outcome is    *)
(* unknown, which is dn.recover's, and one that was asked to cancel in its *)
(* place step, of which the read that follows (kill.go:406) may fail and   *)
(* leave it listed as cancelled.                                           *)
(***************************************************************************)
Looked(f) == kind[f] = "plain" \/ (kind[f] = "hedge" /\ flow[f].place = "placed" /\ ~flow[f].asked)

Named(f) ==
    \/ f \in sum.mayExist
    \/ kind[f] = "hedge" /\ f \in sum.finishing
    \/ sum.errors \cap {"workflows", "orders", "still"} # {}

OrdersAccounted ==
    At("over") => \A f \in known : Looked(f) /\ flow[f].order = "open" => Named(f)

(***************************************************************************)
(* The owner gets the final summary exactly once, whenever the reply left: *)
(* as the reply, or as a second message after one that came before the end *)
(* (finish, detach).                                                       *)
(***************************************************************************)
FinalOnce == At("over") /\ reply # "none" => ((reply = "final") # followup)

(***************************************************************************)
(* kill.go: "The flag first: from here every executor refuses new acts."   *)
(* state.go: "Engage and Clear update the memory of this process at once." *)
(* A workflow that began after /stop had engaged the flag and listed the   *)
(* workflows sends no order, as long as nobody clears the flag.            *)
(***************************************************************************)
RefusesFromHere ==
    stop.pc \notin {"idle", "flag", "flagcheck", "list"} /\ sum.errors = {} /\ calls = 0 =>
        \A f \in Flows \ known : kind[f] # "exit" => flow[f].order = "none"
=============================================================================
