---------------------------- MODULE OrderPlacement ----------------------------
(***************************************************************************)
(* Placing one order at most once: broker.PlaceOrderIdempotent, run as the *)
(* function of one journaled step (approvals, DCA and delta-neutral all    *)
(* call it so), against an exchange that loses requests and answers, shows *)
(* an order some time after it accepted it, and knows nothing of retries.  *)
(*                                                                         *)
(* The journal appears as what module Journal shows of it: attempt numbers *)
(* are never reused, a result is recorded only by the attempt that still   *)
(* holds the workflow, and attempt n+1 begins once attempt n has waited    *)
(* out its backoff (Backoff), was interrupted by a clean stop and released *)
(* (Restart), or has lost its lease or died (Takeover).                    *)
(*                                                                         *)
(* Time is relative: clock is the time since the first attempt began, idle *)
(* the time since the last attempt began or, later, ended, and due[n] the  *)
(* time the exchange still has.  Each stops where no guard tells it apart. *)
(***************************************************************************)
EXTENDS Integers, FiniteSets

CONSTANTS
    Venues,           \* where the order may go: [adapter, market] records, the adapter
                      \* "by-id", "listing" (client IDs, no lookup) or "shape" (none)
    Settle,           \* ReconcileSettleDelay
    Retries,          \* journal.Retries of the step
    Backoff,          \* journal.Backoff: the wait after a failed attempt, at least
    Restart,          \* shortest time from a clean stop's release to the next claim
    Takeover,         \* shortest time from the end of an attempt's context, or its
                      \* process, to the claim of the lease it leaves behind
    MaxStepAttempts,  \* types.go: executions of one step
    Gates,            \* bound: time the step spends before its place call
    Flight,           \* bound: time a request takes to reach the exchange
    Show              \* bound: time the exchange takes to show what it accepted

Attempts == 1 .. MaxStepAttempts

ASSUME VenueAssumption ==
    Venues \subseteq [adapter : {"by-id", "listing", "shape"}, market : {"spot", "futures"}]
ASSUME TimeAssumption ==
    /\ Settle \in Nat /\ Backoff \in Nat /\ Restart \in Nat /\ Takeover \in Nat
    /\ Gates \in Nat /\ Flight \in Nat /\ Show \in Nat
ASSUME CountAssumption == MaxStepAttempts \in Nat \ {0} /\ Retries \in Nat

VARIABLES
    clock,      \* time since the first attempt began, up to Settle
    pc,         \* pc[n]: where attempt n is
    cut,        \* attempts whose context has ended
    idle,       \* time since the last attempt began, was cut, returned or died
    listed,     \* listed[n]: orders attempt n saw in the open-orders listing
    last,       \* the attempt the journal last began
    failures,   \* failed attempts the journal counted
    outcome,    \* what the journal recorded for the step
    order,      \* order[n]: what became of the request attempt n sent
    due,        \* due[n]: time left for that request to arrive, or to be shown
    shown,      \* orders the exchange's lookups and listings show
    foreign,    \* the owner has an identical order of their own (shape match only)
    venue       \* the adapter and OrderRequest.Market; never changes

attemptVars == <<cut, idle, listed, last, failures, outcome>>
exchangeVars == <<order, due, shown, foreign, venue>>
vars == <<clock, pc, cut, idle, listed, last, failures, outcome,
          order, due, shown, foreign, venue>>

Foreign == 0
Orders == Attempts \cup {Foreign}

\* How a place call fails: in a way that leaves the order's fate open, by the
\* exchange's own refusal, or by its word that the client order ID is taken.
CallErrors == {"unclear", "rejected", "duplicate"}

Running == {"begun", "half", "clear", "sent"} \cup CallErrors
Places == {"idle", "retry", "interrupted", "dead", "over"} \cup Running
Failed == {"unavailable", "unsettled", "ambiguous", "unproven", "unknown", "rejected",
           "not sent", "too many attempts"}
Success == {"placed", "found"}

\* The errors after which the step may run again; "unsettled" is the unavailable
\* reconcile whose only trouble is that the settle delay has not passed.
Retryable == {"unknown", "unavailable", "unsettled"}

Longer(a, b) == IF a < b THEN b ELSE a
Horizon == Longer(Longer(Backoff, Restart), Longer(Takeover, Gates))

Accepted(n) == order[n] \in {"open", "filled"}
AtLarge(n) == order[n] \in {"wire", "open", "filled"}
Pending(n) == order[n] = "wire" \/ (Accepted(n) /\ n \notin shown)
Visible == {n \in shown : Accepted(n)}

Tagged == venue.adapter # "shape"
SettledSinceRetry == idle >= Settle                                \* mutant
Settled == clock = Settle

------------------------------------------------------------------------------
\* How the step's run ends (journal, runStep) with result kind, naming order o.

Holds(n) == n = last /\ outcome.kind = "open"

\* Another runner holds the workflow, or has ended it: the fence drops the result.
Dropped(n) ==
    /\ ~Holds(n)
    /\ pc' = [pc EXCEPT ![n] = "over"]
    /\ UNCHANGED <<idle, failures, outcome>>

\* A success is stored even after the context ended, as long as the lease is held.
Record(n, kind, o) ==
    /\ Holds(n)
    /\ pc' = [pc EXCEPT ![n] = "over"]
    /\ outcome' = [kind |-> kind, order |-> o]
    /\ UNCHANGED <<idle, failures>>

\* An error under an ended context says nothing of the step: it is left started.  A
\* clean stop releases the workflow; a lost lease runs out, which takes longer.
Interrupt(n) ==
    /\ Holds(n) /\ n \in cut
    /\ pc' = [pc EXCEPT ![n] = "interrupted"]
    /\ idle' = 0
    /\ UNCHANGED <<failures, outcome>>

CanRetryForever(n, kind) == kind \in Retryable /\ n < MaxStepAttempts   \* mutant
CanRetry(n, kind) ==
    kind \in Retryable /\ failures < Retries /\ n < MaxStepAttempts

Retry(n, kind) ==
    /\ Holds(n) /\ n \notin cut /\ CanRetry(n, kind)
    /\ pc' = [pc EXCEPT ![n] = "retry"]
    /\ idle' = 0
    /\ failures' = failures + 1
    /\ UNCHANGED outcome

Succeed(n, kind, o) ==
    /\ Dropped(n) \/ Record(n, kind, o)
    /\ UNCHANGED <<clock, cut, listed, last, exchangeVars>>

Fail(n, kind) ==
    /\ \/ Dropped(n)
       \/ Interrupt(n)
       \/ Retry(n, kind)
       \/ n \notin cut /\ ~CanRetry(n, kind) /\ Record(n, kind, Foreign)
    /\ UNCHANGED <<clock, cut, listed, last, exchangeVars>>

MayPlace(n) ==
    /\ pc' = [pc EXCEPT ![n] = "clear"]
    /\ UNCHANGED <<clock, attemptVars, exchangeVars>>

------------------------------------------------------------------------------
\* The journal begins attempts.

WaitOverWhenReturned ==                                            \* mutant
    \/ pc[last] = "retry" /\ idle >= Backoff
    \/ pc[last] = "interrupted" /\ idle >= Restart

WaitOver ==
    \/ pc[last] = "retry" /\ idle >= Backoff
    \/ pc[last] = "interrupted" /\ idle >= Restart
    \/ /\ pc[last] = "dead" \/ (pc[last] \in Running /\ last \in cut)
       /\ idle >= Takeover

Begin ==
    /\ outcome.kind = "open" /\ last < MaxStepAttempts /\ WaitOver
    /\ last' = last + 1
    /\ pc' = [pc EXCEPT ![last + 1] = "begun"]
    /\ idle' = 0
    /\ UNCHANGED <<clock, cut, listed, failures, outcome, exchangeVars>>

\* beginStep fails the workflow when the step has used up its attempts.
GiveUp ==
    /\ outcome.kind = "open" /\ last = MaxStepAttempts /\ WaitOver
    /\ outcome' = [kind |-> "too many attempts", order |-> Foreign]
    /\ UNCHANGED <<clock, pc, cut, idle, listed, last, failures, exchangeVars>>

\* Shutdown past its wait, or a lost lease, ends the running step's context.
Cut ==
    /\ pc[last] \in Running /\ last \notin cut
    /\ cut' = cut \cup {last}
    /\ idle' = 0
    /\ UNCHANGED <<clock, pc, listed, last, failures, outcome, exchangeVars>>

\* The process dies, or the store fails to record the result, which then is lost in
\* the same way.  The requests are still on their way to the exchange.
Crash ==
    /\ pc[last] \in Running
    /\ pc' = [n \in Attempts |-> IF pc[n] \in Running THEN "dead" ELSE pc[n]]
    /\ idle' = IF last \in cut THEN idle ELSE 0
    /\ UNCHANGED <<clock, cut, listed, last, failures, outcome, exchangeVars>>

------------------------------------------------------------------------------
\* PlaceOrderIdempotent.

\* Attempt 1 looks nothing up.
FirstAttempt(n) == pc[n] = "begun" /\ n = 1 /\ MayPlace(n)

FetchByClientIDOrPlace(n) ==                                       \* mutant
    /\ pc[n] = "begun" /\ n > 1 /\ venue.adapter = "by-id"
    /\ \/ Settled /\ MayPlace(n)
       \/ \E o \in Visible : Succeed(n, "found", o)
       \/ Visible = {} /\ ~Settled /\ Fail(n, "unsettled")

\* reconcile, by client order ID.  The order found may disagree with the request.
FetchByClientID(n) ==
    /\ pc[n] = "begun" /\ n > 1 /\ venue.adapter = "by-id"
    /\ \/ Fail(n, "unavailable")
       \/ \E o \in Visible : Succeed(n, "found", o) \/ Fail(n, "ambiguous")
       \/ Visible = {} /\ Settled /\ MayPlace(n)
       \/ Visible = {} /\ ~Settled /\ Fail(n, "unsettled")

\* reconcileByListing reads the open orders first and the closed ones next.
FetchOpenOrders(n) ==
    /\ pc[n] = "begun" /\ n > 1 /\ venue.adapter # "by-id"
    /\ \/ Fail(n, "unavailable")
       \/ \E other \in SUBSET (IF foreign /\ ~Tagged THEN {Foreign} ELSE {}) :
             /\ pc' = [pc EXCEPT ![n] = "half"]
             /\ listed' = [listed EXCEPT ![n] = {o \in Visible : order[o] = "open"} \cup other]
             /\ UNCHANGED <<clock, cut, idle, last, failures, outcome, exchangeVars>>

ClosedOrders == {o \in Visible : order[o] = "filled"}

MatchesClosed(n) == ClosedOrders                                   \* mutant

\* What the two listings show together; futures have no closed-orders listing.
Matches(n) == listed[n] \cup (IF venue.market = "spot" THEN ClosedOrders ELSE {})

\* A shape match sees an order only as far as the listing reports it as sent.
ShapeMatches(n) ==
    SUBSET (Matches(n) \cup (IF foreign /\ venue.market = "spot" THEN {Foreign} ELSE {}))

\* reconcileByListing with the rows that matched.
Decide(n, matches, truncated) ==
    \/ \E o \in matches :
          /\ matches = {o}
          /\ Succeed(n, "found", o) \/ (Tagged /\ Fail(n, "ambiguous"))
    \/ Cardinality(matches) > 1 /\ Fail(n, "ambiguous")
    \/ /\ matches = {} /\ venue.market = "futures"
       /\ \E kind \in {"unavailable", "ambiguous", "unproven"} : Fail(n, kind)
    \/ /\ matches = {} /\ venue.market = "spot" /\ venue.adapter = "shape"
       /\ Fail(n, IF Settled THEN "unproven" ELSE "unsettled")
    \/ /\ matches = {} /\ venue.market = "spot" /\ Tagged
       /\ \/ truncated /\ Fail(n, "unavailable")
          \/ ~truncated /\ ~Settled /\ Fail(n, "unsettled")
          \/ ~truncated /\ Settled /\ MayPlace(n)

FetchClosedOrders(n) ==
    /\ pc[n] = "half"
    /\ \/ venue.market = "spot" /\ Fail(n, "unavailable")
       \/ Tagged /\ Decide(n, Matches(n), FALSE)
       \/ Tagged /\ \E rows \in SUBSET Matches(n) : Decide(n, rows, TRUE)
       \/ ~Tagged /\ \E rows \in ShapeMatches(n) : Decide(n, rows, FALSE)

\* A context that ended before the call is a plain refusal.
NotSent(n) == pc[n] = "clear" /\ n \in cut /\ Fail(n, "not sent")

\* target.create: from here on the request may reach the exchange.
Send(n) ==
    /\ pc[n] = "clear" /\ n \notin cut
    /\ pc' = [pc EXCEPT ![n] = "sent"]
    /\ order' = [order EXCEPT ![n] = "wire"]
    /\ due' = [due EXCEPT ![n] = Flight]
    /\ UNCHANGED <<clock, attemptVars, shown, foreign, venue>>

Placed(n) == pc[n] = "sent" /\ Accepted(n) /\ Succeed(n, "placed", n)

CallFailsAsRefused(n) ==                                           \* mutant
    /\ pc[n] = "sent"
    /\ pc' = [pc EXCEPT ![n] = "rejected"]
    /\ UNCHANGED <<clock, attemptVars, exchangeVars>>

\* The place call returns an error.
CallFails(n) ==
    /\ pc[n] = "sent"
    /\ \E e \in CallErrors :
          /\ (e = "rejected") => (order[n] = "refused")
          /\ (e = "duplicate") => (order[n] = "refused" /\ Tagged)
          /\ pc' = [pc EXCEPT ![n] = e]
    /\ UNCHANGED <<clock, attemptVars, exchangeVars>>

\* afterPlaceError: on a retry the client order ID is looked up once more, a lookup
\* that may fail, before the error is classified.
AfterPlaceError(n) ==
    /\ pc[n] \in CallErrors
    /\ \/ Tagged /\ n > 1 /\ \E o \in Visible : Succeed(n, "found", o)
       \/ (pc[n] = "unclear" \/ n \in cut) /\ Fail(n, "unknown")
       \/ pc[n] = "duplicate" /\ n \notin cut /\ Fail(n, "ambiguous")
       \/ pc[n] = "rejected" /\ n \notin cut /\ Fail(n, "rejected")

------------------------------------------------------------------------------
\* The exchange.

\* It may refuse a request for a reason of its own, or for a repeated client order
\* ID; nothing says that it must refuse the repeat.
Arrive(n) ==
    /\ order[n] = "wire"
    /\ \E fate \in {"open", "refused", "lost"} :
          /\ order' = [order EXCEPT ![n] = fate]
          /\ due' = [due EXCEPT ![n] = IF fate = "open" THEN due[n] + Show ELSE 0]
    /\ UNCHANGED <<clock, pc, attemptVars, shown, foreign, venue>>

Appear(n) ==
    /\ Accepted(n) /\ n \notin shown
    /\ shown' = shown \cup {n}
    /\ due' = [due EXCEPT ![n] = 0]
    /\ UNCHANGED <<clock, pc, attemptVars, order, foreign, venue>>

Fill(n) ==
    /\ order[n] = "open"
    /\ order' = [order EXCEPT ![n] = "filled"]
    /\ UNCHANGED <<clock, pc, attemptVars, due, shown, foreign, venue>>

\* Time passes unless it would break a bound: a request arrives and an order is
\* shown in time, and the step does not dawdle before its place call.
Tick ==
    /\ \A n \in Attempts : Pending(n) => due[n] > 0
    /\ \A n \in Attempts :
          (pc[n] \in {"begun", "half", "clear"} /\ n \notin cut) => idle < Gates
    /\ clock' = IF clock < Settle THEN clock + 1 ELSE clock
    /\ idle' = IF idle < Horizon THEN idle + 1 ELSE idle
    /\ due' = [n \in Attempts |-> IF Pending(n) THEN due[n] - 1 ELSE due[n]]
    /\ UNCHANGED <<pc, cut, listed, last, failures, outcome, order, shown, foreign, venue>>

------------------------------------------------------------------------------
\* The conditions the theorems need.

\* Reconcile places again only for these; every other case stops or waits.
PlacesAgain ==
    \E v \in Venues : v.adapter = "by-id" \/ (v.adapter = "listing" /\ v.market = "spot")

\* The next attempt begins only when the exchange has shown what the last one sent.
Patient ==
    Flight + Show < Backoff /\ Flight + Show < Restart /\ Flight + Show < Takeover

Init ==
    /\ clock = 0
    /\ pc = [n \in Attempts |-> IF n = 1 THEN "begun" ELSE "idle"]
    /\ cut = {}
    /\ idle = 0
    /\ listed = [n \in Attempts |-> {}]
    /\ last = 1
    /\ failures = 0
    /\ outcome = [kind |-> "open", order |-> Foreign]
    /\ order = [n \in Attempts |-> "none"]
    /\ due = [n \in Attempts |-> 0]
    /\ shown = {}
    /\ venue \in Venues
    /\ foreign \in (IF venue.adapter = "shape" THEN BOOLEAN ELSE {FALSE})

Advance(n) ==
    \/ FirstAttempt(n) \/ FetchByClientID(n) \/ FetchOpenOrders(n) \/ FetchClosedOrders(n)
    \/ NotSent(n) \/ Send(n) \/ Placed(n) \/ CallFails(n) \/ AfterPlaceError(n)

Exchange(n) == Arrive(n) \/ Appear(n) \/ Fill(n)

Next ==
    \/ Begin \/ GiveUp \/ Cut \/ Crash \/ Tick
    \/ \E n \in Attempts : Advance(n) \/ Exchange(n)

Spec == Init /\ [][Next]_vars

\* The journal runs a due workflow and a running step ends (adapters have timeouts);
\* the exchange answers, time passes.  Nothing obliges a process to stop or die.
Fairness ==
    /\ WF_vars(Begin) /\ WF_vars(GiveUp) /\ WF_vars(Tick)
    /\ \A n \in Attempts : WF_vars(Advance(n)) /\ WF_vars(Arrive(n) \/ Appear(n))

FairSpec == Spec /\ Fairness

------------------------------------------------------------------------------
TypeOK ==
    /\ clock \in 0 .. Settle
    /\ pc \in [Attempts -> Places]
    /\ cut \in SUBSET Attempts
    /\ idle \in 0 .. Horizon
    /\ listed \in [Attempts -> SUBSET Orders]
    /\ last \in Attempts
    /\ failures \in 0 .. Retries
    /\ outcome \in [kind : {"open"} \cup Success \cup Failed, order : Orders]
    /\ order \in [Attempts -> {"none", "wire", "open", "filled", "refused", "lost"}]
    /\ due \in [Attempts -> 0 .. (Flight + Show)]
    /\ shown \in SUBSET Attempts
    /\ foreign \in BOOLEAN
    /\ venue \in Venues

\* "PlaceOrderIdempotent places req once per idemKey": whatever is lost, delayed,
\* retried, interrupted or taken over, the exchange never holds two of the orders.
AtMostOneOrder ==
    \A m, n \in Attempts : Accepted(m) /\ Accepted(n) => m = n

\* stepPlace tags a refusal of the exchange "nothing was placed", on any attempt:
\* then no attempt's request is, or will yet become, an order.
NothingPlacedIsTrue ==
    outcome.kind = "rejected" => \A n \in Attempts : ~AtLarge(n)

\* Once the step has its order, no other request is at large: not a second order,
\* not one still on its way from an attempt that lost the workflow.  (A match by
\* shape promises less: what it found may be an identical order of the owner's.)
NoStrayOrder ==
    Tagged /\ outcome.kind \in Success => \A n \in Attempts : AtLarge(n) => n = outcome.order

\* orderfail.go, Retryable: with a backoff of at least the settle delay the retries
\* are not used up by refusals that only say "not yet settled" (the cap on all
\* executions of the step, interrupted ones included, still can be).
RetriesOutlastSettle == outcome.kind = "unsettled" => last = MaxStepAttempts

\* The step ends: with its order, an error for the owner, or its attempts used up.
Concludes == <>(outcome.kind # "open")
==============================================================================
