--------------------------- MODULE DurableWorkflow ---------------------------
(***************************************************************************)
(* What pkg/journal promises of one workflow to those who use it (doc.go), *)
(* with no runners, leases, epochs, clocks or crashes: a journal that only *)
(* grows, at most one step begun and not finished, and one end.            *)
(***************************************************************************)
EXTENDS Naturals, Sequences

CONSTANTS
    Names,         \* names of journal records
    MaxAttempts    \* executions of one step

VARIABLES
    state,   \* "none", "active" or how the workflow ended
    asked,   \* somebody asked for it to stop
    log,     \* the records that are complete, in order, with their outcome
    open     \* the step begun and not complete, with its last attempt number

durable == <<state, asked, log, open>>

NoStep == [name |-> "none", tries |-> 0]
Ends == {"succeeded", "failed", "cancelled"}

Init == state = "none" /\ asked = FALSE /\ log = << >> /\ open = NoStep

\* Also under the id of a workflow that ended long ago and was forgotten.
Create ==
    /\ state \in {"none"} \cup Ends
    /\ state' = "active" /\ asked' = FALSE /\ log' = << >> /\ open' = NoStep

Begin(n) ==
    /\ state = "active" /\ ~asked
    /\ \/ open = NoStep /\ open' = [name |-> n, tries |-> 1]
       \/ /\ open.name = n /\ open.tries \in 1 .. MaxAttempts - 1
          /\ open' = [open EXCEPT !.tries = @ + 1]
    /\ UNCHANGED <<state, asked, log>>

Complete(out) ==
    /\ state = "active" /\ open # NoStep
    /\ log' = Append(log, [name |-> open.name, out |-> out])
    /\ open' = NoStep
    /\ UNCHANGED <<state, asked>>

\* A record that is complete when it is written.
Note(n) ==
    /\ state = "active" /\ open = NoStep
    /\ log' = Append(log, [name |-> n, out |-> "ok"])
    /\ UNCHANGED <<state, asked, open>>

Ask == state = "active" /\ asked' = TRUE /\ UNCHANGED <<state, log, open>>

End(s) ==
    /\ state = "active"
    /\ state' = s /\ asked' = FALSE
    /\ s = "succeeded" => open = NoStep
    /\ \/ UNCHANGED <<log, open>>
       \/ /\ s = "failed" /\ open # NoStep       \* the step's failure is the end
          /\ log' = Append(log, [name |-> open.name, out |-> "err"])
          /\ open' = NoStep

Next ==
    \/ Create \/ Ask
    \/ \E n \in Names : Begin(n) \/ Note(n)
    \/ \E out \in {"ok", "err"} : Complete(out)
    \/ \E s \in Ends : End(s)

Spec == Init /\ [][Next]_durable
=============================================================================
