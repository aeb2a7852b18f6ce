---------------------------- MODULE ApprovalProofs ----------------------------
(* Proofs about Approval for any number of decisions in progress, any window, *)
(* any retries and any number of crashes and power cuts.                      *)
EXTENDS Approval, TLAPS

------------------------------------------------------------------------------
(* Types of the pieces.                                                       *)

LEMMA ProcsTyped ==
    /\ Sweep \in Procs /\ Run \in Procs /\ Agent \in Procs /\ Stop \in Procs
    /\ Owners \subseteq Procs
    /\ Run # Agent /\ Run # Sweep /\ Run # Stop /\ Agent # Sweep /\ Agent # Stop /\ Sweep # Stop
    /\ \A o \in Owners : o # Run /\ o # Agent /\ o # Sweep /\ o # Stop
BY OwnersAssumption DEF Procs, Sweep, Run, Agent, Stop

LEMMA ConstantsTyped ==
    /\ Window \in Nat \ {0} /\ Retries \in Nat
    /\ MaxStepAttempts \in Nat \ {0} /\ MaxCrashes \in Nat
    /\ 0 \in 0 .. 2 * Window /\ 0 \in 0 .. Retries /\ 0 \in 0 .. MaxStepAttempts
BY BoundAssumption

LEMMA NoRowTyped == NoRow \in Rows
BY ConstantsTyped DEF NoRow, Rows, Statuses, Texts

LEMMA NewFlowTyped == NewFlow \in Flows /\ NewFlow.state = "pending"
BY ConstantsTyped DEF NewFlow, Flows, Steps, Ended, Errors, NotPlaced

LEMMA NoFlowTyped == NoFlow \in Flows /\ NoFlow.state = "none"
BY NewFlowTyped DEF NoFlow, Flows

\* What each update of the row leaves.
LEMMA RowBecomes ==
    ASSUME NEW r \in Rows, NEW s \in Statuses
    PROVE  [r EXCEPT !.status = s] \in Rows /\ [r EXCEPT !.status = s].status = s
BY DEF Rows

LEMMA RowDecided ==
    ASSUME NEW r \in Rows, NEW s \in Statuses, NEW t \in 0 .. 2 * Window
    PROVE  /\ [r EXCEPT !.status = s, !.decided = t] \in Rows
           /\ [r EXCEPT !.status = s, !.decided = t].status = s
BY DEF Rows

LEMMA RowSettled ==
    ASSUME NEW r \in Rows, NEW s \in Statuses, NEW text \in Texts
    PROVE  /\ [r EXCEPT !.status = s, !.outcome = text] \in Rows
           /\ [r EXCEPT !.status = s, !.outcome = text].status = s
BY DEF Rows

LEMMA RowNotified ==
    ASSUME NEW r \in Rows
    PROVE  [r EXCEPT !.notified = TRUE] \in Rows /\ [r EXCEPT !.notified = TRUE].status = r.status
BY DEF Rows

\* What each update of the workflow leaves.
LEMMA FlowStates ==
    ASSUME NEW f \in Flows, NEW s \in {"pending", "waiting", "running"} \cup Ended
    PROVE  [f EXCEPT !.state = s] \in Flows /\ [f EXCEPT !.state = s].state = s
BY DEF Flows

LEMMA FlowAsked ==
    ASSUME NEW f \in Flows
    PROVE  [f EXCEPT !.asked = TRUE] \in Flows /\ [f EXCEPT !.asked = TRUE].state = f.state
BY DEF Flows

LEMMA FlowTries ==
    ASSUME NEW f \in Flows, f.tries < MaxStepAttempts
    PROVE  [f EXCEPT !.tries = @ + 1] \in Flows /\ [f EXCEPT !.tries = @ + 1].state = f.state
<1>1. f.tries + 1 \in 0 .. MaxStepAttempts
  <2>1. f.tries \in 0 .. MaxStepAttempts
    BY DEF Flows
  <2> QED BY <2>1, ConstantsTyped
<1> QED BY <1>1 DEF Flows

LEMMA FlowWaits ==
    ASSUME NEW f \in Flows, f.failures < Retries
    PROVE  /\ [f EXCEPT !.state = "waiting", !.failures = @ + 1] \in Flows
           /\ [f EXCEPT !.state = "waiting", !.failures = @ + 1].state = "waiting"
<1>1. f.failures + 1 \in 0 .. Retries
  <2>1. f.failures \in 0 .. Retries
    BY DEF Flows
  <2> QED BY <2>1, ConstantsTyped
<1> QED BY <1>1 DEF Flows

LEMMA FlowSucceeds ==
    ASSUME NEW f \in Flows, NEW s \in Steps
    PROVE  /\ [f EXCEPT !.step = After[s], !.tries = 0, !.failures = 0] \in Flows
           /\ [f EXCEPT !.step = After[s], !.tries = 0, !.failures = 0].state = f.state
<1>1. After[s] \in Steps \cup {"end"}
  BY DEF After, Steps
<1> QED BY <1>1, ConstantsTyped DEF Flows

LEMMA FlowFails ==
    ASSUME NEW f \in Flows, NEW error \in Errors, f.step \in Steps
    PROVE  /\ [f EXCEPT !.failed = f.step, !.error = error, !.step = "settle_failure",
                        !.tries = 0, !.failures = 0] \in Flows
           /\ [f EXCEPT !.failed = f.step, !.error = error, !.step = "settle_failure",
                        !.tries = 0, !.failures = 0].state = f.state
BY ConstantsTyped DEF Flows, Steps

LEMMA FlowPanics ==
    ASSUME NEW f \in Flows, f.step \in Steps
    PROVE  /\ [f EXCEPT !.state = "failed", !.failed = f.step, !.error = "panic"] \in Flows
           /\ [f EXCEPT !.state = "failed", !.failed = f.step, !.error = "panic"].state = "failed"
BY DEF Flows, Steps, Errors, Ended
------------------------------------------------------------------------------
(* The inductive invariant.                                                   *)

Agreed == {"approved", "executing", "executed", "failed"}
Words == {"known", "stopping", "mid-step", "may exist", "over", "outdated"}
Sides == {"live", "paper"}

\* A workflow exists only for a row the owner approved, in the database and in what a
\* power cut leaves; a step of it runs only once the row is durable, and an order goes out
\* only in a step.
Agreement ==
    /\ flow.state # "none" => row.status \in Agreed
    /\ saved.flow.state # "none" => saved.row.status \in Agreed
    /\ pc[Agent] \in {"idle", "insert"} => row.status = "none"
    /\ \A p \in Procs : pc[p] \in {"start", "mark executing"} => row.status \in Agreed
    /\ pc[Run] # "idle" => flow.state # "none"
    /\ pc[Run] \notin {"idle", "next"} => saved.flow.state # "none" /\ flow.step \in Steps
    /\ sent # {} => flow.state # "none" /\ saved.flow.state # "none"

IInv == TypeOK /\ Agreement

\* What every step but a restart keeps.
Kept == IInv' /\ (row.status \in Final => row'.status = row.status)

LEMMA Moved ==
    ASSUME TypeOK, NEW p \in Procs, NEW place \in Places, Goto(p, place)
    PROVE  /\ pc' \in [Procs -> Places] /\ pc'[p] = place
           /\ \A q \in Procs : q # p => pc'[q] = pc[q]
BY DEF TypeOK, Goto

LEMMA Stayed ==
    ASSUME TypeOK, UNCHANGED pc, NEW p \in Procs
    PROVE  pc[p] \in Places /\ Goto(p, pc[p])
BY DEF TypeOK, Goto

LEMMA Pair ==
    ASSUME NEW s, NEW r, NEW f, NEW k, s = [row |-> r, flow |-> f, killed |-> k]
    PROVE  /\ s.row = r /\ s.flow = f /\ s.killed = k
           /\ r \in Rows /\ f \in Flows /\ k \in BOOLEAN
              => s \in [row : Rows, flow : Flows, killed : BOOLEAN]
OBVIOUS

\* What a durable record saves.
LEMMA Saves ==
    ASSUME Durably
    PROVE  /\ saved'.row = row' /\ saved'.flow = flow'
           /\ row' \in Rows /\ flow' \in Flows /\ killed' \in Switches
              => saved' \in [row : Rows, flow : Flows, killed : BOOLEAN]
<1>1. killed' \in Switches => killed'.row \in BOOLEAN
  BY DEF Switches
<1> QED BY <1>1, Pair DEF Durably

LEMMA StepTyped ==
    ASSUME TypeOK, pc' \in [Procs -> Places],
           row' \in Rows, flow' \in Flows, killed' \in Switches,
           UNCHANGED saved \/ Durably, sent' \subseteq Sides,
           saw' \in [Owners -> 0 .. 2 * Window], told' \subseteq Texts,
           stop' \subseteq Words, UNCHANGED <<card, paper, crashes>>, now' \in 0 .. 2 * Window
    PROVE  TypeOK'
<1>1. saved' \in [row : Rows, flow : Flows, killed : BOOLEAN]
  BY Saves DEF TypeOK
<1> QED BY <1>1 DEF TypeOK, Sides, Words

\* One process moves, and what it writes keeps the order of things.
LEMMA StepKeeps ==
    ASSUME IInv, NEW p \in Procs, NEW place \in Places, Goto(p, place),
           row' \in Rows, flow' \in Flows, killed' \in Switches,
           UNCHANGED saved \/ Durably, sent' \subseteq Sides,
           saw' \in [Owners -> 0 .. 2 * Window], told' \subseteq Texts,
           stop' \subseteq Words, UNCHANGED <<card, paper, crashes>>, now' \in 0 .. 2 * Window,
           row.status \in Agreed => row'.status \in Agreed,
           row.status \in Final => row'.status = row.status,
           row.status = "none" => row'.status = "none" \/ p = Agent,
           flow'.state # "none" => flow.state # "none" \/ row'.status \in Agreed,
           flow.state # "none" => flow'.state # "none",
           p = Agent => place \notin {"idle", "insert"} \/ row'.status = "none",
           place \in {"start", "mark executing"} => row'.status \in Agreed,
           p = Run /\ place # "idle" => flow'.state # "none",
           p = Run /\ place \notin {"idle", "next"}
             => saved'.flow.state # "none" /\ flow'.step \in Steps,
           p = Run \/ flow.state = "none" \/ flow'.step = flow.step,
           sent' # sent => pc[Run] = "placing"
    PROVE  Kept
<1>1. /\ pc' \in [Procs -> Places] /\ pc'[p] = place
      /\ \A q \in Procs : q # p => pc'[q] = pc[q]
  BY Moved DEF IInv
<1>2. TypeOK'
  BY <1>1, StepTyped DEF IInv
<1>3. flow'.state # "none" => row'.status \in Agreed
  BY DEF IInv, Agreement
<1>4. saved'.flow.state # "none" => saved'.row.status \in Agreed
  BY <1>3, Saves DEF IInv, Agreement
<1>5. pc'[Agent] \in {"idle", "insert"} => row'.status = "none"
  BY <1>1, ProcsTyped DEF IInv, Agreement
<1>6. \A q \in Procs : pc'[q] \in {"start", "mark executing"} => row'.status \in Agreed
  BY <1>1 DEF IInv, Agreement
<1>7. pc'[Run] # "idle" => flow'.state # "none"
  BY <1>1, ProcsTyped DEF IInv, Agreement
<1>8. saved.flow.state # "none" /\ flow.state # "none" => saved'.flow.state # "none"
  BY Saves
<1>9. pc'[Run] \notin {"idle", "next"} => saved'.flow.state # "none" /\ flow'.step \in Steps
  <2>1. CASE p = Run
    BY <1>1, <2>1, ProcsTyped
  <2>2. CASE p # Run
    BY <1>1, <1>8, <2>2, ProcsTyped DEF IInv, Agreement
  <2> QED BY <2>1, <2>2
<1>10. sent' # {} => flow'.state # "none" /\ saved'.flow.state # "none"
  BY <1>8 DEF IInv, Agreement
<1> QED BY <1>2, <1>3, <1>4, <1>5, <1>6, <1>7, <1>9, <1>10 DEF Kept, IInv, Agreement

\* A step that writes neither the row nor the workflow, and sends nothing.
LEMMA QuietKeeps ==
    ASSUME IInv, NEW p \in Procs, NEW place \in Places, Goto(p, place),
           UNCHANGED <<row, flow, saved, sent, card, paper, crashes>>, killed' \in Switches,
           saw' \in [Owners -> 0 .. 2 * Window], told' \subseteq Texts,
           stop' \subseteq Words, now' \in 0 .. 2 * Window,
           p = Agent => place \notin {"idle", "insert"} \/ row.status = "none",
           place \in {"start", "mark executing"} => row.status \in Agreed,
           p = Run /\ place # "idle" => flow.state # "none",
           p = Run /\ place \notin {"idle", "next"}
             => saved.flow.state # "none" /\ flow.step \in Steps
    PROVE  Kept
<1>1. row' \in Rows /\ flow' \in Flows /\ sent' \subseteq Sides
  BY DEF IInv, TypeOK, Sides
<1>2. row'.status = row.status /\ flow'.state = flow.state /\ saved' = saved /\ sent' = sent
        /\ flow'.step = flow.step
  OBVIOUS
<1> QED BY <1>1, <1>2, StepKeeps

\* A step that changes the row and moves its process.
LEMMA RowKeeps ==
    ASSUME IInv, NEW p \in Procs, NEW place \in Places, Goto(p, place), row' \in Rows,
           UNCHANGED <<now, card, flow, killed, saved, paper, sent, saw, owner, crashes>>,
           row.status \in Agreed => row'.status \in Agreed,
           row.status \in Final => row'.status = row.status,
           row.status = "none" => row'.status = "none" \/ p = Agent,
           p = Agent => place \notin {"idle", "insert"},
           place \in {"start", "mark executing"} => row'.status \in Agreed,
           p = Run /\ place # "idle" => flow.state # "none",
           p = Run /\ place \notin {"idle", "next"}
             => saved.flow.state # "none" /\ flow.step \in Steps
    PROVE  Kept
<1>1. /\ flow' \in Flows /\ sent' \subseteq Sides /\ killed' \in Switches
      /\ saw' \in [Owners -> 0 .. 2 * Window] /\ told' \subseteq Texts
      /\ stop' \subseteq Words /\ now' \in 0 .. 2 * Window
      /\ UNCHANGED <<card, paper, crashes>>
  BY DEF IInv, TypeOK, Sides, Words, owner
<1>2. flow'.state = flow.state /\ saved' = saved /\ sent' = sent /\ flow'.step = flow.step
  OBVIOUS
<1> QED BY <1>1, <1>2, StepKeeps

\* A durable record of the workflow, by its goroutine.
LEMMA RecordKeeps ==
    ASSUME IInv, NEW f \in Flows, NEW place \in Places, Record(f, place),
           pc[Run] # "idle", f.state # "none", UNCHANGED sent,
           place \notin {"idle", "next"} => f.step \in Steps
    PROVE  Kept
<1>1. /\ row' \in Rows /\ flow' = f /\ sent' \subseteq Sides /\ killed' \in Switches
      /\ saw' \in [Owners -> 0 .. 2 * Window] /\ told' \subseteq Texts
      /\ stop' \subseteq Words /\ now' \in 0 .. 2 * Window
      /\ UNCHANGED <<card, paper, crashes>>
  BY DEF IInv, TypeOK, Sides, Words, owner, Record
<1>2. row' = row /\ Durably /\ Goto(Run, place)
  BY DEF Record
<1>3. saved'.flow.state # "none"
  BY <1>1, <1>2, Saves
<1>4. flow.state # "none" /\ row'.status = row.status /\ row'.status \in Agreed
  BY <1>2 DEF IInv, Agreement
<1>5. flow'.state # "none" /\ Run # Agent /\ Run \in Procs
  BY <1>1, ProcsTyped
<1> QED BY <1>1, <1>2, <1>3, <1>4, <1>5, StepKeeps
------------------------------------------------------------------------------
(* The proposing turn and Decide.                                             *)

LEMMA AgentsKeep == ASSUME IInv, Agents PROVE Kept
<1>1. TypeOK
  BY DEF IInv
<1>2. row \in Rows /\ saw \in [Owners -> 0 .. 2 * Window] /\ told \subseteq Texts
        /\ stop \subseteq Words /\ now \in 0 .. 2 * Window /\ killed \in Switches
  BY <1>1 DEF TypeOK, Words
<1>3. CASE Propose
  <2>1. row.status = "none"
    BY <1>3 DEF Propose, At, IInv, Agreement
  <2>2. "insert" \in Places
    BY DEF Places
  <2> QED BY <1>2, <1>3, <2>1, <2>2, ProcsTyped, QuietKeeps DEF Propose, database, owner
<1>4. CASE Insert
  <2>1. row.status = "none"
    BY <1>4 DEF Insert, At, IInv, Agreement
  <2>2. row' \in Rows /\ row'.status = "pending"
    BY <1>2, <1>4, RowBecomes DEF Insert, Became, Statuses
  <2>3. "deliver" \in Places
    BY DEF Places
  <2> QED BY <1>4, <2>1, <2>2, <2>3, ProcsTyped, RowKeeps DEF Insert, Agreed, Final
<1>5. CASE NotDelivered
  <2>1. row' \in Rows /\ row'.status = "cancelled" /\ row.status = "pending"
    BY <1>2, <1>5, RowBecomes DEF NotDelivered, Became, Statuses, Final
  <2>2. "done" \in Places
    BY DEF Places
  <2> QED BY <1>5, <2>1, <2>2, ProcsTyped, RowKeeps DEF NotDelivered, Agreed, Final
<1> QED BY <1>3, <1>4, <1>5 DEF Agents

LEMMA DecideKeeps == ASSUME IInv, NEW o \in Owners, Decide(o) PROVE Kept
<1>1. TypeOK /\ o \in Procs /\ o # Run /\ o # Agent
  BY ProcsTyped DEF IInv
<1>2. row \in Rows /\ saw \in [Owners -> 0 .. 2 * Window] /\ told \subseteq Texts
        /\ stop \subseteq Words /\ now \in 0 .. 2 * Window /\ killed \in Switches
        /\ saw[o] \in 0 .. 2 * Window
  BY <1>1 DEF TypeOK, Words
<1>3. "idle" \in Places /\ "read" \in Places /\ "approve" \in Places /\ "start" \in Places
  BY DEF Places
<1>4. CASE Ask(o)
  <2>1. CASE now < Window
    <3>1. saw' \in [Owners -> 0 .. 2 * Window] /\ Goto(o, "read")
            /\ UNCHANGED <<row, flow, saved, sent, card, paper, crashes, killed, told, stop, now>>
      BY <1>2, <1>4, <2>1 DEF Ask, owner
    <3> QED BY <1>1, <1>2, <1>3, <3>1, QuietKeeps
  <2>2. CASE ~(now < Window)
    <3>1. row' \in Rows /\ row'.status = "expired" /\ row.status = "pending"
      BY <1>2, <1>4, <2>2, RowBecomes DEF Ask, Became, Statuses, Final
    <3>2. Goto(o, "idle")
      <4>1. UNCHANGED pc /\ pc[o] = "idle"
        BY <1>4, <2>2 DEF Ask, At
      <4> QED BY <1>1, <4>1, Stayed
    <3> QED BY <1>1, <1>3, <1>4, <2>2, <3>1, <3>2, RowKeeps DEF Ask, Agreed, Final
  <2> QED BY <2>1, <2>2
<1>5. CASE Refuse(o)
  BY <1>1, <1>2, <1>3, <1>5, QuietKeeps DEF Refuse, database, owner
<1>6. CASE Agree(o)
  BY <1>1, <1>2, <1>3, <1>6, QuietKeeps DEF Agree, database, owner
<1>7. CASE Approve(o)
  <2>1. CASE Decidable(o)
    <3>1. row' = [row EXCEPT !.status = "approved", !.decided = saw[o]] /\ row.status = "pending"
      BY <1>7, <2>1 DEF Approve, Decidable
    <3>2. "approved" \in Statuses
      BY DEF Statuses, Final
    <3>3. row' \in Rows /\ row'.status = "approved"
      BY <1>2, <3>1, <3>2, RowDecided
    <3> QED BY <1>1, <1>3, <1>7, <2>1, <3>1, <3>3, RowKeeps DEF Approve, Agreed, Final
  <2>2. CASE ~Decidable(o)
    BY <1>1, <1>2, <1>3, <1>7, <2>2, RowKeeps DEF Approve
  <2> QED BY <2>1, <2>2
<1>8. CASE Reject(o)
  <2>1. CASE Decidable(o)
    <3>1. row' = [row EXCEPT !.status = "rejected", !.decided = saw[o]] /\ row.status = "pending"
      BY <1>8, <2>1 DEF Reject, Decidable
    <3>2. "rejected" \in Statuses
      BY DEF Statuses, Final
    <3>3. row' \in Rows /\ row'.status = "rejected"
      BY <1>2, <3>1, <3>2, RowDecided
    <3> QED BY <1>1, <1>3, <1>8, <2>1, <3>1, <3>3, RowKeeps DEF Reject, Agreed, Final
  <2>2. CASE ~Decidable(o)
    BY <1>1, <1>2, <1>3, <1>8, <2>2, RowKeeps DEF Reject
  <2> QED BY <2>1, <2>2
<1> QED BY <1>4, <1>5, <1>6, <1>7, <1>8 DEF Decide
------------------------------------------------------------------------------
(* What the owner's calls, the sweeper and the workflow share.                *)

LEMMA BeginsKeep == ASSUME IInv, NEW p \in Owners \cup {Sweep}, Begins(p) PROVE Kept
<1>1. TypeOK /\ p \in Procs /\ p # Run /\ p # Agent
  BY ProcsTyped DEF IInv
<1>2. /\ row \in Rows /\ saw \in [Owners -> 0 .. 2 * Window] /\ told \subseteq Texts
      /\ stop \subseteq Words /\ now \in 0 .. 2 * Window /\ killed \in Switches
      /\ flow \in Flows /\ sent \subseteq Sides
  BY <1>1 DEF TypeOK, Words, Sides
<1>3. "idle" \in Places /\ "mark executing" \in Places
  BY DEF Places
<1>4. CASE Start(p)
  <2>1. row.status \in Agreed
    BY <1>1, <1>4 DEF Start, At, IInv, Agreement
  <2>2. flow' \in Flows /\ flow'.state # "none"
          /\ (flow.state = "none" \/ flow'.step = flow.step) /\ Goto(p, "mark executing")
    BY <1>2, <1>4, NewFlowTyped DEF Start
  <2>3. UNCHANGED <<row, saved, sent, card, paper, crashes, killed, saw, told, stop, now>>
    BY <1>4 DEF Start, owner
  <2>4. row' \in Rows /\ row'.status = row.status /\ sent' \subseteq Sides /\ saved' = saved
    BY <1>2, <2>3
  <2>5. /\ killed' \in Switches /\ saw' \in [Owners -> 0 .. 2 * Window] /\ told' \subseteq Texts
        /\ stop' \subseteq Words /\ now' \in 0 .. 2 * Window /\ sent' = sent
        /\ UNCHANGED <<card, paper, crashes>>
    BY <1>2, <2>3
  <2>6. /\ row.status \in Final => row'.status = row.status
        /\ row.status = "none" => row'.status = "none"
        /\ row'.status \in Agreed /\ row.status \in Agreed
        /\ p # Run /\ p # Agent
        /\ UNCHANGED saved \/ Durably
    BY <1>1, <2>1, <2>4
  <2> QED BY <1>1, <1>3, <2>2, <2>4, <2>5, <2>6, StepKeeps
<1>5. CASE MarkExecuting(p)
  <2>1. CASE row.status = "approved"
    <3>1. row' = [row EXCEPT !.status = "executing"] /\ "executing" \in Statuses
      BY <1>5, <2>1 DEF MarkExecuting, Became, Statuses
    <3>2. row' \in Rows /\ row'.status = "executing"
      BY <1>2, <3>1, RowBecomes
    <3> QED BY <1>1, <1>3, <1>5, <2>1, <3>2, RowKeeps DEF MarkExecuting, Agreed, Final
  <2>2. CASE row.status # "approved"
    BY <1>1, <1>2, <1>3, <1>5, <2>2, RowKeeps DEF MarkExecuting
  <2> QED BY <2>1, <2>2
<1>6. CASE StartFails(p)
  BY <1>1, <1>2, <1>3, <1>6, QuietKeeps DEF StartFails, database, owner
<1> QED BY <1>4, <1>5, <1>6 DEF Begins

LEMMA SkipGoes ==
    ASSUME NEW p
    PROVE  /\ p = Sweep => (Skip(p) <=> Goto(p, "idle"))
           /\ p = Run => (Skip(p) <=> Goto(p, "over"))
BY ProcsTyped DEF Skip, Goto

LEMMA TellKeeps == ASSUME IInv, NEW p \in Tellers, Tell(p) \/ MarkNotified(p) PROVE Kept
<1>1. TypeOK /\ p \in Procs /\ p # Agent /\ (p = Sweep \/ p = Run) /\ Sweep # Run
  BY ProcsTyped DEF IInv, Tellers
<1>2. /\ row \in Rows /\ saw \in [Owners -> 0 .. 2 * Window] /\ told \subseteq Texts
      /\ stop \subseteq Words /\ now \in 0 .. 2 * Window /\ killed \in Switches
  BY <1>1 DEF TypeOK, Words
<1>3. "idle" \in Places /\ "over" \in Places /\ "told" \in Places
  BY DEF Places
<1>4. p = Run => flow.state # "none" /\ saved.flow.state # "none" /\ flow.step \in Steps
  BY DEF Tell, MarkNotified, At, IInv, Agreement
<1>5. CASE Tell(p)
  <2>1. UNCHANGED <<row, flow, saved, sent, card, paper, crashes, killed, saw, stop, now>>
    BY <1>5 DEF Tell, database
  <2>2. told' \subseteq Texts
    BY <1>2, <1>5 DEF Tell, Title, Rows, Texts
  <2>3. CASE Goto(p, "told")
    BY <1>1, <1>2, <1>3, <1>4, <2>1, <2>2, <2>3, QuietKeeps
  <2>4. CASE Skip(p) /\ p = Sweep
    BY <1>1, <1>2, <1>3, <1>4, <2>1, <2>2, <2>4, QuietKeeps, SkipGoes
  <2>5. CASE Skip(p) /\ p = Run
    BY <1>1, <1>2, <1>3, <1>4, <2>1, <2>2, <2>5, QuietKeeps, SkipGoes
  <2> QED BY <1>1, <1>5, <2>3, <2>4, <2>5 DEF Tell
<1>6. CASE MarkNotified(p)
  <2>1. row' \in Rows /\ row'.status = row.status
    BY <1>2, <1>6, RowNotified DEF MarkNotified
  <2>2. UNCHANGED <<now, card, flow, killed, saved, paper, sent, saw, owner, crashes>> /\ Skip(p)
    BY <1>6 DEF MarkNotified
  <2>3. CASE p = Sweep
    BY <1>1, <1>3, <2>1, <2>2, <2>3, RowKeeps, SkipGoes
  <2>4. CASE p = Run
    BY <1>1, <1>3, <1>4, <2>1, <2>2, <2>4, RowKeeps, SkipGoes
  <2> QED BY <1>1, <2>3, <2>4
<1> QED BY <1>5, <1>6

LEMMA Finishes ==
    ASSUME row \in Rows, NEW s \in {"executed", "failed"}, NEW text \in Texts, Finish(s, text)
    PROVE  /\ row' \in Rows
           /\ (row.status = "executing" /\ row'.status = s) \/ row' = row
<1>1. CASE row.status = "executing"
  <2>1. row' = [row EXCEPT !.status = s, !.outcome = text]
    BY <1>1 DEF Finish
  <2>2. s \in Statuses
    BY DEF Statuses, Final
  <2>3. /\ [row EXCEPT !.status = s, !.outcome = text] \in Rows
        /\ [row EXCEPT !.status = s, !.outcome = text].status = s
    BY <2>2, RowSettled
  <2> QED BY <1>1, <2>1, <2>3
<1>2. CASE row.status # "executing"
  BY <1>2 DEF Finish
<1> QED BY <1>1, <1>2

LEMMA SweepsKeep == ASSUME IInv, Sweeps PROVE Kept
<1>1. TypeOK /\ Sweep \in Procs /\ Sweep # Run /\ Sweep # Agent
  BY ProcsTyped DEF IInv
<1>2. /\ row \in Rows /\ saw \in [Owners -> 0 .. 2 * Window] /\ told \subseteq Texts
      /\ stop \subseteq Words /\ now \in 0 .. 2 * Window /\ killed \in Switches
  BY <1>1 DEF TypeOK, Words
<1>3. "idle" \in Places /\ "start" \in Places /\ "tell" \in Places
  BY DEF Places
<1>4. CASE ExpireDue
  <2>1. row' = [row EXCEPT !.status = "expired"] /\ row.status = "pending"
          /\ "expired" \in Statuses
    BY <1>4 DEF ExpireDue, Became, Statuses, Final
  <2>2. row' \in Rows /\ row'.status = "expired"
    BY <1>2, <2>1, RowBecomes
  <2>3. Goto(Sweep, "idle")
    <3>1. UNCHANGED pc /\ pc[Sweep] = "idle"
      BY <1>4 DEF ExpireDue, At
    <3> QED BY <1>1, <3>1, Stayed
  <2> QED BY <1>1, <1>3, <1>4, <2>1, <2>2, <2>3, RowKeeps DEF ExpireDue, Agreed, Final
<1>5. CASE StartLost
  BY <1>1, <1>2, <1>3, <1>5, QuietKeeps DEF StartLost, database, owner, Agreed
<1>6. CASE SettleEnded
  <2>1. FailureText \in Texts /\ "executed" \in Texts
    BY DEF FailureText, Texts
  <2>2. row' \in Rows /\ ((row.status = "executing" /\ row'.status \in {"executed", "failed"})
                          \/ row' = row)
    BY <1>2, <1>6, <2>1, Finishes DEF SettleEnded
  <2> QED BY <1>1, <1>3, <1>6, <2>2, RowKeeps DEF SettleEnded, Agreed, Final
<1>7. CASE Renotify
  BY <1>1, <1>2, <1>3, <1>7, QuietKeeps DEF Renotify, database, owner
<1>8. CASE Tell(Sweep) \/ MarkNotified(Sweep)
  BY <1>8, TellKeeps DEF Tellers
<1>9. CASE Begins(Sweep)
  BY <1>9, BeginsKeep
<1> QED BY <1>4, <1>5, <1>6, <1>7, <1>8, <1>9 DEF Sweeps
------------------------------------------------------------------------------
(* The workflow.                                                              *)

\* What a step does to the record of the workflow.
LEMMA SucceedsKeeps ==
    ASSUME IInv, NEW f \in Flows, f.state = flow.state, flow.step \in Steps,
           pc[Run] # "idle", StepSucceeds(f), UNCHANGED sent
    PROVE  Kept
<1> DEFINE g == [f EXCEPT !.step = After[flow.step], !.tries = 0, !.failures = 0]
<1>1. g \in Flows /\ g.state = f.state
  BY FlowSucceeds
<1>2. "next" \in Places /\ f.state # "none" /\ Record(g, "next")
  BY DEF Places, IInv, Agreement, StepSucceeds
<1> QED BY <1>1, <1>2, RecordKeeps

LEMMA FailsKeeps ==
    ASSUME IInv, NEW error \in Errors, flow.step \in Steps,
           pc[Run] # "idle", StepFails(error), UNCHANGED sent
    PROVE  Kept
<1> DEFINE g == [flow EXCEPT !.failed = flow.step, !.error = error, !.step = "settle_failure",
                             !.tries = 0, !.failures = 0]
<1>1. flow \in Flows /\ flow.state # "none"
  BY DEF IInv, TypeOK, Agreement
<1>2. g \in Flows /\ g.state = flow.state
  BY <1>1, FlowFails
<1>3. "next" \in Places /\ Record(g, "next")
  BY DEF Places, StepFails
<1> QED BY <1>1, <1>2, <1>3, RecordKeeps

LEMMA ErrsKeeps ==
    ASSUME IInv, NEW error \in Errors, flow.step \in Steps,
           pc[Run] # "idle", StepErrs(error), UNCHANGED sent
    PROVE  Kept
<1>1. CASE flow.failures < Retries /\ flow.tries < MaxStepAttempts
  <2> DEFINE g == [flow EXCEPT !.state = "waiting", !.failures = @ + 1]
  <2>1. flow \in Flows
    BY DEF IInv, TypeOK
  <2>2. g \in Flows /\ g.state = "waiting"
    BY <1>1, <2>1, FlowWaits
  <2>3. "idle" \in Places /\ Record(g, "idle")
    BY <1>1 DEF Places, StepErrs
  <2> QED BY <2>2, <2>3, RecordKeeps
<1>2. CASE ~(flow.failures < Retries /\ flow.tries < MaxStepAttempts)
  BY <1>2, FailsKeeps DEF StepErrs
<1> QED BY <1>1, <1>2

\* Where a step is, the workflow has a durable row and a step to go on with.
LEMMA InStep ==
    ASSUME IInv, pc[Run] \notin {"idle", "next"}
    PROVE  flow.state # "none" /\ saved.flow.state # "none" /\ flow.step \in Steps
BY DEF IInv, Agreement

LEMMA FlowFinishes ==
    ASSUME IInv, NEW s \in Ended, pc[Run] # "idle",
           Record([flow EXCEPT !.state = s], "idle"), UNCHANGED sent
    PROVE  Kept
<1>1. [flow EXCEPT !.state = s] \in Flows /\ [flow EXCEPT !.state = s].state = s
  BY FlowStates DEF IInv, TypeOK
<1>2. "idle" \in Places /\ s # "none"
  BY DEF Places, Ended
<1> QED BY <1>1, <1>2, RecordKeeps

\* The engine's part: claim, the steps' boundaries, the end.
LEMMA EngineKeeps ==
    ASSUME IInv, Claim \/ BeginStep \/ Cancelled \/ GiveUp \/ End \/ Panic
    PROVE  Kept
<1>1. TypeOK /\ Run \in Procs /\ Run # Agent /\ flow \in Flows
  BY ProcsTyped DEF IInv, TypeOK
<1>2. CASE Claim
  <2>1. flow' = [flow EXCEPT !.state = "running"] /\ flow.state # "none"
    BY <1>2 DEF Claim, Ended
  <2>2. flow' \in Flows /\ flow'.state = "running"
    BY <1>1, <2>1, FlowStates
  <2>3. /\ row' \in Rows /\ killed' \in Switches /\ sent' \subseteq Sides
        /\ saw' \in [Owners -> 0 .. 2 * Window] /\ told' \subseteq Texts
        /\ stop' \subseteq Words /\ now' \in 0 .. 2 * Window
        /\ UNCHANGED <<card, paper, crashes>>
    BY <1>1, <1>2 DEF Claim, TypeOK, Sides, Words, owner
  <2>4. row'.status = row.status /\ saved' = saved /\ sent' = sent /\ Goto(Run, "next")
    BY <1>2 DEF Claim
  <2>5. "next" \in Places
    BY DEF Places
  <2> QED BY <1>1, <2>1, <2>2, <2>3, <2>4, <2>5, StepKeeps
<1>3. CASE BeginStep
  <2> DEFINE g == [flow EXCEPT !.tries = @ + 1]
  <2>1. flow.tries < MaxStepAttempts
    <3>1. flow.tries \in 0 .. MaxStepAttempts
      BY <1>1 DEF Flows
    <3> QED BY <1>3, <3>1, ConstantsTyped DEF BeginStep
  <2>2. g \in Flows /\ g.state = flow.state
    BY <1>1, <2>1, FlowTries
  <2>3. flow.step \in Steps
    BY <1>1, <1>3 DEF BeginStep, Flows
  <2>4. g.step = flow.step /\ flow.step \in Places
    BY <1>1, <2>3 DEF Flows, Places
  <2>5. pc[Run] # "idle" /\ flow.state # "none" /\ Record(g, flow.step) /\ UNCHANGED sent
    BY <1>3 DEF BeginStep, At, IInv, Agreement
  <2> QED BY <2>2, <2>3, <2>4, <2>5, RecordKeeps
<1>4. CASE Cancelled
  BY <1>4, FlowFinishes DEF Cancelled, At, Ended
<1>5. CASE GiveUp
  BY <1>5, FlowFinishes DEF GiveUp, At, Ended
<1>6. CASE End
  BY <1>6, FlowFinishes DEF End, At, Ended
<1>7. CASE Panic
  <2> DEFINE g == [flow EXCEPT !.state = "failed", !.failed = flow.step, !.error = "panic"]
  <2>1. pc[Run] \notin {"idle", "next"}
    BY <1>7 DEF Panic, Steps
  <2>2. g \in Flows /\ g.state = "failed"
    BY <1>1, <2>1, InStep, FlowPanics
  <2>3. Record(g, "idle") /\ UNCHANGED sent /\ "idle" \in Places
    BY <1>7 DEF Panic, Places
  <2> QED BY <2>1, <2>2, <2>3, RecordKeeps
<1> QED BY <1>2, <1>3, <1>4, <1>5, <1>6, <1>7

LEMMA FlowReduces ==
    ASSUME NEW f \in Flows, NEW b \in BOOLEAN
    PROVE  [f EXCEPT !.reducing = b] \in Flows /\ [f EXCEPT !.reducing = b].state = f.state
BY DEF Flows

\* The steps that end in a record.
LEMMA RecordedStepKeeps ==
    ASSUME IInv, \/ Recheck \/ Throttle \/ PlaceRefused \/ NoProvider \/ Rejected
                 \/ Unknown \/ Undecided \/ Placed \/ Verify \/ StepOver
    PROVE  Kept
<1>1. flow \in Flows
  BY DEF IInv, TypeOK
<1>2. pc[Run] \notin {"idle", "next"} /\ UNCHANGED sent
  BY DEF Recheck, Throttle, PlaceRefused, NoProvider, Rejected, Unknown, Undecided, Placed,
         Verify, StepOver, At
<1>3. flow.step \in Steps /\ pc[Run] # "idle"
  BY <1>2, InStep
<1>4. ASSUME \E error \in Errors : StepFails(error) PROVE Kept
  BY <1>2, <1>3, <1>4, FailsKeeps
<1>5. ASSUME \E error \in Errors : StepErrs(error) PROVE Kept
  BY <1>2, <1>3, <1>5, ErrsKeeps
<1>6. ASSUME StepSucceeds(flow) PROVE Kept
  BY <1>1, <1>2, <1>3, <1>6, SucceedsKeeps
<1>7. Refusal \in Errors
  BY DEF Refusal, Errors, NotPlaced
<1>8. {"refused", "may exist", "not placed", "no provider"} \subseteq Errors
  BY DEF Errors, NotPlaced
<1>9. CASE Recheck
  <2>1. CASE StepFails("refused")
    BY <1>4, <1>8, <2>1
  <2>2. ASSUME NEW reducing \in BOOLEAN, StepSucceeds([flow EXCEPT !.reducing = reducing])
        PROVE  Kept
    BY <1>1, <1>2, <1>3, <2>2, FlowReduces, SucceedsKeeps
  <2> QED BY <1>9, <2>1, <2>2 DEF Recheck
<1>10. CASE Throttle
  BY <1>4, <1>5, <1>6, <1>8, <1>10 DEF Throttle
<1>11. CASE PlaceRefused
  BY <1>4, <1>7, <1>11 DEF PlaceRefused
<1>12. CASE NoProvider \/ Rejected \/ Undecided
  BY <1>4, <1>8, <1>12 DEF NoProvider, Rejected, Undecided
<1>13. CASE Unknown
  BY <1>5, <1>8, <1>13 DEF Unknown
<1>14. CASE Placed \/ Verify \/ StepOver
  BY <1>6, <1>14 DEF Placed, Verify, StepOver
<1> QED BY <1>9, <1>10, <1>11, <1>12, <1>13, <1>14

\* The steps' other moves.
LEMMA StepMovesKeep ==
    ASSUME IInv, Place \/ Accept \/ Receipt \/ SettleFailure
    PROVE  Kept
<1>1. /\ row \in Rows /\ flow \in Flows /\ sent \subseteq Sides /\ paper \in BOOLEAN
      /\ saw \in [Owners -> 0 .. 2 * Window] /\ told \subseteq Texts
      /\ stop \subseteq Words /\ now \in 0 .. 2 * Window /\ killed \in Switches
  BY DEF IInv, TypeOK, Words, Sides
<1>2. pc[Run] \notin {"idle", "next"} /\ Run \in Procs /\ Run # Agent
  BY ProcsTyped DEF Place, Accept, Receipt, SettleFailure, At
<1>3. flow.state # "none" /\ saved.flow.state # "none" /\ flow.step \in Steps
  BY <1>2, InStep
<1>4. "placing" \in Places /\ "sent" \in Places /\ "tell" \in Places /\ "over" \in Places
  BY DEF Places
<1>5. CASE Place
  BY <1>1, <1>2, <1>3, <1>4, <1>5, QuietKeeps DEF Place, database, owner
<1>6. CASE Accept
  <2>1. sent' \subseteq Sides /\ pc[Run] = "placing" /\ Goto(Run, "sent")
    BY <1>1, <1>6 DEF Accept, Venue, Sides, At
  <2>2. /\ row' \in Rows /\ flow' \in Flows /\ killed' \in Switches
        /\ saw' \in [Owners -> 0 .. 2 * Window] /\ told' \subseteq Texts
        /\ stop' \subseteq Words /\ now' \in 0 .. 2 * Window
        /\ UNCHANGED <<card, paper, crashes>>
    BY <1>1, <1>6 DEF Accept, database, owner
  <2>3. row'.status = row.status /\ saved' = saved /\ flow' = flow
    BY <1>6 DEF Accept, database
  <2> QED BY <1>2, <1>3, <1>4, <2>1, <2>2, <2>3, StepKeeps
<1>7. CASE Receipt
  <2>1. row' \in Rows /\ ((row.status = "executing" /\ row'.status = "executed") \/ row' = row)
    BY <1>1, <1>7, Finishes DEF Receipt, Texts
  <2> QED BY <1>2, <1>3, <1>4, <1>7, <2>1, RowKeeps DEF Receipt, Agreed, Final
<1>8. CASE SettleFailure
  <2>1. FailureText \in Texts
    BY DEF FailureText, Texts
  <2>2. row' \in Rows /\ ((row.status = "executing" /\ row'.status = "failed") \/ row' = row)
    BY <1>1, <1>8, <2>1, Finishes DEF SettleFailure
  <2>3. Goto(Run, "tell") \/ Goto(Run, "over")
    BY <1>8 DEF SettleFailure
  <2>4. UNCHANGED <<now, card, flow, killed, saved, paper, sent, saw, owner, crashes>>
    BY <1>8 DEF SettleFailure
  <2> QED BY <1>2, <1>3, <1>4, <2>2, <2>3, <2>4, RowKeeps DEF Agreed, Final
<1> QED BY <1>5, <1>6, <1>7, <1>8

LEMMA RunsKeep == ASSUME IInv, Runs PROVE Kept
BY EngineKeeps, RecordedStepKeeps, StepMovesKeep, TellKeeps DEF Runs, Tellers
------------------------------------------------------------------------------
(* /stop, the owner's resume, the clock, and the restart.                     *)

LEMMA StopsKeep == ASSUME IInv, Stops PROVE Kept
<1>1. /\ row \in Rows /\ flow \in Flows /\ sent \subseteq Sides
      /\ saw \in [Owners -> 0 .. 2 * Window] /\ told \subseteq Texts
      /\ stop \subseteq Words /\ now \in 0 .. 2 * Window /\ killed \in Switches
  BY DEF IInv, TypeOK, Words, Sides
<1>2. Stop \in Procs /\ Stop # Run /\ Stop # Agent
  BY ProcsTyped
<1>3. /\ "flows" \in Places /\ "cancel" \in Places /\ "proposals" \in Places
      /\ "orders" \in Places /\ "done" \in Places
  BY DEF Places
<1>4. CASE Engage
  BY <1>1, <1>2, <1>3, <1>4, QuietKeeps DEF Engage, Switches
<1>5. CASE ReadFlow
  <2>1. stop' \subseteq Words
    BY <1>1, <1>5 DEF ReadFlow, Words
  <2>2. Goto(Stop, "proposals") \/ Goto(Stop, "cancel")
    BY <1>5 DEF ReadFlow
  <2> QED BY <1>1, <1>2, <1>3, <1>5, <2>1, <2>2, QuietKeeps DEF ReadFlow, database
<1>6. CASE CancelFlow
  <2>1. /\ row' \in Rows /\ killed' \in Switches /\ sent' \subseteq Sides
        /\ saw' \in [Owners -> 0 .. 2 * Window] /\ told' \subseteq Texts
        /\ now' \in 0 .. 2 * Window /\ UNCHANGED <<card, paper, crashes>>
        /\ row'.status = row.status /\ sent' = sent
    BY <1>1, <1>6 DEF CancelFlow
  <2>2. Durably /\ Goto(Stop, "proposals")
    BY <1>6 DEF CancelFlow
  <2>3. /\ flow' \in Flows /\ stop' \subseteq Words
        /\ (flow'.state # "none" <=> flow.state # "none") /\ flow'.step = flow.step
    <3>1. CASE flow.state \in {"pending", "waiting"}
      <4>1. flow' = [flow EXCEPT !.state = "cancelled"] /\ stop' = stop
        BY <1>6, <3>1 DEF CancelFlow
      <4> QED BY <1>1, <3>1, <4>1, FlowStates DEF Ended, Flows
    <3>2. CASE flow.state = "running"
      <4>1. flow' = [flow EXCEPT !.asked = TRUE] /\ stop' = stop \cup {"stopping"}
        BY <1>6, <3>2 DEF CancelFlow, Says
      <4> QED BY <1>1, <3>2, <4>1, FlowAsked DEF Flows, Words
    <3>3. CASE flow.state \notin {"pending", "waiting", "running"}
      BY <1>1, <1>6, <3>3 DEF CancelFlow
    <3> QED BY <3>1, <3>2, <3>3
  <2>4. flow'.state # "none" => row'.status \in Agreed
    BY <2>1, <2>3 DEF IInv, Agreement
  <2> QED BY <1>2, <1>3, <2>1, <2>2, <2>3, <2>4, StepKeeps
<1>7. CASE CancelPending
  <2>1. CASE row.status = "pending"
    <3>1. row' = [row EXCEPT !.status = "cancelled"] /\ "cancelled" \in Statuses
      BY <1>7, <2>1 DEF CancelPending, Became, Statuses, Final
    <3>2. row' \in Rows /\ row'.status = "cancelled"
      BY <1>1, <3>1, RowBecomes
    <3> QED BY <1>2, <1>3, <1>7, <2>1, <3>2, RowKeeps DEF CancelPending, Agreed, Final
  <2>2. CASE row.status # "pending"
    BY <1>1, <1>2, <1>3, <1>7, <2>2, RowKeeps DEF CancelPending
  <2> QED BY <2>1, <2>2
<1>8. CASE TooLate
  <2>1. stop' \subseteq Words
    BY <1>1, <1>8 DEF TooLate, Says, Words
  <2> QED BY <1>1, <1>2, <1>3, <1>8, <2>1, QuietKeeps DEF TooLate, database
<1>9. CASE Withdraw
  <2>1. stop' \subseteq Words
    BY <1>1, <1>9 DEF Withdraw, Says, Words
  <2> QED BY <1>1, <1>2, <1>3, <1>9, <2>1, QuietKeeps DEF Withdraw, database
<1> QED BY <1>4, <1>5, <1>6, <1>7, <1>8, <1>9 DEF Stops

LEMMA ElseKeeps == ASSUME IInv, Resume \/ Outdated \/ Reread \/ Tick PROVE Kept
<1>1. /\ row \in Rows /\ flow \in Flows /\ sent \subseteq Sides
      /\ saw \in [Owners -> 0 .. 2 * Window] /\ told \subseteq Texts
      /\ stop \subseteq Words /\ now \in 0 .. 2 * Window /\ killed \in Switches
  BY DEF IInv, TypeOK, Words, Sides
<1>2. Sweep \in Procs /\ Sweep # Run /\ Sweep # Agent
  BY ProcsTyped
<1>3. pc[Sweep] \in Places /\ Goto(Sweep, pc[Sweep])
  <2>1. UNCHANGED pc /\ TypeOK
    BY DEF Resume, Outdated, Reread, Tick, IInv
  <2> QED BY <1>2, <2>1, Stayed
<1>4. pc[Sweep] \in {"start", "mark executing"} => row.status \in Agreed
  BY <1>2 DEF IInv, Agreement
<1>5. /\ UNCHANGED <<row, flow, saved, sent, card, paper, crashes, saw, told>>
      /\ killed' \in Switches /\ stop' \subseteq Words /\ now' \in 0 .. 2 * Window
  <2>1. CASE Resume
    BY <1>1, <2>1 DEF Resume, owner, Switches
  <2>3. CASE Outdated
    BY <1>1, <2>3 DEF Outdated, Says, Words, Switches
  <2>4. CASE Reread
    BY <1>1, <2>4 DEF Reread, owner, Switches
  <2>2. CASE Tick
    <3>1. now' \in 0 .. 2 * Window
      BY <1>1, <2>2, ConstantsTyped DEF Tick
    <3> QED BY <1>1, <2>2, <3>1 DEF Tick, database, owner
  <2> QED BY <2>1, <2>2, <2>3, <2>4
<1> QED BY <1>1, <1>2, <1>3, <1>4, <1>5, QuietKeeps

\* A restart loses the processes, a power cut what was not durable.
LEMMA RestartKeeps == ASSUME IInv, Crash \/ PowerCut PROVE IInv' /\ crashes' # crashes
<1>1. Restart
  BY DEF Crash, PowerCut
<1>2. crashes \in 0 .. MaxCrashes /\ crashes' = crashes + 1 /\ crashes < MaxCrashes
  BY <1>1 DEF Restart, IInv, TypeOK
<1>3. crashes' \in 0 .. MaxCrashes /\ crashes' # crashes
  BY <1>2, ConstantsTyped
<1>4. /\ pc' \in [Procs -> Places] /\ pc'[Agent] = "done" /\ pc'[Run] = "idle"
      /\ \A p \in Procs : pc'[p] \in {"idle", "done"}
  BY <1>1, ProcsTyped DEF Restart, Dead, Places
<1>5. /\ saw' \in [Owners -> 0 .. 2 * Window] /\ stop' \subseteq Words /\ paper' \in BOOLEAN
  BY <1>1, ConstantsTyped DEF Restart, IInv, TypeOK
<1>6. UNCHANGED <<now, card, saved, sent, told>>
  BY <1>1 DEF Restart
<1>7. row' \in Rows /\ flow' \in Flows /\ killed' \in Switches
  <2>1. killed \in Switches /\ saved.killed \in BOOLEAN
    BY DEF IInv, TypeOK
  <2>2. [killed EXCEPT !.memory = killed.row] \in Switches
    BY <2>1 DEF Switches
  <2>3. [row |-> saved.killed, memory |-> saved.killed] \in Switches
    BY <2>1 DEF Switches
  <2> QED BY <2>2, <2>3 DEF Crash, PowerCut, IInv, TypeOK
<1>8. TypeOK'
  BY <1>3, <1>4, <1>5, <1>6, <1>7 DEF IInv, TypeOK, Words
<1>9. flow'.state # "none" => row'.status \in Agreed
  BY DEF Crash, PowerCut, IInv, Agreement
<1>10. sent # {} => flow'.state # "none"
  BY DEF Crash, PowerCut, IInv, Agreement
<1>11. Agreement'
  BY <1>4, <1>6, <1>9, <1>10 DEF IInv, Agreement
<1> QED BY <1>3, <1>8, <1>11 DEF IInv
------------------------------------------------------------------------------
(* The theorems.                                                              *)

LEMMA InitAgrees == ASSUME Init PROVE IInv
<1>1. row \in Rows /\ flow \in Flows /\ row.status = "none" /\ flow.state = "none"
  BY NoRowTyped, NoFlowTyped DEF Init, NoRow
<1>2. saved \in [row : Rows, flow : Flows, killed : BOOLEAN] /\ saved.flow.state = "none"
  BY <1>1, Pair DEF Init
<1>3. /\ pc \in [Procs -> Places] /\ \A p \in Procs : pc[p] = "idle"
      /\ saw \in [Owners -> 0 .. 2 * Window] /\ now \in 0 .. 2 * Window
  BY ConstantsTyped DEF Init, Places
<1>4. crashes \in 0 .. MaxCrashes
  BY ConstantsTyped DEF Init
<1>5. TypeOK
  BY <1>1, <1>2, <1>3, <1>4 DEF Init, TypeOK, Switches
<1>6. Agreement
  BY <1>1, <1>2, <1>3, ProcsTyped DEF Init, Agreement
<1> QED BY <1>5, <1>6 DEF IInv

LEMMA NextKeeps ==
    ASSUME IInv, [Next]_vars
    PROVE  IInv' /\ (row.status \in Final /\ row'.status # row.status => crashes' # crashes)
<1>1. ASSUME Kept
      PROVE  IInv' /\ (row.status \in Final /\ row'.status # row.status => crashes' # crashes)
  BY <1>1 DEF Kept
<1>2. CASE UNCHANGED vars
  <2>1. UNCHANGED <<now, card, row, flow, killed, saved, paper, sent, pc, saw, told, stop, crashes>>
    BY <1>2 DEF vars, database, owner
  <2>2. TypeOK'
    BY <2>1 DEF IInv, TypeOK
  <2>3. Agreement'
    BY <2>1 DEF IInv, Agreement
  <2> QED BY <2>1, <2>2, <2>3 DEF IInv
<1>3. CASE Agents
  BY <1>1, <1>3, AgentsKeep
<1>4. CASE Sweeps
  BY <1>1, <1>4, SweepsKeep
<1>5. CASE Runs
  BY <1>1, <1>5, RunsKeep
<1>6. CASE Stops
  BY <1>1, <1>6, StopsKeep
<1>7. CASE Resume \/ Outdated \/ Reread \/ Tick
  BY <1>1, <1>7, ElseKeeps
<1>8. CASE \E o \in Owners : Decide(o) \/ Begins(o)
  BY <1>1, <1>8, DecideKeeps, BeginsKeep
<1>9. CASE Crash \/ PowerCut
  BY <1>9, RestartKeeps
<1> QED BY <1>2, <1>3, <1>4, <1>5, <1>6, <1>7, <1>8, <1>9 DEF Next

\* What Next keeps, for every value of the constants: the order of approval, workflow,
\* durable record and placed order.
THEOREM Invariance == Spec => []IInv
<1>1. Init => IInv
  BY InitAgrees
<1>2. IInv /\ [Next]_vars => IInv'
  BY NextKeeps
<1> QED BY <1>1, <1>2, PTL DEF Spec

\* Every variable has its type.
THEOREM TypeCorrect == Spec => []TypeOK
<1>1. IInv => TypeOK
  BY DEF IInv
<1> QED BY <1>1, Invariance, PTL

\* No order without the owner's approval (Decide, doc.go), however many taps, sweeps,
\* attempts, crashes and power cuts there are.
THEOREM ApprovalComesFirst == Spec => []ApprovedFirst
<1>1. IInv => ApprovedFirst
  BY DEF IInv, Agreement, ApprovedFirst, Agreed
<1> QED BY <1>1, Invariance, PTL

\* A process that lives never changes a final status: the guards of the conditional
\* UPDATEs (state.go) are enough.
THEOREM FinalNeverChanges == Spec => FinalStays
<1>1. IInv /\ [Next]_vars
        => [row.status \in Final /\ row'.status # row.status => crashes' # crashes]_vars
  BY NextKeeps
<1> QED BY <1>1, Invariance, PTL DEF Spec, FinalStays
===============================================================================
