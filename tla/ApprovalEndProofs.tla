--------------------------- MODULE ApprovalEndProofs ---------------------------
(* Proofs about how an execution ends: what the owner is told of it, and what *)
(* /stop may still say once a workflow is under way.  The argument is that    *)
(* the journal's record, which is written before the order goes out, always   *)
(* knows at least as much as the venue.                                       *)
EXTENDS ApprovalProofs

\* No process is started with another paper mode than the one before it.
SameMode == "new mode" \notin Events

------------------------------------------------------------------------------
(* The inductive invariant.                                                   *)

Blamed == {"recheck", "throttle", "place", "verify", "receipt"}
Later == {"verify", "receipt", "end"}

\* The record says that the place step has begun, and not that it placed nothing.
Shown(f) ==
    \/ f.failed = "" /\ (f.step \in Later \/ (f.step = "place" /\ f.tries > 0))
    \/ f.failed = "place" /\ f.error # "not placed"
    \/ f.failed \in {"verify", "receipt"}

\* What a record of the workflow, in the database or as a power cut leaves it, tells of
\* the orders in s.
Evidence(f, s) ==
    /\ f.failed = "" => f.step # "settle_failure" /\ (f.step \in Later => s # {})
    /\ f.failed # "" => /\ f.failed \in Blamed
                        /\ \/ f.step \in {"settle_failure", "end"}
                           \/ f.state = "failed" /\ f.step = f.failed
    /\ f.failed = "place" => f.error \in {"not placed", "no provider", "may exist", "panic"}
    /\ f.failed \in {"verify", "receipt"} => f.error = "panic"
    /\ f.state \in {"none", "succeeded"} => f.failed = ""
    /\ f.state = "succeeded" => f.step = "end"
    /\ f.step \in {"verify", "receipt"} => s # {}
    /\ SameMode /\ s # {} => Shown(f)
    /\ card.reducing /\ f.step # "recheck" /\ f.failed # "recheck" => f.reducing

\* MayExist, of any record.
MayBe(f) ==
    IF f.failed = "" THEN f.step \in Later \/ (f.step = "place" /\ f.tries > 0)
    ELSE f.failed = "place" /\ f.error \notin NotPlaced

\* What the row says of an ended execution, beside the record it was read from: that
\* record does not change any more in anything the row was settled by.
Settled(r, f, s) ==
    /\ r.status = "executed" <=> r.outcome = "executed"
    /\ r.status = "failed" <=> r.outcome \in {"not placed", "may exist"}
    /\ r.status = "executed" => s # {}
    /\ r.outcome = "not placed" => ~MayBe(f) /\ (f.failed # "" \/ f.state \in Ended)

\* Where the workflow's goroutine is, beside its record: durable once a step has begun.
Running ==
    /\ pc[Run] # "idle" => flow.state = "running"
    /\ pc[Run] \notin {"idle", "next"} => saved.flow = flow /\ flow.tries > 0
    /\ pc[Run] \in Steps => flow.step = pc[Run]
    /\ pc[Run] \in {"placing", "sent"} => flow.step = "place"
    /\ pc[Run] = "sent" => sent # {}
    /\ pc[Run] \in {"tell", "told", "over"} => flow.step \in {"receipt", "settle_failure"}
    /\ SameMode /\ pc[Run] \in {"place", "placing"} /\ flow.tries = 1 => sent = {}

Telling ==
    /\ \A p \in Tellers : pc[p] = "tell" => sent # {} \/ row.status = "failed"
    /\ "executed" \in told => sent # {}

Config == SameMode => Venue = card.mode /\ sent \subseteq {card.mode}

\* A record whose workflow places nothing that adds risk, whatever the switch says.
Gone(f) == card.reducing \/ f.state \in Ended \/ f.step \in Later \cup {"settle_failure"}

\* A record whose workflow places nothing that adds risk while the switch is on.
Harmless(f) ==
    Gone(f) \/ f.reducing \/ f.state = "none" \/ (f.failed = "" /\ f.step = "recheck")

\* /stop found no workflow, and the switch has held since.
Held == "known" \notin stop /\ Answerable

Listed == pc[Stop] \in {"proposals", "orders", "done"}
Stopping ==
    /\ pc[Stop] # "idle" /\ Held => killed.memory
    /\ Listed /\ Held => Harmless(flow)
    /\ pc[Stop] = "cancel" => "known" \in stop
    /\ "known" \in stop => flow.state # "none"
    /\ Listed /\ "known" \in stop => Gone(flow) \/ ("stopping" \in stop /\ flow.asked)
    /\ pc[Stop] = "done" /\ "known" \in stop /\ "mid-step" \notin stop
         => Gone(flow) \/ (flow.asked /\ pc[Run] \in {"idle", "next"})

EInv ==
    /\ IInv
    /\ Evidence(flow, sent) /\ Evidence(saved.flow, sent)
    /\ Settled(row, flow, sent) /\ Settled(saved.row, saved.flow, sent)
    /\ Running /\ Telling /\ Config /\ Stopping
    /\ SameMode => StopAccounts

------------------------------------------------------------------------------
(* What the parts say of one another.                                         *)

LEMMA Typed ==
    ASSUME IInv
    PROVE  /\ row \in Rows /\ flow \in Flows /\ saved.row \in Rows /\ saved.flow \in Flows
           /\ killed \in Switches /\ card.reducing \in BOOLEAN /\ flow.tries \in Nat
<1>1. row \in Rows /\ flow \in Flows /\ saved.row \in Rows /\ saved.flow \in Flows
  BY DEF IInv, TypeOK
<1>2. killed \in Switches /\ card.reducing \in BOOLEAN
  BY DEF IInv, TypeOK
<1>3. flow.tries \in 0 .. MaxStepAttempts
  BY <1>1 DEF Flows
<1> QED BY <1>1, <1>2, <1>3, ConstantsTyped

LEMMA MayBeIsMayExist == MayExist <=> MayBe(flow)
BY DEF MayExist, MayBe, PlaceStarted, Later

\* A row that has not ended says nothing of an end.
LEMMA StillOpen ==
    ASSUME row \in Rows, Settled(row, flow, sent), row' \in Rows,
           row'.outcome = row.outcome,
           row'.status = row.status
             \/ (row.status \notin {"executed", "failed"} /\ row'.status \notin {"executed", "failed"})
    PROVE  Settled(row', flow, sent)
BY DEF Settled

\* Finish, by the receipt and settle_failure steps and by the sweeper.
LEMMA FinishSettles ==
    ASSUME row \in Rows, Settled(row, flow, sent), NEW s, NEW text, Finish(s, text),
           \/ s = "executed" /\ text = "executed" /\ sent # {}
           \/ s = "failed" /\ text = FailureText /\ (flow.failed # "" \/ flow.state \in Ended)
    PROVE  Settled(row', flow, sent)
           /\ (row' = row \/ (row' # row /\ row'.status = s))
<1>1. CASE row.status # "executing"
  BY <1>1 DEF Finish, Settled
<1>2. CASE row.status = "executing"
  <2>1. row' = [row EXCEPT !.status = s, !.outcome = text]
    BY <1>2 DEF Finish
  <2>2. row'.status = s /\ row'.outcome = text
    BY <2>1 DEF Rows
  <2>3. CASE s = "executed"
    BY <1>2, <2>2, <2>3 DEF Settled
  <2>4. CASE s = "failed"
    BY <1>2, <2>2, <2>4, MayBeIsMayExist DEF Settled, FailureText
  <2> QED BY <1>2, <2>2, <2>3, <2>4
<1> QED BY <1>1, <1>2

\* A record says of the orders what it said, while neither changes.
LEMMA EvidenceStays ==
    ASSUME NEW f, NEW g, NEW s, NEW t, f = g, s = t, Evidence(f, s), UNCHANGED card
    PROVE  Evidence(g, t)'
BY DEF Evidence, Shown

\* A step that leaves the workflow's record, the venue and /stop alone.
LEMMA RecordStays ==
    ASSUME EInv, IInv', UNCHANGED <<flow, saved, sent, card, paper, stop, killed>>,
           Running', pc'[Stop] = pc[Stop],
           pc[Run] \in {"idle", "next"} => pc'[Run] \in {"idle", "next"},
           Settled(row', flow, sent),
           \A p \in Tellers : pc'[p] = "tell" => pc[p] = "tell" \/ sent # {} \/ row'.status = "failed",
           row.status = "failed" => row'.status = "failed",
           "executed" \in told' => sent # {}
    PROVE  EInv'
<1>1. Evidence(flow, sent)' /\ Evidence(saved.flow, sent)'
  <2>1. flow' = flow /\ saved'.flow = saved.flow /\ sent' = sent /\ card' = card
    OBVIOUS
  <2> QED BY <2>1, EvidenceStays DEF EInv
<1>2. Settled(row, flow, sent)' /\ Settled(saved.row, saved.flow, sent)'
  BY DEF EInv, Settled, MayBe
<1>3. Telling'
  BY DEF EInv, Telling
<1>4. Config'
  BY DEF EInv, Config, Venue
<1>5. Stopping'
  BY DEF EInv, Stopping, Listed, Held, Answerable, Harmless, Gone
<1>6. SameMode => StopAccounts'
  BY DEF EInv, StopAccounts, Answerable, At
<1> QED BY <1>1, <1>2, <1>3, <1>4, <1>5, <1>6 DEF EInv, SameMode

\* Running does not notice what other processes do.
LEMMA RunStays ==
    ASSUME EInv, UNCHANGED <<flow, saved, sent>>, pc'[Run] = pc[Run]
    PROVE  Running'
BY DEF EInv, Running

\* One process other than the workflow and /stop moves.
LEMMA OtherMoves ==
    ASSUME EInv, IInv', NEW p \in Procs \ {Run, Stop}, NEW place \in Places, Goto(p, place),
           UNCHANGED <<flow, saved, sent, card, paper, stop, killed>>,
           Settled(row', flow, sent),
           place = "tell" => sent # {} \/ row'.status = "failed",
           row.status = "failed" => row'.status = "failed",
           "executed" \in told' => sent # {}
    PROVE  EInv'
<1>1. pc'[p] = place /\ \A q \in Procs : q # p => pc'[q] = pc[q]
  BY Moved DEF EInv, IInv
<1>2. pc'[Run] = pc[Run] /\ pc'[Stop] = pc[Stop]
  BY <1>1, ProcsTyped
<1>3. Tellers \subseteq Procs
  BY ProcsTyped DEF Tellers
<1>4. Running'
  BY <1>2, RunStays
<1> QED BY <1>1, <1>2, <1>3, <1>4, RecordStays
------------------------------------------------------------------------------
(* The proposing turn, Decide and the sweeper: they write the row.            *)

LEMMA AgentsEnd == ASSUME EInv, IInv', Agents PROVE EInv'
<1>1. row \in Rows /\ row' \in Rows /\ Settled(row, flow, sent)
  BY Typed DEF EInv, IInv, TypeOK
<1>2. Agent \in Procs \ {Run, Stop} /\ {"insert", "deliver", "done"} \subseteq Places
  BY ProcsTyped DEF Places
<1>3. "executed" \in told => sent # {}
  BY DEF EInv, Telling
<1>4. CASE Propose
  BY <1>1, <1>2, <1>3, <1>4, OtherMoves DEF Propose, database, owner
<1>5. CASE Insert
  <2>1. row.status = "none"
    BY <1>5 DEF Insert, At, EInv, IInv, Agreement
  <2>2. row' = [row EXCEPT !.status = "pending"]
    BY <1>5 DEF Insert, Became
  <2>3. row'.status = "pending" /\ row'.outcome = row.outcome
    BY <1>1, <2>2 DEF Rows
  <2>4. Settled(row', flow, sent)
    BY <1>1, <2>1, <2>3, StillOpen
  <2> QED BY <1>2, <1>3, <1>5, <2>1, <2>4, OtherMoves DEF Insert, owner
<1>6. CASE NotDelivered
  <2>1. row.status = "pending" /\ row' = [row EXCEPT !.status = "cancelled"]
    BY <1>6 DEF NotDelivered, Became
  <2>2. row'.status = "cancelled" /\ row'.outcome = row.outcome
    BY <1>1, <2>1 DEF Rows
  <2>3. Settled(row', flow, sent)
    BY <1>1, <2>1, <2>2, StillOpen
  <2> QED BY <1>2, <1>3, <1>6, <2>1, <2>3, OtherMoves DEF NotDelivered, owner
<1> QED BY <1>4, <1>5, <1>6 DEF Agents

LEMMA DecideEnd == ASSUME EInv, IInv', NEW o \in Owners, Decide(o) PROVE EInv'
<1>1. row \in Rows /\ row' \in Rows /\ Settled(row, flow, sent)
  BY Typed DEF EInv, IInv, TypeOK
<1>2. o \in Procs \ {Run, Stop} /\ {"idle", "read", "approve", "start"} \subseteq Places
  BY ProcsTyped DEF Places
<1>3. "executed" \in told => sent # {}
  BY DEF EInv, Telling
<1>4. UNCHANGED <<flow, saved, sent, card, paper, stop, killed, told>>
  BY DEF Decide, Ask, Refuse, Agree, Approve, Reject, database, owner
<1>5. row' = row \/ (row.status = "pending" /\ row'.outcome = row.outcome
                     /\ row'.status \in {"expired", "approved", "rejected"})
  BY <1>1 DEF Decide, Ask, Refuse, Agree, Approve, Reject, Decidable, Became, database, Rows
<1>6. Settled(row', flow, sent)
  BY <1>1, <1>5, StillOpen
<1>7. \E place \in {"idle", "read", "approve", "start"} : Goto(o, place)
  <2>1. UNCHANGED pc /\ pc[o] = "idle" => Goto(o, "idle")
    BY <1>2, Stayed DEF EInv, IInv
  <2> QED BY <2>1 DEF Decide, Ask, Refuse, Agree, Approve, Reject, At
<1> QED BY <1>2, <1>3, <1>4, <1>5, <1>6, <1>7, OtherMoves

\* A workflow that starts has placed nothing yet.
LEMMA StartEnds ==
    ASSUME EInv, IInv', NEW p \in Owners \cup {Sweep}, Start(p)
    PROVE  EInv'
<1>1. p \in Procs \ {Run, Stop} /\ "mark executing" \in Places
  BY ProcsTyped DEF Places
<1>2. UNCHANGED <<row, saved, sent, card, paper, stop, killed, told>> /\ Goto(p, "mark executing")
  BY DEF Start, owner
<1>3. CASE flow.state # "none"
  <2>1. flow' = flow
    BY <1>3 DEF Start
  <2>2. Settled(row', flow, sent)
    BY <1>2 DEF EInv, Settled
  <2>3. "executed" \in told' => sent # {}
    BY <1>2 DEF EInv, Telling
  <2> QED BY <1>1, <1>2, <2>1, <2>2, <2>3, OtherMoves
<1>4. CASE flow.state = "none"
  <2>1. flow' = NewFlow /\ sent = {} /\ row.status \in Agreed
    BY <1>1, <1>4 DEF Start, At, EInv, IInv, Agreement
  <2>2. /\ flow'.step = "recheck" /\ flow'.failed = "" /\ flow'.state = "pending"
        /\ pc[Run] = "idle"
    BY <1>4, <2>1 DEF NewFlow, EInv, IInv, Agreement
  <2>3. /\ \A q \in Procs : q # p => pc'[q] = pc[q]
        /\ pc'[p] = "mark executing"
    BY <1>1, <1>2, Moved DEF EInv, IInv
  <2>4. pc'[Run] = "idle" /\ pc'[Stop] = pc[Stop]
    BY <1>1, <2>2, <2>3, ProcsTyped
  <2>5. Evidence(flow, sent)'
    BY <1>2, <2>1, <2>2 DEF Evidence, Later, Blamed
  <2>6. Evidence(saved.flow, sent)'
    BY <1>2, EvidenceStays DEF EInv
  <2>7. Settled(row, flow, sent)'
    BY <1>2, <1>4, <2>1, <2>2 DEF EInv, Settled, MayBe, Later, Evidence, Ended
  <2>8. Settled(saved.row, saved.flow, sent)'
    BY <1>2 DEF EInv, Settled, MayBe
  <2>9. Running'
    BY <2>4 DEF Running, Steps
  <2>10. Telling'
    <3>1. \A q \in Tellers : pc'[q] = "tell" => pc[q] = "tell"
      BY <1>1, <2>3, ProcsTyped DEF Tellers
    <3> QED BY <1>2, <3>1 DEF EInv, Telling
  <2>11. Config'
    BY <1>2 DEF EInv, Config, Venue, SameMode
  <2>12. Stopping'
    BY <1>2, <1>4, <2>2, <2>4 DEF EInv, Stopping, Listed, Held, Answerable, Harmless
  <2>13. StopAccounts'
    BY <1>2, <2>1 DEF StopAccounts
  <2> QED BY <2>5, <2>6, <2>7, <2>8, <2>9, <2>10, <2>11, <2>12, <2>13 DEF EInv
<1> QED BY <1>3, <1>4

LEMMA BeginsEnd ==
    ASSUME EInv, IInv', NEW p \in Owners \cup {Sweep}, Begins(p)
    PROVE  EInv'
<1>1. row \in Rows /\ row' \in Rows /\ Settled(row, flow, sent)
  BY Typed DEF EInv, IInv, TypeOK
<1>2. p \in Procs \ {Run, Stop} /\ "idle" \in Places
  BY ProcsTyped DEF Places
<1>3. "executed" \in told => sent # {}
  BY DEF EInv, Telling
<1>4. CASE MarkExecuting(p) \/ StartFails(p)
  <2>1. UNCHANGED <<flow, saved, sent, card, paper, stop, killed, told>> /\ Goto(p, "idle")
    BY <1>4 DEF MarkExecuting, StartFails, database, owner
  <2>2. row' = row \/ (row.status = "approved" /\ row'.outcome = row.outcome
                       /\ row'.status = "executing")
    BY <1>1, <1>4 DEF MarkExecuting, StartFails, Became, database, Rows
  <2>3. Settled(row', flow, sent)
    BY <1>1, <2>2, StillOpen
  <2> QED BY <1>2, <1>3, <2>1, <2>2, <2>3, OtherMoves
<1> QED BY <1>4, StartEnds DEF Begins

\* What the owner is told, and where the goroutine goes on.
LEMMA TellEnds == ASSUME EInv, IInv', NEW p \in Tellers, Tell(p) \/ MarkNotified(p) PROVE EInv'
<1>1. row \in Rows /\ row' \in Rows /\ Settled(row, flow, sent)
  BY Typed DEF EInv, IInv, TypeOK
<1>2. p \in Procs \ {Stop} /\ (p = Sweep \/ p = Run) /\ Sweep # Run
  BY ProcsTyped DEF Tellers
<1>3. UNCHANGED <<flow, saved, sent, card, paper, stop, killed>>
  BY DEF Tell, MarkNotified, database, owner
<1>4. row'.status = row.status /\ row'.outcome = row.outcome
  BY <1>1 DEF Tell, MarkNotified, database, Rows
<1>5. Settled(row', flow, sent)
  BY <1>1, <1>4, StillOpen
<1>6. "executed" \in told' => sent # {}
  <2>1. CASE told' = told
    BY <2>1 DEF EInv, Telling
  <2>2. CASE told' = told \cup {Title}
    <3>1. pc[p] = "tell" \/ told' = told
      BY DEF Tell, MarkNotified, At, owner
    <3>2. sent # {} \/ row.status = "failed" \/ told' = told
      BY <3>1 DEF EInv, Telling
    <3>3. row.status = "failed" => Title # "executed"
      BY <1>1 DEF Settled, Title
    <3> QED BY <2>1, <2>2, <3>2, <3>3 DEF EInv, Telling
  <2> QED BY <2>1, <2>2 DEF Tell, MarkNotified, owner
<1>7. \E place \in {"idle", "told", "over"} :
        Goto(p, place) /\ (p = Run => place # "idle") /\ (p = Sweep => place # "over")
  BY <1>2 DEF Tell, MarkNotified, Skip
<1>8. PICK place \in {"idle", "told", "over"} :
        Goto(p, place) /\ (p = Run => place # "idle") /\ (p = Sweep => place # "over")
  BY <1>7
<1>9. place \in Places
  BY DEF Places
<1>10. CASE p = Sweep
  BY <1>2, <1>3, <1>4, <1>5, <1>6, <1>8, <1>9, <1>10, OtherMoves
<1>11. CASE p = Run
  <2>1. pc'[Run] = place /\ \A q \in Procs : q # Run => pc'[q] = pc[q]
    BY <1>2, <1>8, <1>9, <1>11, Moved DEF EInv, IInv
  <2>2. pc[Run] \in {"tell", "told"}
    BY <1>11 DEF Tell, MarkNotified, At
  <2>3. Running'
    BY <1>3, <1>8, <1>11, <2>1, <2>2 DEF EInv, Running, Steps
  <2>4. pc'[Stop] = pc[Stop] /\ Tellers \subseteq Procs
    BY <2>1, ProcsTyped DEF Tellers
  <2>5. \A q \in Tellers : pc'[q] = "tell" => pc[q] = "tell"
    BY <2>1, <2>2, <2>4
  <2> QED BY <1>3, <1>4, <1>5, <1>6, <2>2, <2>3, <2>4, <2>5, RecordStays
<1> QED BY <1>2, <1>10, <1>11

LEMMA SweepsEnd == ASSUME EInv, IInv', Sweeps PROVE EInv'
<1>1. row \in Rows /\ row' \in Rows /\ Settled(row, flow, sent)
  BY Typed DEF EInv, IInv, TypeOK
<1>2. Sweep \in Procs \ {Run, Stop} /\ {"idle", "tell", "start"} \subseteq Places
  BY ProcsTyped DEF Places
<1>3. "executed" \in told => sent # {}
  BY DEF EInv, Telling
<1>4. CASE ExpireDue
  <2>1. row.status = "pending" /\ row' = [row EXCEPT !.status = "expired"]
    BY <1>4 DEF ExpireDue, Became
  <2>2. row'.status = "expired" /\ row'.outcome = row.outcome
    BY <1>1, <2>1 DEF Rows
  <2>3. Settled(row', flow, sent)
    BY <1>1, <2>1, <2>2, StillOpen
  <2>4. Goto(Sweep, "idle")
    <3>1. UNCHANGED pc /\ pc[Sweep] = "idle"
      BY <1>4 DEF ExpireDue, At
    <3> QED BY <1>2, <3>1, Stayed DEF EInv, IInv
  <2> QED BY <1>2, <1>3, <1>4, <2>1, <2>3, <2>4, OtherMoves DEF ExpireDue, owner
<1>5. CASE StartLost
  BY <1>1, <1>2, <1>3, <1>5, OtherMoves DEF StartLost, database, owner
<1>6. CASE SettleEnded
  <2>1. row.status = "executing" /\ flow.state \in Ended
    BY <1>6 DEF SettleEnded
  <2>2. flow.state = "succeeded" => sent # {}
    BY DEF EInv, Evidence, Later
  <2>3. PICK s \in {"executed", "failed"} :
          \E text : /\ Finish(s, text)
                    /\ \/ s = "executed" /\ text = "executed" /\ sent # {}
                       \/ s = "failed" /\ text = FailureText
    BY <1>6, <2>2 DEF SettleEnded
  <2>4. Settled(row', flow, sent)
    BY <1>1, <2>1, <2>3, FinishSettles
  <2>5. row'.status = s /\ (s = "executed" => sent # {})
    BY <1>1, <2>1, <2>3, RowSettled DEF Finish, Rows
  <2> QED BY <1>2, <1>3, <1>6, <2>1, <2>4, <2>5, OtherMoves DEF SettleEnded, owner
<1>7. CASE Renotify
  <2>1. row.status = "executed" => sent # {}
    BY <1>1 DEF Settled
  <2> QED BY <1>1, <1>2, <1>3, <1>7, <2>1, OtherMoves DEF Renotify, database, owner
<1>8. CASE Tell(Sweep) \/ MarkNotified(Sweep)
  BY <1>8, TellEnds DEF Tellers
<1>9. CASE Begins(Sweep)
  BY <1>9, BeginsEnd
<1> QED BY <1>4, <1>5, <1>6, <1>7, <1>8, <1>9 DEF Sweeps
------------------------------------------------------------------------------
(* The workflow's records.                                                    *)

\* The new record g says what it should of the orders, keeps what a failed step left in
\* it, and places no more than the old one would.
Continues(g) ==
    /\ Evidence(g, sent)
    /\ flow.failed # "" => g.failed = flow.failed /\ g.error = flow.error
    /\ g.asked = flow.asked
    /\ killed.memory => (Harmless(flow) => Harmless(g))
    /\ Gone(flow) => Gone(g)
    /\ g.state # "none"
    /\ g.reducing = flow.reducing \/ flow.step = "recheck"

LEMMA Recorded ==
    ASSUME EInv, IInv', NEW g \in Flows, NEW place \in Places, Record(g, place),
           UNCHANGED sent, pc[Run] # "idle", Continues(g),
           place # "idle" => g.state = "running",
           \/ place \in {"idle", "next"}
           \/ /\ place \in Steps /\ place = g.step /\ g.tries > 0 /\ ~flow.asked
              /\ SameMode /\ place = "place" /\ g.tries = 1 => sent = {}
    PROVE  EInv'
<1>1. /\ flow' = g /\ row' = row /\ killed' = killed /\ sent' = sent
      /\ saved'.flow = g /\ saved'.row = row
  BY Saves DEF Record
<1>2. UNCHANGED <<card, paper, told, stop>>
  BY DEF Record, owner
<1>3. pc'[Run] = place /\ \A q \in Procs : q # Run => pc'[q] = pc[q]
  BY ProcsTyped, Moved DEF EInv, IInv, Record
<1>4. pc'[Stop] = pc[Stop] /\ Tellers \subseteq Procs
  BY <1>3, ProcsTyped DEF Tellers
<1>5. flow.state = "running" /\ flow.state \notin Ended
  BY DEF EInv, Running, Ended
<1>6. Evidence(flow, sent)' /\ Evidence(saved.flow, sent)'
  BY <1>1, <1>2, EvidenceStays DEF Continues
<1>7. Settled(row, g, sent)
  BY <1>5 DEF EInv, Settled, MayBe, Continues
<1>8. Settled(row, flow, sent)' /\ Settled(saved.row, saved.flow, sent)'
  BY <1>1, <1>7 DEF Settled, MayBe
<1>9. Running'
  BY <1>1, <1>3 DEF Running, Steps, SameMode
<1>10. Telling'
  <2>1. \A q \in Tellers : pc'[q] = "tell" => pc[q] = "tell"
    BY <1>3, <1>4 DEF Steps
  <2> QED BY <1>1, <1>2, <2>1 DEF EInv, Telling
<1>11. Config'
  BY <1>1, <1>2 DEF EInv, Config, Venue, SameMode
<1>12. Stopping'
  <2>1. /\ killed.memory /\ Harmless(flow) => Harmless(flow)'
        /\ Gone(flow) => Gone(flow)'
        /\ flow'.state # "none"
    BY <1>1, <1>2 DEF Continues, Harmless, Gone
  <2>2. flow.asked => flow'.asked /\ pc'[Run] \in {"idle", "next"}
    BY <1>1, <1>3 DEF Continues
  <2> QED BY <1>1, <1>2, <1>4, <2>1, <2>2 DEF EInv, Stopping, Listed, Held, Answerable
<1>13. SameMode => StopAccounts'
  <2>1. SUFFICES ASSUME SameMode PROVE StopAccounts'
    OBVIOUS
  <2>2. sent # {} => flow.step # "recheck"
    BY <1>5, <2>1 DEF EInv, Evidence, Shown, Later
  <2>3. sent # {} => g.reducing = flow.reducing
    BY <2>2 DEF Continues
  <2> QED BY <1>1, <1>2, <1>4, <2>1, <2>3 DEF EInv, StopAccounts, Answerable, At, Continues
<1> QED BY <1>6, <1>8, <1>9, <1>10, <1>11, <1>12, <1>13 DEF EInv, SameMode

\* While a workflow runs, a step that failed has sent it on to settle_failure.
LEMMA NotFailed ==
    ASSUME EInv, pc[Run] # "idle", flow.step \notin {"settle_failure", "end"}
    PROVE  flow.failed = ""
BY DEF EInv, Running, Evidence

\* The engine closes the workflow.
LEMMA Closed ==
    ASSUME EInv, IInv', NEW s \in Ended, pc[Run] # "idle", UNCHANGED sent,
           s = "succeeded" => flow.failed = "" /\ flow.step = "end",
           Record([flow EXCEPT !.state = s], "idle")
    PROVE  EInv'
<1> DEFINE g == [flow EXCEPT !.state = s]
<1>1. flow \in Flows /\ g \in Flows /\ "idle" \in Places
  BY Typed, FlowStates DEF EInv, Places
<1>2. /\ g.state = s /\ g.step = flow.step /\ g.failed = flow.failed /\ g.error = flow.error
      /\ g.tries = flow.tries /\ g.asked = flow.asked /\ g.reducing = flow.reducing
  BY <1>1 DEF Flows
<1>3. flow.state = "running" /\ s # "none"
  BY DEF EInv, Running, Ended
<1> HIDE DEF g
<1>4. Evidence(g, sent)
  BY <1>2, <1>3 DEF EInv, Evidence, Shown
<1>5. Continues(g)
  BY <1>2, <1>3, <1>4 DEF Continues, Harmless, Gone
<1>6. Record(g, "idle")
  BY DEF g
<1> QED BY <1>1, <1>5, <1>6, Recorded

\* The end of a step that did what it should.
LEMMA Succeeded ==
    ASSUME EInv, IInv', NEW b \in BOOLEAN, pc[Run] \notin {"idle", "next"}, UNCHANGED sent,
           StepSucceeds([flow EXCEPT !.reducing = b]),
           flow.step = "place" => sent # {},
           b = flow.reducing \/ flow.step = "recheck",
           flow.step = "recheck" => (card.reducing => b) /\ (killed.memory => b)
    PROVE  EInv'
<1> DEFINE f == [flow EXCEPT !.reducing = b]
           g == [f EXCEPT !.step = After[flow.step], !.tries = 0, !.failures = 0]
<1>1. flow \in Flows /\ flow.step \in Steps /\ "next" \in Places
  BY InStep, Typed DEF EInv, Places
<1>2. f \in Flows /\ f.state = flow.state
  BY <1>1, FlowReduces
<1>3. g \in Flows
  BY <1>1, <1>2, FlowSucceeds
<1>4. /\ g.state = flow.state /\ g.step = After[flow.step] /\ g.failed = flow.failed
      /\ g.error = flow.error /\ g.asked = flow.asked /\ g.reducing = b
  BY <1>1, <1>2 DEF Flows
<1>5. flow.state = "running"
  BY DEF EInv, Running
<1>6. Record(g, "next")
  BY DEF StepSucceeds
<1> HIDE DEF g
<1>7. flow.step \notin {"settle_failure", "end"} => flow.failed = ""
  BY NotFailed
<1>8. flow.failed = "" /\ SameMode /\ sent # {} => flow.step \in Later \cup {"place"}
  BY DEF EInv, Evidence, Shown
<1>9. /\ flow.step = "settle_failure" => flow.failed # ""
      /\ flow.step \in {"verify", "receipt"} => sent # {}
      /\ flow.failed # "" => flow.step = "settle_failure"
      /\ card.reducing /\ flow.step # "recheck" /\ flow.failed # "recheck" => flow.reducing
  BY <1>1, <1>5, <1>7 DEF EInv, Evidence, Steps
<1>10. /\ flow.step = "recheck" => After[flow.step] = "throttle"
       /\ flow.step = "throttle" => After[flow.step] = "place"
       /\ flow.step = "place" => After[flow.step] = "verify"
       /\ flow.step = "verify" => After[flow.step] = "receipt"
       /\ flow.step \in {"receipt", "settle_failure"} => After[flow.step] = "end"
  BY DEF After, Steps
<1>11. Evidence(g, sent)
  <2>1. CASE flow.failed = ""
    BY <1>1, <1>4, <1>5, <1>8, <1>9, <1>10, <2>1 DEF Evidence, Shown, Later, Steps
  <2>2. CASE flow.failed # ""
    BY <1>4, <1>5, <1>9, <1>10, <2>2 DEF EInv, Evidence, Shown, Later
  <2> QED BY <2>1, <2>2
<1>12. Gone(flow) => Gone(g)
  BY <1>1, <1>4, <1>5, <1>10 DEF Gone, Later, Steps, Ended
<1>13. killed.memory /\ Harmless(flow) => Harmless(g)
  BY <1>1, <1>4, <1>5, <1>9, <1>10, <1>12 DEF Harmless, Later, Steps, Ended
<1>14. Continues(g)
  BY <1>4, <1>5, <1>11, <1>12, <1>13 DEF Continues
<1> QED BY <1>1, <1>3, <1>4, <1>5, <1>6, <1>14, Recorded

\* The end of a step that failed: an error that says "not placed" is one of an attempt
\* that found no order.
LEMMA Failed ==
    ASSUME EInv, IInv', NEW error \in Errors, pc[Run] \notin {"idle", "next"}, UNCHANGED sent,
           flow.step \in {"recheck", "throttle", "place"}, StepFails(error),
           flow.step = "place" => error \in {"not placed", "no provider", "may exist"},
           SameMode /\ flow.step = "place" /\ error = "not placed" => sent = {}
    PROVE  EInv'
<1> DEFINE g == [flow EXCEPT !.failed = flow.step, !.error = error, !.step = "settle_failure",
                             !.tries = 0, !.failures = 0]
<1>1. flow \in Flows /\ flow.step \in Steps /\ "next" \in Places
  BY InStep, Typed DEF EInv, Places
<1>2. g \in Flows
  BY <1>1, FlowFails
<1>3. /\ g.state = flow.state /\ g.step = "settle_failure" /\ g.failed = flow.step
      /\ g.error = error /\ g.asked = flow.asked /\ g.reducing = flow.reducing
  BY <1>1 DEF Flows
<1>4. flow.state = "running" /\ flow.failed = ""
  BY NotFailed DEF EInv, Running
<1>5. Record(g, "next")
  BY DEF StepFails
<1> HIDE DEF g
<1>6. SameMode /\ sent # {} => flow.step = "place"
  BY <1>4 DEF EInv, Evidence, Shown, Later
<1>7. card.reducing /\ flow.step # "recheck" => flow.reducing
  BY <1>4 DEF EInv, Evidence
<1>8. Evidence(g, sent)
  BY <1>3, <1>4, <1>6, <1>7 DEF Evidence, Shown, Later, Blamed
<1>9. Continues(g)
  BY <1>3, <1>4, <1>8 DEF Continues, Harmless, Gone
<1> QED BY <1>1, <1>2, <1>3, <1>4, <1>5, <1>9, Recorded

\* An error that may be retried: the workflow waits, or the step has failed.
LEMMA Erred ==
    ASSUME EInv, IInv', NEW error \in {"refused", "may exist"}, pc[Run] \notin {"idle", "next"},
           UNCHANGED sent, flow.step \in {"throttle", "place"}, StepErrs(error),
           flow.step = "place" => error = "may exist"
    PROVE  EInv'
<1>1. CASE flow.failures < Retries /\ flow.tries < MaxStepAttempts
  <2> DEFINE g == [flow EXCEPT !.state = "waiting", !.failures = @ + 1]
  <2>1. flow \in Flows /\ "idle" \in Places
    BY Typed DEF EInv, Places
  <2>2. g \in Flows
    BY <1>1, <2>1, FlowWaits
  <2>3. /\ g.state = "waiting" /\ g.step = flow.step /\ g.failed = flow.failed
        /\ g.error = flow.error /\ g.tries = flow.tries /\ g.asked = flow.asked
        /\ g.reducing = flow.reducing
    BY <2>1 DEF Flows
  <2>4. flow.state = "running" /\ flow.failed = ""
    BY NotFailed DEF EInv, Running
  <2>5. Record(g, "idle")
    BY <1>1 DEF StepErrs
  <2> HIDE DEF g
  <2>6. Evidence(g, sent)
    BY <2>3, <2>4 DEF EInv, Evidence, Shown
  <2>7. Continues(g)
    BY <2>3, <2>4, <2>6 DEF Continues, Harmless, Gone, Ended
  <2> QED BY <2>1, <2>2, <2>5, <2>7, Recorded
<1>2. CASE ~(flow.failures < Retries /\ flow.tries < MaxStepAttempts)
  <2>1. StepFails(error) /\ error \in Errors
    BY <1>2 DEF StepErrs, Errors
  <2> QED BY <2>1, Failed
<1> QED BY <1>1, <1>2
------------------------------------------------------------------------------
(* The workflow's goroutine.                                                  *)

\* The process holds the lease and the row says so; only a later record is durable.
LEMMA ClaimEnds == ASSUME EInv, IInv', Claim PROVE EInv'
<1>1. /\ flow \in Flows /\ flow.state \in {"pending", "waiting", "running"}
      /\ flow' = [flow EXCEPT !.state = "running"]
      /\ UNCHANGED <<row, killed, saved, sent, card, paper, told, stop>>
  BY Typed DEF Claim, owner, EInv
<1>2. /\ flow'.state = "running" /\ flow'.step = flow.step /\ flow'.failed = flow.failed
      /\ flow'.error = flow.error /\ flow'.tries = flow.tries /\ flow'.asked = flow.asked
      /\ flow'.reducing = flow.reducing
  BY <1>1 DEF Flows
<1>3. pc'[Run] = "next" /\ pc[Run] = "idle" /\ \A q \in Procs : q # Run => pc'[q] = pc[q]
  <2>1. Goto(Run, "next") /\ pc[Run] = "idle" /\ Run \in Procs /\ "next" \in Places
    BY ProcsTyped DEF Claim, At, Places
  <2> QED BY <2>1, Moved DEF EInv, IInv
<1>4. pc'[Stop] = pc[Stop] /\ Tellers \subseteq Procs
  BY <1>3, ProcsTyped DEF Tellers
<1>5. Evidence(flow, sent)'
  BY <1>1, <1>2 DEF EInv, Evidence, Shown, SameMode, Later, Blamed
<1>6. Evidence(saved.flow, sent)'
  BY <1>1, EvidenceStays DEF EInv
<1>7. Settled(row, flow, sent)' /\ Settled(saved.row, saved.flow, sent)'
  BY <1>1, <1>2 DEF EInv, Settled, MayBe, Ended
<1>8. Running'
  BY <1>2, <1>3 DEF Running, Steps
<1>9. Telling'
  <2>1. \A q \in Tellers : pc'[q] = "tell" => pc[q] = "tell"
    BY <1>3, <1>4
  <2> QED BY <1>1, <2>1 DEF EInv, Telling
<1>10. Config'
  BY <1>1 DEF EInv, Config, Venue, SameMode
<1>11. Stopping'
  <2>1. Harmless(flow) => Harmless(flow)'
    BY <1>1, <1>2 DEF Harmless, Gone, Ended
  <2>2. Gone(flow) => Gone(flow)'
    BY <1>1, <1>2 DEF Gone, Ended
  <2> QED BY <1>1, <1>2, <1>3, <1>4, <2>1, <2>2 DEF EInv, Stopping, Listed, Held, Answerable
<1>12. SameMode => StopAccounts'
  BY <1>1, <1>2, <1>4 DEF EInv, StopAccounts, Answerable, At
<1> QED BY <1>5, <1>6, <1>7, <1>8, <1>9, <1>10, <1>11, <1>12 DEF EInv, SameMode

LEMMA BeginStepEnds == ASSUME EInv, IInv', BeginStep PROVE EInv'
<1> DEFINE g == [flow EXCEPT !.tries = @ + 1]
<1>1. flow \in Flows /\ flow.tries \in Nat /\ flow.step \in Steps
  <2>1. flow \in Flows /\ flow.tries \in Nat
    BY Typed DEF EInv
  <2> QED BY <2>1 DEF BeginStep, Flows
<1>2. pc[Run] = "next" /\ ~flow.asked /\ UNCHANGED sent /\ Record(g, flow.step)
  BY DEF BeginStep, At
<1>3. flow' = g /\ flow' \in Flows
  BY <1>2 DEF Record, IInv, TypeOK
<1>4. /\ g.state = flow.state /\ g.step = flow.step /\ g.failed = flow.failed
      /\ g.error = flow.error /\ g.tries = flow.tries + 1 /\ g.asked = flow.asked
      /\ g.reducing = flow.reducing
  BY <1>1 DEF Flows
<1> HIDE DEF g
<1>5. flow.state = "running" /\ flow.step \in Places
  BY <1>1, <1>2 DEF EInv, Running, Places
<1>6. g.tries > 0 /\ (g.tries = 1 => ~(flow.tries > 0))
  BY <1>1, <1>4
<1>7. Evidence(g, sent)
  <2>1. Shown(flow) => Shown(g)
    BY <1>4, <1>6 DEF Shown
  <2> QED BY <1>4, <1>5, <2>1 DEF EInv, Evidence
<1>8. Continues(g)
  BY <1>4, <1>5, <1>7 DEF Continues, Harmless, Gone
<1>9. SameMode /\ flow.step = "place" /\ g.tries = 1 => sent = {}
  <2>1. flow.step = "place" => flow.failed = ""
    BY <1>2, NotFailed
  <2> QED BY <1>6, <2>1 DEF EInv, Evidence, Shown, Later
<1> QED BY <1>1, <1>2, <1>3, <1>4, <1>5, <1>6, <1>8, <1>9, Recorded

LEMMA PanicEnds == ASSUME EInv, IInv', Panic PROVE EInv'
<1> DEFINE g == [flow EXCEPT !.state = "failed", !.failed = flow.step, !.error = "panic"]
<1>1. flow \in Flows /\ pc[Run] \notin {"idle", "next"} /\ UNCHANGED sent
  BY Typed DEF EInv, Panic, Steps
<1>2. flow.step \in Blamed /\ flow.step \in Steps
  BY InStep DEF EInv, Running, Panic, Steps, Blamed
<1>3. g \in Flows /\ Record(g, "idle") /\ "idle" \in Places
  BY <1>1, <1>2, FlowPanics DEF Panic, Places
<1>4. /\ g.state = "failed" /\ g.step = flow.step /\ g.failed = flow.step
      /\ g.error = "panic" /\ g.asked = flow.asked /\ g.reducing = flow.reducing
  BY <1>1 DEF Flows
<1> HIDE DEF g
<1>5. flow.state = "running" /\ flow.failed = ""
  BY <1>1, <1>2, NotFailed DEF EInv, Running, Blamed
<1>6. Evidence(g, sent)
  BY <1>2, <1>4, <1>5 DEF EInv, Evidence, Shown, Blamed, Later
<1>7. Continues(g)
  BY <1>4, <1>5, <1>6 DEF Continues, Harmless, Gone, Ended
<1> QED BY <1>1, <1>3, <1>7, Recorded

LEMMA EngineEnds ==
    ASSUME EInv, IInv', Claim \/ BeginStep \/ Cancelled \/ GiveUp \/ End \/ Panic
    PROVE  EInv'
<1>1. {"cancelled", "failed", "succeeded"} \subseteq Ended
  BY DEF Ended
<1>2. CASE Cancelled
  BY <1>1, <1>2, Closed DEF Cancelled, At
<1>3. CASE GiveUp
  BY <1>1, <1>3, Closed DEF GiveUp, At
<1>4. CASE End
  BY <1>1, <1>4, Closed DEF End, At
<1> QED BY <1>2, <1>3, <1>4, ClaimEnds, BeginStepEnds, PanicEnds

LEMMA StepsEnd ==
    ASSUME EInv, IInv', \/ Recheck \/ Throttle \/ PlaceRefused \/ NoProvider \/ Rejected
                        \/ Unknown \/ Undecided \/ Placed \/ Verify \/ StepOver
    PROVE  EInv'
<1>1. flow \in Flows /\ flow.tries \in Nat
  BY Typed DEF EInv
<1>2. pc[Run] \notin {"idle", "next"} /\ UNCHANGED sent
  BY DEF Recheck, Throttle, PlaceRefused, NoProvider, Rejected, Unknown, Undecided, Placed,
         Verify, StepOver, At
<1>3. /\ pc[Run] \in Steps => flow.step = pc[Run]
      /\ pc[Run] \in {"placing", "sent"} => flow.step = "place"
      /\ pc[Run] = "sent" => sent # {}
      /\ pc[Run] = "over" => flow.step \in {"receipt", "settle_failure"}
      /\ SameMode /\ pc[Run] \in {"place", "placing"} /\ flow.tries = 1 => sent = {}
      /\ flow.tries > 0
  BY <1>2 DEF EInv, Running
<1>4. {"refused", "may exist", "not placed", "no provider"} \subseteq Errors
  BY DEF Errors, NotPlaced
<1>5. ASSUME StepSucceeds(flow), flow.step = "place" => sent # {}, flow.step # "recheck"
      PROVE  EInv'
  <2>1. flow = [flow EXCEPT !.reducing = flow.reducing] /\ flow.reducing \in BOOLEAN
    BY <1>1 DEF Flows
  <2> QED BY <1>2, <1>5, <2>1, Succeeded
<1>6. CASE Recheck
  <2>1. flow.step = "recheck"
    BY <1>3, <1>6 DEF Recheck, At, Steps
  <2>2. CASE StepFails("refused")
    BY <1>2, <1>4, <2>1, <2>2, Failed
  <2>3. ASSUME NEW reducing \in BOOLEAN, card.reducing => reducing, killed.memory => reducing,
               StepSucceeds([flow EXCEPT !.reducing = reducing])
        PROVE  EInv'
    BY <1>2, <2>1, <2>3, Succeeded
  <2> QED BY <1>6, <2>2, <2>3 DEF Recheck
<1>7. CASE Throttle
  <2>1. flow.step = "throttle"
    BY <1>3, <1>7 DEF Throttle, At, Steps
  <2> QED BY <1>2, <1>4, <1>5, <1>7, <2>1, Failed, Erred DEF Throttle
<1>8. CASE PlaceRefused
  <2>1. flow.step = "place"
    BY <1>3, <1>8 DEF PlaceRefused, At, Steps
  <2>2. Refusal \in {"not placed", "may exist"} /\ (Refusal = "not placed" => flow.tries = 1)
    BY <1>1, <1>3 DEF Refusal
  <2> QED BY <1>2, <1>3, <1>4, <1>8, <2>1, <2>2, Failed DEF PlaceRefused, At
<1>9. CASE NoProvider \/ Undecided
  <2>1. flow.step = "place"
    BY <1>3, <1>9 DEF NoProvider, Undecided, At
  <2> QED BY <1>2, <1>4, <1>9, <2>1, Failed DEF NoProvider, Undecided
<1>10. CASE Rejected
  <2>1. flow.step = "place"
    BY <1>3, <1>10 DEF Rejected, At
  <2>2. SameMode => sent = {}
    BY <1>10 DEF Rejected, EInv, Config
  <2> QED BY <1>2, <1>4, <1>10, <2>1, <2>2, Failed DEF Rejected
<1>11. CASE Unknown
  <2>1. flow.step = "place"
    BY <1>3, <1>11 DEF Unknown
  <2> QED BY <1>2, <1>11, <2>1, Erred DEF Unknown
<1>12. CASE Placed \/ Verify \/ StepOver
  <2>1. flow.step = "place" => sent # {}
    BY <1>3, <1>12 DEF Placed, Verify, StepOver, At, Steps
  <2>2. flow.step # "recheck"
    BY <1>3, <1>12 DEF Placed, Verify, StepOver, At, Steps
  <2> QED BY <1>5, <1>12, <2>1, <2>2 DEF Placed, Verify, StepOver
<1> QED BY <1>6, <1>7, <1>8, <1>9, <1>10, <1>11, <1>12

\* Before the order goes out the record of its step is durable, and /stop has seen that
\* it reduces risk or is still to say something of it.
LEMMA AcceptEnds == ASSUME EInv, IInv', Accept PROVE EInv'
<1>1. /\ pc[Run] = "placing" /\ sent' = sent \cup {Venue} /\ sent' # {}
      /\ UNCHANGED <<row, flow, killed, saved, card, paper, told, stop>>
  BY DEF Accept, At, database, owner
<1>2. pc'[Run] = "sent" /\ \A q \in Procs : q # Run => pc'[q] = pc[q]
  <2>1. Goto(Run, "sent") /\ Run \in Procs /\ "sent" \in Places
    BY ProcsTyped DEF Accept, Places
  <2> QED BY <2>1, Moved DEF EInv, IInv
<1>3. pc'[Stop] = pc[Stop] /\ Tellers \subseteq Procs
  BY <1>2, ProcsTyped DEF Tellers
<1>4. /\ flow.step = "place" /\ flow.failed = "" /\ flow.state = "running"
      /\ flow.tries > 0 /\ saved.flow = flow
  BY <1>1, NotFailed DEF EInv, Running
<1>5. Shown(flow)
  BY <1>4 DEF Shown
<1>6. Evidence(flow, sent')
  BY <1>1, <1>5 DEF EInv, Evidence
<1>7. Evidence(flow, sent)' /\ Evidence(saved.flow, sent)'
  BY <1>1, <1>4, <1>6, EvidenceStays
<1>8. Settled(row, flow, sent)' /\ Settled(saved.row, saved.flow, sent)'
  BY <1>1 DEF EInv, Settled, MayBe
<1>9. Running'
  BY <1>1, <1>2, <1>4 DEF Running, Steps
<1>10. Telling'
  BY <1>1 DEF Telling
<1>11. Config'
  BY <1>1 DEF EInv, Config, Venue, SameMode
<1>12. Stopping'
  BY <1>1, <1>2, <1>3 DEF EInv, Stopping, Listed, Held, Answerable, Harmless, Gone
<1>13. StopAccounts'
  <2>1. SUFFICES ASSUME pc[Stop] = "done", "mid-step" \notin stop, Answerable
                 PROVE  flow.reducing
    BY <1>1, <1>3 DEF StopAccounts, Answerable, At
  <2>2. Harmless(flow)
    BY <1>1, <2>1 DEF EInv, Stopping, Listed, Held, Harmless
  <2>3. card.reducing => flow.reducing
    BY <1>4 DEF EInv, Evidence
  <2> QED BY <1>4, <2>2, <2>3 DEF Harmless, Gone, Ended, Later
<1> QED BY <1>7, <1>8, <1>9, <1>10, <1>11, <1>12, <1>13 DEF EInv

LEMMA MovesEnd == ASSUME EInv, IInv', Place \/ Receipt \/ SettleFailure PROVE EInv'
<1>1. row \in Rows /\ Settled(row, flow, sent) /\ flow \in Flows
  BY Typed DEF EInv
<1>2. /\ UNCHANGED <<flow, saved, sent, card, paper, stop, killed, told>>
      /\ pc[Run] \in {"place", "receipt", "settle_failure"}
  BY DEF Place, Receipt, SettleFailure, At, database, owner
<1>3. /\ flow.step = pc[Run] /\ flow.state = "running" /\ saved.flow = flow /\ flow.tries > 0
      /\ SameMode /\ pc[Run] = "place" /\ flow.tries = 1 => sent = {}
  BY <1>2 DEF EInv, Running, Steps
<1>4. "executed" \in told => sent # {}
  BY DEF EInv, Telling
<1>5. ASSUME NEW place \in {"placing", "tell", "over"}, Goto(Run, place), Settled(row', flow, sent),
             row.status = "failed" => row'.status = "failed",
             place = "placing" <=> pc[Run] = "place",
             place = "tell" => sent # {} \/ row'.status = "failed"
      PROVE  EInv'
  <2>1. Run \in Procs /\ place \in Places
    BY ProcsTyped DEF Places
  <2>2. pc'[Run] = place /\ \A q \in Procs : q # Run => pc'[q] = pc[q]
    BY <1>5, <2>1, Moved DEF EInv, IInv
  <2>3. Running'
    BY <1>2, <1>3, <1>5, <2>2 DEF Running, Steps, SameMode
  <2>4. pc'[Stop] = pc[Stop] /\ Tellers \subseteq Procs
    BY <2>2, ProcsTyped DEF Tellers
  <2> QED BY <1>2, <1>4, <1>5, <2>2, <2>3, <2>4, RecordStays
<1>6. CASE Place
  BY <1>1, <1>5, <1>6 DEF Place, At, database
<1>7. CASE Receipt
  <2>1. sent # {} /\ pc[Run] = "receipt"
    BY <1>3, <1>7 DEF EInv, Evidence, Receipt, At
  <2>2. Settled(row', flow, sent) /\ (row' = row \/ (row' # row /\ row'.status = "executed"))
    BY <1>1, <1>7, <2>1, FinishSettles DEF Receipt
  <2>3. row.status = "failed" => row' = row
    BY <1>7 DEF Receipt, Finish
  <2> QED BY <1>5, <1>7, <2>1, <2>2, <2>3 DEF Receipt
<1>8. CASE SettleFailure
  <2>1. flow.failed # "" /\ pc[Run] = "settle_failure"
    BY <1>3, <1>8 DEF EInv, Evidence, SettleFailure, At
  <2>2. Settled(row', flow, sent) /\ (row' = row \/ (row' # row /\ row'.status = "failed"))
    BY <1>1, <1>8, <2>1, FinishSettles DEF SettleFailure
  <2> QED BY <1>5, <1>8, <2>1, <2>2 DEF SettleFailure
<1> QED BY <1>6, <1>7, <1>8

LEMMA RunsEnd == ASSUME EInv, IInv', Runs PROVE EInv'
BY EngineEnds, StepsEnd, MovesEnd, AcceptEnds, TellEnds DEF Runs, Tellers
------------------------------------------------------------------------------
(* /stop, the owner's resume, the clock, and the restart.                     *)

\* /stop moves, and leaves the workflow alone.
LEMMA StopMoves ==
    ASSUME EInv, IInv', NEW place \in {"flows", "cancel", "proposals", "orders", "done"},
           Goto(Stop, place), UNCHANGED <<flow, saved, sent, card, paper, told>>,
           Settled(row', flow, sent), row.status = "failed" => row'.status = "failed",
           pc'[Stop] = place => Stopping', SameMode /\ pc'[Stop] = place => StopAccounts'
    PROVE  EInv'
<1>1. pc'[Stop] = place /\ \A q \in Procs : q # Stop => pc'[q] = pc[q]
  <2>1. Stop \in Procs /\ place \in Places
    BY ProcsTyped DEF Places
  <2> QED BY <2>1, Moved DEF EInv, IInv
<1>2. pc'[Run] = pc[Run] /\ Tellers \subseteq Procs
  BY <1>1, ProcsTyped DEF Tellers
<1>3. Evidence(flow, sent)' /\ Evidence(saved.flow, sent)'
  <2>1. flow' = flow /\ saved'.flow = saved.flow /\ sent' = sent /\ card' = card
    OBVIOUS
  <2> QED BY <2>1, EvidenceStays DEF EInv
<1>4. Settled(row, flow, sent)' /\ Settled(saved.row, saved.flow, sent)'
  BY DEF EInv, Settled, MayBe
<1>5. Running'
  BY <1>2, RunStays
<1>6. Telling'
  <2>1. \A q \in Tellers : pc'[q] = "tell" => pc[q] = "tell"
    BY <1>1, <1>2
  <2> QED BY <2>1 DEF EInv, Telling
<1>7. Config'
  BY DEF EInv, Config, Venue, SameMode
<1> QED BY <1>1, <1>3, <1>4, <1>5, <1>6, <1>7 DEF EInv, SameMode

\* /stop gets to a workflow: a waiting one is over, a running one will be at its next
\* boundary, and what it found is durable.
LEMMA CancelEnds == ASSUME EInv, IInv', CancelFlow PROVE EInv'
<1>1. /\ flow \in Flows /\ pc[Stop] = "cancel" /\ Goto(Stop, "proposals")
      /\ UNCHANGED <<row, killed, sent, card, paper, told>>
      /\ saved'.flow = flow' /\ saved'.row = row
  BY Typed, Saves DEF CancelFlow, At, EInv
<1>2. /\ flow'.step = flow.step /\ flow'.failed = flow.failed /\ flow'.error = flow.error
      /\ flow'.tries = flow.tries /\ flow'.reducing = flow.reducing
      /\ \/ flow'.state = flow.state
         \/ flow.state \in {"pending", "waiting"} /\ flow'.state = "cancelled"
      /\ \/ Gone(flow)'
         \/ flow'.asked /\ "stopping" \in stop'
  <2>1. CASE flow.state \in {"pending", "waiting"}
    <3>1. flow' = [flow EXCEPT !.state = "cancelled"]
      BY <2>1 DEF CancelFlow
    <3> QED BY <1>1, <2>1, <3>1 DEF Flows, Gone, Ended
  <2>2. CASE flow.state = "running"
    <3>1. flow' = [flow EXCEPT !.asked = TRUE] /\ "stopping" \in stop'
      BY <2>2 DEF CancelFlow, Says
    <3> QED BY <1>1, <2>2, <3>1 DEF Flows
  <2>3. CASE flow.state \notin {"pending", "waiting", "running"}
    <3>1. flow' = flow
      BY <2>3 DEF CancelFlow
    <3>2. flow.state \in Ended
      BY <1>1, <2>3 DEF Flows, EInv, Stopping
    <3> QED BY <3>1, <3>2 DEF Gone, Ended
  <2> QED BY <2>1, <2>2, <2>3
<1>3. pc'[Stop] = "proposals" /\ \A q \in Procs : q # Stop => pc'[q] = pc[q]
  <2>1. Stop \in Procs /\ "proposals" \in Places
    BY ProcsTyped DEF Places
  <2> QED BY <1>1, <2>1, Moved DEF EInv, IInv
<1>4. pc'[Run] = pc[Run] /\ Tellers \subseteq Procs
  BY <1>3, ProcsTyped DEF Tellers
<1>5. Evidence(flow', sent)
  BY <1>1, <1>2 DEF EInv, Evidence, Shown
<1>6. Evidence(flow, sent)' /\ Evidence(saved.flow, sent)'
  BY <1>1, <1>5, EvidenceStays
<1>7. Settled(row, flow', sent)
  BY <1>2 DEF EInv, Settled, MayBe, Ended
<1>8. Settled(row, flow, sent)' /\ Settled(saved.row, saved.flow, sent)'
  BY <1>1, <1>7 DEF Settled, MayBe
<1>9. Running'
  BY <1>1, <1>2, <1>4 DEF EInv, Running, SameMode
<1>10. Telling'
  <2>1. \A q \in Tellers : pc'[q] = "tell" => pc[q] = "tell"
    BY <1>3, <1>4, ProcsTyped
  <2> QED BY <1>1, <2>1 DEF EInv, Telling
<1>11. Config'
  BY <1>1 DEF EInv, Config, Venue, SameMode
<1>12. Stopping'
  <2>1. stop \subseteq stop' /\ "known" \in stop
    BY <1>1 DEF CancelFlow, Says, EInv, Stopping
  <2>2. flow'.state # "none"
    BY <1>2, <2>1 DEF EInv, Stopping
  <2> QED BY <1>2, <1>3, <2>1, <2>2 DEF Stopping, Listed, Held
<1>13. StopAccounts'
  BY <1>3 DEF StopAccounts, At
<1> QED BY <1>6, <1>8, <1>9, <1>10, <1>11, <1>12, <1>13 DEF EInv

LEMMA StopsEnd == ASSUME EInv, IInv', Stops PROVE EInv'
<1>1. row \in Rows /\ row' \in Rows /\ Settled(row, flow, sent) /\ flow \in Flows
  BY Typed DEF EInv, IInv, TypeOK
<1>2. CASE Engage
  <2>1. pc'[Stop] = "flows" => Stopping' /\ StopAccounts'
    BY <1>2 DEF Engage, Stopping, Listed, StopAccounts, At
  <2> QED BY <1>1, <1>2, <2>1, StopMoves DEF Engage
<1>3. CASE ReadFlow
  <2>1. /\ UNCHANGED <<row, flow, saved, sent, card, paper, told, killed>>
        /\ pc[Stop] = "flows"
        /\ stop' = IF flow.state = "none" THEN stop ELSE {"known"}
    BY <1>3 DEF ReadFlow, At, database
  <2>2. CASE Goto(Stop, "cancel") /\ flow.state # "none"
    <3>1. pc'[Stop] = "cancel" => Stopping' /\ StopAccounts'
      BY <2>1, <2>2 DEF Stopping, Listed, Held, StopAccounts, At
    <3> QED BY <1>1, <2>1, <2>2, <3>1, StopMoves
  <2>3. CASE Goto(Stop, "proposals") /\ flow.state # "none" /\ Gone(flow)
    <3>1. pc'[Stop] = "proposals" => Stopping' /\ StopAccounts'
      BY <2>1, <2>3 DEF Stopping, Listed, Held, Gone, StopAccounts, At
    <3> QED BY <1>1, <2>1, <2>3, <3>1, StopMoves
  <2>4. CASE Goto(Stop, "proposals") /\ flow.state = "none"
    <3>1. pc'[Stop] = "proposals" => Stopping' /\ StopAccounts'
      BY <2>1, <2>4 DEF EInv, Stopping, Listed, Held, Answerable, Harmless, StopAccounts, At
    <3> QED BY <1>1, <2>1, <2>4, <3>1, StopMoves
  <2> QED BY <1>3, <2>2, <2>3, <2>4 DEF ReadFlow, HasPlaced, Gone, Later
<1>4. CASE CancelFlow
  BY <1>4, CancelEnds
<1>5. CASE CancelPending
  <2>1. row' = row \/ (row.status = "pending" /\ row'.outcome = row.outcome
                       /\ row'.status = "cancelled")
    BY <1>1, <1>5 DEF CancelPending, Became, Rows
  <2>2. Settled(row', flow, sent)
    BY <1>1, <2>1, StillOpen
  <2>3. /\ UNCHANGED <<flow, saved, sent, card, paper, told, killed, stop>>
        /\ pc[Stop] = "proposals" /\ Goto(Stop, "orders")
    BY <1>5 DEF CancelPending, At, owner
  <2>4. pc'[Stop] = "orders" => Stopping' /\ StopAccounts'
    BY <2>3 DEF EInv, Stopping, Listed, Held, Answerable, Harmless, Gone, StopAccounts, At
  <2> QED BY <2>1, <2>2, <2>3, <2>4, StopMoves
<1>6. CASE TooLate
  <2>1. /\ UNCHANGED <<row, flow, saved, sent, card, paper, told, killed>>
        /\ pc[Stop] = "orders" /\ Goto(Stop, "done")
        /\ stop' = stop \cup {"mid-step"}
    BY <1>6 DEF TooLate, At, Says, database
  <2>2. pc'[Stop] = "done" => Stopping' /\ StopAccounts'
    BY <2>1 DEF EInv, Stopping, Listed, Held, Answerable, Harmless, Gone, StopAccounts, At
  <2> QED BY <1>1, <2>1, <2>2, StopMoves
<1>7. CASE Withdraw
  <2>1. /\ UNCHANGED <<row, flow, saved, sent, card, paper, told, killed>>
        /\ pc[Stop] = "orders" /\ Goto(Stop, "done") /\ ~MidStep
        /\ stop \subseteq stop' /\ ("known" \in stop' => "known" \in stop)
        /\ (NoOrder \/ card.reducing) \/ stop' \cap {"may exist", "over"} # {}
    <3>1. \/ (NoOrder \/ card.reducing) /\ stop' = stop
          \/ \E word \in {"may exist", "over"} : stop' = stop \cup {word}
      BY <1>7 DEF Withdraw, Says
    <3> QED BY <1>7, <3>1 DEF Withdraw, At, database
  <2>2. SameMode /\ sent # {} /\ ~flow.reducing /\ (NoOrder \/ card.reducing)
          => flow.failed = "place" /\ flow.error \in {"panic", "no provider"}
    <3>1. SUFFICES ASSUME SameMode, sent # {}, ~flow.reducing, NoOrder \/ card.reducing
                   PROVE  flow.failed = "place" /\ flow.error \in {"panic", "no provider"}
      OBVIOUS
    <3>2. Shown(flow)
      BY <3>1 DEF EInv, Evidence
    <3>3. ~card.reducing
      BY <3>1, <3>2 DEF EInv, Evidence, Shown, Later
    <3> QED BY <3>1, <3>2, <3>3 DEF NoOrder, PlaceStarted, Shown, EInv, Evidence, Later
  <2>3. ASSUME pc'[Stop] = "done" PROVE Stopping'
    <3>1. pc'[Run] = pc[Run]
      BY <2>1, ProcsTyped, Moved DEF EInv, IInv, Places
    <3>2. "stopping" \in stop /\ flow.asked => pc[Run] = "idle"
      BY <2>1 DEF MidStep, EInv, Running
    <3>3. /\ Held' => Held /\ killed.memory' = killed.memory
          /\ Harmless(flow)' <=> Harmless(flow)
          /\ Gone(flow)' <=> Gone(flow)
      BY <2>1 DEF Held, Answerable, Harmless, Gone
    <3> QED BY <2>1, <2>3, <3>1, <3>2, <3>3 DEF EInv, Stopping, Listed
  <2>4. ASSUME SameMode PROVE StopAccounts'
    BY <2>1, <2>2, <2>4 DEF StopAccounts, At
  <2> QED BY <1>1, <2>1, <2>3, <2>4, StopMoves
<1> QED BY <1>2, <1>3, <1>4, <1>5, <1>6, <1>7 DEF Stops

LEMMA ElseEnd == ASSUME EInv, IInv', Resume \/ Outdated \/ Reread \/ Tick PROVE EInv'
<1>1. UNCHANGED <<row, flow, saved, sent, card, paper, pc, told>>
  BY DEF Resume, Outdated, Reread, Tick, database, owner
<1>2. CASE Tick
  <2>1. UNCHANGED <<stop, killed>>
    BY <1>2 DEF Tick, database, owner
  <2>2. Running' /\ Settled(row', flow, sent) /\ ("executed" \in told => sent # {})
    BY <1>1, RunStays DEF EInv, Settled, Telling
  <2> QED BY <1>1, <2>1, <2>2, RecordStays
<1>3. CASE Resume \/ Outdated \/ Reread
  <2>1. /\ stop \ {"outdated"} \subseteq stop' /\ ("known" \in stop' <=> "known" \in stop)
        /\ Held' => Held /\ (killed.memory => killed.memory')
        /\ "mid-step" \in stop <=> "mid-step" \in stop'
    <3>1. CASE Resume
      BY <3>1 DEF Resume, owner, Held, Answerable
    <3>2. CASE Outdated
      BY <3>2, Typed DEF EInv, Outdated, Says, Held, Answerable, Switches
    <3>3. CASE Reread
      BY <3>3, Typed DEF EInv, Reread, owner, Held, Answerable, Switches
    <3> QED BY <1>3, <3>1, <3>2, <3>3
  <2>2. Evidence(flow, sent)' /\ Evidence(saved.flow, sent)'
    <3>1. flow' = flow /\ saved'.flow = saved.flow /\ sent' = sent /\ card' = card
      BY <1>1
    <3> QED BY <3>1, EvidenceStays DEF EInv
  <2>3. Settled(row, flow, sent)' /\ Settled(saved.row, saved.flow, sent)'
    BY <1>1 DEF EInv, Settled, MayBe
  <2>4. Running'
    BY <1>1, RunStays
  <2>5. Telling' /\ Config'
    BY <1>1 DEF EInv, Telling, Config, Venue, SameMode
  <2>6. Stopping'
    <3>1. Harmless(flow)' <=> Harmless(flow)
      BY <1>1 DEF Harmless, Gone
    <3>2. Gone(flow)' <=> Gone(flow)
      BY <1>1 DEF Gone
    <3> QED BY <1>1, <2>1, <3>1, <3>2 DEF EInv, Stopping, Listed
  <2>7. SameMode => StopAccounts'
    <3>1. Answerable' => Answerable
      BY <2>1 DEF Held, Answerable
    <3> QED BY <1>1, <2>1, <3>1 DEF EInv, StopAccounts, At
  <2> QED BY <2>2, <2>3, <2>4, <2>5, <2>6, <2>7 DEF EInv, SameMode
<1> QED BY <1>2, <1>3

\* Whatever a restart finds, the record it finds was true of the orders.
LEMMA RestartEnds == ASSUME EInv, IInv', Crash \/ PowerCut PROVE EInv'
<1>1. Restart
  BY DEF Crash, PowerCut
<1>2. /\ UNCHANGED <<card, saved, sent, told>> /\ (SameMode => paper' = paper)
      /\ pc'[Run] = "idle" /\ pc'[Stop] = "idle" /\ pc'[Sweep] = "idle"
  BY <1>1, ProcsTyped DEF Restart, Dead, SameMode
<1>3. (flow' = flow /\ row' = row) \/ (flow' = saved.flow /\ row' = saved.row)
  BY DEF Crash, PowerCut
<1>4. Evidence(flow', sent) /\ Settled(row', flow', sent)
  BY <1>3 DEF EInv
<1>5. Evidence(flow, sent)' /\ Evidence(saved.flow, sent)'
  <2>1. saved'.flow = saved.flow /\ sent' = sent /\ card' = card
    BY <1>2
  <2> QED BY <1>4, <2>1, EvidenceStays DEF EInv
<1>6. Settled(row, flow, sent)' /\ Settled(saved.row, saved.flow, sent)'
  BY <1>2, <1>4 DEF EInv, Settled, MayBe
<1>7. Running'
  BY <1>2 DEF Running, Steps
<1>8. Telling'
  BY <1>2 DEF EInv, Telling, Tellers
<1>9. Config'
  <2>1. SameMode => Venue' = Venue
    BY <1>2 DEF Venue
  <2> QED BY <1>2, <2>1 DEF EInv, Config, SameMode
<1>10. Stopping' /\ StopAccounts'
  <2>1. stop' = {}
    BY <1>1 DEF Restart
  <2> QED BY <1>2, <2>1 DEF Stopping, Listed, StopAccounts, At
<1> QED BY <1>5, <1>6, <1>7, <1>8, <1>9, <1>10 DEF EInv
------------------------------------------------------------------------------
(* The theorems.                                                              *)

LEMMA InitEnds == ASSUME Init PROVE EInv
<1>1. IInv /\ row = NoRow /\ flow = NoFlow /\ saved.row = NoRow /\ saved.flow = NoFlow
  BY InitAgrees, Pair DEF Init
<1>2. /\ flow.state = "none" /\ flow.step = "recheck" /\ flow.failed = ""
      /\ row.status = "none" /\ row.outcome = ""
  BY <1>1, NewFlowTyped, NoFlowTyped DEF NoFlow, NewFlow, NoRow, Flows
<1>3. Evidence(flow, sent) /\ Settled(row, flow, sent)
  BY <1>2 DEF Init, Evidence, Settled, Later, Blamed
<1>4. /\ pc[Run] = "idle" /\ pc[Stop] = "idle" /\ pc[Sweep] = "idle"
      /\ sent = {} /\ told = {} /\ stop = {}
  BY ProcsTyped DEF Init
<1>5. Running /\ Telling /\ Stopping /\ StopAccounts
  BY <1>4 DEF Running, Telling, Stopping, Listed, StopAccounts, At, Steps, Tellers
<1>6. Config
  BY ModeAssumption, <1>4 DEF Init, Config, Venue
<1> QED BY <1>1, <1>3, <1>5, <1>6 DEF EInv

LEMMA NextEnds == ASSUME EInv, [Next]_vars PROVE EInv'
<1>1. IInv'
  BY NextKeeps DEF EInv
<1>2. CASE UNCHANGED vars
  <2>1. UNCHANGED <<row, flow, killed, saved, card, paper, sent, pc, told, stop>>
    BY <1>2 DEF vars, database, owner
  <2>2. Running' /\ Settled(row', flow, sent) /\ ("executed" \in told => sent # {})
    BY <2>1, RunStays DEF EInv, Settled, Telling
  <2> QED BY <1>1, <2>1, <2>2, RecordStays
<1>3. CASE Agents \/ Sweeps \/ Runs \/ Stops
  BY <1>1, <1>3, AgentsEnd, SweepsEnd, RunsEnd, StopsEnd
<1>4. CASE Resume \/ Outdated \/ Reread \/ Tick \/ Crash \/ PowerCut
  BY <1>1, <1>4, ElseEnd, RestartEnds
<1>5. CASE \E o \in Owners : Decide(o) \/ Begins(o)
  BY <1>1, <1>5, DecideEnd, BeginsEnd
<1> QED BY <1>2, <1>3, <1>4, <1>5 DEF Next

\* What Next keeps, for every value of the constants: the records of the workflow, in
\* the database and as a power cut leaves them, tell where its order went.
THEOREM RecordsTell == Spec => []EInv
<1>1. Init => EInv
  BY InitEnds
<1>2. EInv /\ [Next]_vars => EInv'
  BY NextEnds
<1> QED BY <1>1, <1>2, PTL DEF Spec

\* The owner is told that an order was executed only if it was (settleExecuted, Recover),
\* over any number of decisions, sweeps, attempts, restarts and modes.
THEOREM ToldOnlyIfPlaced == Spec => []ExecutedWasPlaced
<1>1. EInv => ExecutedWasPlaced
  BY DEF EInv, Settled, Telling, ExecutedWasPlaced
<1> QED BY <1>1, RecordsTell, PTL

\* "Failed and NOTHING was placed" (failureText) is true, but for the two cases of
\* Misjudged, while restarts do not change the paper mode: describeFailure and the place
\* step's tags are right on every attempt.
THEOREM NothingPlacedIsSo == ASSUME SameMode PROVE Spec => []FailureIsTruthful
<1>1. EInv => FailureIsTruthful
  <2>1. SUFFICES ASSUME EInv, row.outcome = "not placed", ~Misjudged, sent # {}
                 PROVE  FALSE
    BY DEF FailureIsTruthful
  <2>2. ~MayBe(flow) /\ Shown(flow)
    BY <2>1, SameMode DEF EInv, Settled, Evidence
  <2> QED BY <2>1, <2>2 DEF MayBe, Shown, Misjudged, EInv, Evidence, NotPlaced
<1> QED BY <1>1, RecordsTell, PTL

\* /stop says something of every order that adds risk and went out (FlowOrders,
\* WithdrawOrders): from a workflow it listed, and from a later one unless the switch was
\* cleared or its memory outdated; while restarts do not change the paper mode.
THEOREM StopAnswers == ASSUME SameMode PROVE Spec => []StopAccounts
<1>1. EInv => StopAccounts
  BY SameMode DEF EInv
<1> QED BY <1>1, RecordsTell, PTL

\* After a /stop that named no workflow in a step nothing that adds risk goes out: from
\* no attempt of a workflow it listed, whatever the switch says by then (requestCancel),
\* and from no later start while the switch holds, in memory too (recheck, stepPlace).
THEOREM StopKeepsHolding == Spec => StopHolds
<1>1. EInv /\ [Next]_vars
        => [At(Stop, "done") /\ "mid-step" \notin stop /\ Answerable /\ ~flow.reducing
              => sent' = sent]_vars
  <2>1. SUFFICES ASSUME EInv, Next, At(Stop, "done"), "mid-step" \notin stop,
                        Answerable, ~flow.reducing
                 PROVE  sent' = sent
    BY DEF vars
  <2>2. Harmless(flow) \/ pc[Run] \in {"idle", "next"}
    BY <2>1 DEF EInv, Stopping, Listed, Held, Harmless, At
  <2>3. ~Accept
    <3>1. SUFFICES ASSUME Accept PROVE FALSE
      OBVIOUS
    <3>2. /\ pc[Run] = "placing" /\ flow.step = "place" /\ flow.failed = ""
          /\ flow.state = "running"
      BY <2>1, <3>1, NotFailed DEF Accept, At, EInv, Running
    <3>3. card.reducing => flow.reducing
      BY <2>1, <3>2 DEF EInv, Evidence
    <3> QED BY <2>1, <2>2, <3>2, <3>3 DEF Harmless, Gone, Ended, Later
  <2>4. CASE Agents \/ Sweeps \/ Stops \/ Resume \/ Outdated \/ Reread \/ Tick \/ Crash \/ PowerCut
    BY <2>4 DEF Agents, Propose, Insert, NotDelivered, Sweeps, ExpireDue, StartLost,
         SettleEnded, Renotify, Tell, MarkNotified, Begins, Start, MarkExecuting, StartFails,
         Stops, Engage, ReadFlow, CancelFlow, CancelPending, TooLate, Withdraw, Resume,
         Outdated, Reread, Tick, Crash, PowerCut, Restart
  <2>5. CASE Runs
    BY <2>3, <2>5 DEF Runs, Claim, BeginStep, Cancelled, GiveUp, End, Panic, Recheck, Throttle,
         Place, PlaceRefused, NoProvider, Rejected, Unknown, Undecided, Placed, Verify, Receipt,
         SettleFailure, Tell, MarkNotified, StepOver
  <2>6. CASE \E o \in Owners : Decide(o) \/ Begins(o)
    BY <2>6 DEF Decide, Ask, Refuse, Agree, Approve, Reject, Begins, Start, MarkExecuting,
         StartFails
  <2> QED BY <2>1, <2>4, <2>5, <2>6 DEF Next
<1> QED BY <1>1, RecordsTell, PTL DEF Spec, StopHolds
===============================================================================
