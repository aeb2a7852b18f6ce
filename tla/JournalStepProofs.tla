-------------------------- MODULE JournalStepProofs --------------------------
(* What no step of Journal may do, proved from the inductive invariant of   *)
(* JournalProofs: repeat a step that completed, or an attempt number; then  *)
(* how a workflow ends, that it implements DurableWorkflow, and in real time *)
(* that steps do not overlap and that no wait is cut short.                 *)
EXTENDS JournalProofs, FunctionTheorems, FiniteSetTheorems, SequenceTheorems

----------------------------------------------------------------------------
(* A step function is called by BeginFirst and BeginAgain alone.            *)

\* Runner s leaves the runs of the others alone and calls nothing in its own.
NoCall(s) ==
    \/ run' = run
    \/ \E e : /\ run' = [run EXCEPT ![s] = e]
              /\ e.pc # "running" \/ e.pc = run[s].pc

LEMMA NoCallNoBegin ==
    ASSUME run \in [Runners -> Runs], NEW r \in Runners, NEW s \in Runners, NoCall(s)
    PROVE  ~Begins(r)
<1> SUFFICES ASSUME Begins(r) PROVE FALSE
  OBVIOUS
<1>1. run[r].pc = "boundary" /\ run'[r].pc = "running"
  BY DEF Begins
<1>2. CASE run' = run
  BY <1>1, <1>2
<1>3. ASSUME NEW e, run' = [run EXCEPT ![s] = e], e.pc # "running" \/ e.pc = run[s].pc
      PROVE  FALSE
  <2>2. CASE s = r
    <3>1. run'[r] = e
      BY <1>3, <2>2
    <3> QED BY <1>1, <1>3, <2>2, <3>1
  <2>3. CASE s # r
    <3>1. run'[r] = run[r]
      BY <1>3, <2>3
    <3> QED BY <1>1, <3>1
  <2> QED BY <2>2, <2>3
<1> QED BY <1>2, <1>3 DEF NoCall

LEMMA EndRunNoCall ==
    ASSUME NEW s, EndRun(s)
    PROVE  NoCall(s)
<1>1. IdleRun.pc = "idle"
  BY DEF IdleRun
<1> QED BY <1>1 DEF EndRun, NoCall

LEMMA FinishNoCall ==
    ASSUME run \in [Runners -> Runs], NEW s \in Runners, NEW v, FinishWith(s, v)
    PROVE  NoCall(s)
<1> DEFINE e == [run[s] EXCEPT !.pc = "finish", !.verdict = v, !.result = "none",
                               !.age = 0, !.renewer = "off", !.timer = 0]
<1>1. e.pc = "finish"
  BY DEF Runs
<1>2. run' = [run EXCEPT ![s] = e]
  BY DEF FinishWith
<1> HIDE DEF e
<1>3. e.pc # "running"
  BY <1>1
<1> QED BY <1>2, <1>3 DEF NoCall

LEMMA InterruptNoCall ==
    ASSUME run \in [Runners -> Runs], NEW s \in Runners, Interrupt(s)
    PROVE  NoCall(s)
<1> DEFINE e == [run[s] EXCEPT !.pc = "interrupt", !.age = 0, !.renewer = "off", !.timer = 0]
<1>1. e.pc = "interrupt"
  BY DEF Runs
<1>2. run' = [run EXCEPT ![s] = e]
  BY DEF Interrupt
<1> HIDE DEF e
<1>3. e.pc # "running"
  BY <1>1
<1> QED BY <1>2, <1>3 DEF NoCall

LEMMA AdvanceNoCall ==
    ASSUME run \in [Runners -> Runs], NEW s \in Runners, NEW out, Advance(s, out)
    PROVE  NoCall(s)
<1>1. CASE FinishWith(s, "failed")
  BY <1>1, FinishNoCall
<1>2. CASE ~FinishWith(s, "failed")
  <2> DEFINE e == [run[s] EXCEPT !.pc = "boundary", !.seq = run[s].seq + 1,
                                 !.retrying = FALSE, !.attempt = 0,
                                 !.result = "none", !.age = 0]
  <2>1. e.pc = "boundary"
    BY DEF Runs
  <2>2. run' = [run EXCEPT ![s] = e]
    BY <1>2 DEF Advance
  <2> HIDE DEF e
  <2>3. e.pc # "running"
    BY <2>1
  <2> QED BY <2>2, <2>3 DEF NoCall
<1> QED BY <1>1, <1>2

LEMMA LoseNoCall ==
    ASSUME run \in [Runners -> Runs], NEW s \in Runners, LoseLease(s)
    PROVE  NoCall(s)
<1> DEFINE e == [run[s] EXCEPT !.lost = TRUE, !.renewer = "off", !.timer = 0]
<1>1. e.pc = run[s].pc
  BY DEF Runs
<1>2. run' = [run EXCEPT ![s] = e]
  BY DEF LoseLease
<1> HIDE DEF e
<1> QED BY <1>1, <1>2 DEF NoCall

LEMMA ClaimNoCall ==
    ASSUME run \in [Runners -> Runs], NEW s \in Runners, Claim(s)
    PROVE  NoCall(s)
<1>1. PICK a \in 0 .. StoreTimeout :
        run' = [run EXCEPT ![s] = [IdleRun EXCEPT !.pc = "claimed",
                                        !.epoch = db.epoch + 1, !.leaseLeft = Lease - a]]
  BY DEF Claim
<1> DEFINE e == [IdleRun EXCEPT !.pc = "claimed", !.epoch = db.epoch + 1,
                                !.leaseLeft = Lease - a]
<1>2. e.pc = "claimed"
  BY DEF IdleRun
<1>3. run' = [run EXCEPT ![s] = e]
  BY <1>1
<1> HIDE DEF e
<1>4. e.pc # "running"
  BY <1>2
<1> QED BY <1>3, <1>4 DEF NoCall

LEMMA LoadNoCall ==
    ASSUME run \in [Runners -> Runs], NEW s \in Runners, Load(s)
    PROVE  NoCall(s)
<1>1. CASE EndRun(s)
  BY <1>1, EndRunNoCall
<1>2. CASE ~EndRun(s)
  <2> DEFINE e == [run[s] EXCEPT !.pc = "boundary", !.rows = db.rows, !.age = 0,
                                 !.renewer = "sleep", !.timer = Interval]
  <2>1. e.pc = "boundary"
    BY DEF Runs
  <2>2. run' = [run EXCEPT ![s] = e]
    BY <1>2 DEF Load
  <2> HIDE DEF e
  <2>3. e.pc # "running"
    BY <2>1
  <2> QED BY <2>2, <2>3 DEF NoCall
<1> QED BY <1>1, <1>2

LEMMA ReturnNoCall ==
    ASSUME run \in [Runners -> Runs], NEW s \in Runners, Return(s)
    PROVE  NoCall(s)
<1>1. PICK res \in Results :
        run' = [run EXCEPT ![s] = [run[s] EXCEPT !.pc = "returned", !.result = res, !.age = 0]]
  BY DEF Return
<1> DEFINE e == [run[s] EXCEPT !.pc = "returned", !.result = res, !.age = 0]
<1>2. e.pc = "returned"
  BY DEF Runs
<1>3. run' = [run EXCEPT ![s] = e]
  BY <1>1
<1> HIDE DEF e
<1>4. e.pc # "running"
  BY <1>2
<1> QED BY <1>3, <1>4 DEF NoCall

LEMMA RetryNoCall ==
    ASSUME run \in [Runners -> Runs], NEW s \in Runners, RetryStep(s)
    PROVE  NoCall(s)
<1> DEFINE e == [run[s] EXCEPT !.pc = "boundary", !.retrying = TRUE, !.attempt = 0,
                               !.result = "none", !.age = 0]
<1>1. EndRun(s) \/ run' = [run EXCEPT ![s] = e]
  BY DEF RetryStep
<1>2. e.pc = "boundary"
  BY DEF Runs
<1> HIDE DEF e
<1>3. e.pc # "running"
  BY <1>2
<1> QED BY <1>1, <1>3, EndRunNoCall DEF NoCall

LEMMA RenewalNoCall ==
    ASSUME run \in [Runners -> Runs], NEW s \in Runners, RenewWake(s) \/ RenewTx(s) \/ RenewFails(s)
    PROVE  NoCall(s)
<1> DEFINE e == [run[s] EXCEPT !.renewer = "renew", !.timer = Interval]
           a == Interval - run[s].timer
           f == [run[s] EXCEPT !.renewer = "sleep", !.timer = Interval, !.leaseLeft = Lease - a]
<1>1. LoseLease(s) \/ run' = [run EXCEPT ![s] = e] \/ run' = [run EXCEPT ![s] = f]
  BY DEF RenewWake, RenewTx, RenewFails
<1>2. e.pc = run[s].pc /\ f.pc = run[s].pc
  BY DEF Runs
<1> HIDE DEF e, f
<1> QED BY <1>1, <1>2, LoseNoCall DEF NoCall

LEMMA FunctionNoCall ==
    ASSUME IInv, NEW s \in Runners, Function(s)
    PROVE  NoCall(s) \/ BeginFirst(s) \/ BeginAgain(s)
<1>1. run \in [Runners -> Runs]
  BY DEF IInv, TypeOK
<1>2. ASSUME NonDeterministic(s) \/ ReturnNil(s) PROVE NoCall(s)
  BY <1>1, <1>2, FinishNoCall DEF NonDeterministic, ReturnNil
<1>3. ASSUME HaltAtBoundary(s) \/ StepInterrupted(s) PROVE NoCall(s)
  BY <1>1, <1>3, EndRunNoCall, InterruptNoCall DEF HaltAtBoundary, StepInterrupted
<1>4. ASSUME Replay(s) \/ FinishStep(s) \/ NowStep(s) PROVE NoCall(s)
  BY <1>1, <1>4, AdvanceNoCall DEF Replay, FinishStep, NowStep
<1>5. ASSUME \/ StillBackingOff(s) \/ CancelAtBoundary(s) \/ FailWorkflow(s)
             \/ FencedOut(s) \/ Finalize(s) \/ Release(s)
      PROVE  NoCall(s)
  BY <1>5, EndRunNoCall
     DEF StillBackingOff, CancelAtBoundary, FailWorkflow, FencedOut, Finalize, Release
<1>6. ASSUME SleepStep(s) PROVE NoCall(s)
  <2>1. Advance(s, "ok") \/ EndRun(s)
    BY <1>6 DEF SleepStep
  <2> QED BY <1>1, <2>1, AdvanceNoCall, EndRunNoCall
<1> QED BY <1>1, <1>2, <1>3, <1>4, <1>5, <1>6, LoadNoCall, ReturnNoCall, RetryNoCall
        DEF Function

\* Only the two actions that journal an attempt first call a step function.
LEMMA Callers ==
    ASSUME IInv, [Next]_vars, NEW r \in Runners, Begins(r)
    PROVE  BeginFirst(r) \/ BeginAgain(r)
<1>1. run \in [Runners -> Runs] /\ run[r] \in Runs
  BY DEF IInv, TypeOK
<1>2. ASSUME NEW s \in Runners,
             \/ Claim(s) \/ Function(s) \/ StoreFails(s)
             \/ Renewal(s) \/ RenewFails(s)
             \/ Stop(s) \/ Shutdown(s) \/ Crash(s) \/ Restart(s) \/ Stall(s) \/ Resume(s)
      PROVE  BeginFirst(r) \/ BeginAgain(r)
  <2>1. ~NoCall(s)
    BY <1>1, NoCallNoBegin
  <2>2. run' # run /\ ~EndRun(s)
    BY <2>1, EndRunNoCall DEF NoCall
  <2>3. ~Claim(s) /\ ~RenewWake(s) /\ ~RenewTx(s) /\ ~RenewFails(s)
    BY <1>1, <2>1, ClaimNoCall, RenewalNoCall
  <2>4. Function(s)
    BY <1>2, <2>2, <2>3
       DEF StoreFails, Renewal, Stop, Shutdown, CancelSteps, Exit, Crash, Restart, Stall, Resume
  <2>5. BeginFirst(s) \/ BeginAgain(s)
    BY <2>1, <2>4, FunctionNoCall
  <2>6. CASE s = r
    BY <2>5, <2>6
  <2>7. CASE s # r
    <3>1. EndRun(s) \/ \E e : run' = [run EXCEPT ![s] = e]
      BY <2>5 DEF BeginFirst, BeginAgain, Call
    <3>2. run'[r] = run[r]
      BY <1>1, <2>2, <2>7, <3>1
    <3> QED BY <3>2 DEF Begins
  <2> QED BY <2>6, <2>7
<1>3. ~(StartWithID \/ Cancel \/ Prune \/ UNCHANGED vars)
  BY DEF Begins, StartWithID, Cancel, Prune, vars
<1>4. ~PowerCut
  BY DEF Begins, PowerCut, IdleRun
<1>5. ASSUME Tick \/ JumpBack PROVE FALSE
  <2>1. \E l, a, t : run'[r] = [run[r] EXCEPT !.leaseLeft = l, !.age = a, !.timer = t]
           \/ run'[r] = [run[r] EXCEPT !.leaseLeft = l]
    <3>1. CASE Tick
      BY <3>1 DEF Tick
    <3>2. CASE JumpBack
      BY <3>2 DEF JumpBack
    <3> QED BY <1>5, <3>1, <3>2
  <2>2. run'[r].pc = run[r].pc
    BY <1>1, <2>1 DEF Runs
  <2> QED BY <2>2 DEF Begins
<1> QED BY <1>2, <1>3, <1>4, <1>5 DEF Next

LEMMA NewAttempt ==
    ASSUME IInv, [Next]_vars, NEW r \in Runners, Begins(r)
    PROVE  [seq |-> run[r].seq + 1, name |-> SlotOf(r).name, attempt |-> run'[r].attempt]
             \notin calls
<1> DEFINE c == [seq |-> run[r].seq + 1, name |-> SlotOf(r).name,
                 attempt |-> run'[r].attempt]
<1> SUFFICES ASSUME c \in calls PROVE FALSE
  OBVIOUS
<1>1. /\ run \in [Runners -> Runs] /\ run[r] \in Runs /\ calls \subseteq Calls
      /\ Sound(db, calls) /\ db \in Workflows
  BY DEF IInv, TypeOK
<1>2. run[r].seq \in Nat /\ db.rows \in Seq(Rows)
  BY <1>1 DEF Runs, Workflows
<1>3. /\ run[r].seq + 1 \in 1 .. Len(db.rows)
      /\ db.rows[run[r].seq + 1].attempts >= run'[r].attempt
  BY <1>1 DEF Sound
<1>4. CASE BeginFirst(r)
  <2>1. PICK a : Fenced(r, a)
    BY <1>4 DEF BeginFirst
  <2>2. Len(db.rows) = run[r].seq
    BY <1>4, <2>1, FreshSlot DEF BeginFirst
  <2> QED BY <1>2, <1>3, <2>2
<1>5. CASE BeginAgain(r)
  <2> DEFINE n == db.rows[run[r].seq + 1].attempts
             m == n + 1
             e == [run[r] EXCEPT !.pc = "running", !.attempt = m, !.age = 0]
  <2>1. run' = [run EXCEPT ![r] = e]
    <3>1. Call(r, m) \/ EndRun(r)
      BY <1>5 DEF BeginAgain
    <3>2. ~EndRun(r)
      BY <1>1, EndRunNoCall, NoCallNoBegin
    <3> QED BY <3>1, <3>2 DEF Call
  <2>2. e.attempt = m
    BY <1>1 DEF Runs
  <2>3. n \in Nat
    <3>1. db.rows[run[r].seq + 1] \in Rows
      BY <1>2, <1>3
    <3> QED BY <3>1 DEF Rows
  <2> HIDE DEF e
  <2>4. run'[r].attempt = n + 1
    BY <1>1, <2>1, <2>2
  <2> HIDE DEF n
  <2>5. n >= n + 1
    BY <1>3, <2>4 DEF n
  <2> QED BY <2>3, <2>5
<1> QED BY <1>4, <1>5, Callers

\* store.go, beginStep: whoever runs a step, after whatever crash or takeover, gets an
\* attempt number no earlier call of that step had: attempt > 1 tells it for certain
\* that an earlier call may have acted.
THEOREM AttemptsAreFresh == Spec => AttemptsNeverRepeat
<1>1. IInv /\ [Next]_vars =>
        [\A r \in Runners : Begins(r) =>
           [seq |-> run[r].seq + 1, name |-> SlotOf(r).name, attempt |-> run'[r].attempt]
              \notin calls]_vars
  BY NewAttempt
<1> QED BY <1>1, Invariant, PTL DEF Spec, AttemptsNeverRepeat

----------------------------------------------------------------------------
(* A completed step is not run again and keeps its outcome.                 *)

LEMMA NotDoneYet ==
    ASSUME IInv, [Next]_vars, NEW r \in Runners, Begins(r)
    PROVE  ~(run[r].seq < Len(db.rows) /\ db.rows[run[r].seq + 1].done)
<1>1. CASE BeginFirst(r)
  <2>1. PICK a : Fenced(r, a)
    BY <1>1 DEF BeginFirst
  <2>2. Len(db.rows) = run[r].seq
    BY <1>1, <2>1, FreshSlot DEF BeginFirst
  <2>3. run[r].seq \in Nat
    BY DEF IInv, TypeOK, Runs
  <2> QED BY <2>2, <2>3
<1>2. CASE BeginAgain(r)
  <2>1. PICK a : Fenced(r, a)
    BY <1>2 DEF BeginAgain
  <2>2. InStep(r, db, run[r])
    BY <1>2, <2>1, OldSlot DEF BeginAgain
  <2> QED BY <2>2 DEF InStep
<1> QED BY <1>1, <1>2, Callers

\* As long as the workflow exists, what a power cut leaves of its journal is all of it.
RowsSynced == db.status # "absent" => synced.rows = db.rows

LEMMA RowsSyncedStep == IInv /\ RowsSynced /\ [Next]_vars => RowsSynced'
<1> SUFFICES ASSUME IInv, RowsSynced, [Next]_vars PROVE RowsSynced'
  OBVIOUS
<1>1. db \in Workflows /\ synced \in Workflows
  BY DEF IInv, TypeOK
<1>2. ASSUME NEW d, Full(d) PROVE RowsSynced'
  BY <1>2 DEF Full, RowsSynced
<1>3. ASSUME db'.rows = db.rows, db.status = "absent" => db'.status = "absent",
             synced'.rows = synced.rows
      PROVE  RowsSynced'
  BY <1>3 DEF RowsSynced
<1>4. ASSUME UNCHANGED <<db, synced>> PROVE RowsSynced'
  BY <1>4 DEF RowsSynced
<1>5. ASSUME NEW r \in Runners, Claim(r) PROVE RowsSynced'
  <2>1. PICK a \in 0 .. StoreTimeout :
          /\ Claimable(a)
          /\ Normal([db EXCEPT !.status = "running", !.runner = r, !.epoch = db.epoch + 1,
                               !.lease = Lease - a, !.wake = WakeFloor])
    BY <1>5 DEF Claim
  <2>2. db.status # "absent"
    BY <2>1 DEF Claimable, Unheld
  <2>3. db'.rows = db.rows
    BY <1>1, <2>1 DEF Normal, Workflows
  <2> QED BY <1>3, <2>1, <2>2, <2>3 DEF Normal
<1>6. ASSUME NEW r \in Runners, Release(r) PROVE RowsSynced'
  <2>1. CASE UNCHANGED <<db, synced>>
    BY <1>4, <2>1
  <2>2. CASE /\ db.status = "running"
             /\ Normal([db EXCEPT !.status = "pending", !.runner = NoRunner,
                                  !.lease = LeaseFloor])
    <3>1. db'.rows = db.rows
      BY <1>1, <2>2 DEF Normal, Workflows
    <3> QED BY <1>3, <2>2, <3>1 DEF Normal
  <2> QED BY <1>6, <2>1, <2>2 DEF Release
<1>7. ASSUME NEW r \in Runners, RenewTx(r) PROVE RowsSynced'
  <2> DEFINE l == Lease - (Interval - run[r].timer)
  <2>1. CASE UNCHANGED <<db, synced>>
    BY <1>4, <2>1
  <2>2. CASE db.status = "running" /\ Normal([db EXCEPT !.lease = l])
    <3> HIDE DEF l
    <3>1. db'.rows = db.rows
      BY <1>1, <2>2 DEF Normal, Workflows
    <3> QED BY <1>3, <2>2, <3>1 DEF Normal
  <2> QED BY <1>7, <2>1, <2>2 DEF RenewTx, Fenced
<1>8. ASSUME NEW r \in Runners, Function(r) PROVE RowsSynced'
  <2>1. CASE Release(r)
    BY <1>6, <2>1
  <2>2. CASE ~Release(r)
    <3>1. UNCHANGED <<db, synced>> \/ \E d : Full(d)
      BY <1>8, <2>2
         DEF Function, Load, NonDeterministic, Replay, ReturnNil, HaltAtBoundary,
             StillBackingOff, CancelAtBoundary, BeginFirst, BeginAgain, Return,
             StepInterrupted, FinishStep, FailWorkflow, RetryStep, SleepStep, NowStep,
             FencedOut, Finalize
    <3> QED BY <1>2, <1>4, <3>1
  <2> QED BY <2>1, <2>2
<1>9. ASSUME NEW r \in Runners,
             \/ Claim(r) \/ Function(r) \/ StoreFails(r)
             \/ Renewal(r) \/ RenewFails(r)
             \/ Stop(r) \/ Shutdown(r) \/ Crash(r) \/ Restart(r) \/ Stall(r) \/ Resume(r)
      PROVE  RowsSynced'
  <2>1. CASE Claim(r) \/ Function(r) \/ RenewTx(r)
    BY <1>5, <1>7, <1>8, <2>1
  <2>2. CASE ~(Claim(r) \/ Function(r) \/ RenewTx(r))
    <3>1. UNCHANGED <<db, synced>>
      BY <1>9, <2>2 DEF StoreFails, Renewal, RenewWake, RenewFails, Stop, Shutdown,
                        CancelSteps, Exit, Crash, Restart, Stall, Resume
    <3> QED BY <1>4, <3>1
  <2> QED BY <2>1, <2>2
<1>10. ASSUME StartWithID \/ Cancel PROVE RowsSynced'
  BY <1>2, <1>10 DEF StartWithID, Cancel
<1>11. ASSUME Prune PROVE RowsSynced'
  BY <1>11 DEF Prune, Normal, RowsSynced, Absent
<1>12. ASSUME PowerCut PROVE RowsSynced'
  BY <1>12 DEF PowerCut, RowsSynced
<1>13. ASSUME Tick PROVE RowsSynced'
  <2>1. db'.rows = db.rows /\ db'.status = db.status /\ synced'.rows = synced.rows
    BY <1>1, <1>13 DEF Tick, Later, Workflows
  <2> QED BY <1>3, <2>1
<1>14. ASSUME JumpBack PROVE RowsSynced'
  <2>1. db'.rows = db.rows /\ db'.status = db.status /\ synced'.rows = synced.rows
    BY <1>1, <1>14 DEF JumpBack, Earlier, Workflows
  <2> QED BY <1>3, <2>1
<1>15. ASSUME UNCHANGED vars PROVE RowsSynced'
  BY <1>4, <1>15 DEF vars
<1> QED BY <1>9, <1>10, <1>11, <1>12, <1>13, <1>14, <1>15 DEF Next

\* Journal e has every finished row of journal d.
Keeps(d, e) ==
    /\ Len(d.rows) <= Len(e.rows)
    /\ \A i \in 1 .. Len(d.rows) : d.rows[i].done => e.rows[i] = d.rows[i]

LEMMA KeepsSame ==
    ASSUME NEW d \in Workflows, NEW e, e.rows = d.rows
    PROVE  Keeps(d, e)
BY DEF Keeps, Workflows

LEMMA KeepsAppended ==
    ASSUME NEW d \in Workflows, NEW e, NEW row, e.rows = Append(d.rows, row)
    PROVE  Keeps(d, e)
<1>1. d.rows \in Seq(Rows)
  BY DEF Workflows
<1>2. Len(e.rows) = Len(d.rows) + 1 /\ Len(d.rows) \in Nat
        /\ \A i \in 1 .. Len(d.rows) : e.rows[i] = d.rows[i]
  BY <1>1
<1> QED BY <1>2 DEF Keeps

LEMMA KeepsOpen ==
    ASSUME NEW d \in Workflows, NEW e, NEW i \in 1 .. Len(d.rows), ~d.rows[i].done, NEW row,
           e.rows = [d.rows EXCEPT ![i] = row]
    PROVE  Keeps(d, e)
<1>1. d.rows \in Seq(Rows)
  BY DEF Workflows
<1>2. Len(e.rows) = Len(d.rows) /\ Len(d.rows) \in Nat
        /\ \A j \in 1 .. Len(d.rows) : j # i => e.rows[j] = d.rows[j]
  BY <1>1
<1> QED BY <1>2 DEF Keeps

LEMMA KeepsRowDone ==
    ASSUME NEW d \in Workflows, NEW i \in 1 .. Len(d.rows), ~d.rows[i].done, NEW out
    PROVE  Keeps(d, RowDone(d, i, out))
<1>1. RowDone(d, i, out).rows =
        [d.rows EXCEPT ![i] = [d.rows[i] EXCEPT !.done = TRUE, !.out = out]]
  BY DEF RowDone, Workflows
<1> DEFINE row == [d.rows[i] EXCEPT !.done = TRUE, !.out = out]
<1> HIDE DEF row
<1>2. RowDone(d, i, out).rows = [d.rows EXCEPT ![i] = row]
  BY <1>1 DEF row
<1> QED BY <1>2, KeepsOpen

LEMMA RowsOfEnd ==
    ASSUME NEW d \in Workflows, NEW s, NEW w
    PROVE  Ended(d, s).rows = d.rows /\ Suspended(d, w).rows = d.rows
BY DEF Ended, Suspended, Workflows

\* What a runner's function does to the journal.
LEMMA FunctionKeeps ==
    ASSUME IInv, NEW r \in Runners, Function(r)
    PROVE  Keeps(db, db')
<1> DEFINE i == run[r].seq + 1
<1>1. db \in Workflows /\ db.rows \in Seq(Rows) /\ run[r] \in Runs
  BY DEF IInv, TypeOK, Workflows
<1>2. ASSUME db'.rows = db.rows PROVE Keeps(db, db')
  BY <1>1, <1>2, KeepsSame
<1>3. ASSUME \/ Load(r) \/ NonDeterministic(r) \/ Replay(r) \/ ReturnNil(r)
             \/ HaltAtBoundary(r) \/ Return(r) \/ StepInterrupted(r) \/ FencedOut(r)
      PROVE  Keeps(db, db')
  BY <1>2, <1>3 DEF Load, NonDeterministic, Replay, ReturnNil, HaltAtBoundary, Return,
                    StepInterrupted, FencedOut
<1>4. ASSUME StillBackingOff(r) \/ CancelAtBoundary(r) \/ Finalize(r)
      PROVE  Keeps(db, db')
  BY <1>1, <1>2, <1>4, RowsOfEnd DEF StillBackingOff, CancelAtBoundary, Finalize, Full
<1>5. ASSUME Release(r) PROVE Keeps(db, db')
  <2>1. db' = db \/ db' = [db EXCEPT !.status = "pending", !.runner = NoRunner,
                                     !.lease = LeaseFloor]
    BY <1>5 DEF Release, Normal
  <2>2. db'.rows = db.rows
    BY <1>1, <2>1 DEF Workflows
  <2> QED BY <1>2, <2>2
<1>6. ASSUME BeginFirst(r) PROVE Keeps(db, db')
  <2> DEFINE row == NewRow(SlotOf(r).name)
  <2>1. db' = [db EXCEPT !.rows = Append(@, row), !.stepWake = WakeFloor]
    BY <1>6 DEF BeginFirst, Full
  <2> HIDE DEF row
  <2>2. db'.rows = Append(db.rows, row)
    BY <1>1, <2>1 DEF Workflows
  <2> QED BY <1>1, <2>2, KeepsAppended
<1>7. ASSUME NowStep(r) PROVE Keeps(db, db')
  <2> DEFINE row == [NewRow(NowName) EXCEPT !.done = TRUE, !.out = "ok"]
  <2>1. db' = [db EXCEPT !.rows = Append(@, row)]
    BY <1>7 DEF NowStep, Full
  <2> HIDE DEF row
  <2>2. db'.rows = Append(db.rows, row)
    BY <1>1, <2>1 DEF Workflows
  <2> QED BY <1>1, <2>2, KeepsAppended
<1>8. ASSUME BeginAgain(r) PROVE Keeps(db, db')
  <2>1. PICK a : Fenced(r, a)
    BY <1>8 DEF BeginAgain
  <2>2. i \in 1 .. Len(db.rows) /\ ~db.rows[i].done
    <3>1. InStep(r, db, run[r])
      BY <1>8, <2>1, OldSlot DEF BeginAgain
    <3>2. run[r].seq \in Nat
      BY <1>1 DEF Runs
    <3> QED BY <3>1, <3>2 DEF InStep
  <2> DEFINE m == db.rows[i].attempts + 1
             row == [db.rows[i] EXCEPT !.attempts = m]
  <2>3. db' = Ended(db, "failed") \/
        db' = [db EXCEPT !.rows[i].attempts = m, !.stepWake = WakeFloor]
    BY <1>8 DEF BeginAgain, Full
  <2>4. CASE db' = Ended(db, "failed")
    BY <1>1, <1>2, <2>4, RowsOfEnd
  <2>5. CASE db' = [db EXCEPT !.rows[i].attempts = m, !.stepWake = WakeFloor]
    <3> HIDE DEF m, i
    <3>1. db'.rows = [db.rows EXCEPT ![i] = row]
      BY <1>1, <2>5 DEF Workflows
    <3> HIDE DEF row
    <3>2. i \in 1 .. Len(db.rows) /\ ~db.rows[i].done /\ db \in Workflows
      BY <1>1, <2>2
    <3>3. ASSUME NEW e, e.rows = [db.rows EXCEPT ![i] = row] PROVE Keeps(db, e)
      BY <3>2, <3>3, KeepsOpen
    <3> QED BY <3>1, <3>3
  <2> QED BY <2>3, <2>4, <2>5
<1>9. ASSUME NEW a, Outcome(r), Fenced(r, a)
      PROVE  i \in 1 .. Len(db.rows) /\ ~db.rows[i].done
  BY <1>9, DuringStep DEF InStep
<1>10. ASSUME FinishStep(r) PROVE Keeps(db, db')
  <2>1. PICK a, out : Outcome(r) /\ Fenced(r, a) /\ db' = RowDone(db, i, out)
    BY <1>10 DEF FinishStep, Full
  <2>2. i \in 1 .. Len(db.rows) /\ ~db.rows[i].done
    BY <1>9, <2>1
  <2> HIDE DEF i
  <2> QED BY <1>1, <2>1, <2>2, KeepsRowDone
<1>11. ASSUME FailWorkflow(r) PROVE Keeps(db, db')
  <2>1. PICK a : Outcome(r) /\ Fenced(r, a) /\ db' = Ended(RowDone(db, i, "err"), "failed")
    BY <1>11 DEF FailWorkflow, Full
  <2>2. i \in 1 .. Len(db.rows) /\ ~db.rows[i].done
    BY <1>9, <2>1
  <2> HIDE DEF i
  <2>3. RowDone(db, i, "err") \in Workflows
    BY <1>1, <2>2, RowDoneTyped DEF Outs
  <2>4. db'.rows = RowDone(db, i, "err").rows
    BY <2>1, <2>3, RowsOfEnd
  <2>5. Keeps(db, RowDone(db, i, "err"))
    BY <1>1, <2>2, KeepsRowDone
  <2> QED BY <2>4, <2>5 DEF Keeps
<1>12. ASSUME RetryStep(r) PROVE Keeps(db, db')
  <2> DEFINE m == db.rows[i].failures + 1
             row == [db.rows[i] EXCEPT !.failures = m]
  <2>1. PICK a \in 0 .. run[r].age : \E delay :
          LET failed == [db EXCEPT !.rows[i].failures = @ + 1, !.stepWake = delay - a] IN
          /\ Fenced(r, a) /\ CanRetry(r)
          /\ delay = BackoffFor(SlotOf(r).backoff, Failures(r))
          /\ db' = Suspended(failed, delay - a) \/ db' = failed
    BY <1>12 DEF RetryStep, Full
  <2>2. Outcome(r)
    BY <1>12 DEF RetryStep
  <2>3. i \in 1 .. Len(db.rows) /\ ~db.rows[i].done
    BY <1>9, <2>1, <2>2
  <2>4. \E w : LET failed == [db EXCEPT !.rows[i].failures = m, !.stepWake = w] IN
               db' = Suspended(failed, w) \/ db' = failed
    BY <2>1
  <2>5. PICK w : LET failed == [db EXCEPT !.rows[i].failures = m, !.stepWake = w] IN
               db' = Suspended(failed, w) \/ db' = failed
    BY <2>4
  <2> DEFINE failed == [db EXCEPT !.rows[i].failures = m, !.stepWake = w]
  <2> HIDE DEF m, i
  <2>6. failed.rows = [db.rows EXCEPT ![i] = row]
    BY <1>1 DEF Workflows
  <2>7. db'.rows = failed.rows
    <3>1. CASE db' = failed
      BY <3>1
    <3>2. CASE db' = Suspended(failed, w)
      <4>1. Suspended(failed, w).rows = failed.rows
        BY <1>1 DEF Suspended, Workflows
      <4> QED BY <3>2, <4>1
    <3> QED BY <2>5, <3>1, <3>2
  <2> HIDE DEF row, failed
  <2> QED BY <1>1, <2>3, <2>6, <2>7, KeepsOpen
<1>13. ASSUME SleepStep(r) PROVE Keeps(db, db')
  <2>1. PICK a \in 0 .. run[r].age : \E wake :
          LET noted == IF HasRow(r) THEN db
                       ELSE [db EXCEPT !.rows = Append(@, NewRow(Sleep)), !.stepWake = wake] IN
          Fenced(r, a) /\ (db' = RowDone(noted, i, "ok") \/ db' = Suspended(noted, wake))
    BY <1>13 DEF SleepStep, Full
  <2>2. Ready(r)
    BY <1>13 DEF SleepStep
  <2>3. CASE HasRow(r)
    <3>1. i \in 1 .. Len(db.rows) /\ ~db.rows[i].done
      <4>1. InStep(r, db, run[r])
        BY <2>1, <2>2, <2>3, OldSlot
      <4>2. run[r].seq \in Nat
        BY <1>1 DEF Runs
      <4> QED BY <4>1, <4>2 DEF InStep
    <3>2. db' = RowDone(db, i, "ok") \/ \E w : db' = Suspended(db, w)
      BY <2>1, <2>3
    <3> HIDE DEF i
    <3> QED BY <1>1, <1>2, <3>1, <3>2, KeepsRowDone, RowsOfEnd
  <2>4. CASE ~HasRow(r)
    <3> DEFINE row == NewRow(Sleep)
    <3>1. Len(db.rows) = run[r].seq
      BY <2>1, <2>2, <2>4, FreshSlot
    <3>2. PICK wake : LET noted == [db EXCEPT !.rows = Append(@, row), !.stepWake = wake] IN
                      db' = RowDone(noted, i, "ok") \/ db' = Suspended(noted, wake)
      BY <2>1, <2>4
    <3> DEFINE noted == [db EXCEPT !.rows = Append(@, row), !.stepWake = wake]
    <3> HIDE DEF row
    <3>3. noted.rows = Append(db.rows, row)
      BY <1>1 DEF Workflows
    <3>4. db'.rows = noted.rows \/
          \E x : db'.rows = [noted.rows EXCEPT ![i] = x]
      <4>1. CASE db' = RowDone(noted, i, "ok")
        <5>1. db'.rows = [noted.rows EXCEPT ![i] = [@ EXCEPT !.done = TRUE, !.out = "ok"]]
          BY <1>1, <4>1 DEF RowDone, Workflows
        <5> QED BY <5>1
      <4>2. CASE db' = Suspended(noted, wake)
        BY <1>1, <4>2 DEF Suspended, Workflows
      <4> QED BY <3>2, <4>1, <4>2
    <3> HIDE DEF noted
    <3>5. CASE db'.rows = noted.rows
      BY <1>1, <3>3, <3>5, KeepsAppended
    <3>6. CASE \E x : db'.rows = [noted.rows EXCEPT ![i] = x]
      <4>1. PICK x : db'.rows = [noted.rows EXCEPT ![i] = x]
        BY <3>6
      <4>2. run[r].seq \in Nat
        BY <1>1 DEF Runs
      <4>3. Len(db'.rows) = Len(db.rows) + 1
        BY <1>1, <3>3, <4>1
      <4>4. i = Len(db.rows) + 1 /\ Len(db.rows) \in Nat
        BY <3>1, <4>2
      <4> HIDE DEF i
      <4>5. \A j \in 1 .. Len(db.rows) :
              noted.rows[j] = db.rows[j] /\ j \in DOMAIN noted.rows /\ j # i
        BY <1>1, <3>3, <4>4
      <4>6. \A j \in 1 .. Len(db.rows) : db'.rows[j] = db.rows[j]
        BY <4>1, <4>5
      <4> QED BY <4>3, <4>4, <4>6 DEF Keeps
    <3> QED BY <3>4, <3>5, <3>6
  <2> QED BY <2>3, <2>4
<1> QED BY <1>3, <1>4, <1>5, <1>6, <1>7, <1>8, <1>10, <1>11, <1>12, <1>13 DEF Function

LEMMA StepKeeps ==
    ASSUME IInv, RowsSynced, [Next]_vars, db.status # "absent", db'.status # "absent"
    PROVE  Keeps(db, db')
<1>1. db \in Workflows
  BY DEF IInv, TypeOK
<1>2. ASSUME db'.rows = db.rows PROVE Keeps(db, db')
  BY <1>1, <1>2, KeepsSame
<1>3. ASSUME NEW r \in Runners,
             \/ Claim(r) \/ Function(r) \/ StoreFails(r)
             \/ Renewal(r) \/ RenewFails(r)
             \/ Stop(r) \/ Shutdown(r) \/ Crash(r) \/ Restart(r) \/ Stall(r) \/ Resume(r)
      PROVE  Keeps(db, db')
  <2>1. CASE Function(r)
    BY <2>1, FunctionKeeps
  <2>2. CASE Claim(r)
    <3>1. PICK a : db' = [db EXCEPT !.status = "running", !.runner = r, !.epoch = db.epoch + 1,
                               !.lease = Lease - a, !.wake = WakeFloor]
      BY <2>2 DEF Claim, Normal
    <3>2. db'.rows = db.rows
      BY <1>1, <3>1 DEF Workflows
    <3> QED BY <1>2, <3>2
  <2>3. CASE RenewTx(r)
    <3>1. db' = db \/ \E l : db' = [db EXCEPT !.lease = l]
      BY <2>3 DEF RenewTx, Normal
    <3>2. db'.rows = db.rows
      BY <1>1, <3>1 DEF Workflows
    <3> QED BY <1>2, <3>2
  <2>4. CASE ~(Function(r) \/ Claim(r) \/ RenewTx(r))
    <3>1. db' = db
      BY <1>3, <2>4 DEF StoreFails, Renewal, RenewWake, RenewFails, Stop, Shutdown,
                        CancelSteps, Exit, Crash, Restart, Stall, Resume
    <3> QED BY <1>2, <3>1
  <2> QED BY <2>1, <2>2, <2>3, <2>4
<1>4. CASE Cancel
  <2>1. db' = Ended(db, "cancelled") \/ db' = [db EXCEPT !.cancel = TRUE]
    BY <1>4 DEF Cancel, Full
  <2>2. db'.rows = db.rows
    BY <1>1, <2>1 DEF Ended, Workflows
  <2> QED BY <1>2, <2>2
<1>5. ~StartWithID
  BY DEF StartWithID
<1>6. ~Prune
  BY DEF Prune, Normal, Absent
<1>7. CASE PowerCut
  BY <1>2, <1>7 DEF PowerCut, RowsSynced
<1>8. CASE Tick
  <2>1. db'.rows = db.rows
    BY <1>1, <1>8 DEF Tick, Later, Workflows
  <2> QED BY <1>2, <2>1
<1>9. CASE JumpBack
  <2>1. db'.rows = db.rows
    BY <1>1, <1>9 DEF JumpBack, Earlier, Workflows
  <2> QED BY <1>2, <2>1
<1>10. CASE UNCHANGED vars
  BY <1>2, <1>10 DEF vars
<1> QED BY <1>3, <1>4, <1>5, <1>6, <1>7, <1>8, <1>9, <1>10 DEF Next

\* store.go, begin and finish of steps, and the FULL commits they make: for any number
\* of runners, no step function is called for a slot that is finished in the journal,
\* and no crash, takeover, fenced-out runner or power cut takes a finished row away.
THEOREM CompletedIsFinal == Spec => CompletedStaysCompleted
<1> DEFINE Calm == \A r \in Runners : Begins(r) =>
                     ~(run[r].seq < Len(db.rows) /\ db.rows[run[r].seq + 1].done)
           Kept == (db.status # "absent" /\ db'.status # "absent") =>
                     \A i \in 1 .. Len(db.rows) : db.rows[i].done =>
                       i <= Len(db'.rows) /\ db'.rows[i] = db.rows[i]
<1>1. Init => RowsSynced
  BY DEF Init, RowsSynced
<1>2. IInv /\ RowsSynced /\ [Next]_vars => RowsSynced'
  BY RowsSyncedStep
<1>3. IInv /\ RowsSynced /\ [Next]_vars => [Calm /\ Kept]_vars
  <2> SUFFICES ASSUME IInv, RowsSynced, [Next]_vars PROVE Calm /\ Kept
    OBVIOUS
  <2>1. Calm
    BY NotDoneYet
  <2>2. ASSUME db.status # "absent", db'.status # "absent"
        PROVE  \A i \in 1 .. Len(db.rows) : db.rows[i].done =>
                 i <= Len(db'.rows) /\ db'.rows[i] = db.rows[i]
    <3>1. Keeps(db, db')
      BY <2>2, StepKeeps
    <3>2. Len(db.rows) \in Nat
      BY DEF IInv, TypeOK, Workflows
    <3>3. Len(db.rows) <= Len(db'.rows)
      BY <3>1 DEF Keeps
    <3>4. \A i \in 1 .. Len(db.rows) : i <= Len(db'.rows) 
      <4>1. IInv'
        BY InductiveStep
      <4>2. Len(db'.rows) \in Nat
        BY <4>1 DEF IInv, TypeOK, Workflows
      <4> QED BY <3>2, <3>3, <4>2
    <3> QED BY <3>1, <3>4 DEF Keeps
  <2> QED BY <2>1, <2>2
<1> QED BY <1>1, <1>2, <1>3, Invariant, PTL DEF Spec, CompletedStaysCompleted

----------------------------------------------------------------------------
(* How often a step is called.                                              *)

CallsBounded == \A c \in calls : c.attempt \in 1 .. MaxStepAttempts

LEMMA CallsOf ==
    ASSUME IInv, [Next]_vars
    PROVE  \/ calls' \subseteq calls
           \/ \E r \in Runners : Begins(r) /\ (BeginFirst(r) \/ BeginAgain(r))
<1>1. ASSUME NEW r \in Runners, BeginFirst(r) \/ BeginAgain(r), ~(calls' \subseteq calls)
      PROVE  Begins(r)
  <2>1. \E n : Call(r, n)
    BY <1>1 DEF BeginFirst, BeginAgain
  <2>2. run[r].pc = "boundary" /\ run \in [Runners -> Runs] /\ run[r] \in Runs
    BY <1>1, AtReady DEF BeginFirst, BeginAgain, IInv, TypeOK
  <2>3. PICK n : run' = [run EXCEPT ![r] = [run[r] EXCEPT !.pc = "running", !.attempt = n,
                                                          !.age = 0]]
    BY <2>1 DEF Call
  <2> DEFINE e == [run[r] EXCEPT !.pc = "running", !.attempt = n, !.age = 0]
  <2>4. e.pc = "running"
    BY <2>2 DEF Runs
  <2> HIDE DEF e
  <2>5. run'[r] = e
    BY <2>2, <2>3 DEF e
  <2> QED BY <2>2, <2>4, <2>5 DEF Begins
<1>2. ASSUME NEW r \in Runners, Function(r), ~BeginFirst(r), ~BeginAgain(r)
      PROVE  calls' \subseteq calls
  BY <1>2 DEF Function, Load, NonDeterministic, Replay, ReturnNil, HaltAtBoundary,
              StillBackingOff, CancelAtBoundary, Return, StepInterrupted, FinishStep,
              FailWorkflow, RetryStep, SleepStep, NowStep, FencedOut, Finalize, Release
<1>3. ASSUME NEW r \in Runners,
             \/ Claim(r) \/ StoreFails(r)
             \/ Renewal(r) \/ RenewFails(r)
             \/ Stop(r) \/ Shutdown(r) \/ Crash(r) \/ Restart(r) \/ Stall(r) \/ Resume(r)
      PROVE  calls' \subseteq calls
  BY <1>3 DEF Claim, StoreFails, Renewal, RenewWake, RenewTx, RenewFails, Stop, Shutdown,
              CancelSteps, Exit, Crash, Restart, Stall, Resume
<1>4. ASSUME StartWithID \/ Cancel \/ Prune \/ PowerCut \/ Tick \/ JumpBack \/ UNCHANGED vars
      PROVE  calls' \subseteq calls
  BY <1>4 DEF StartWithID, Cancel, Prune, PowerCut, Tick, JumpBack, vars
<1> QED BY <1>1, <1>2, <1>3, <1>4 DEF Next

LEMMA CallsBoundedStep == IInv /\ CallsBounded /\ [Next]_vars => CallsBounded'
<1> SUFFICES ASSUME IInv, CallsBounded, [Next]_vars PROVE CallsBounded'
  OBVIOUS
<1>1. CASE calls' \subseteq calls
  BY <1>1 DEF CallsBounded
<1>2. ASSUME NEW r \in Runners, BeginFirst(r) PROVE CallsBounded'
  <2>1. 1 \in 1 .. MaxStepAttempts
    BY LimitsAssumption
  <2> DEFINE c == [seq |-> run[r].seq + 1, name |-> SlotOf(r).name, attempt |-> 1]
  <2>2. calls' = calls \cup {c} /\ c.attempt = 1
    BY <1>2 DEF BeginFirst, Call
  <2> HIDE DEF c
  <2> QED BY <2>1, <2>2 DEF CallsBounded
<1>3. ASSUME NEW r \in Runners, BeginAgain(r), ~(calls' \subseteq calls) PROVE CallsBounded'
  <2> DEFINE n == db.rows[run[r].seq + 1].attempts
             m == n + 1
             c == [seq |-> run[r].seq + 1, name |-> SlotOf(r).name, attempt |-> m]
  <2>1. ~GivenUp(n) /\ Call(r, m)
    BY <1>3 DEF BeginAgain
  <2>2. calls' = calls \cup {c} /\ c.attempt = m
    BY <2>1 DEF Call
  <2>3. PICK a : Fenced(r, a)
    BY <1>3 DEF BeginAgain
  <2>4. n \in Nat
    <3>1. InStep(r, db, run[r])
      BY <1>3, <2>3, OldSlot DEF BeginAgain
    <3>2. run[r].seq \in Nat /\ db.rows \in Seq(Rows)
      BY DEF IInv, TypeOK, Runs, Workflows
    <3>3. db.rows[run[r].seq + 1] \in Rows
      BY <3>1, <3>2 DEF InStep
    <3> QED BY <3>3 DEF Rows
  <2> HIDE DEF n, c
  <2>5. m \in 1 .. MaxStepAttempts
    BY <2>1, <2>4, LimitsAssumption DEF GivenUp
  <2> QED BY <2>2, <2>5 DEF CallsBounded
<1> QED BY <1>1, <1>2, <1>3, CallsOf

LEMMA BoundedFromCalls == IInv /\ CallsBounded => BoundedAttempts
<1> SUFFICES ASSUME IInv, CallsBounded, NEW c \in calls
             PROVE  Cardinality({d \in calls : d.seq = c.seq}) <= MaxStepAttempts
  BY DEF BoundedAttempts
<1> DEFINE S == {d \in calls : d.seq = c.seq}
           f == [d \in S |-> d.attempt]
<1>1. calls \subseteq Calls /\ Sound(db, calls)
  BY DEF IInv, TypeOK
<1>2. f \in [S -> 1 .. MaxStepAttempts]
  BY DEF CallsBounded
<1>3. \A d, e \in S : f[d] = f[e] => d = e
  <2> TAKE d, e \in S
  <2> HAVE f[d] = f[e]
  <2>1. d \in Calls /\ e \in Calls /\ d.seq = e.seq /\ d.attempt = e.attempt
    BY <1>1
  <2>2. d.name = e.name
    BY <1>1, <2>1 DEF Sound
  <2> QED BY <2>1, <2>2 DEF Calls
<1>4. f \in Injection(S, 1 .. MaxStepAttempts)
  BY <1>2, <1>3, Fun_IsInj
<1>5. MaxStepAttempts \in Nat /\ MaxStepAttempts >= 1
  BY LimitsAssumption
<1>6. IsFiniteSet(1 .. MaxStepAttempts) /\ Cardinality(1 .. MaxStepAttempts) = MaxStepAttempts
  <2>1. 1 \in Int /\ MaxStepAttempts \in Int
    BY <1>5
  <2> QED BY <1>5, <2>1, FS_Interval
<1>7. Cardinality(S) <= Cardinality(1 .. MaxStepAttempts)
  BY <1>4, <1>6, FS_Injection
<1> QED BY <1>6, <1>7

\* types.go, MaxStepAttempts: with any number of runners and of crashes, no step is
\* called more often than MaxStepAttempts times.
THEOREM AttemptsAreBounded == Spec => []BoundedAttempts
<1>1. Init => CallsBounded
  BY DEF Init, CallsBounded
<1> QED BY <1>1, CallsBoundedStep, BoundedFromCalls, Invariant, PTL DEF Spec

----------------------------------------------------------------------------
(* How a workflow ends.  The argument has three parts.  A step of the engine *)
(* leaves what the two journals say alone, or writes one thing to both: a    *)
(* row opened, repeated, failed, completed, or an end (StepKinds).  So the   *)
(* journal a power cut leaves never says less than the live one (Tied), and  *)
(* whoever owns the workflow has walked no further than finished rows that   *)
(* are the ones its function asked for (Walked).                             *)

Active == {"pending", "waiting", "running"}
Open(d) == d.rows[Len(d.rows)]

AllDone(d) == \A i \in 1 .. Len(d.rows) : d.rows[i].done

\* Journal e says the same as journal d, to whoever does not ask who runs it.
Alike(d, e) ==
    /\ e.rows = d.rows /\ e.cancel = d.cancel
    /\ e.status = d.status \/ (d.status \in Active /\ e.status \in Active)

\* What one write does to journal d, which becomes e.
GoesOn(d, e) == e.status \in Active /\ e.cancel = d.cancel
EndsAs(e, s) == e.status = s /\ ~e.cancel

Opens(d, e, n) == AllDone(d) /\ ~d.cancel /\ e.rows = Append(d.rows, NewRow(n))
Notes(d, e, n) ==
    AllDone(d) /\ e.rows = Append(d.rows, [NewRow(n) EXCEPT !.done = TRUE, !.out = "ok"])
Repeats(d, e) ==
    /\ LastOpen(d) /\ ~d.cancel /\ Open(d).attempts < MaxStepAttempts
    /\ e.rows = [d.rows EXCEPT ![Len(d.rows)] = [Open(d) EXCEPT !.attempts = Open(d).attempts + 1]]
Fails(d, e) ==
    /\ LastOpen(d)
    /\ e.rows = [d.rows EXCEPT ![Len(d.rows)] = [Open(d) EXCEPT !.failures = Open(d).failures + 1]]
Completes(d, e, out) ==
    /\ LastOpen(d)
    /\ e.rows = [d.rows EXCEPT ![Len(d.rows)] = [Open(d) EXCEPT !.done = TRUE, !.out = out]]

Told == {"ok", "err"}

Grows(d, e) ==
    \/ e.rows = d.rows
    \/ \E n \in Names : Opens(d, e, n) \/ Notes(d, e, n)
    \/ Repeats(d, e) \/ Fails(d, e)
    \/ \E out \in Told : Completes(d, e, out)

Writes(d, e) ==
    \/ GoesOn(d, e) /\ Grows(d, e)
    \/ e.rows = d.rows /\ \E s \in Terminal : EndsAs(e, s)
    \/ Completes(d, e, "err") /\ EndsAs(e, "failed")

\* A row was started at least once, a finished one has an outcome, and only a workflow
\* that goes on can have a request to stop.
Tidy(d) ==
    /\ \A i \in 1 .. Len(d.rows) :
        d.rows[i].attempts >= 1 /\ (d.rows[i].done => d.rows[i].out \in Told)
    /\ d.cancel => d.status \in Active

\* Once the workflow is there, the journal a power cut leaves says what the live one says.
Tied ==
    IF db.status = "absent"
    THEN synced.status \in {"absent"} \cup Terminal
    ELSE Alike(db, synced)

\* The first n rows are what runner r's function asks for, finished, and let it go on.
Through(r, d, n) ==
    \A i \in 1 .. n : /\ d.rows[i].name = Program[r][i].name
                      /\ d.rows[i].done
                      /\ d.rows[i].out = "ok" \/ Program[r][i].handles

Complete(r, d) == Len(d.rows) = Len(Program[r]) /\ Through(r, d, Len(d.rows))

\* The owner has passed such rows only; about to report success, it has passed all.
Walked(r, d, u) ==
    /\ u.pc \in {"boundary", "running", "returned"} => u.seq <= Len(Program[r])
    /\ Owns(r, d, u) =>
        /\ u.pc \in {"boundary", "running", "returned"} => Through(r, d, u.seq)
        /\ u.pc = "finish" /\ u.verdict = "succeeded" => Complete(r, d)

Succeeded(d) == d.status = "succeeded" => \E r \in Runners : Complete(r, d)

\* The inductive invariant.
JInv ==
    /\ IInv
    /\ Tidy(db) /\ Tidy(synced) /\ Tied
    /\ \A r \in Runners : Walked(r, db, run[r])
    /\ Succeeded(db) /\ Succeeded(synced)

----------------------------------------------------------------------------
(* Every step of a runner writes one thing.                                 *)

LEMMA AlikeRefl == ASSUME NEW d PROVE Alike(d, d)
BY DEF Alike

\* A workflow that is suspended or ended keeps its journal.
LEMMA EndKinds ==
    ASSUME NEW d \in Workflows, NEW w, NEW s
    PROVE  /\ Suspended(d, w).rows = d.rows /\ Suspended(d, w).cancel = d.cancel
           /\ Suspended(d, w).status = "waiting"
           /\ Ended(d, s).rows = d.rows /\ EndsAs(Ended(d, s), s)
BY DEF Suspended, Ended, EndsAs, Workflows

\* Opens and its like look at the journal alone.
LEMMA GrowsRows ==
    ASSUME NEW d, NEW e, NEW f, Grows(d, e), f.rows = e.rows
    PROVE  Grows(d, f)
<1>1. ASSUME NEW n PROVE /\ Opens(d, e, n) => Opens(d, f, n)
                         /\ Notes(d, e, n) => Notes(d, f, n)
                         /\ Completes(d, e, n) => Completes(d, f, n)
  BY DEF Opens, Notes, Completes
<1>2. Repeats(d, e) => Repeats(d, f)
  BY DEF Repeats
<1>3. Fails(d, e) => Fails(d, f)
  BY DEF Fails
<1> QED BY <1>1, <1>2, <1>3 DEF Grows

LEMMA OpenInStep ==
    ASSUME IInv, NEW r \in Runners, InStep(r, db, run[r])
    PROVE  /\ run[r].seq + 1 = Len(db.rows) /\ Len(db.rows) \in 1 .. Len(db.rows)
           /\ LastOpen(db) /\ Open(db) \in Rows
           /\ db.rows[run[r].seq + 1] = Open(db)
<1>1. run[r].seq \in Nat /\ db.rows \in Seq(Rows)
  BY DEF IInv, TypeOK, Runs, Workflows
<1>2. Len(db.rows) = run[r].seq + 1 /\ ~db.rows[run[r].seq + 1].done
  BY DEF InStep
<1>3. Len(db.rows) \in 1 .. Len(db.rows)
  BY <1>1, <1>2
<1> QED BY <1>1, <1>2, <1>3 DEF LastOpen, Open

LEMMA AppendReplaced ==
    ASSUME NEW q \in Seq(Rows), NEW x \in Rows, NEW y \in Rows, NEW z, z = Append(q, x),
           NEW p, p = [z EXCEPT ![Len(q) + 1] = y]
    PROVE  p = Append(q, y)
<1> DEFINE s == Append(q, y)
<1>1. z \in Seq(Rows) /\ s \in Seq(Rows) /\ Len(q) \in Nat
  OBVIOUS
<1>2. Len(z) = Len(q) + 1 /\ Len(s) = Len(q) + 1
  OBVIOUS
<1>3. \A j \in 1 .. Len(q) : z[j] = q[j] /\ s[j] = q[j]
  OBVIOUS
<1>4. s[Len(q) + 1] = y
  OBVIOUS
<1> HIDE DEF s
<1>5. p \in Seq(Rows) /\ Len(p) = Len(q) + 1
  BY <1>1, <1>2
<1>6. \A j \in 1 .. Len(p) : p[j] = s[j]
  <2> TAKE j \in 1 .. Len(p)
  <2>1. CASE j = Len(q) + 1
    BY <1>1, <1>2, <1>4, <2>1
  <2>2. CASE j # Len(q) + 1
    <3>1. j \in 1 .. Len(q)
      BY <1>1, <1>5, <2>2
    <3>2. DOMAIN z = 1 .. Len(z) /\ j \in DOMAIN z
      BY <1>1, <1>2, <3>1
    <3>3. p[j] = z[j]
      BY <2>2, <3>2
    <3> QED BY <1>3, <3>1, <3>3
  <2> QED BY <2>1, <2>2
<1>7. p = s
  BY <1>1, <1>2, <1>5, <1>6, SeqEqual
<1> QED BY <1>7 DEF s

LEMMA WriteIs ==
    ASSUME NEW e, Full(e), Writes(db, e)
    PROVE  db' = e /\ Full(db') /\ Writes(db, db')
BY DEF Full

LEMMA FunctionWrites ==
    ASSUME IInv, NEW r \in Runners, Function(r)
    PROVE  \/ Alike(db, db') /\ UNCHANGED synced
           \/ /\ db.status = "running" /\ db.runner = r
              /\ Full(db') /\ Writes(db, db')
              /\ db'.status = "succeeded" => Finalize(r)
<1> DEFINE i == run[r].seq + 1
           Goal == \/ Alike(db, db') /\ UNCHANGED synced
                   \/ /\ db.status = "running" /\ db.runner = r
                      /\ Full(db') /\ Writes(db, db')
                      /\ db'.status = "succeeded" => Finalize(r)
<1> SUFFICES Goal
  OBVIOUS
<1>1. db \in Workflows /\ db.rows \in Seq(Rows) /\ run[r] \in Runs
  BY DEF IInv, TypeOK, Workflows
<1>2. ASSUME UNCHANGED <<db, synced>> PROVE Goal
  BY <1>2 DEF Alike
<1>3. ASSUME NEW a, Fenced(r, a) PROVE db.status = "running" /\ db.runner = r
  BY <1>3 DEF Fenced
\* Writing e, which goes on or ends.
<1>4. ASSUME NEW a, Fenced(r, a), NEW e, Full(e), GoesOn(db, e), Grows(db, e)
      PROVE  Goal
  <2>1. Full(db') /\ Writes(db, db')
    BY <1>4, WriteIs DEF Writes
  <2>2. db'.status # "succeeded"
    BY <1>4 DEF Full, GoesOn, Active
  <2> QED BY <1>3, <1>4, <2>1, <2>2
<1>5. ASSUME NEW a, Fenced(r, a), NEW s \in Terminal, Full(Ended(db, s)),
             s = "succeeded" => Finalize(r)
      PROVE  Goal
  <2>1. Ended(db, s).rows = db.rows /\ EndsAs(Ended(db, s), s)
    BY <1>1, EndKinds
  <2>2. Full(db') /\ Writes(db, db') /\ db' = Ended(db, s)
    BY <1>5, <2>1, WriteIs DEF Writes
  <2>3. db'.status = s
    BY <2>1, <2>2 DEF EndsAs
  <2> QED BY <1>3, <1>5, <2>2, <2>3
<1>6. ASSUME NEW a, Fenced(r, a), NEW d \in Workflows, d.status = "running",
             d.cancel = db.cancel, Grows(db, d), NEW w, Full(d) \/ Full(Suspended(d, w))
      PROVE  Goal
  <2>1. CASE Full(d)
    <3>1. GoesOn(db, d)
      BY <1>6 DEF GoesOn, Active
    <3> QED BY <1>4, <1>6, <2>1, <3>1
  <2>2. CASE Full(Suspended(d, w))
    <3>1. GoesOn(db, Suspended(d, w)) /\ Suspended(d, w).rows = d.rows
      BY <1>6, EndKinds DEF GoesOn, Active
    <3>2. Grows(db, Suspended(d, w))
      BY <1>6, <3>1, GrowsRows
    <3> QED BY <1>4, <1>6, <2>2, <3>1, <3>2
  <2> QED BY <1>6, <2>1, <2>2
<1>7. ASSUME \/ Load(r) \/ NonDeterministic(r) \/ Replay(r) \/ ReturnNil(r)
             \/ HaltAtBoundary(r) \/ Return(r) \/ StepInterrupted(r) \/ FencedOut(r)
      PROVE  Goal
  BY <1>2, <1>7 DEF Load, NonDeterministic, Replay, ReturnNil, HaltAtBoundary, Return,
                    StepInterrupted, FencedOut
<1>8. ASSUME StillBackingOff(r) PROVE Goal
  <2>1. PICK a : Fenced(r, a) /\ Full(Suspended(db, db.stepWake))
    BY <1>8 DEF StillBackingOff
  <2>2. Grows(db, db)
    BY DEF Grows
  <2>3. db.status = "running"
    BY <1>3, <2>1
  <2> QED BY <1>1, <1>6, <2>1, <2>2, <2>3
<1>9. ASSUME CancelAtBoundary(r) PROVE Goal
  <2>1. PICK a : Fenced(r, a) /\ Full(Ended(db, "cancelled"))
    BY <1>9 DEF CancelAtBoundary
  <2> QED BY <1>5, <2>1 DEF Terminal
<1>10. ASSUME Finalize(r) PROVE Goal
  <2>1. PICK a : Fenced(r, a) /\ Full(Ended(db, run[r].verdict))
    BY <1>10 DEF Finalize
  <2>2. run[r].verdict \in Terminal
    BY <1>10 DEF IInv, Good, Finalize, Terminal
  <2> QED BY <1>5, <1>10, <2>1, <2>2
<1>11. ASSUME Release(r) PROVE Goal
  <2>1. UNCHANGED synced /\ (db' = db \/ ( /\ db.status = "running"
          /\ db' = [db EXCEPT !.status = "pending", !.runner = NoRunner, !.lease = LeaseFloor]))
    BY <1>11 DEF Release, Normal
  <2>2. CASE db' = db
    BY <1>2, <2>1, <2>2
  <2>3. CASE /\ db.status = "running"
             /\ db' = [db EXCEPT !.status = "pending", !.runner = NoRunner, !.lease = LeaseFloor]
    <3>1. db'.rows = db.rows /\ db'.cancel = db.cancel /\ db'.status = "pending"
      BY <1>1, <2>3 DEF Workflows
    <3> QED BY <2>1, <2>3, <3>1 DEF Alike, Active
  <2> QED BY <2>1, <2>2, <2>3
<1>12. ASSUME BeginFirst(r) PROVE Goal
  <2> DEFINE row == NewRow(SlotOf(r).name)
             d == [db EXCEPT !.rows = Append(@, row), !.stepWake = WakeFloor]
  <2>1. PICK a : Fenced(r, a)
    BY <1>12 DEF BeginFirst
  <2>2. Ready(r) /\ ~HasRow(r) /\ ~db.cancel /\ Full(d)
    BY <1>12 DEF BeginFirst
  <2>3. AllDone(db)
    BY <2>1, <2>2, FreshSlot DEF AllDone
  <2>4. SlotOf(r).name \in Names
    BY <2>2, AtReady, Slot
  <2>5. d.rows = Append(db.rows, row) /\ d.status = db.status /\ d.cancel = db.cancel
    BY <1>1 DEF Workflows
  <2> HIDE DEF d
  <2>6. Grows(db, d)
    BY <2>2, <2>3, <2>4, <2>5 DEF Grows, Opens
  <2>7. GoesOn(db, d)
    BY <1>3, <2>1, <2>5 DEF GoesOn, Active
  <2> QED BY <1>4, <2>1, <2>2, <2>6, <2>7
<1>13. ASSUME NowStep(r) PROVE Goal
  <2> DEFINE row == [NewRow(NowName) EXCEPT !.done = TRUE, !.out = "ok"]
             d == [db EXCEPT !.rows = Append(@, row)]
  <2>1. PICK a : Fenced(r, a)
    BY <1>13 DEF NowStep
  <2>2. Ready(r) /\ ~HasRow(r) /\ Full(d)
    BY <1>13 DEF NowStep
  <2>3. AllDone(db)
    BY <2>1, <2>2, FreshSlot DEF AllDone
  <2>4. NowName \in Names
    BY DEF Names
  <2>5. d.rows = Append(db.rows, row) /\ d.status = db.status /\ d.cancel = db.cancel
    BY <1>1 DEF Workflows
  <2> HIDE DEF d
  <2>6. Grows(db, d)
    BY <2>2, <2>3, <2>4, <2>5 DEF Grows, Notes
  <2>7. GoesOn(db, d)
    BY <1>3, <2>1, <2>5 DEF GoesOn, Active
  <2> QED BY <1>4, <2>1, <2>2, <2>6, <2>7
<1>14. ASSUME BeginAgain(r) PROVE Goal
  <2>1. PICK a : Fenced(r, a)
    BY <1>14 DEF BeginAgain
  <2>2. Ready(r) /\ HasRow(r) /\ ~db.cancel
    BY <1>14 DEF BeginAgain
  <2>3. InStep(r, db, run[r])
    BY <2>1, <2>2, OldSlot
  <2>4. /\ i = Len(db.rows) /\ LastOpen(db) /\ Open(db) \in Rows
        /\ db.rows[i] = Open(db)
    BY <2>3, OpenInStep
  <2> DEFINE n == db.rows[i].attempts
             m == n + 1
             d == [db EXCEPT !.rows[i].attempts = m, !.stepWake = WakeFloor]
  <2>5. Full(Ended(db, "failed")) \/ (Full(d) /\ ~GivenUp(n))
    BY <1>14 DEF BeginAgain
  <2>6. CASE Full(Ended(db, "failed"))
    BY <1>5, <2>1, <2>6 DEF Terminal
  <2>7. CASE Full(d) /\ ~GivenUp(n)
    <3>0. n \in Nat /\ n = Open(db).attempts
      BY <2>4 DEF Rows
    <3>1. n \in Nat /\ n < MaxStepAttempts /\ n = Open(db).attempts
      <4> HIDE DEF n
      <4> QED BY <2>7, <3>0, LimitsAssumption DEF GivenUp
    <3>2. Full(d)
      BY <2>7
    <3> HIDE DEF n
    <3>3. d.rows = [db.rows EXCEPT ![i] = [db.rows[i] EXCEPT !.attempts = m]]
            /\ d.status = db.status /\ d.cancel = db.cancel
      BY <1>1 DEF Workflows
    <3> HIDE DEF i, d
    <3>4. Repeats(db, d)
      BY <2>2, <2>4, <3>1, <3>3 DEF Repeats
    <3>5. Grows(db, d) /\ GoesOn(db, d)
      BY <1>3, <2>1, <3>3, <3>4 DEF Grows, GoesOn, Active
    <3> QED BY <1>4, <2>1, <3>2, <3>5
  <2> QED BY <2>5, <2>6, <2>7
<1>15. ASSUME NEW a, Outcome(r), Fenced(r, a)
       PROVE  /\ i = Len(db.rows) /\ LastOpen(db) /\ Open(db) \in Rows
              /\ db.rows[i] = Open(db) /\ i \in 1 .. Len(db.rows)
  <2>1. InStep(r, db, run[r])
    BY <1>15, DuringStep
  <2> QED BY <2>1, OpenInStep
<1>16. ASSUME FinishStep(r) PROVE Goal
  <2>1. PICK a : Fenced(r, a)
    BY <1>16 DEF FinishStep
  <2>2. PICK out \in Told : Outcome(r) /\ Full(RowDone(db, i, out))
    BY <1>16 DEF FinishStep, Told
  <2>3. i = Len(db.rows) /\ LastOpen(db) /\ db.rows[i] = Open(db)
    BY <1>15, <2>1, <2>2
  <2> HIDE DEF i
  <2>3a. /\ RowDone(db, i, out).rows =
                [db.rows EXCEPT ![i] = [db.rows[i] EXCEPT !.done = TRUE, !.out = out]]
         /\ RowDone(db, i, out).status = db.status /\ RowDone(db, i, out).cancel = db.cancel
    BY <1>1 DEF RowDone, Workflows
  <2>4. Completes(db, RowDone(db, i, out), out) /\ GoesOn(db, RowDone(db, i, out))
    BY <1>3, <2>1, <2>3, <2>3a DEF Completes, GoesOn, Active
  <2>5. Grows(db, RowDone(db, i, out))
    BY <2>4 DEF Grows
  <2> QED BY <1>4, <2>1, <2>2, <2>4, <2>5
<1>17. ASSUME FailWorkflow(r) PROVE Goal
  <2>1. PICK a : Outcome(r) /\ Fenced(r, a) /\ Full(Ended(RowDone(db, i, "err"), "failed"))
    BY <1>17 DEF FailWorkflow
  <2>2. i = Len(db.rows) /\ LastOpen(db) /\ db.rows[i] = Open(db) /\ i \in 1 .. Len(db.rows)
    BY <1>15, <2>1
  <2> HIDE DEF i
  <2> DEFINE d == RowDone(db, i, "err")
             e == Ended(d, "failed")
  <2>3. d \in Workflows
    BY <1>1, <2>2, RowDoneTyped DEF Outs
  <2>3a. d.rows = [db.rows EXCEPT ![i] = [db.rows[i] EXCEPT !.done = TRUE, !.out = "err"]]
    BY <1>1 DEF RowDone, Workflows
  <2>4. Completes(db, d, "err")
    BY <2>2, <2>3a DEF Completes
  <2> HIDE DEF d
  <2>5. e.rows = d.rows /\ EndsAs(e, "failed")
    BY <2>3, EndKinds
  <2> HIDE DEF e
  <2>6. Completes(db, e, "err")
    BY <2>4, <2>5 DEF Completes
  <2>7. Writes(db, e) /\ Full(e)
    BY <2>1, <2>5, <2>6 DEF Writes, e, d
  <2>8. Full(db') /\ Writes(db, db') /\ db' = e
    BY <2>7, WriteIs
  <2>9. db'.status = "failed"
    BY <2>5, <2>8 DEF EndsAs
  <2> QED BY <1>3, <2>1, <2>8, <2>9
<1>18. ASSUME RetryStep(r) PROVE Goal
  <2> DEFINE m == db.rows[i].failures + 1
  <2>1. PICK a \in 0 .. run[r].age : \E delay :
          LET failed == [db EXCEPT !.rows[i].failures = @ + 1, !.stepWake = delay - a] IN
          /\ Fenced(r, a) /\ CanRetry(r)
          /\ delay = BackoffFor(SlotOf(r).backoff, Failures(r))
          /\ Full(Suspended(failed, delay - a)) \/ Full(failed)
    BY <1>18 DEF RetryStep
  <2>2. Outcome(r) /\ Fenced(r, a)
    BY <1>18, <2>1 DEF RetryStep
  <2>3. /\ i = Len(db.rows) /\ LastOpen(db) /\ Open(db) \in Rows
        /\ db.rows[i] = Open(db) /\ i \in 1 .. Len(db.rows)
    BY <1>15, <2>2
  <2>4. PICK delay : LET failed == [db EXCEPT !.rows[i].failures = @ + 1, !.stepWake = delay - a] IN
          /\ CanRetry(r) /\ delay = BackoffFor(SlotOf(r).backoff, Failures(r))
          /\ Full(Suspended(failed, delay - a)) \/ Full(failed)
    BY <2>1
  <2>5. delay - a \in Int
    <3>1. /\ run[r].seq < Len(Program[r]) /\ run[r].age \in Nat
      BY <1>1, <2>2, DuringStep DEF Runs
    <3>2. SlotOf(r).retries \in 0 .. (MaxStepAttempts - 1) /\ SlotOf(r).backoff \in Nat
      BY <3>1, Slot DEF Slots
    <3>3. db.rows[i].failures \in Nat
      BY <2>3 DEF Rows
    <3>4. Failures(r) = db.rows[i].failures + 1 /\ Failures(r) <= SlotOf(r).retries
      BY <2>4 DEF CanRetry, Failures
    <3>5. Failures(r) \in 1 .. 10
      BY <3>2, <3>3, <3>4, LimitsAssumption
    <3>6. delay \in Nat
      BY <2>4, <3>2, <3>5, BackoffTyped
    <3> QED BY <3>1, <3>6
  <2> DEFINE w == delay - a
             d == [db EXCEPT !.rows[i].failures = m, !.stepWake = w]
  <2>6. Full(Suspended(d, w)) \/ Full(d)
    BY <2>4
  <2>7. m \in Nat /\ m = Open(db).failures + 1
    BY <2>3 DEF Rows
  <2>8. w \in Int
    BY <2>5
  <2> HIDE DEF m, w, i
  <2>9. d \in Workflows
    BY <1>1, <2>3, <2>7, <2>8, AttemptTyped
  <2>10. d.rows = [db.rows EXCEPT ![i] = [db.rows[i] EXCEPT !.failures = m]]
            /\ d.status = db.status /\ d.cancel = db.cancel
    BY <1>1 DEF Workflows
  <2> HIDE DEF d
  <2>11. Fails(db, d)
    BY <2>3, <2>7, <2>10 DEF Fails
  <2>12. Grows(db, d) /\ d.status = "running"
    BY <1>3, <2>2, <2>10, <2>11 DEF Grows
  <2> QED BY <1>6, <2>2, <2>6, <2>9, <2>10, <2>12
<1>19. ASSUME SleepStep(r) PROVE Goal
  <2>1. PICK a \in 0 .. run[r].age :
          LET wake == IF HasRow(r) THEN db.stepWake ELSE SlotOf(r).until - a
              noted == IF HasRow(r) THEN db
                       ELSE [db EXCEPT !.rows = Append(@, NewRow(Sleep)), !.stepWake = wake] IN
          Fenced(r, a) /\ (Full(RowDone(noted, i, "ok")) \/ Full(Suspended(noted, wake)))
    BY <1>19 DEF SleepStep
  <2>2. Ready(r) /\ Fenced(r, a) /\ ~db.cancel
    BY <1>19, <2>1 DEF SleepStep
  <2>3. db.status = "running" /\ "ok" \in Told
    BY <1>3, <2>2 DEF Told
  <2>4. CASE HasRow(r)
    <3>1. InStep(r, db, run[r])
      BY <2>2, <2>4, OldSlot
    <3>2. i = Len(db.rows) /\ LastOpen(db) /\ db.rows[i] = Open(db)
      BY <3>1, OpenInStep
    <3>3. Full(RowDone(db, i, "ok")) \/ Full(Suspended(db, db.stepWake))
      BY <2>1, <2>4
    <3> HIDE DEF i
    <3>4. CASE Full(RowDone(db, i, "ok"))
      <4>0. /\ RowDone(db, i, "ok").rows =
                [db.rows EXCEPT ![i] = [db.rows[i] EXCEPT !.done = TRUE, !.out = "ok"]]
            /\ RowDone(db, i, "ok").status = db.status
            /\ RowDone(db, i, "ok").cancel = db.cancel
        BY <1>1 DEF RowDone, Workflows
      <4>1. Completes(db, RowDone(db, i, "ok"), "ok") /\ GoesOn(db, RowDone(db, i, "ok"))
        BY <2>3, <3>2, <4>0 DEF Completes, GoesOn, Active
      <4>2. Grows(db, RowDone(db, i, "ok"))
        BY <2>3, <4>1 DEF Grows
      <4> QED BY <1>4, <2>2, <3>4, <4>1, <4>2
    <3>5. CASE Full(Suspended(db, db.stepWake))
      <4>1. Grows(db, db)
        BY DEF Grows
      <4> QED BY <1>1, <1>6, <2>2, <2>3, <3>5, <4>1
    <3> QED BY <3>3, <3>4, <3>5
  <2>5. CASE ~HasRow(r)
    <3> DEFINE row == NewRow(Sleep)
               w == SlotOf(r).until - a
               d == [db EXCEPT !.rows = Append(@, row), !.stepWake = w]
               e == RowDone(d, i, "ok")
    <3>1. Full(e) \/ Full(Suspended(d, w))
      BY <2>1, <2>5
    <3>2. w \in Int
      <4>1. run[r].age \in Nat /\ SlotOf(r).until \in Nat
        BY <1>1, <2>2, AtReady, Slot DEF Runs, Slots
      <4> QED BY <4>1
    <3>3. row \in Rows /\ Sleep \in Names
      BY NewRowTyped DEF Names
    <3>4. Len(db.rows) = run[r].seq /\ AllDone(db)
      BY <2>2, <2>5, FreshSlot DEF AllDone
    <3>5. i = Len(db.rows) + 1
      BY <3>4
    <3> HIDE DEF w, row, i
    <3>6. d \in Workflows
      BY <1>1, <3>2, <3>3, AppendTyped
    <3>7. d.rows = Append(db.rows, row) /\ d.status = db.status /\ d.cancel = db.cancel
      BY <1>1 DEF Workflows
    <3> HIDE DEF d
    <3>8. Grows(db, d)
      BY <2>2, <3>3, <3>4, <3>7 DEF Grows, Opens, row
    <3>9. CASE Full(Suspended(d, w))
      BY <1>6, <2>2, <2>3, <3>6, <3>7, <3>8, <3>9
    <3>10. CASE Full(e)
      <4> DEFINE ok == [row EXCEPT !.done = TRUE, !.out = "ok"]
      <4>1. e.rows = [d.rows EXCEPT ![i] = [d.rows[i] EXCEPT !.done = TRUE, !.out = "ok"]]
              /\ e.status = d.status /\ e.cancel = d.cancel
        BY <3>6 DEF RowDone, Workflows
      <4>2. d.rows[i] = row
        BY <1>1, <3>3, <3>5, <3>7
      <4>3. e.rows = [Append(db.rows, row) EXCEPT ![i] = ok]
        BY <3>7, <4>1, <4>2
      <4>4. ok \in Rows
        BY <3>3 DEF Rows, Outs
      <4> HIDE DEF ok, e
      <4>5. e.rows = Append(db.rows, ok)
        <5> DEFINE z == Append(db.rows, row)
        <5>1. e.rows = [z EXCEPT ![Len(db.rows) + 1] = ok]
          BY <3>5, <4>3
        <5>2. z = Append(db.rows, row)
          OBVIOUS
        <5> HIDE DEF z
        <5> QED BY <1>1, <3>3, <4>4, <5>1, <5>2, AppendReplaced
      <4>6. Notes(db, e, Sleep)
        BY <3>4, <4>5 DEF Notes, ok, row
      <4>7. Grows(db, e) /\ GoesOn(db, e)
        BY <2>3, <3>3, <3>7, <4>1, <4>6 DEF Grows, GoesOn, Active
      <4> QED BY <1>4, <2>2, <3>10, <4>7
    <3> QED BY <3>1, <3>9, <3>10
  <2> QED BY <2>4, <2>5
<1> QED BY <1>7, <1>8, <1>9, <1>10, <1>11, <1>12, <1>13, <1>14, <1>16, <1>17, <1>18, <1>19
        DEF Function

\* Every step in terms of the two journals.
LEMMA StepKinds ==
    ASSUME IInv, [Next]_vars
    PROVE  \/ Alike(db, db') /\ Alike(synced, synced')
           \/ StartWithID \/ Cancel \/ Prune \/ PowerCut
           \/ \E r \in Runners :
                /\ db.status = "running" /\ db.runner = r
                /\ Full(db') /\ Writes(db, db')
                /\ db'.status = "succeeded" => Finalize(r)
<1>1. db \in Workflows /\ synced \in Workflows
  BY DEF IInv, TypeOK
<1>2. ASSUME UNCHANGED <<db, synced>> PROVE Alike(db, db') /\ Alike(synced, synced')
  BY <1>2 DEF Alike
<1>3. ASSUME Tick \/ JumpBack PROVE Alike(db, db') /\ Alike(synced, synced')
  BY <1>1, <1>3 DEF Tick, JumpBack, Later, Earlier, Alike, Workflows
<1>4. ASSUME NEW r \in Runners, Claim(r)
      PROVE  Alike(db, db') /\ Alike(synced, synced')
  <2>1. PICK a : /\ Claimable(a) /\ UNCHANGED synced
                 /\ db' = [db EXCEPT !.status = "running", !.runner = r, !.epoch = db.epoch + 1,
                                     !.lease = Lease - a, !.wake = WakeFloor]
    BY <1>4 DEF Claim, Normal
  <2>2. db.status \in Active
    BY <2>1 DEF Claimable, Unheld, Active
  <2>3. db'.rows = db.rows /\ db'.cancel = db.cancel /\ db'.status = "running"
    BY <1>1, <2>1 DEF Workflows
  <2> QED BY <2>1, <2>2, <2>3 DEF Alike, Active
<1>5. ASSUME NEW r \in Runners, RenewTx(r)
      PROVE  Alike(db, db') /\ Alike(synced, synced')
  <2>1. UNCHANGED synced /\ (db' = db \/ \E l : db' = [db EXCEPT !.lease = l])
    BY <1>5 DEF RenewTx, Normal
  <2>2. db'.rows = db.rows /\ db'.cancel = db.cancel /\ db'.status = db.status
    BY <1>1, <2>1 DEF Workflows
  <2> QED BY <2>1, <2>2 DEF Alike
<1>6. ASSUME NEW r \in Runners, Function(r)
      PROVE  \/ Alike(db, db') /\ Alike(synced, synced')
             \/ /\ db.status = "running" /\ db.runner = r
                /\ Full(db') /\ Writes(db, db')
                /\ db'.status = "succeeded" => Finalize(r)
  BY <1>6, FunctionWrites, AlikeRefl
<1>7. ASSUME NEW r \in Runners,
             \/ StoreFails(r) \/ RenewWake(r) \/ RenewFails(r) \/ Stop(r) \/ Shutdown(r)
             \/ Crash(r) \/ Restart(r) \/ Stall(r) \/ Resume(r)
      PROVE  Alike(db, db') /\ Alike(synced, synced')
  BY <1>2, <1>7 DEF StoreFails, RenewWake, RenewFails, Stop, Shutdown, CancelSteps, Exit,
                    Crash, Restart, Stall, Resume
<1>8. ASSUME UNCHANGED vars PROVE Alike(db, db') /\ Alike(synced, synced')
  BY <1>2, <1>8 DEF vars
<1> QED BY <1>3, <1>4, <1>5, <1>6, <1>7, <1>8 DEF Next, Renewal

\* What a write leaves of rows that are well told.
LEMMA WritesTidy ==
    ASSUME NEW d \in Workflows, NEW e, Writes(d, e), Tidy(d)
    PROVE  Tidy(e)
<1>1. d.rows \in Seq(Rows)
  BY DEF Workflows
<1> DEFINE Fine(row) == row.attempts >= 1 /\ (row.done => row.out \in Told)
           n == Len(d.rows)
<1>2. n \in Nat /\ \A i \in 1 .. n : d.rows[i] \in Rows /\ Fine(d.rows[i])
  BY <1>1 DEF Tidy
<1>3. ASSUME NEW row, Fine(row), e.rows = Append(d.rows, row)
      PROVE  \A i \in 1 .. Len(e.rows) : Fine(e.rows[i])
  <2> HIDE DEF Fine
  <2> QED BY <1>1, <1>2, <1>3
<1>4. ASSUME NEW row, Fine(row), LastOpen(d), e.rows = [d.rows EXCEPT ![Len(d.rows)] = row]
      PROVE  \A i \in 1 .. Len(e.rows) : Fine(e.rows[i])
  <2> HIDE DEF Fine
  <2> QED BY <1>1, <1>2, <1>4
<1>5. ASSUME LastOpen(d) PROVE Open(d) \in Rows /\ Fine(Open(d)) /\ ~Open(d).done
  BY <1>2, <1>5 DEF LastOpen, Open
<1>6. ASSUME NEW out \in Told, Completes(d, e, out)
      PROVE  \A i \in 1 .. Len(e.rows) : Fine(e.rows[i])
  <2> DEFINE row == [Open(d) EXCEPT !.done = TRUE, !.out = out]
  <2>1. Fine(row)
    BY <1>5, <1>6 DEF Completes, Rows
  <2> HIDE DEF row, Fine
  <2>2. LastOpen(d) /\ e.rows = [d.rows EXCEPT ![Len(d.rows)] = row]
    BY <1>6 DEF Completes, row
  <2> QED BY <1>4, <2>1, <2>2
<1>7. ASSUME Grows(d, e)
      PROVE  \A i \in 1 .. Len(e.rows) : Fine(e.rows[i])
  <2>1. CASE e.rows = d.rows
    BY <1>2, <2>1
  <2>2. ASSUME NEW m \in Names, Opens(d, e, m)
        PROVE  \A i \in 1 .. Len(e.rows) : Fine(e.rows[i])
    <3> DEFINE row == NewRow(m)
    <3>1. Fine(row)
      BY DEF NewRow
    <3> HIDE DEF row, Fine
    <3>2. e.rows = Append(d.rows, row)
      BY <2>2 DEF Opens, row
    <3> QED BY <1>3, <3>1, <3>2
  <2>3. ASSUME NEW m \in Names, Notes(d, e, m)
        PROVE  \A i \in 1 .. Len(e.rows) : Fine(e.rows[i])
    <3> DEFINE row == [NewRow(m) EXCEPT !.done = TRUE, !.out = "ok"]
    <3>1. Fine(row)
      BY DEF NewRow, Told
    <3> HIDE DEF row, Fine
    <3>2. e.rows = Append(d.rows, row)
      BY <2>3 DEF Notes, row
    <3> QED BY <1>3, <3>1, <3>2
  <2>4. ASSUME Repeats(d, e)
        PROVE  \A i \in 1 .. Len(e.rows) : Fine(e.rows[i])
    <3> DEFINE row == [Open(d) EXCEPT !.attempts = Open(d).attempts + 1]
    <3>1. Fine(row)
      BY <1>5, <2>4 DEF Repeats, Rows
    <3> HIDE DEF row, Fine
    <3>2. LastOpen(d) /\ e.rows = [d.rows EXCEPT ![Len(d.rows)] = row]
      BY <2>4 DEF Repeats, row
    <3> QED BY <1>4, <3>1, <3>2
  <2>5. ASSUME Fails(d, e)
        PROVE  \A i \in 1 .. Len(e.rows) : Fine(e.rows[i])
    <3> DEFINE row == [Open(d) EXCEPT !.failures = Open(d).failures + 1]
    <3>1. Fine(row)
      BY <1>5, <2>5 DEF Fails, Rows
    <3> HIDE DEF row, Fine
    <3>2. LastOpen(d) /\ e.rows = [d.rows EXCEPT ![Len(d.rows)] = row]
      BY <2>5 DEF Fails, row
    <3> QED BY <1>4, <3>1, <3>2
  <2> QED BY <1>6, <1>7, <2>1, <2>2, <2>3, <2>4, <2>5 DEF Grows
<1>8. \A i \in 1 .. Len(e.rows) : Fine(e.rows[i])
  <2>1. CASE e.rows = d.rows
    BY <1>2, <2>1
  <2>2. CASE Completes(d, e, "err")
    BY <1>6, <2>2 DEF Told
  <2> QED BY <1>7, <2>1, <2>2 DEF Writes
<1>9. e.cancel => e.status \in Active
  BY DEF Writes, GoesOn, EndsAs
<1> QED BY <1>8, <1>9 DEF Tidy

LEMMA TidyAlike ==
    ASSUME NEW d, NEW e, Alike(d, e), Tidy(d)
    PROVE  Tidy(e)
BY DEF Alike, Tidy

\* Between them the two journals stay tied, and each of them tidy.
LEMMA TiedStep ==
    ASSUME IInv, Tidy(db), Tidy(synced), Tied, [Next]_vars
    PROVE  Tidy(db)' /\ Tidy(synced)' /\ Tied'
<1>1. db \in Workflows /\ synced \in Workflows
  BY DEF IInv, TypeOK
<1>2. CASE Alike(db, db') /\ Alike(synced, synced')
  <2>1. Tidy(db') /\ Tidy(synced')
    BY <1>2, TidyAlike
  <2>2. Tied'
    BY <1>2 DEF Tied, Alike, Active, Terminal
  <2> QED BY <2>1, <2>2 DEF Tidy, Told
<1>3. ASSUME Full(db'), Tidy(db'), db'.status # "absent"
      PROVE  Tidy(db)' /\ Tidy(synced)' /\ Tied'
  BY <1>3 DEF Full, Tied, Alike, Tidy, Told
<1>4. CASE StartWithID
  <2> DEFINE d == [Absent EXCEPT !.status = "pending"]
  <2>1. d.rows = << >> /\ d.status = "pending" /\ ~d.cancel
    BY DEF Absent
  <2>2. Full(d)
    BY <1>4 DEF StartWithID
  <2> HIDE DEF d
  <2>3. Tidy(d) /\ d.status # "absent"
    BY <2>1 DEF Tidy, Active
  <2> QED BY <1>3, <2>2, <2>3 DEF Full
<1>5. CASE Cancel
  <2>1. CASE Full(Ended(db, "cancelled"))
    <3>1. Ended(db, "cancelled").rows = db.rows /\ EndsAs(Ended(db, "cancelled"), "cancelled")
      BY <1>1, EndKinds
    <3>2. Tidy(Ended(db, "cancelled"))
      BY <3>1 DEF Tidy, EndsAs
    <3> QED BY <1>3, <2>1, <3>1, <3>2 DEF Full, EndsAs
  <2>2. CASE Full([db EXCEPT !.cancel = TRUE]) /\ db.status = "running"
    <3> DEFINE d == [db EXCEPT !.cancel = TRUE]
    <3>1. d.rows = db.rows /\ d.status = "running"
      BY <1>1, <2>2 DEF Workflows
    <3> HIDE DEF d
    <3>2. Tidy(d)
      BY <3>1 DEF Tidy, Active
    <3> QED BY <1>3, <2>2, <3>1, <3>2 DEF Full, d
  <2> QED BY <1>5, <2>1, <2>2 DEF Cancel
<1>6. CASE Prune
  <2>1. db' = Absent /\ synced' = synced /\ db.status \in Terminal
    BY <1>6 DEF Prune, Normal
  <2>2. Absent.rows = << >> /\ Absent.status = "absent" /\ ~Absent.cancel
    BY DEF Absent
  <2>3. Tidy(db')
    BY <2>1, <2>2 DEF Tidy
  <2>4. Tied'
    BY <2>1, <2>2 DEF Tied, Alike, Active, Terminal
  <2> QED BY <2>1, <2>3, <2>4 DEF Tidy, Told
<1>7. CASE PowerCut
  <2>1. db' = synced /\ synced' = synced
    BY <1>7 DEF PowerCut
  <2>2. Tied'
    BY <2>1 DEF Tied, Alike
  <2> QED BY <2>1, <2>2 DEF Tidy, Told
<1>8. CASE Full(db') /\ Writes(db, db') /\ db.status = "running"
  <2>1. Tidy(db')
    BY <1>1, <1>8, WritesTidy
  <2>2. db'.status # "absent"
    BY <1>8 DEF Writes, GoesOn, EndsAs, Active, Terminal
  <2> QED BY <1>3, <1>8, <2>1, <2>2
<1> QED BY <1>2, <1>4, <1>5, <1>6, <1>7, <1>8, StepKinds

\* The part of the invariant that says what a power cut cannot take back.
TInv == IInv /\ Tidy(db) /\ Tidy(synced) /\ Tied

LEMMA TiedInvariant == Spec => []TInv
<1>1. Init => TInv
  <2> SUFFICES ASSUME Init PROVE TInv
    OBVIOUS
  <2>1. Absent.rows = << >> /\ Absent.status = "absent" /\ ~Absent.cancel
    BY DEF Absent
  <2> QED BY <2>1, InitInv DEF Init, TInv, Tidy, Tied
<1>2. TInv /\ [Next]_vars => TInv'
  BY TiedStep, InductiveStep DEF TInv
<1> QED BY <1>1, <1>2, PTL DEF Spec

LEMMA TerminalStep ==
    ASSUME TInv, [Next]_vars, db.status \in Terminal, db'.status # "absent"
    PROVE  db'.status = db.status /\ db'.rows = db.rows
<1>1. db.status \notin Active /\ db.status # "absent"
  BY DEF Terminal, Active
<1>2. CASE Alike(db, db')
  BY <1>1, <1>2 DEF Alike
<1>3. CASE PowerCut
  BY <1>1, <1>3 DEF PowerCut, TInv, Tied, Alike
<1>4. ~StartWithID /\ ~Cancel
  BY <1>1 DEF StartWithID, Cancel, Active
<1>5. ~Prune
  BY DEF Prune, Normal, Absent
<1>6. db.status # "running"
  BY DEF Terminal
<1>7. IInv
  BY DEF TInv
<1> QED BY <1>2, <1>3, <1>4, <1>5, <1>6, <1>7, StepKinds

LEMMA ObeyStep ==
    ASSUME TInv, [Next]_vars, db.cancel \/ db.status = "cancelled"
    PROVE  /\ calls' \subseteq calls
           /\ db'.cancel \/ db'.status \in Terminal \cup {"absent"}
<1>1. IInv /\ Tidy(db) /\ Tied
  BY DEF TInv
<1>2. calls' \subseteq calls
  <2>1. ASSUME NEW r \in Runners, BeginFirst(r) \/ BeginAgain(r)
        PROVE  FALSE
    <3>1. ~db.cancel /\ \E a : Fenced(r, a)
      BY <2>1 DEF BeginFirst, BeginAgain
    <3> QED BY <3>1 DEF Fenced
  <2> QED BY <1>1, <2>1, CallsOf
<1>3. db'.cancel \/ db'.status \in Terminal \cup {"absent"}
  <2>1. CASE Alike(db, db')
    BY <2>1 DEF Alike, Active, Terminal
  <2>2. CASE StartWithID
    BY <1>1, <2>2 DEF StartWithID, Tidy, Active
  <2>3. CASE Cancel
    <3>1. db \in Workflows
      BY <1>1 DEF IInv, TypeOK
    <3>2. db' = Ended(db, "cancelled") \/ db' = [db EXCEPT !.cancel = TRUE]
      BY <2>3 DEF Cancel, Full
    <3>3. Ended(db, "cancelled").status = "cancelled" /\ [db EXCEPT !.cancel = TRUE].cancel
      BY <3>1 DEF Ended, Workflows
    <3> QED BY <3>2, <3>3 DEF Terminal
  <2>4. CASE Prune
    BY <2>4 DEF Prune, Normal, Absent
  <2>5. CASE PowerCut
    BY <1>1, <2>5 DEF PowerCut, Tied, Tidy, Alike, Active, Terminal
  <2>6. CASE db.status = "running" /\ Writes(db, db')
    BY <2>6 DEF Writes, GoesOn, EndsAs, Terminal
  <2> QED BY <1>1, <2>1, <2>2, <2>3, <2>4, <2>5, <2>6, StepKinds
<1> QED BY <1>2, <1>3

\* types.go, terminal statuses: a runner that lost the workflow, a second caller or a
\* power cut changes nothing of one that has ended; only pruning removes it.
THEOREM EndIsFinal == Spec => TerminalStays
<1>1. TInv /\ [Next]_vars =>
        [(db.status \in Terminal /\ db'.status # "absent") =>
           db'.status = db.status /\ db'.rows = db.rows]_vars
  BY TerminalStep
<1> QED BY <1>1, TiedInvariant, PTL DEF Spec, TerminalStays

\* engine.go, Cancel: a request once recorded stops every later call of a step function
\* and outlives everything but the workflow itself.
THEOREM CancelIsObeyed == Spec => CancelObeyed
<1>1. TInv /\ [Next]_vars =>
        [(db.cancel \/ db.status = "cancelled") =>
            /\ calls' \subseteq calls
            /\ db'.cancel \/ db'.status \in Terminal \cup {"absent"}]_vars
  BY ObeyStep
<1> QED BY <1>1, TiedInvariant, PTL DEF Spec, CancelObeyed

----------------------------------------------------------------------------
(* Success covers the whole program.                                        *)

LEMMA WalkedIdle == ASSUME NEW r, NEW d PROVE Walked(r, d, IdleRun)
BY DEF Walked, Owns, IdleRun

LEMMA WalkedSame ==
    ASSUME NEW r, NEW d, NEW e, NEW u, NEW v, Walked(r, d, u),
           \/ e.rows = d.rows /\ e.runner = d.runner /\ e.status = d.status /\ e.epoch = d.epoch
           \/ e.runner # r \/ e.status # "running",
           v.pc = u.pc, v.seq = u.seq, v.epoch = u.epoch, v.verdict = u.verdict
    PROVE  Walked(r, e, v)
BY DEF Walked, Owns, Through, Complete

LEMMA ThroughKept ==
    ASSUME NEW r, NEW d \in Workflows, NEW e, Keeps(d, e), NEW n \in Nat, n <= Len(d.rows),
           Through(r, d, n)
    PROVE  Through(r, e, n)
<1>1. Len(d.rows) \in Nat
  BY DEF Workflows
<1>2. \A i \in 1 .. n : i \in 1 .. Len(d.rows) /\ d.rows[i].done
  BY <1>1 DEF Through
<1>3. \A i \in 1 .. n : e.rows[i] = d.rows[i]
  BY <1>2 DEF Keeps
<1> QED BY <1>3 DEF Through

\* As far as an owner has walked, the journal goes.
LEMMA Reach ==
    ASSUME IInv, NEW r \in Runners, Owns(r, db, run[r]),
           run[r].pc \in {"boundary", "running", "returned"}
    PROVE  run[r].seq \in Nat /\ run[r].seq <= Len(db.rows)
<1>1. Good(r, db, run[r]) /\ run[r] \in Runs /\ db.rows \in Seq(Rows)
  BY DEF IInv, TypeOK, Workflows
<1>2. run[r].seq \in Nat
  BY <1>1 DEF Runs
<1>3. AtBoundary(db, run[r]) \/ InStep(r, db, run[r])
  BY <1>1 DEF Good
<1> QED BY <1>1, <1>2, <1>3 DEF AtBoundary, InStep

\* Only the owner writes, and until it gives the workflow up it keeps the lease as it is.
LEMMA FunctionOwner ==
    ASSUME IInv, NEW s \in Runners, Function(s)
    PROVE  /\ \E e : run' = [run EXCEPT ![s] = e]
           /\ \/ db' = db
              \/ /\ Owns(s, db, run[s])
                 /\ \/ db'.status # "running"
                    \/ db'.runner = s /\ db'.epoch = db.epoch /\ db'.lease = db.lease
<1>1. db \in Workflows /\ db.rows \in Seq(Rows) /\ run \in [Runners -> Runs]
  BY DEF IInv, TypeOK, Workflows
<1>2. \E e : run' = [run EXCEPT ![s] = e]
  <2>1. CASE BeginFirst(s) \/ BeginAgain(s)
    BY <2>1 DEF BeginFirst, BeginAgain, Call, EndRun
  <2>2. CASE run' = run
    BY <1>1, <2>2
  <2> QED BY <2>1, <2>2, FunctionNoCall DEF NoCall
<1> DEFINE Mine(d) == \/ d.status # "running"
                      \/ d.runner = db.runner /\ d.epoch = db.epoch /\ d.lease = db.lease
           i == run[s].seq + 1
<1>3. ASSUME NEW a, Fenced(s, a), Mine(db'), run[s].pc # "idle"
      PROVE  /\ Owns(s, db, run[s])
             /\ \/ db'.status # "running"
                \/ db'.runner = s /\ db'.epoch = db.epoch /\ db'.lease = db.lease
  BY <1>3 DEF Owns, Fenced
<1>4. ASSUME NEW d \in Workflows, NEW w PROVE Mine(Suspended(d, w))
  BY <1>4 DEF Suspended, Workflows
<1>5. ASSUME NEW d \in Workflows, NEW v, v # "running" PROVE Mine(Ended(d, v))
  BY <1>5 DEF Ended, Workflows
<1>6. ASSUME NEW d \in Workflows, Mine(d), NEW j, NEW out PROVE Mine(RowDone(d, j, out))
  BY <1>6 DEF RowDone, Workflows
<1>7. CASE \/ Load(s) \/ NonDeterministic(s) \/ Replay(s) \/ ReturnNil(s)
           \/ HaltAtBoundary(s) \/ Return(s) \/ StepInterrupted(s) \/ FencedOut(s)
  BY <1>2, <1>7 DEF Load, NonDeterministic, Replay, ReturnNil, HaltAtBoundary, Return,
                    StepInterrupted, FencedOut
<1>8. CASE Release(s)
  <2>1. \/ db' = db
        \/ /\ db' = [db EXCEPT !.status = "pending", !.runner = NoRunner, !.lease = LeaseFloor]
           /\ Owns(s, db, run[s])
    BY <1>8 DEF Release, Normal, Owns
  <2>2. db' = db \/ (db'.status = "pending" /\ Owns(s, db, run[s]))
    BY <1>1, <2>1 DEF Workflows
  <2> QED BY <1>2, <2>2
<1>9. CASE StillBackingOff(s) \/ CancelAtBoundary(s) \/ Finalize(s)
  <2>1. run[s].pc = "finish" => run[s].verdict # "running"
    BY DEF IInv, Good
  <2>2. db'.status # "running"
    <3>1. ASSUME NEW w PROVE Suspended(db, w).status = "waiting" /\ Ended(db, w).status = w
      BY <1>1, EndKinds DEF EndsAs
    <3> QED BY <1>9, <2>1, <3>1 DEF StillBackingOff, CancelAtBoundary, Finalize, Full
  <2>3. \E a : Fenced(s, a)
    BY <1>9 DEF StillBackingOff, CancelAtBoundary, Finalize
  <2>4. run[s].pc # "idle"
    BY <1>9, AtReady DEF StillBackingOff, CancelAtBoundary, Finalize
  <2> QED BY <1>2, <2>2, <2>3, <2>4 DEF Owns, Fenced
<1>10. CASE BeginFirst(s)
  <2>1. \E a : Fenced(s, a)
    BY <1>10 DEF BeginFirst
  <2>2. run[s].pc # "idle"
    BY <1>10, AtReady DEF BeginFirst
  <2> DEFINE row == NewRow(SlotOf(s).name)
  <2>3. db' = [db EXCEPT !.rows = Append(@, row), !.stepWake = WakeFloor]
    BY <1>10 DEF BeginFirst, Full
  <2>4. Mine(db')
    BY <1>1, <2>3 DEF Workflows
  <2> HIDE DEF Mine
  <2> QED BY <1>2, <1>3, <2>1, <2>2, <2>4
<1>11. CASE NowStep(s)
  <2>1. \E a : Fenced(s, a)
    BY <1>11 DEF NowStep
  <2>2. run[s].pc # "idle"
    BY <1>11, AtReady DEF NowStep
  <2> DEFINE row == [NewRow(NowName) EXCEPT !.done = TRUE, !.out = "ok"]
  <2>3. db' = [db EXCEPT !.rows = Append(@, row)]
    BY <1>11 DEF NowStep, Full
  <2>4. Mine(db')
    BY <1>1, <2>3 DEF Workflows
  <2> HIDE DEF Mine
  <2> QED BY <1>2, <1>3, <2>1, <2>2, <2>4
<1>12. CASE BeginAgain(s)
  <2>1. \E a : Fenced(s, a)
    BY <1>12 DEF BeginAgain
  <2>2. run[s].pc # "idle"
    BY <1>12, AtReady DEF BeginAgain
  <2> DEFINE m == db.rows[i].attempts + 1
  <2>3. \/ db' = Ended(db, "failed")
        \/ db' = [db EXCEPT !.rows[i].attempts = m, !.stepWake = WakeFloor]
    BY <1>12 DEF BeginAgain, Full
  <2> HIDE DEF m, i
  <2>4. Mine([db EXCEPT !.rows[i].attempts = m, !.stepWake = WakeFloor])
    BY <1>1 DEF Workflows
  <2>5. Mine(Ended(db, "failed"))
    BY <1>1, <1>5
  <2> HIDE DEF Mine
  <2> QED BY <1>2, <1>3, <2>1, <2>2, <2>3, <2>4, <2>5
<1>13. CASE FinishStep(s)
  <2>1. PICK a, out : Fenced(s, a) /\ db' = RowDone(db, i, out)
    BY <1>13 DEF FinishStep, Full
  <2>2. run[s].pc # "idle"
    BY <1>13 DEF FinishStep, Outcome
  <2>3. Mine(db)
    OBVIOUS
  <2>4. Mine(db')
    BY <1>1, <1>6, <2>1, <2>3
  <2> HIDE DEF Mine
  <2> QED BY <1>2, <1>3, <2>1, <2>2, <2>4
<1>14. CASE FailWorkflow(s)
  <2>1. PICK a : Outcome(s) /\ Fenced(s, a) /\ db' = Ended(RowDone(db, i, "err"), "failed")
    BY <1>14 DEF FailWorkflow, Full
  <2>2. RowDone(db, i, "err") \in Workflows
    BY <1>1, <2>1, DuringStep, RowDoneTyped DEF Outs
  <2>3. db'.status = "failed" /\ run[s].pc # "idle"
    BY <2>1, <2>2, EndKinds DEF EndsAs, Outcome
  <2> QED BY <1>2, <2>1, <2>3 DEF Owns, Fenced
<1>15. CASE RetryStep(s)
  <2>1. PICK a \in 0 .. run[s].age : \E w :
          LET failed == [db EXCEPT !.rows[i].failures = @ + 1, !.stepWake = w] IN
          Fenced(s, a) /\ (db' = Suspended(failed, w) \/ db' = failed)
    BY <1>15 DEF RetryStep, Full
  <2>2. run[s].pc # "idle"
    BY <1>15 DEF RetryStep, Outcome
  <2>3. PICK w : LET failed == [db EXCEPT !.rows[i].failures = @ + 1, !.stepWake = w] IN
                 db' = Suspended(failed, w) \/ db' = failed
    BY <2>1
  <2> DEFINE failed == [db EXCEPT !.rows[i].failures = db.rows[i].failures + 1, !.stepWake = w]
  <2>4. db' = Suspended(failed, w) \/ db' = failed
    BY <2>3
  <2> HIDE DEF i
  <2>5. Mine(failed) /\ Mine(Suspended(failed, w))
    BY <1>1 DEF Suspended, Workflows
  <2> HIDE DEF Mine, failed
  <2> QED BY <1>2, <1>3, <2>1, <2>2, <2>4, <2>5
<1>16. CASE SleepStep(s)
  <2>1. PICK a \in 0 .. run[s].age : \E w :
          LET noted == IF HasRow(s) THEN db
                       ELSE [db EXCEPT !.rows = Append(@, NewRow(Sleep)), !.stepWake = w] IN
          Fenced(s, a) /\ (db' = RowDone(noted, i, "ok") \/ db' = Suspended(noted, w))
    BY <1>16 DEF SleepStep, Full
  <2>2. run[s].pc # "idle"
    BY <1>16, AtReady DEF SleepStep
  <2>3. PICK w : LET noted == IF HasRow(s) THEN db
                       ELSE [db EXCEPT !.rows = Append(@, NewRow(Sleep)), !.stepWake = w] IN
                 db' = RowDone(noted, i, "ok") \/ db' = Suspended(noted, w)
    BY <2>1
  <2> DEFINE row == NewRow(Sleep)
             d == [db EXCEPT !.rows = Append(@, row), !.stepWake = w]
  <2>4. \/ db' = RowDone(db, i, "ok") \/ db' = Suspended(db, w)
        \/ db' = RowDone(d, i, "ok") \/ db' = Suspended(d, w)
    BY <2>3
  <2> HIDE DEF row, i
  <2>5. Mine(RowDone(db, i, "ok")) /\ Mine(Suspended(db, w))
    BY <1>1 DEF RowDone, Suspended, Workflows
  <2>6. Mine(RowDone(d, i, "ok")) /\ Mine(Suspended(d, w))
    BY <1>1 DEF RowDone, Suspended, Workflows
  <2> HIDE DEF Mine, d
  <2> QED BY <1>2, <1>3, <2>1, <2>2, <2>4, <2>5, <2>6
<1> QED BY <1>7, <1>8, <1>9, <1>10, <1>11, <1>12, <1>13, <1>14, <1>15, <1>16 DEF Function

\* A runner that writes nothing more to the slots it has passed.
LEMMA WalkedOn ==
    ASSUME IInv, NEW r \in Runners, Function(r), Walked(r, db, run[r]),
           NEW e, run'[r] = e, run[r].pc \in {"boundary", "running", "returned"},
           e.seq = run[r].seq, e.epoch = run[r].epoch,
           e.pc \in {"boundary", "running", "returned"}
    PROVE  Walked(r, db', e)
<1>1. db \in Workflows /\ run[r].seq <= Len(Program[r])
  BY DEF IInv, TypeOK, Walked
<1>2. ASSUME Owns(r, db', e) PROVE Through(r, db', e.seq)
  <2>1. Owns(r, db, run[r])
    BY <1>2, FunctionOwner DEF Owns
  <2>2. run[r].seq \in Nat /\ run[r].seq <= Len(db.rows) /\ Through(r, db, run[r].seq)
    BY <2>1, Reach DEF Walked
  <2>3. Keeps(db, db')
    BY FunctionKeeps
  <2> QED BY <1>1, <2>2, <2>3, ThroughKept
<1> QED BY <1>1, <1>2 DEF Walked

\* The function goes on to its next slot: the row of this one is what it asked for.
LEMMA WalkedAdvance ==
    ASSUME IInv, NEW r \in Runners, Function(r), Walked(r, db, run[r]), NEW out \in Told,
           Advance(r, out), run[r].pc \in {"boundary", "running", "returned"},
           run[r].seq < Len(Program[r]),
           Owns(r, db, run[r]) =>
              /\ db'.rows[run[r].seq + 1].done /\ db'.rows[run[r].seq + 1].out = out
              /\ db'.rows[run[r].seq + 1].name = SlotOf(r).name
    PROVE  Walked(r, db', run'[r])
<1>1. db \in Workflows /\ run \in [Runners -> Runs] /\ run[r] \in Runs
        /\ Program[r] \in Seq(Slots)
  BY ProgramAssumption DEF IInv, TypeOK
<1>2. run[r].seq \in Nat /\ Len(Program[r]) \in Nat
  BY <1>1 DEF Runs
<1>3. CASE FinishWith(r, "failed")
  <2> DEFINE e == Finishing(run[r], "failed")
  <2>1. e.pc = "finish" /\ e.verdict = "failed"
    BY <1>1, FinishRun
  <2>2. run'[r] = e
    BY <1>1, <1>3 DEF FinishWith, Finishing
  <2> HIDE DEF e
  <2> QED BY <2>1, <2>2 DEF Walked
<1>4. CASE ~FinishWith(r, "failed")
  <2> DEFINE n == run[r].seq + 1
             e == [run[r] EXCEPT !.pc = "boundary", !.seq = n, !.retrying = FALSE,
                                 !.attempt = 0, !.result = "none", !.age = 0]
  <2>1. run' = [run EXCEPT ![r] = e] /\ ~(out = "err" /\ ~SlotOf(r).handles)
    BY <1>4 DEF Advance
  <2>2. e.pc = "boundary" /\ e.seq = n /\ e.epoch = run[r].epoch
    BY <1>1 DEF Runs
  <2> HIDE DEF e
  <2>3. run'[r] = e
    BY <1>1, <2>1
  <2>4. ASSUME Owns(r, db', e) PROVE Through(r, db', n)
    <3>1. Owns(r, db, run[r])
      BY <2>2, <2>4, FunctionOwner DEF Owns
    <3>2. run[r].seq <= Len(db.rows) /\ Through(r, db, run[r].seq)
      BY <3>1, Reach DEF Walked
    <3>3. Through(r, db', run[r].seq)
      BY <1>1, <1>2, <3>2, FunctionKeeps, ThroughKept
    <3>4. db'.rows[n].done /\ db'.rows[n].name = Program[r][n].name
            /\ (db'.rows[n].out = "ok" \/ Program[r][n].handles)
      BY <2>1, <3>1 DEF SlotOf, Told
    <3>5. \A j \in 1 .. n : j \in 1 .. run[r].seq \/ j = n
      BY <1>2
    <3> QED BY <3>3, <3>4, <3>5 DEF Through
  <2>5. n <= Len(Program[r])
    BY <1>2
  <2> QED BY <2>2, <2>3, <2>4, <2>5 DEF Walked
<1> QED BY <1>3, <1>4

LEMMA FunctionSelf ==
    ASSUME IInv, Tidy(db), NEW r \in Runners, Function(r), Walked(r, db, run[r])
    PROVE  Walked(r, db', run'[r])
<1> DEFINE i == run[r].seq + 1
<1>1. /\ db \in Workflows /\ db.rows \in Seq(Rows) /\ run \in [Runners -> Runs]
      /\ run[r] \in Runs /\ run[r].seq \in Nat /\ Program[r] \in Seq(Slots)
      /\ Good(r, db, run[r])
  BY ProgramAssumption DEF IInv, TypeOK, Workflows, Runs
<1>2. ASSUME EndRun(r) PROVE Walked(r, db', run'[r])
  BY <1>1, <1>2, WalkedIdle DEF EndRun
<1>3. ASSUME Interrupt(r) PROVE Walked(r, db', run'[r])
  <2> DEFINE e == [run[r] EXCEPT !.pc = "interrupt", !.age = 0, !.renewer = "off", !.timer = 0]
  <2>1. e.pc = "interrupt"
    BY <1>1 DEF Runs
  <2>2. run'[r] = e
    BY <1>1, <1>3 DEF Interrupt
  <2> HIDE DEF e
  <2> QED BY <2>1, <2>2 DEF Walked
<1>4. CASE NonDeterministic(r)
  <2> DEFINE e == Finishing(run[r], "failed")
  <2>1. e.pc = "finish" /\ e.verdict = "failed"
    BY <1>1, FinishRun
  <2>2. run'[r] = e
    BY <1>1, <1>4 DEF NonDeterministic, FinishWith, Finishing
  <2> HIDE DEF e
  <2> QED BY <2>1, <2>2 DEF Walked
<1>5. CASE ReturnNil(r)
  <2> DEFINE v == IF Leftover(r) THEN "failed" ELSE "succeeded"
             e == Finishing(run[r], v)
  <2>1. e.pc = "finish" /\ e.verdict = v
    BY <1>1, FinishRun
  <2>1a. e.epoch = run[r].epoch
    BY <1>1 DEF Finishing, Runs
  <2>2. run'[r] = e /\ db' = db
    BY <1>1, <1>5 DEF ReturnNil, FinishWith, Finishing
  <2> HIDE DEF e
  <2>3. ASSUME Owns(r, db, e), e.verdict = "succeeded" PROVE Complete(r, db)
    <3>1. run[r].pc = "boundary" /\ run[r].seq >= Len(Program[r]) /\ ~Leftover(r)
      BY <1>5, <2>1, <2>3 DEF ReturnNil
    <3>2. Owns(r, db, run[r])
      BY <2>1a, <2>3, <3>1 DEF Owns
    <3>3. run[r].seq <= Len(Program[r]) /\ Through(r, db, run[r].seq)
      BY <3>1, <3>2 DEF Walked
    <3>4. run[r].seq = Len(Program[r])
      BY <1>1, <3>1, <3>3
    <3>5. ~run[r].retrying
      BY <1>1, <3>4 DEF Good
    <3>6. AtBoundary(db, run[r])
      BY <1>1, <3>1, <3>2, <3>5 DEF Good
    <3>7. run[r].seq >= Len(run[r].rows)
      BY <1>1, <3>1 DEF Leftover, Runs
    <3>8. Len(db.rows) = run[r].seq
      BY <3>6, <3>7 DEF AtBoundary
    <3> QED BY <3>3, <3>4, <3>8 DEF Complete
  <2> QED BY <2>1, <2>2, <2>3 DEF Walked
<1>6. CASE HaltAtBoundary(r) \/ StepInterrupted(r)
  BY <1>2, <1>3, <1>6 DEF HaltAtBoundary, StepInterrupted
<1>7. CASE \/ StillBackingOff(r) \/ CancelAtBoundary(r) \/ FailWorkflow(r)
           \/ FencedOut(r) \/ Finalize(r) \/ Release(r)
  BY <1>2, <1>7
     DEF StillBackingOff, CancelAtBoundary, FailWorkflow, FencedOut, Finalize, Release
<1>8. CASE Load(r)
  <2>1. CASE EndRun(r)
    BY <1>2, <2>1
  <2>2. CASE ~EndRun(r)
    <3> DEFINE e == [run[r] EXCEPT !.pc = "boundary", !.rows = db.rows, !.age = 0,
                                   !.renewer = "sleep", !.timer = Interval]
    <3>1. e.pc = "boundary" /\ e.seq = run[r].seq
      BY <1>1 DEF Runs
    <3>2. run'[r] = e /\ run[r].pc = "claimed"
      BY <1>1, <1>8, <2>2 DEF Load
    <3> HIDE DEF e
    <3>3. e.seq = 0
      BY <1>1, <3>1, <3>2 DEF Good
    <3>4. Through(r, db', 0) /\ 0 <= Len(Program[r])
      BY <1>1 DEF Through
    <3> QED BY <3>1, <3>2, <3>3, <3>4 DEF Walked
  <2> QED BY <2>1, <2>2
<1>9. CASE Return(r)
  <2>1. PICK res \in Results :
          run' = [run EXCEPT ![r] = [run[r] EXCEPT !.pc = "returned", !.result = res, !.age = 0]]
    BY <1>9 DEF Return
  <2> DEFINE e == [run[r] EXCEPT !.pc = "returned", !.result = res, !.age = 0]
  <2>2. e.pc = "returned" /\ e.seq = run[r].seq /\ e.epoch = run[r].epoch
    BY <1>1 DEF Runs
  <2>3. run'[r] = e
    BY <1>1, <2>1
  <2>4. run[r].pc = "running"
    BY <1>9 DEF Return
  <2> HIDE DEF e
  <2> QED BY <2>2, <2>3, <2>4, WalkedOn
<1>10. CASE BeginFirst(r) \/ BeginAgain(r)
  <2>1. EndRun(r) \/ \E n : run' = [run EXCEPT ![r] = [run[r] EXCEPT !.pc = "running",
                                                           !.attempt = n, !.age = 0]]
    BY <1>10 DEF BeginFirst, BeginAgain, Call
  <2>2. ASSUME NEW n, run' = [run EXCEPT ![r] = [run[r] EXCEPT !.pc = "running",
                                                           !.attempt = n, !.age = 0]]
        PROVE  Walked(r, db', run'[r])
    <3> DEFINE e == [run[r] EXCEPT !.pc = "running", !.attempt = n, !.age = 0]
    <3>1. e.pc = "running" /\ e.seq = run[r].seq /\ e.epoch = run[r].epoch
      BY <1>1 DEF Runs
    <3>2. run'[r] = e
      BY <1>1, <2>2
    <3>3. run[r].pc = "boundary"
      BY <1>10, AtReady DEF BeginFirst, BeginAgain
    <3> HIDE DEF e
    <3> QED BY <3>1, <3>2, <3>3, WalkedOn
  <2> QED BY <1>2, <2>1, <2>2
<1>11. CASE RetryStep(r)
  <2> DEFINE e == [run[r] EXCEPT !.pc = "boundary", !.retrying = TRUE, !.attempt = 0,
                                 !.result = "none", !.age = 0]
  <2>1. EndRun(r) \/ run' = [run EXCEPT ![r] = e]
    BY <1>11 DEF RetryStep
  <2>2. e.pc = "boundary" /\ e.seq = run[r].seq /\ e.epoch = run[r].epoch
    BY <1>1 DEF Runs
  <2>3. run[r].pc = "returned"
    BY <1>11 DEF RetryStep, Outcome
  <2> HIDE DEF e
  <2>4. CASE run' = [run EXCEPT ![r] = e]
    <3>1. run'[r] = e
      BY <1>1, <2>4
    <3> QED BY <2>2, <2>3, <3>1, WalkedOn
  <2> QED BY <1>2, <2>1, <2>4
<1>12. CASE Replay(r)
  <2>1. /\ AtSlot(r) /\ Replayable(r) /\ Advance(r, LocalRow(r).out) /\ db' = db
    BY <1>12 DEF Replay
  <2>2. /\ run[r].pc = "boundary" /\ run[r].seq < Len(Program[r]) /\ ~run[r].retrying
        /\ run[r].seq < Len(run[r].rows) /\ LocalRow(r).done
        /\ LocalRow(r).name = SlotOf(r).name
    BY <2>1 DEF AtSlot, Replayable, Refused, Journaled
  <2>3. ASSUME Owns(r, db, run[r])
        PROVE  LocalRow(r) = db.rows[i] /\ LocalRow(r).out \in Told
    <3>1. AtBoundary(db, run[r])
      BY <1>1, <2>2, <2>3 DEF Good
    <3>2. db.rows = run[r].rows /\ i \in 1 .. Len(db.rows)
      BY <1>1, <2>2, <3>1 DEF AtBoundary
    <3> QED BY <2>2, <3>2 DEF LocalRow, Tidy
  <2>4. CASE LocalRow(r).out \in Told
    BY <2>1, <2>2, <2>3, <2>4, WalkedAdvance
  <2>5. CASE LocalRow(r).out \notin Told
    <3>1. ~Owns(r, db, run[r])
      BY <2>3, <2>5
    <3>2. ~Owns(r, db', run'[r])
      <4> DEFINE n == run[r].seq + 1
                 e == [run[r] EXCEPT !.pc = "boundary", !.seq = n, !.retrying = FALSE,
                                     !.attempt = 0, !.result = "none", !.age = 0]
      <4>1. run' = [run EXCEPT ![r] = e]
        BY <2>1, <2>5 DEF Advance, Told
      <4>2. e.epoch = run[r].epoch
        BY <1>1 DEF Runs
      <4> HIDE DEF e
      <4>3. run'[r] = e
        BY <1>1, <4>1
      <4> QED BY <2>1, <2>2, <3>1, <4>2, <4>3 DEF Owns
    <3>3. run'[r].pc = "boundary" /\ run'[r].seq <= Len(Program[r])
      <4> DEFINE n == run[r].seq + 1
                 e == [run[r] EXCEPT !.pc = "boundary", !.seq = n, !.retrying = FALSE,
                                     !.attempt = 0, !.result = "none", !.age = 0]
      <4>1. run' = [run EXCEPT ![r] = e]
        BY <2>1, <2>5 DEF Advance, Told
      <4>2. e.pc = "boundary" /\ e.seq = n
        BY <1>1 DEF Runs
      <4> HIDE DEF e
      <4>3. run'[r] = e
        BY <1>1, <4>1
      <4>4. n <= Len(Program[r])
        BY <1>1, <2>2
      <4> QED BY <4>2, <4>3, <4>4
    <3> QED BY <3>2, <3>3 DEF Walked
  <2> QED BY <2>4, <2>5
<1>13. ASSUME NEW d \in Workflows, d.rows \in Seq(Rows), NEW out, i \in 1 .. Len(d.rows),
              db' = RowDone(d, i, out)
       PROVE  /\ db'.rows[i].done /\ db'.rows[i].out = out
              /\ db'.rows[i].name = d.rows[i].name
  <2> HIDE DEF i
  <2>1. db'.rows = [d.rows EXCEPT ![i] = [d.rows[i] EXCEPT !.done = TRUE, !.out = out]]
    BY <1>13 DEF RowDone, Workflows
  <2>2. db'.rows[i] = [d.rows[i] EXCEPT !.done = TRUE, !.out = out] /\ d.rows[i] \in Rows
    BY <1>13, <2>1
  <2> QED BY <2>2 DEF Rows
<1>14. CASE FinishStep(r)
  <2>1. PICK a : Fenced(r, a)
    BY <1>14 DEF FinishStep
  <2>2. PICK out \in Told : Outcome(r) /\ db' = RowDone(db, i, out) /\ Advance(r, out)
    BY <1>14 DEF FinishStep, Full, Told
  <2>3. /\ InStep(r, db, run[r]) /\ run[r].seq < Len(Program[r]) /\ run[r].pc = "returned"
        /\ i \in 1 .. Len(db.rows)
    BY <2>1, <2>2, DuringStep
  <2>4. db'.rows[i].done /\ db'.rows[i].out = out /\ db'.rows[i].name = SlotOf(r).name
    BY <1>1, <1>13, <2>2, <2>3 DEF InStep, SlotOf
  <2> QED BY <2>2, <2>3, <2>4, WalkedAdvance
<1>15. CASE NowStep(r)
  <2>1. PICK a : Fenced(r, a)
    BY <1>15 DEF NowStep
  <2>2. Ready(r) /\ ~HasRow(r) /\ Advance(r, "ok") /\ SlotOf(r).name = NowName
    BY <1>15 DEF NowStep
  <2> DEFINE row == [NewRow(NowName) EXCEPT !.done = TRUE, !.out = "ok"]
  <2>3. db' = [db EXCEPT !.rows = Append(@, row)]
    BY <1>15 DEF NowStep, Full
  <2>4. run[r].pc = "boundary" /\ run[r].seq < Len(Program[r]) /\ Len(db.rows) = run[r].seq
    BY <2>1, <2>2, AtReady, FreshSlot
  <2>5. row.done /\ row.out = "ok" /\ row.name = NowName
    BY DEF NewRow
  <2> HIDE DEF row
  <2>6. db'.rows = Append(db.rows, row)
    BY <1>1, <2>3 DEF Workflows
  <2>7. db'.rows[i] = row
    BY <1>1, <2>4, <2>6
  <2> QED BY <2>2, <2>4, <2>5, <2>7, WalkedAdvance DEF Told
<1>16. CASE SleepStep(r)
  <2>1. PICK a \in 0 .. run[r].age :
          LET wake == IF HasRow(r) THEN db.stepWake ELSE SlotOf(r).until - a
              noted == IF HasRow(r) THEN db
                       ELSE [db EXCEPT !.rows = Append(@, NewRow(Sleep)), !.stepWake = wake] IN
          /\ Fenced(r, a)
          /\ (db' = RowDone(noted, i, "ok") /\ Advance(r, "ok")) \/ EndRun(r)
    BY <1>16 DEF SleepStep, Full
  <2>2. Ready(r) /\ Fenced(r, a) /\ SlotOf(r).name = Sleep
    BY <1>16, <2>1 DEF SleepStep
  <2>3. run[r].pc = "boundary" /\ run[r].seq < Len(Program[r])
    BY <2>2, AtReady
  <2>4. CASE HasRow(r) /\ db' = RowDone(db, i, "ok") /\ Advance(r, "ok")
    <3>1. InStep(r, db, run[r])
      BY <2>2, <2>4, OldSlot
    <3>2. i \in 1 .. Len(db.rows) /\ db.rows[i].name = SlotOf(r).name
      BY <1>1, <3>1 DEF InStep, SlotOf
    <3>3. db'.rows[i].done /\ db'.rows[i].out = "ok" /\ db'.rows[i].name = SlotOf(r).name
      BY <1>1, <1>13, <2>4, <3>2
    <3> QED BY <2>3, <2>4, <3>3, WalkedAdvance DEF Told
  <2>5. CASE ~HasRow(r) /\ Advance(r, "ok") /\ ~EndRun(r)
    <3> DEFINE row == NewRow(Sleep)
               w == SlotOf(r).until - a
               d == [db EXCEPT !.rows = Append(@, row), !.stepWake = w]
    <3>1. db' = RowDone(d, i, "ok")
      BY <2>1, <2>5
    <3>2. w \in Int
      <4>1. run[r].age \in Nat /\ SlotOf(r).until \in Nat
        BY <1>1, <2>3, Slot DEF Runs, Slots
      <4> QED BY <4>1
    <3>3. row \in Rows /\ row.name = Sleep
      BY NewRowTyped DEF Names, NewRow
    <3>4. Len(db.rows) = run[r].seq
      BY <2>2, <2>5, FreshSlot
    <3> HIDE DEF w, row
    <3>5. d \in Workflows
      BY <1>1, <3>2, <3>3, AppendTyped
    <3>6. d.rows = Append(db.rows, row)
      BY <1>1 DEF Workflows
    <3> HIDE DEF d
    <3>7. d.rows \in Seq(Rows) /\ i \in 1 .. Len(d.rows) /\ d.rows[i] = row
      BY <1>1, <3>3, <3>4, <3>6
    <3>8. db'.rows[i].done /\ db'.rows[i].out = "ok" /\ db'.rows[i].name = SlotOf(r).name
      BY <1>13, <2>2, <3>1, <3>3, <3>5, <3>7
    <3> QED BY <2>3, <2>5, <3>8, WalkedAdvance DEF Told
  <2> QED BY <1>2, <2>1, <2>4, <2>5
<1> QED BY <1>4, <1>5, <1>6, <1>7, <1>8, <1>9, <1>10, <1>11, <1>12, <1>14, <1>15, <1>16
        DEF Function

LEMMA WalkedStep ==
    ASSUME IInv, Tidy(db), \A r \in Runners : Walked(r, db, run[r]), [Next]_vars
    PROVE  \A r \in Runners : Walked(r, db', run'[r])
<1> SUFFICES ASSUME NEW r \in Runners PROVE Walked(r, db', run'[r])
  OBVIOUS
<1>1. /\ db \in Workflows /\ run \in [Runners -> Runs] /\ run[r] \in Runs
      /\ Walked(r, db, run[r])
  BY DEF IInv, TypeOK
\* The journal is left alone, or changes hands.
<1> DEFINE Left == \/ /\ db'.rows = db.rows /\ db'.runner = db.runner
                      /\ db'.status = db.status /\ db'.epoch = db.epoch
                   \/ db'.runner # r \/ db'.status # "running"
<1>2. ASSUME Left, run'[r] = run[r] PROVE Walked(r, db', run'[r])
  BY <1>1, <1>2, WalkedSame
<1>3. ASSUME run'[r] = IdleRun PROVE Walked(r, db', run'[r])
  BY <1>3, WalkedIdle
<1>4. ASSUME NEW l, NEW a, NEW t, NEW f, NEW x, Left,
             run'[r] = [run[r] EXCEPT !.leaseLeft = l, !.age = a, !.timer = t, !.renewer = f,
                                      !.lost = x]
      PROVE  Walked(r, db', run'[r])
  <2>1. run'[r].pc = run[r].pc /\ run'[r].seq = run[r].seq
          /\ run'[r].epoch = run[r].epoch /\ run'[r].verdict = run[r].verdict
    BY <1>1, <1>4 DEF Runs
  <2> HIDE DEF Left
  <2> QED BY <1>1, <1>4, <2>1, WalkedSame DEF Left
<1>5. ASSUME NEW s \in Runners, Function(s) PROVE Walked(r, db', run'[r])
  <2>1. CASE s = r
    BY <1>1, <1>5, <2>1, FunctionSelf
  <2>2. CASE s # r
    <3>1. run'[r] = run[r]
      BY <1>1, <1>5, <2>2, FunctionOwner
    <3>2. Left
      BY <1>5, <2>2, FunctionOwner
    <3> QED BY <1>2, <3>1, <3>2
  <2> QED BY <2>1, <2>2
<1>6. ASSUME NEW s \in Runners, Claim(s) PROVE Walked(r, db', run'[r])
  <2>1. PICK a :
          /\ db' = [db EXCEPT !.status = "running", !.runner = s, !.epoch = db.epoch + 1,
                              !.lease = Lease - a, !.wake = WakeFloor]
          /\ run' = [run EXCEPT ![s] = [IdleRun EXCEPT !.pc = "claimed",
                                          !.epoch = db.epoch + 1, !.leaseLeft = Lease - a]]
    BY <1>6 DEF Claim, Normal
  <2>2. CASE s = r
    <3> DEFINE e == [IdleRun EXCEPT !.pc = "claimed", !.epoch = db.epoch + 1,
                                    !.leaseLeft = Lease - a]
    <3>1. e.pc = "claimed"
      BY DEF IdleRun
    <3>2. run'[r] = e
      BY <1>1, <2>1, <2>2
    <3> HIDE DEF e
    <3> QED BY <3>1, <3>2 DEF Walked
  <2>3. CASE s # r
    <3>1. run'[r] = run[r]
      BY <1>1, <2>1, <2>3
    <3>2. db'.runner = s
      BY <1>1, <2>1 DEF Workflows
    <3> QED BY <1>2, <2>3, <3>1, <3>2
  <2> QED BY <2>2, <2>3
<1>7. ASSUME NEW s \in Runners, EndRun(s), db' = db PROVE Walked(r, db', run'[r])
  <2>1. run'[r] = IdleRun \/ run'[r] = run[r]
    BY <1>1, <1>7 DEF EndRun
  <2> QED BY <1>2, <1>3, <1>7, <2>1
\* A run that changes in what the renewer and the clock change.
<1>8. ASSUME NEW s \in Runners, LoseLease(s), db' = db PROVE Walked(r, db', run'[r])
  <2> DEFINE e == [run[s] EXCEPT !.lost = TRUE, !.renewer = "off", !.timer = 0]
  <2>1. e.pc = run[s].pc /\ e.seq = run[s].seq /\ e.epoch = run[s].epoch
          /\ e.verdict = run[s].verdict
    BY <1>1 DEF Runs
  <2>2. run' = [run EXCEPT ![s] = e]
    BY <1>8 DEF LoseLease
  <2> HIDE DEF e
  <2>3. run'[r] = run[r] \/ (s = r /\ run'[r] = e)
    BY <1>1, <2>2
  <2> QED BY <1>1, <1>2, <1>8, <2>1, <2>3, WalkedSame
<1>9. ASSUME NEW s \in Runners, RenewWake(s), ~LoseLease(s) PROVE Walked(r, db', run'[r])
  <2> DEFINE e == [run[s] EXCEPT !.renewer = "renew", !.timer = Interval]
  <2>1. e.pc = run[s].pc /\ e.seq = run[s].seq /\ e.epoch = run[s].epoch
          /\ e.verdict = run[s].verdict
    BY <1>1 DEF Runs
  <2>2. run' = [run EXCEPT ![s] = e] /\ db' = db
    BY <1>9 DEF RenewWake
  <2> HIDE DEF e
  <2>3. run'[r] = run[r] \/ (s = r /\ run'[r] = e)
    BY <1>1, <2>2
  <2> QED BY <1>1, <1>2, <2>1, <2>2, <2>3, WalkedSame
<1>10. ASSUME NEW s \in Runners, RenewTx(s), ~LoseLease(s) PROVE Walked(r, db', run'[r])
  <2> DEFINE l == Lease - (Interval - run[s].timer)
             e == [run[s] EXCEPT !.renewer = "sleep", !.timer = Interval, !.leaseLeft = l]
  <2>1. e.pc = run[s].pc /\ e.seq = run[s].seq /\ e.epoch = run[s].epoch
          /\ e.verdict = run[s].verdict
    BY <1>1 DEF Runs
  <2>2. run' = [run EXCEPT ![s] = e] /\ db' = [db EXCEPT !.lease = l]
    BY <1>10 DEF RenewTx, Normal
  <2> HIDE DEF l
  <2>3. db'.rows = db.rows /\ db'.runner = db.runner /\ db'.status = db.status
          /\ db'.epoch = db.epoch
    BY <1>1, <2>2 DEF Workflows
  <2> HIDE DEF e
  <2>4. run'[r] = run[r] \/ (s = r /\ run'[r] = e)
    BY <1>1, <2>2
  <2> QED BY <1>1, <2>1, <2>3, <2>4, WalkedSame
<1>11. ASSUME NEW s \in Runners,
              \/ Claim(s) \/ Function(s) \/ StoreFails(s)
              \/ Renewal(s) \/ RenewFails(s)
              \/ Stop(s) \/ Shutdown(s) \/ Crash(s) \/ Restart(s) \/ Stall(s) \/ Resume(s)
       PROVE  Walked(r, db', run'[r])
  <2>1. CASE StoreFails(s) \/ Exit(s) \/ Crash(s)
    BY <1>7, <2>1 DEF StoreFails, Exit, Crash
  <2>2. CASE Stop(s) \/ CancelSteps(s) \/ Restart(s) \/ Stall(s) \/ Resume(s)
    BY <1>2, <2>2 DEF Stop, CancelSteps, Restart, Stall, Resume
  <2>3. CASE RenewWake(s) \/ RenewTx(s) \/ RenewFails(s)
    <3>1. LoseLease(s) => (RenewFails(s) \/ RenewWake(s) => db' = db)
      BY DEF RenewFails, RenewWake
    <3>2. RenewFails(s) => LoseLease(s) /\ db' = db
      BY DEF RenewFails
    <3>3. CASE RenewTx(s) /\ LoseLease(s) /\ db' # db
      <4> DEFINE e == [run[s] EXCEPT !.lost = TRUE, !.renewer = "off", !.timer = 0]
                 l == Lease - (Interval - run[s].timer)
                 g == [run[s] EXCEPT !.renewer = "sleep", !.timer = Interval, !.leaseLeft = l]
      <4>1. run' = [run EXCEPT ![s] = e] /\ run' = [run EXCEPT ![s] = g]
        BY <3>3 DEF RenewTx, Normal, LoseLease
      <4>2. e.renewer = "off" /\ g.renewer = "sleep"
        BY <1>1 DEF Runs
      <4> HIDE DEF e, g
      <4>3. e = g
        BY <1>1, <4>1
      <4> QED BY <4>2, <4>3
    <3> QED BY <1>8, <1>9, <1>10, <2>3, <3>1, <3>2, <3>3
  <2> QED BY <1>5, <1>6, <1>11, <2>1, <2>2, <2>3 DEF Renewal, Shutdown
<1>12. CASE StartWithID \/ Cancel \/ Prune
  <2>1. run' = run
    BY <1>12 DEF StartWithID, Cancel, Prune
  <2>2. CASE StartWithID
    <3>1. db'.status = "pending"
      BY <2>2 DEF StartWithID, Full, Absent
    <3> QED BY <1>2, <2>1, <3>1
  <2>3. CASE Cancel
    <3>1. db' = Ended(db, "cancelled") \/ db' = [db EXCEPT !.cancel = TRUE]
      BY <2>3 DEF Cancel, Full
    <3>2. CASE db' = Ended(db, "cancelled")
      <4>1. db'.status = "cancelled"
        BY <1>1, <3>2, EndKinds DEF EndsAs
      <4> QED BY <1>2, <2>1, <4>1
    <3>3. CASE db' = [db EXCEPT !.cancel = TRUE]
      <4>1. Left
        BY <1>1, <3>3 DEF Workflows
      <4> QED BY <1>2, <2>1, <4>1
    <3> QED BY <3>1, <3>2, <3>3
  <2>4. CASE Prune
    <3>1. db'.status = "absent"
      BY <2>4 DEF Prune, Normal, Absent
    <3> QED BY <1>2, <2>1, <3>1
  <2> QED BY <1>12, <2>2, <2>3, <2>4
<1>13. CASE PowerCut
  BY <1>3, <1>13 DEF PowerCut
<1>14. CASE Tick \/ JumpBack
  <2>1. /\ db'.rows = db.rows /\ db'.runner = db.runner
        /\ db'.status = db.status /\ db'.epoch = db.epoch
    BY <1>1, <1>14 DEF Tick, JumpBack, Later, Earlier, Workflows
  <2>3. run'[r].pc = run[r].pc /\ run'[r].seq = run[r].seq
          /\ run'[r].epoch = run[r].epoch /\ run'[r].verdict = run[r].verdict
    <3>2. CASE Tick
      <4>1. run'[r] = [run[r] EXCEPT !.leaseLeft = Down(run[r].leaseLeft, -MaxJumps),
                !.age = IF InStore(r) /\ run[r].age < StoreTimeout THEN run[r].age + 1
                        ELSE run[r].age,
                !.timer = IF Awake(r) THEN Down(run[r].timer, 0) ELSE run[r].timer]
        BY <1>1, <3>2 DEF Tick
      <4> QED BY <1>1, <4>1 DEF Runs
    <3>4. CASE JumpBack
      <4>1. run'[r] = [run[r] EXCEPT !.leaseLeft =
                IF run[r].pc = "idle" THEN run[r].leaseLeft ELSE run[r].leaseLeft + 1]
        BY <1>1, <3>4 DEF JumpBack
      <4> QED BY <1>1, <4>1 DEF Runs
    <3> QED BY <1>14, <3>2, <3>4
  <2> QED BY <1>1, <2>1, <2>3, WalkedSame
<1>15. CASE UNCHANGED vars
  BY <1>2, <1>15 DEF vars
<1> QED BY <1>11, <1>12, <1>13, <1>14, <1>15 DEF Next

LEMMA SucceededStep ==
    ASSUME JInv, [Next]_vars
    PROVE  Succeeded(db)' /\ Succeeded(synced)'
<1>1. IInv /\ Succeeded(db) /\ Succeeded(synced) /\ db \in Workflows
  BY DEF JInv, IInv, TypeOK
<1>2. ASSUME NEW d, NEW e, Alike(d, e), Succeeded(d) PROVE Succeeded(e)
  BY <1>2 DEF Alike, Succeeded, Complete, Through, Active
<1>3. CASE Alike(db, db') /\ Alike(synced, synced')
  <2>1. Succeeded(db') /\ Succeeded(synced')
    BY <1>1, <1>2, <1>3
  <2> QED BY <2>1 DEF Succeeded, Complete, Through
<1>4. ASSUME Full(db'), db'.status # "succeeded" PROVE Succeeded(db)' /\ Succeeded(synced)'
  BY <1>4 DEF Full, Succeeded
<1>5. CASE StartWithID
  <2>1. Full(db') /\ db'.status = "pending"
    BY <1>5 DEF StartWithID, Full, Absent
  <2> QED BY <1>4, <2>1
<1>6. CASE Cancel
  <2>1. Full(db')
    BY <1>6 DEF Cancel, Full
  <2>2. \/ db' = Ended(db, "cancelled")
        \/ db.status = "running" /\ db' = [db EXCEPT !.cancel = TRUE]
    BY <1>6 DEF Cancel, Full
  <2>3. db'.status # "succeeded"
    BY <1>1, <2>2 DEF Ended, Workflows
  <2> QED BY <1>4, <2>1, <2>3
<1>7. CASE Prune
  <2>1. db'.status = "absent" /\ synced' = synced
    BY <1>7 DEF Prune, Normal, Absent
  <2> QED BY <1>1, <2>1 DEF Succeeded, Complete, Through
<1>8. CASE PowerCut
  <2>1. db' = synced /\ synced' = synced
    BY <1>8 DEF PowerCut
  <2> QED BY <1>1, <2>1 DEF Succeeded, Complete, Through
<1>9. ASSUME NEW r \in Runners, Full(db'), Finalize(r), db'.status = "succeeded"
      PROVE  Succeeded(db)' /\ Succeeded(synced)'
  <2>1. PICK a : Fenced(r, a)
    BY <1>9 DEF Finalize
  <2>2. run[r].pc = "finish" /\ db' = Ended(db, run[r].verdict)
    BY <1>9 DEF Finalize, Full
  <2>3. db'.rows = db.rows /\ run[r].verdict = "succeeded"
    BY <1>1, <1>9, <2>2, EndKinds DEF EndsAs
  <2>4. Owns(r, db, run[r])
    BY <2>1, <2>2, Fence
  <2>5. Complete(r, db)
    BY <2>2, <2>3, <2>4 DEF JInv, Walked
  <2>6. Complete(r, db')
    BY <2>3, <2>5 DEF Complete, Through
  <2> QED BY <1>9, <2>6 DEF Full, Succeeded, Complete, Through
<1> QED BY <1>1, <1>3, <1>4, <1>5, <1>6, <1>7, <1>8, <1>9, StepKinds

LEMMA InitEnd == Init => JInv
<1> SUFFICES ASSUME Init PROVE JInv
  OBVIOUS
<1>1. Absent.rows = << >> /\ Absent.status = "absent" /\ ~Absent.cancel
  BY DEF Absent
<1>2. \A r \in Runners : Walked(r, db, run[r])
  BY WalkedIdle DEF Init
<1>3. Tidy(db) /\ Tidy(synced) /\ Tied /\ Succeeded(db) /\ Succeeded(synced)
  BY <1>1 DEF Init, Tidy, Tied, Succeeded
<1> QED BY <1>2, <1>3, InitInv DEF JInv

LEMMA EndStep == JInv /\ [Next]_vars => JInv'
<1> SUFFICES ASSUME JInv, [Next]_vars PROVE JInv'
  OBVIOUS
<1>1. IInv' /\ Tidy(db)' /\ Tidy(synced)' /\ Tied'
  BY InductiveStep, TiedStep DEF JInv
<1>2. \A r \in Runners : Walked(r, db', run'[r])
  BY WalkedStep DEF JInv
<1>3. (\A r \in Runners : Walked(r, db, run[r]))'
  BY <1>2 DEF Walked, Owns, Through, Complete
<1> QED BY <1>1, <1>3, SucceededStep DEF JInv

\* store.go: what the two journals and the owner's walk through them have in common,
\* in every reachable state.
THEOREM JournalTells == Spec => []JInv
BY InitEnd, EndStep, PTL DEF Spec

\* run.go, finalize: a success is recorded only over a journal that has all the
\* function's steps, in order and finished, whoever ran which of them.
THEOREM SuccessCoversAll == Spec => []SuccessIsComplete
<1>1. JInv => SuccessIsComplete
  BY DEF JInv, Succeeded, Complete, Through, SuccessIsComplete
<1> QED BY <1>1, JournalTells, PTL

----------------------------------------------------------------------------
(* What the abstract workflow sees of a journal.                            *)

Record(row) == [name |-> row.name, out |-> row.out]
LogUpTo(rows, n) == [i \in 1 .. n |-> [name |-> rows[i].name, out |-> rows[i].out]]

LEMMA LogIs ==
    ASSUME NEW d
    PROVE  /\ LastOpen(d) => LogOf(d) = LogUpTo(d.rows, Len(d.rows) - 1)
           /\ ~LastOpen(d) => LogOf(d) = LogUpTo(d.rows, Len(d.rows))
BY DEF LogOf, LogUpTo

LEMMA SameLog ==
    ASSUME NEW p, NEW q, NEW n,
           \A i \in 1 .. n : p[i].name = q[i].name /\ p[i].out = q[i].out
    PROVE  LogUpTo(p, n) = LogUpTo(q, n)
BY DEF LogUpTo

LEMMA LongerLog ==
    ASSUME NEW n \in Nat, NEW q, NEW x,
           \A i \in 1 .. n + 1 : q[i].name \in Names /\ q[i].out \in Outs,
           x = [name |-> q[n + 1].name, out |-> q[n + 1].out]
    PROVE  LogUpTo(q, n + 1) = Append(LogUpTo(q, n), x)
<1> DEFINE R == [name : Names, out : Outs]
           s == LogUpTo(q, n)
           t == LogUpTo(q, n + 1)
           u == Append(s, x)
<1>1. x \in R
  <2>1. n + 1 \in 1 .. n + 1
    OBVIOUS
  <2> QED BY <2>1
<1>2. s \in Seq(R) /\ Len(s) = n /\ \A i \in 1 .. n : s[i] = [name |-> q[i].name, out |-> q[i].out]
  <2>1. s \in [1 .. n -> R]
    BY DEF LogUpTo
  <2>2. \A i \in 1 .. n : s[i] = [name |-> q[i].name, out |-> q[i].out]
    BY DEF LogUpTo
  <2> HIDE DEF s, R
  <2> QED BY <2>1, <2>2
<1>3. t \in Seq(R) /\ Len(t) = n + 1
        /\ \A i \in 1 .. n + 1 : t[i] = [name |-> q[i].name, out |-> q[i].out]
  <2>1. t \in [1 .. n + 1 -> R]
    BY DEF LogUpTo
  <2>2. \A i \in 1 .. n + 1 : t[i] = [name |-> q[i].name, out |-> q[i].out]
    BY DEF LogUpTo
  <2> HIDE DEF t, R
  <2> QED BY <2>1, <2>2
<1> HIDE DEF R, s, t
<1>4. u \in Seq(R) /\ Len(u) = n + 1 /\ u[n + 1] = x /\ \A i \in 1 .. n : u[i] = s[i]
  BY <1>1, <1>2
<1> HIDE DEF u
<1>5. \A i \in 1 .. Len(t) : t[i] = u[i]
  <2> TAKE i \in 1 .. Len(t)
  <2>1. i \in 1 .. n \/ i = n + 1
    BY <1>3
  <2> QED BY <1>2, <1>3, <1>4, <2>1
<1>6. t = u
  BY <1>3, <1>4, <1>5, SeqEqual
<1> QED BY <1>6 DEF t, u, s

LEMMA AlikeView ==
    ASSUME NEW d, NEW e, Alike(d, e)
    PROVE  StateOf(e) = StateOf(d) /\ LogOf(e) = LogOf(d) /\ OpenOf(e) = OpenOf(d)
<1>1. e.rows = d.rows
  BY DEF Alike
<1>2. LogOf(e) = LogOf(d) /\ OpenOf(e) = OpenOf(d)
  BY <1>1 DEF LogOf, OpenOf, LastOpen
<1>3. StateOf(e) = StateOf(d)
  BY DEF Alike, StateOf, Active, Terminal
<1> QED BY <1>2, <1>3

LEMMA RowsView ==
    ASSUME NEW d, NEW e, e.rows = d.rows
    PROVE  LogOf(e) = LogOf(d) /\ OpenOf(e) = OpenOf(d)
BY DEF LogOf, OpenOf, LastOpen

NothingOpen == [name |-> "none", tries |-> 0]

\* The journal has no open row.
LEMMA DoneView ==
    ASSUME NEW d \in Workflows, AllDone(d)
    PROVE  /\ ~LastOpen(d) /\ OpenOf(d) = NothingOpen
           /\ LogOf(d) = LogUpTo(d.rows, Len(d.rows))
<1>1. d.rows \in Seq(Rows)
  BY DEF Workflows
<1>2. ~LastOpen(d)
  BY <1>1 DEF LastOpen, AllDone
<1> QED BY <1>2, LogIs DEF OpenOf, NothingOpen

LEMMA OpensView ==
    ASSUME NEW d \in Workflows, NEW e, NEW n \in Names, Opens(d, e, n)
    PROVE  /\ OpenOf(d) = NothingOpen
           /\ LogOf(e) = LogOf(d) /\ OpenOf(e) = [name |-> n, tries |-> 1]
<1> DEFINE row == NewRow(n)
           k == Len(d.rows)
<1>1. d.rows \in Seq(Rows) /\ k \in Nat
  BY DEF Workflows
<1>2. row.name = n /\ row.attempts = 1 /\ ~row.done
  BY DEF NewRow
<1> HIDE DEF row
<1>3. e.rows = Append(d.rows, row) /\ AllDone(d)
  BY DEF Opens, row
<1>4. Len(e.rows) = k + 1 /\ e.rows[k + 1] = row /\ \A i \in 1 .. k : e.rows[i] = d.rows[i]
  BY <1>1, <1>3
<1> HIDE DEF k
<1>5. LastOpen(e)
  BY <1>1, <1>2, <1>4 DEF LastOpen
<1>6. LogOf(e) = LogUpTo(e.rows, k)
  BY <1>1, <1>4, <1>5, LogIs
<1>7. LogUpTo(e.rows, k) = LogUpTo(d.rows, k)
  BY <1>4, SameLog
<1>8. OpenOf(d) = NothingOpen /\ LogOf(d) = LogUpTo(d.rows, k)
  BY <1>3, DoneView DEF k
<1>9. OpenOf(e) = [name |-> n, tries |-> 1]
  BY <1>2, <1>4, <1>5 DEF OpenOf
<1> QED BY <1>6, <1>7, <1>8, <1>9

LEMMA NotesView ==
    ASSUME NEW d \in Workflows, NEW e, NEW n \in Names, Notes(d, e, n)
    PROVE  /\ OpenOf(d) = NothingOpen /\ OpenOf(e) = NothingOpen
           /\ LogOf(e) = Append(LogOf(d), [name |-> n, out |-> "ok"])
<1> DEFINE row == [NewRow(n) EXCEPT !.done = TRUE, !.out = "ok"]
           k == Len(d.rows)
<1>1. d.rows \in Seq(Rows) /\ k \in Nat /\ \A i \in 1 .. k : d.rows[i] \in Rows
  BY DEF Workflows
<1>2. row.name = n /\ row.out = "ok" /\ row.done
  BY DEF NewRow
<1> HIDE DEF row
<1>3. e.rows = Append(d.rows, row) /\ AllDone(d)
  BY DEF Notes, row
<1>4. Len(e.rows) = k + 1 /\ e.rows[k + 1] = row /\ \A i \in 1 .. k : e.rows[i] = d.rows[i]
  BY <1>1, <1>3
<1> HIDE DEF k
<1>5. ~LastOpen(e)
  BY <1>1, <1>2, <1>4 DEF LastOpen
<1>6. LogOf(e) = LogUpTo(e.rows, k + 1) /\ OpenOf(e) = NothingOpen
  BY <1>4, <1>5, LogIs DEF OpenOf, NothingOpen
<1>7. \A i \in 1 .. k + 1 : e.rows[i].name \in Names /\ e.rows[i].out \in Outs
  <2> TAKE i \in 1 .. k + 1
  <2>1. CASE i = k + 1
    BY <1>2, <1>4, <2>1 DEF Outs
  <2>2. CASE i # k + 1
    <3>1. i \in 1 .. k
      BY <1>1, <2>2
    <3> QED BY <1>1, <1>4, <3>1 DEF Rows
  <2> QED BY <2>1, <2>2
<1>8. LogUpTo(e.rows, k + 1) = Append(LogUpTo(e.rows, k), [name |-> n, out |-> "ok"])
  BY <1>1, <1>2, <1>4, <1>7, LongerLog
<1>9. LogUpTo(e.rows, k) = LogUpTo(d.rows, k)
  BY <1>4, SameLog
<1>10. OpenOf(d) = NothingOpen /\ LogOf(d) = LogUpTo(d.rows, k)
  BY <1>3, DoneView DEF k
<1> QED BY <1>6, <1>8, <1>9, <1>10

\* The last row, which is open, replaced by another.
LEMMA ReplacedView ==
    ASSUME NEW d \in Workflows, NEW e, NEW row, LastOpen(d), row.name = Open(d).name,
           e.rows = [d.rows EXCEPT ![Len(d.rows)] = row],
           ~row.done \/ row.out \in Told
    PROVE  /\ Open(d) \in Rows
           /\ OpenOf(d) = [name |-> Open(d).name, tries |-> Open(d).attempts]
           /\ ~row.done => /\ LogOf(e) = LogOf(d)
                           /\ OpenOf(e) = [name |-> Open(d).name, tries |-> row.attempts]
           /\ row.done => /\ OpenOf(e) = NothingOpen
                          /\ LogOf(e) = Append(LogOf(d), [name |-> Open(d).name, out |-> row.out])
<1> DEFINE k == Len(d.rows)
           m == k - 1
<1>1. d.rows \in Seq(Rows) /\ k \in Nat /\ k > 0 /\ \A i \in 1 .. k : d.rows[i] \in Rows
  BY DEF Workflows, LastOpen
<1>1a. m \in Nat /\ k = m + 1 /\ k \in 1 .. k
  BY <1>1
<1>2. /\ Len(e.rows) = k /\ e.rows[k] = row
      /\ \A i \in 1 .. m : e.rows[i] = d.rows[i]
  BY <1>1, <1>1a
<1>3. Open(d) = d.rows[k] /\ Open(d) \in Rows
  BY <1>1, <1>1a DEF Open
<1>4. OpenOf(d) = [name |-> Open(d).name, tries |-> Open(d).attempts]
  BY <1>3 DEF OpenOf
<1>5. LogOf(d) = LogUpTo(d.rows, m)
  BY LogIs
<1> HIDE DEF m, k
<1>6. LogUpTo(e.rows, m) = LogUpTo(d.rows, m)
  <2>1. \A i \in 1 .. m : e.rows[i].name = d.rows[i].name /\ e.rows[i].out = d.rows[i].out
    BY <1>2
  <2> QED BY <2>1 DEF LogUpTo
<1>7. ASSUME ~row.done
      PROVE  /\ LogOf(e) = LogOf(d)
             /\ OpenOf(e) = [name |-> Open(d).name, tries |-> row.attempts]
  <2>1. LastOpen(e)
    BY <1>1, <1>2, <1>7 DEF LastOpen
  <2>2. LogOf(e) = LogUpTo(e.rows, m)
    BY <1>1a, <1>2, <2>1, LogIs
  <2> QED BY <1>2, <1>5, <1>6, <2>1, <2>2 DEF OpenOf
<1>8. ASSUME row.done
      PROVE  /\ OpenOf(e) = NothingOpen
             /\ LogOf(e) = Append(LogOf(d), [name |-> Open(d).name, out |-> row.out])
  <2>1. ~LastOpen(e)
    BY <1>2, <1>8 DEF LastOpen
  <2>2. LogOf(e) = LogUpTo(e.rows, m + 1)
    BY <1>1a, <1>2, <2>1, LogIs
  <2>3. \A i \in 1 .. m + 1 : e.rows[i].name \in Names /\ e.rows[i].out \in Outs
    <3> TAKE i \in 1 .. m + 1
    <3>1. CASE i = m + 1
      BY <1>1a, <1>2, <1>3, <1>8, <3>1 DEF Rows, Told, Outs
    <3>2. CASE i # m + 1
      <4>1. i \in 1 .. m
        BY <1>1a, <3>2
      <4> QED BY <1>1, <1>1a, <1>2, <4>1 DEF Rows
    <3> QED BY <3>1, <3>2
  <2>4. LogUpTo(e.rows, m + 1)
          = Append(LogUpTo(e.rows, m), [name |-> Open(d).name, out |-> row.out])
    BY <1>1a, <1>2, <2>3, LongerLog
  <2> QED BY <1>5, <1>6, <2>1, <2>2, <2>4 DEF OpenOf, NothingOpen
<1> QED BY <1>3, <1>4, <1>7, <1>8

LEMMA StillOpenView ==
    ASSUME NEW d \in Workflows, NEW e, NEW row, LastOpen(d), row.name = Open(d).name,
           e.rows = [d.rows EXCEPT ![Len(d.rows)] = row], ~row.done
    PROVE  /\ OpenOf(d) = [name |-> Open(d).name, tries |-> Open(d).attempts]
           /\ LogOf(e) = LogOf(d)
           /\ OpenOf(e) = [name |-> Open(d).name, tries |-> row.attempts]
<1>1. ~row.done \/ row.out \in Told
  OBVIOUS
<1> QED BY <1>1, ReplacedView

\* A write of a runner is a step of the abstract workflow, or none.
LEMMA WriteMaps ==
    ASSUME JInv, db.status = "running", Full(db'), Writes(db, db'),
           StateOf(synced) = "active", synced.cancel = db.cancel,
           LogOf(synced) = LogOf(db), OpenOf(synced) = OpenOf(db),
           db'.status = "succeeded" => OpenOf(db') = NothingOpen,
           StateOf(synced)' = StateOf(db'), synced'.cancel = db'.cancel,
           LogOf(synced)' = LogOf(db'), OpenOf(synced)' = OpenOf(db')
    PROVE  Durable!Next \/ UNCHANGED Durable!durable
<1>1. db \in Workflows /\ Tidy(db)
  BY DEF JInv, IInv, TypeOK
<1>2. NothingOpen = Durable!NoStep
  BY DEF NothingOpen, Durable!NoStep
<1>3. ASSUME LastOpen(db), Open(db) \in Rows,
             OpenOf(db) = [name |-> Open(db).name, tries |-> Open(db).attempts]
      PROVE  /\ OpenOf(db).name \in Names /\ OpenOf(db).tries \in Nat
             /\ OpenOf(db).tries >= 1 /\ OpenOf(db) # NothingOpen
  <2>1. Len(db.rows) \in 1 .. Len(db.rows)
    BY <1>1, <1>3 DEF LastOpen, Workflows
  <2>2. Open(db).attempts >= 1
    BY <1>1, <2>1 DEF Tidy, Open
  <2> QED BY <1>3, <2>2 DEF Rows, NothingOpen
\* A write after which the workflow goes on.
<1>4. ASSUME GoesOn(db, db')
      PROVE  StateOf(synced)' = "active" /\ synced'.cancel = db.cancel
  BY <1>4 DEF GoesOn, StateOf, Active, Terminal
<1>5. ASSUME GoesOn(db, db'), db'.rows = db.rows
      PROVE  UNCHANGED Durable!durable
  <2>1. LogOf(db') = LogOf(db) /\ OpenOf(db') = OpenOf(db)
    BY <1>5, RowsView
  <2> QED BY <1>4, <1>5, <2>1 DEF Durable!durable
<1>6. ASSUME GoesOn(db, db'), NEW n \in Names, Opens(db, db', n)
      PROVE  Durable!Next
  <2>1. /\ OpenOf(db) = NothingOpen
        /\ LogOf(db') = LogOf(db) /\ OpenOf(db') = [name |-> n, tries |-> 1]
    BY <1>1, <1>6, OpensView
  <2>2. ~db.cancel
    BY <1>6 DEF Opens
  <2>3. Durable!Begin(n)
    BY <1>2, <1>4, <1>6, <2>1, <2>2 DEF Durable!Begin
  <2> QED BY <2>3 DEF Durable!Next
<1>7. ASSUME GoesOn(db, db'), NEW n \in Names, Notes(db, db', n)
      PROVE  Durable!Next
  <2>1. /\ OpenOf(db) = NothingOpen /\ OpenOf(db') = NothingOpen
        /\ LogOf(db') = Append(LogOf(db), [name |-> n, out |-> "ok"])
    BY <1>1, <1>7, NotesView
  <2>2. Durable!Note(n)
    BY <1>2, <1>4, <1>7, <2>1 DEF Durable!Note
  <2> QED BY <2>2 DEF Durable!Next
<1>8. ASSUME GoesOn(db, db'), Repeats(db, db')
      PROVE  Durable!Next
  <2> DEFINE m == Open(db).attempts + 1
             row == [Open(db) EXCEPT !.attempts = m]
  <2>1. /\ LastOpen(db) /\ ~db.cancel /\ Open(db).attempts < MaxStepAttempts
        /\ db'.rows = [db.rows EXCEPT ![Len(db.rows)] = row]
    BY <1>8 DEF Repeats
  <2>2. Open(db) \in Rows /\ ~Open(db).done
    <3>1. db.rows \in Seq(Rows) /\ Len(db.rows) \in 1 .. Len(db.rows)
      BY <1>1, <2>1 DEF Workflows, LastOpen
    <3> QED BY <2>1, <3>1 DEF Open, LastOpen
  <2>3. row.name = Open(db).name /\ row.attempts = m /\ ~row.done
    BY <2>2 DEF Rows
  <2>3a. m = Open(db).attempts + 1
    OBVIOUS
  <2> HIDE DEF row, m
  <2>4. /\ OpenOf(db) = [name |-> Open(db).name, tries |-> Open(db).attempts]
        /\ LogOf(db') = LogOf(db)
        /\ OpenOf(db') = [name |-> Open(db).name, tries |-> m]
    BY <1>1, <2>1, <2>3, StillOpenView
  <2>5. /\ OpenOf(db).name \in Names /\ OpenOf(db).tries \in Nat /\ OpenOf(db).tries >= 1
    BY <1>3, <2>1, <2>2, <2>4
  <2>6. OpenOf(db).tries \in 1 .. MaxStepAttempts - 1
    BY <2>1, <2>4, <2>5, LimitsAssumption
  <2>7. OpenOf(db') = [OpenOf(db) EXCEPT !.tries = @ + 1]
    BY <2>3a, <2>4
  <2> DEFINE n == Open(db).name
  <2>8. Durable!Begin(n)
    BY <1>4, <1>8, <2>1, <2>4, <2>6, <2>7 DEF Durable!Begin
  <2>9. n \in Names
    BY <2>4, <2>5
  <2> QED BY <2>8, <2>9 DEF Durable!Next
<1>9. ASSUME GoesOn(db, db'), Fails(db, db')
      PROVE  UNCHANGED Durable!durable
  <2> DEFINE row == [Open(db) EXCEPT !.failures = Open(db).failures + 1]
  <2>1. LastOpen(db) /\ db'.rows = [db.rows EXCEPT ![Len(db.rows)] = row]
    BY <1>9 DEF Fails
  <2>2. Open(db) \in Rows /\ ~Open(db).done
    <3>1. db.rows \in Seq(Rows) /\ Len(db.rows) \in 1 .. Len(db.rows)
      BY <1>1, <2>1 DEF Workflows, LastOpen
    <3> QED BY <2>1, <3>1 DEF Open, LastOpen
  <2>3. row.name = Open(db).name /\ row.attempts = Open(db).attempts /\ ~row.done
    BY <2>2 DEF Rows
  <2> HIDE DEF row
  <2>4. LogOf(db') = LogOf(db) /\ OpenOf(db') = OpenOf(db)
    BY <1>1, <2>1, <2>3, StillOpenView
  <2> QED BY <1>4, <1>9, <2>4 DEF Durable!durable
<1>10. ASSUME NEW out \in Told, Completes(db, db', out)
       PROVE  /\ OpenOf(db) # NothingOpen /\ OpenOf(db') = NothingOpen
              /\ LogOf(db') = Append(LogOf(db), [name |-> OpenOf(db).name, out |-> out])
  <2> DEFINE row == [Open(db) EXCEPT !.done = TRUE, !.out = out]
  <2>1. LastOpen(db) /\ db'.rows = [db.rows EXCEPT ![Len(db.rows)] = row]
    BY <1>10 DEF Completes
  <2>2. Open(db) \in Rows
    <3>1. db.rows \in Seq(Rows) /\ Len(db.rows) \in 1 .. Len(db.rows)
      BY <1>1, <2>1 DEF Workflows, LastOpen
    <3> QED BY <3>1 DEF Open
  <2>3. row.name = Open(db).name /\ row.done /\ row.out = out
    BY <2>2 DEF Rows
  <2> HIDE DEF row
  <2>4. /\ OpenOf(db) = [name |-> Open(db).name, tries |-> Open(db).attempts]
        /\ OpenOf(db') = NothingOpen
        /\ LogOf(db') = Append(LogOf(db), [name |-> Open(db).name, out |-> out])
    BY <1>1, <2>1, <2>3, ReplacedView
  <2> QED BY <1>3, <2>1, <2>2, <2>4
<1>11. ASSUME GoesOn(db, db'), NEW out \in Told, Completes(db, db', out)
       PROVE  Durable!Next
  <2>1. Durable!Complete(out)
    BY <1>2, <1>4, <1>10, <1>11 DEF Durable!Complete
  <2> QED BY <2>1 DEF Durable!Next, Told
<1>12. ASSUME NEW t \in Terminal, EndsAs(db', t)
       PROVE  StateOf(synced)' = t /\ ~synced'.cancel
  BY <1>12 DEF EndsAs, StateOf, Terminal
<1>13. ASSUME NEW t \in Terminal, EndsAs(db', t), db'.rows = db.rows
       PROVE  Durable!Next
  <2>1. LogOf(db') = LogOf(db) /\ OpenOf(db') = OpenOf(db)
    BY <1>13, RowsView
  <2>2. t = "succeeded" => OpenOf(db) = NothingOpen
    BY <1>13, <2>1 DEF EndsAs
  <2>3. synced'.cancel = FALSE
    BY <1>1, <1>12, <1>13 DEF Full, EndsAs, Writes, JInv, IInv, TypeOK
  <2>4. Durable!End(t)
    BY <1>2, <1>12, <1>13, <2>1, <2>2, <2>3 DEF Durable!End
  <2> QED BY <2>4 DEF Durable!Next, Durable!Ends, Terminal
<1>14. ASSUME Completes(db, db', "err"), EndsAs(db', "failed")
       PROVE  Durable!Next
  <2>1. /\ OpenOf(db) # NothingOpen /\ OpenOf(db') = NothingOpen
        /\ LogOf(db') = Append(LogOf(db), [name |-> OpenOf(db).name, out |-> "err"])
    BY <1>10, <1>14 DEF Told
  <2>2. StateOf(synced)' = "failed" /\ ~synced'.cancel
    BY <1>12, <1>14 DEF Terminal
  <2>3. Durable!End("failed")
    BY <1>2, <2>1, <2>2 DEF Durable!End
  <2> QED BY <2>3 DEF Durable!Next, Durable!Ends
<1>15. CASE GoesOn(db, db') /\ Grows(db, db')
  BY <1>5, <1>6, <1>7, <1>8, <1>9, <1>11, <1>15 DEF Grows
<1>16. CASE db'.rows = db.rows /\ \E t \in Terminal : EndsAs(db', t)
  BY <1>13, <1>16
<1> QED BY <1>14, <1>15, <1>16 DEF Writes

LEMMA ViewStays ==
    /\ StateOf(synced)' = StateOf(synced')
    /\ LogOf(synced)' = LogOf(synced')
    /\ OpenOf(synced)' = OpenOf(synced')
BY DEF StateOf, LogOf, OpenOf, LastOpen, Terminal

LEMMA NoView ==
    ASSUME NEW d, d.rows = << >>
    PROVE  LogOf(d) = << >> /\ OpenOf(d) = NothingOpen
<1>1. ~LastOpen(d) /\ Len(d.rows) = 0
  BY DEF LastOpen
<1>2. OpenOf(d) = NothingOpen
  BY <1>1 DEF OpenOf, NothingOpen
<1>3. LogOf(d) = LogUpTo(d.rows, 0)
  BY <1>1, LogIs
<1>4. LogUpTo(d.rows, 0) = << >>
  BY DEF LogUpTo
<1> QED BY <1>2, <1>3, <1>4

LEMMA InitMaps == Init => Durable!Init
<1> SUFFICES ASSUME Init PROVE Durable!Init
  OBVIOUS
<1>1. Absent.rows = << >> /\ Absent.status = "absent" /\ Absent.cancel = FALSE
  BY DEF Absent
<1>2. synced = Absent
  BY DEF Init
<1>3. StateOf(synced) = "none"
  BY <1>1, <1>2 DEF StateOf, Terminal
<1>4. LogOf(synced) = << >> /\ OpenOf(synced) = NothingOpen
  BY <1>1, <1>2, NoView
<1> QED BY <1>1, <1>2, <1>3, <1>4 DEF Durable!Init, Durable!NoStep, NothingOpen

LEMMA StepMaps ==
    ASSUME JInv, JInv', [Next]_vars
    PROVE  Durable!Next \/ UNCHANGED Durable!durable
<1>1. IInv /\ Tied /\ Tidy(db) /\ db \in Workflows /\ synced \in Workflows
  BY DEF JInv, IInv, TypeOK
<1>2. ASSUME Alike(synced, synced') PROVE UNCHANGED Durable!durable
  <2>1. /\ StateOf(synced') = StateOf(synced) /\ LogOf(synced') = LogOf(synced)
        /\ OpenOf(synced') = OpenOf(synced)
    BY <1>2, AlikeView
  <2>2. synced'.cancel = synced.cancel
    BY <1>2 DEF Alike
  <2> QED BY <2>1, <2>2, ViewStays DEF Durable!durable
<1>3. ASSUME UNCHANGED synced PROVE UNCHANGED Durable!durable
  BY <1>2, <1>3 DEF Alike
<1>4. ASSUME db.status # "absent"
      PROVE  /\ StateOf(synced) = StateOf(db) /\ synced.cancel = db.cancel
             /\ LogOf(synced) = LogOf(db) /\ OpenOf(synced) = OpenOf(db)
  <2>1. Alike(db, synced)
    BY <1>1, <1>4 DEF Tied
  <2> QED BY <2>1, AlikeView DEF Alike
<1>5. CASE StartWithID
  <2> DEFINE d == [Absent EXCEPT !.status = "pending"]
  <2>1. d.rows = << >> /\ d.status = "pending" /\ d.cancel = FALSE
    BY DEF Absent
  <2>2. synced' = d /\ db.status = "absent"
    BY <1>5 DEF StartWithID, Full
  <2> HIDE DEF d
  <2>3. StateOf(d) = "active" /\ LogOf(d) = << >> /\ OpenOf(d) = NothingOpen
    BY <2>1, NoView DEF StateOf, Terminal
  <2>4. synced.status \in {"absent"} \cup Terminal
    BY <1>1, <2>2 DEF Tied
  <2>5. StateOf(synced) \in {"none"} \cup Durable!Ends
    BY <2>4 DEF StateOf, Durable!Ends, Terminal
  <2>6. Durable!Create
    BY <2>1, <2>2, <2>3, <2>5, ViewStays DEF Durable!Create, Durable!NoStep, NothingOpen
  <2> QED BY <2>6 DEF Durable!Next
<1>6. CASE Cancel
  <2>1. db.status # "absent" /\ StateOf(db) = "active"
    BY <1>6 DEF Cancel, StateOf, Terminal
  <2>2. CASE Full(Ended(db, "cancelled"))
    <3> DEFINE e == Ended(db, "cancelled")
    <3>1. e.rows = db.rows /\ e.status = "cancelled" /\ ~e.cancel
      BY <1>1, EndKinds DEF EndsAs
    <3>1a. e.cancel = FALSE
      BY <1>1 DEF Ended, Workflows
    <3>2. synced' = e
      BY <2>2 DEF Full
    <3> HIDE DEF e
    <3>3. LogOf(e) = LogOf(db) /\ OpenOf(e) = OpenOf(db)
      BY <3>1, RowsView
    <3>4. StateOf(e) = "cancelled"
      BY <3>1 DEF StateOf, Terminal
    <3>5. Durable!End("cancelled")
      BY <1>4, <2>1, <3>1a, <3>2, <3>3, <3>4, ViewStays DEF Durable!End
    <3> QED BY <3>5 DEF Durable!Next, Durable!Ends
  <2>3. CASE Full([db EXCEPT !.cancel = TRUE])
    <3> DEFINE e == [db EXCEPT !.cancel = TRUE]
    <3>1. e.rows = db.rows /\ e.status = db.status /\ e.cancel = TRUE
      BY <1>1 DEF Workflows
    <3>2. synced' = e
      BY <2>3 DEF Full
    <3> HIDE DEF e
    <3>3. LogOf(e) = LogOf(db) /\ OpenOf(e) = OpenOf(db)
      BY <3>1, RowsView
    <3>4. StateOf(e) = StateOf(db)
      BY <3>1 DEF StateOf
    <3>5. Durable!Ask
      BY <1>4, <2>1, <3>1, <3>2, <3>3, <3>4, ViewStays DEF Durable!Ask
    <3> QED BY <3>5 DEF Durable!Next
  <2> QED BY <1>6, <2>2, <2>3 DEF Cancel
<1>7. CASE Prune \/ PowerCut
  BY <1>3, <1>7 DEF Prune, Normal, PowerCut
<1>8. CASE db.status = "running" /\ Full(db') /\ Writes(db, db')
  <2>1. StateOf(db) = "active" /\ db.status # "absent"
    BY <1>8 DEF StateOf, Terminal
  <2>2. synced' = db'
    BY <1>8 DEF Full
  <2>3. db' \in Workflows /\ Succeeded(db)'
    BY DEF JInv, IInv, TypeOK
  <2>4. ASSUME db'.status = "succeeded" PROVE OpenOf(db') = NothingOpen
    <3>1. AllDone(db')
      BY <2>3, <2>4 DEF Succeeded, Complete, Through, AllDone
    <3> QED BY <2>3, <3>1, DoneView
  <2>5. /\ StateOf(synced)' = StateOf(db') /\ synced'.cancel = db'.cancel
        /\ LogOf(synced)' = LogOf(db') /\ OpenOf(synced)' = OpenOf(db')
    BY <2>2, ViewStays
  <2> QED BY <1>4, <1>8, <2>1, <2>4, <2>5, WriteMaps
<1> QED BY <1>1, <1>2, <1>5, <1>6, <1>7, <1>8, StepKinds

\* doc.go, Model: what survives a power cut behaves as the abstract workflow, which
\* knows no runners, leases, clocks or crashes.
THEOREM DurableIsImplemented == Spec => ImplementsDurable
<1>1. JInv /\ JInv' /\ [Next]_vars => [Durable!Next]_(Durable!durable)
  BY StepMaps
<1> QED BY <1>1, InitMaps, JournalTells, PTL DEF Spec, ImplementsDurable, Durable!Spec

----------------------------------------------------------------------------
(* StepExclusive.  Time decides: an owner's view of its lease is never longer *)
(* than the lease, a takeover waits for the grace period, and the renewals of *)
(* a process that was never suspended come in time (XInv).                    *)

\* A run in which a step may be acting, or may come to act: it has not noticed that
\* its lease is gone.
InRun(u) == u.pc \in {"claimed", "boundary", "running", "returned"} /\ ~u.lost

\* What an action of the function leaves of the run: its end, a start, or a run with
\* the same lease and renewer and a clock reading just taken.
Over(u) == u.pc \in {"idle", "finish", "interrupt"} /\ u.timer = 0
SameTimes(u, v) ==
    /\ v.epoch = u.epoch /\ v.lost = u.lost /\ v.leaseLeft = u.leaseLeft
    /\ v.renewer = u.renewer /\ v.timer = u.timer /\ v.age = 0
Starts(u, v) ==
    /\ u.pc = "claimed" /\ v.pc = "boundary"
    /\ v.epoch = u.epoch /\ v.lost = u.lost /\ v.leaseLeft = u.leaseLeft
    /\ v.renewer = "sleep" /\ v.timer = Interval /\ v.age = 0
GoesRound(r, u, v) ==
    /\ SameTimes(u, v)
    /\ \/ u.pc = "boundary" /\ v.pc = "running" /\ \E a \in 0 .. u.age : Fenced(r, a)
       \/ u.pc = "running" /\ v.pc = "returned"
       \/ u.pc \in {"boundary", "returned"} /\ v.pc = "boundary"
Proceeds(r, u, v) ==
    \/ Over(v)
    \/ Starts(u, v) /\ db' = db
    \/ GoesRound(r, u, v) /\ db'.status = db.status

LEMMA AdvanceTimes ==
    ASSUME run \in [Runners -> Runs], NEW r \in Runners, NEW out, Advance(r, out),
           run[r].pc \in {"boundary", "returned"}, db'.status = db.status
    PROVE  Proceeds(r, run[r], run'[r])
<1>1. CASE FinishWith(r, "failed")
  <2> DEFINE e == Finishing(run[r], "failed")
  <2>1. e.pc = "finish" /\ e.timer = 0
    BY DEF Finishing, Runs
  <2>2. run'[r] = e
    BY <1>1 DEF FinishWith, Finishing
  <2> HIDE DEF e
  <2> QED BY <2>1, <2>2 DEF Proceeds, Over
<1>2. CASE ~FinishWith(r, "failed")
  <2> DEFINE n == run[r].seq + 1
             e == [run[r] EXCEPT !.pc = "boundary", !.seq = n, !.retrying = FALSE,
                                 !.attempt = 0, !.result = "none", !.age = 0]
  <2>1. run' = [run EXCEPT ![r] = e]
    BY <1>2 DEF Advance
  <2> HIDE DEF n
  <2>2. e.pc = "boundary" /\ SameTimes(run[r], e)
    BY DEF Runs, SameTimes
  <2> HIDE DEF e
  <2>3. run'[r] = e
    BY <2>1
  <2> QED BY <2>2, <2>3 DEF Proceeds, GoesRound
<1> QED BY <1>1, <1>2

LEMMA FunctionTiming ==
    ASSUME IInv, NEW r \in Runners, Function(r)
    PROVE  Proceeds(r, run[r], run'[r])
<1> DEFINE i == run[r].seq + 1
<1>1. /\ db \in Workflows /\ db.rows \in Seq(Rows) /\ run \in [Runners -> Runs]
      /\ run[r] \in Runs
  BY DEF IInv, TypeOK, Workflows
<1>2. ASSUME EndRun(r) PROVE Proceeds(r, run[r], run'[r])
  <2>1. run'[r] = IdleRun
    BY <1>1, <1>2 DEF EndRun
  <2> QED BY <2>1 DEF IdleRun, Proceeds, Over
<1>3. ASSUME Interrupt(r) PROVE Proceeds(r, run[r], run'[r])
  <2> DEFINE e == [run[r] EXCEPT !.pc = "interrupt", !.age = 0, !.renewer = "off", !.timer = 0]
  <2>1. e.pc = "interrupt" /\ e.timer = 0
    BY <1>1 DEF Runs
  <2>2. run'[r] = e
    BY <1>1, <1>3 DEF Interrupt
  <2> HIDE DEF e
  <2> QED BY <2>1, <2>2 DEF Proceeds, Over
<1>4. ASSUME NEW v, FinishWith(r, v) PROVE Proceeds(r, run[r], run'[r])
  <2> DEFINE e == Finishing(run[r], v)
  <2>1. e.pc = "finish" /\ e.timer = 0
    BY <1>1 DEF Finishing, Runs
  <2>2. run'[r] = e
    BY <1>1, <1>4 DEF FinishWith, Finishing
  <2> HIDE DEF e
  <2> QED BY <2>1, <2>2 DEF Proceeds, Over
<1>5. CASE \/ NonDeterministic(r) \/ ReturnNil(r) \/ HaltAtBoundary(r) \/ StepInterrupted(r)
           \/ StillBackingOff(r) \/ CancelAtBoundary(r) \/ FailWorkflow(r)
           \/ FencedOut(r) \/ Finalize(r) \/ Release(r)
  BY <1>2, <1>3, <1>4, <1>5
     DEF NonDeterministic, ReturnNil, HaltAtBoundary, StepInterrupted,
         StillBackingOff, CancelAtBoundary, FailWorkflow, FencedOut, Finalize, Release
<1>6. CASE Load(r)
  <2>1. CASE EndRun(r)
    BY <1>2, <2>1
  <2>2. CASE ~EndRun(r)
    <3> DEFINE e == [run[r] EXCEPT !.pc = "boundary", !.rows = db.rows, !.age = 0,
                                   !.renewer = "sleep", !.timer = Interval]
    <3>1. run'[r] = e /\ run[r].pc = "claimed" /\ db' = db
      BY <1>1, <1>6, <2>2 DEF Load
    <3>2. run[r].pc = "claimed" => Starts(run[r], e)
      BY <1>1 DEF Runs, Starts
    <3> HIDE DEF e
    <3> QED BY <3>1, <3>2 DEF Proceeds
  <2> QED BY <2>1, <2>2
<1>7. CASE Return(r)
  <2>1. PICK res \in Results :
          run' = [run EXCEPT ![r] = [run[r] EXCEPT !.pc = "returned", !.result = res, !.age = 0]]
    BY <1>7 DEF Return
  <2> DEFINE e == [run[r] EXCEPT !.pc = "returned", !.result = res, !.age = 0]
  <2>2. e.pc = "returned" /\ SameTimes(run[r], e)
    BY <1>1 DEF Runs, SameTimes
  <2>3. run'[r] = e
    BY <1>1, <2>1
  <2>4. run[r].pc = "running" /\ db' = db
    BY <1>7 DEF Return
  <2> HIDE DEF e
  <2> QED BY <2>2, <2>3, <2>4 DEF Proceeds, GoesRound
<1>8. CASE BeginFirst(r) \/ BeginAgain(r)
  <2>1. \/ EndRun(r)
        \/ \E n, row : LET m == db.rows[i].attempts + 1 IN
             /\ run' = [run EXCEPT ![r] = [run[r] EXCEPT !.pc = "running",
                                                           !.attempt = n, !.age = 0]]
             /\ \/ db' = [db EXCEPT !.rows = Append(@, row), !.stepWake = WakeFloor]
                \/ db' = [db EXCEPT !.rows[i].attempts = m, !.stepWake = WakeFloor]
    BY <1>8 DEF BeginFirst, BeginAgain, Call, Full
  <2>2. run[r].pc = "boundary" /\ \E a \in 0 .. run[r].age : Fenced(r, a)
    BY <1>8, AtReady DEF BeginFirst, BeginAgain
  <2>3. CASE ~EndRun(r)
    <3>1. PICK n, row : LET m == db.rows[i].attempts + 1 IN
             /\ run' = [run EXCEPT ![r] = [run[r] EXCEPT !.pc = "running",
                                                           !.attempt = n, !.age = 0]]
             /\ \/ db' = [db EXCEPT !.rows = Append(@, row), !.stepWake = WakeFloor]
                \/ db' = [db EXCEPT !.rows[i].attempts = m, !.stepWake = WakeFloor]
      BY <2>1, <2>3
    <3> DEFINE e == [run[r] EXCEPT !.pc = "running", !.attempt = n, !.age = 0]
    <3>2. e.pc = "running" /\ SameTimes(run[r], e)
      BY <1>1 DEF Runs, SameTimes
    <3>3. run'[r] = e
      BY <1>1, <3>1
    <3> DEFINE m == db.rows[i].attempts + 1
    <3>4. \/ db' = [db EXCEPT !.rows = Append(@, row), !.stepWake = WakeFloor]
          \/ db' = [db EXCEPT !.rows[i].attempts = m, !.stepWake = WakeFloor]
      BY <3>1
    <3> HIDE DEF e, m, i
    <3>5. db'.status = db.status
      BY <1>1, <3>4 DEF Workflows
    <3> QED BY <2>2, <3>2, <3>3, <3>5 DEF Proceeds, GoesRound
  <2> QED BY <1>2, <2>3
<1>9. CASE RetryStep(r)
  <2> DEFINE e == [run[r] EXCEPT !.pc = "boundary", !.retrying = TRUE, !.attempt = 0,
                                 !.result = "none", !.age = 0]
  <2>1. \/ EndRun(r)
        \/ /\ run' = [run EXCEPT ![r] = e]
           /\ \E w : db' = [db EXCEPT !.rows[i].failures = @ + 1, !.stepWake = w]
    BY <1>9 DEF RetryStep, Full
  <2>2. e.pc = "boundary" /\ SameTimes(run[r], e)
    BY <1>1 DEF Runs, SameTimes
  <2>3. run[r].pc = "returned"
    BY <1>9 DEF RetryStep, Outcome
  <2> HIDE DEF e
  <2>4. CASE ~EndRun(r)
    <3>1. PICK w : db' = [db EXCEPT !.rows[i].failures = @ + 1, !.stepWake = w]
      BY <2>1, <2>4
    <3>2. run'[r] = e
      BY <1>1, <2>1, <2>4
    <3> DEFINE m == db.rows[i].failures + 1
    <3>3. db' = [db EXCEPT !.rows[i].failures = m, !.stepWake = w]
      BY <3>1
    <3> HIDE DEF m, i
    <3>4. db'.status = db.status
      BY <1>1, <3>3 DEF Workflows
    <3> QED BY <2>2, <2>3, <3>2, <3>4 DEF Proceeds, GoesRound
  <2> QED BY <1>2, <2>4
<1>10. CASE Replay(r)
  <2>1. Advance(r, LocalRow(r).out) /\ db' = db /\ run[r].pc = "boundary"
    BY <1>10 DEF Replay, AtSlot
  <2> QED BY <1>1, <2>1, AdvanceTimes
<1>11. ASSUME NEW d \in Workflows, NEW out PROVE RowDone(d, i, out).status = d.status
  <2> HIDE DEF i
  <2> QED BY <1>11 DEF RowDone, Workflows
<1>12. CASE FinishStep(r)
  <2>1. PICK out : Outcome(r) /\ db' = RowDone(db, i, out) /\ Advance(r, out)
    BY <1>12 DEF FinishStep, Full
  <2>2. run[r].pc = "returned"
    BY <2>1 DEF Outcome
  <2>3. db'.status = db.status
    BY <1>1, <1>11, <2>1
  <2> QED BY <1>1, <2>1, <2>2, <2>3, AdvanceTimes
<1>13. CASE NowStep(r)
  <2> DEFINE row == [NewRow(NowName) EXCEPT !.done = TRUE, !.out = "ok"]
  <2>1. Ready(r) /\ Advance(r, "ok") /\ db' = [db EXCEPT !.rows = Append(@, row)]
    BY <1>13 DEF NowStep, Full
  <2>2. run[r].pc = "boundary"
    BY <2>1, AtReady
  <2> HIDE DEF row
  <2>3. db'.status = db.status
    BY <1>1, <2>1 DEF Workflows
  <2> QED BY <1>1, <2>1, <2>2, <2>3, AdvanceTimes
<1>14. CASE SleepStep(r)
  <2>1. \/ EndRun(r)
        \/ /\ Advance(r, "ok")
           /\ \E w : \/ db' = RowDone(db, i, "ok")
                     \/ db' = RowDone([db EXCEPT !.rows = Append(@, NewRow(Sleep)),
                                                 !.stepWake = w], i, "ok")
    BY <1>14 DEF SleepStep, Full
  <2>2. run[r].pc = "boundary"
    BY <1>14, AtReady DEF SleepStep
  <2>3. CASE ~EndRun(r)
    <3>1. PICK w : \/ db' = RowDone(db, i, "ok")
                   \/ db' = RowDone([db EXCEPT !.rows = Append(@, NewRow(Sleep)),
                                               !.stepWake = w], i, "ok")
      BY <2>1, <2>3
    <3> DEFINE row == NewRow(Sleep)
               d == [db EXCEPT !.rows = Append(@, row), !.stepWake = w]
    <3> HIDE DEF row, i
    <3>2. db'.status = db.status
      BY <1>1, <3>1 DEF RowDone, Workflows, row
    <3> QED BY <1>1, <2>1, <2>2, <2>3, <3>2, AdvanceTimes
  <2> QED BY <1>2, <2>3
<1> QED BY <1>5, <1>6, <1>7, <1>8, <1>9, <1>10, <1>12, <1>13, <1>14 DEF Function

\* What the code makes of the times: the renewal interval is a third of the lease
\* (engine.go, leaseDuration/3), New rejects a grace period shorter than it, and the
\* clock is set back by no more than the grace period.
Margins == Interval < Lease /\ Interval <= Grace /\ MaxJumps <= Grace

\* The owner's view of its lease is no longer than the lease; a runner that lost the
\* workflow has seen its lease run out, but for what the clock may still be set back.
Lapsing(r, d, u, j) ==
    InRun(u) => \/ u.leaseLeft <= j - MaxJumps
                \/ Owns(r, d, u) /\ u.leaseLeft <= d.lease

\* Time since the last renewal ended or, during one, since its clock reading.
Since(u) == Interval - u.timer
\* The lease lasts until the renewal under way ends, or the next one does.
Renewed(d, u) ==
    \/ d.lease >= 1 - Since(u)
    \/ u.renewer = "sleep" /\ d.lease >= Lease - Interval - Since(u)
\* While no process was ever suspended: who is in a step owns the workflow.
Holding(r, d, u) ==
    /\ u.timer <= Interval
    /\ InRun(u) /\ u.pc # "claimed" => u.renewer \in {"sleep", "renew"}
    /\ InRun(u) /\ u.pc \in {"running", "returned"} => Owns(r, d, u) /\ Renewed(d, u)
    /\ InRun(u) /\ u.pc = "boundary" /\ Owns(r, d, u) =>
         Renewed(d, u) \/ (u.renewer = "sleep" /\ u.age <= Since(u))

Leased(r, d, u, j, n) == Lapsing(r, d, u, j) /\ (n = 0 => Holding(r, d, u))

XInv ==
    /\ IInv
    /\ jumps <= MaxJumps
    /\ stalls = 0 => stalled = {}
    /\ \A r \in Runners : Leased(r, db, run[r], jumps, stalls)

SameLease(d, e) ==
    e.status = d.status /\ e.runner = d.runner /\ e.epoch = d.epoch /\ e.lease = d.lease

LEMMA LeasedSame ==
    ASSUME NEW r, NEW d, NEW e, SameLease(d, e), NEW u, NEW j, NEW n, NEW m,
           m = n \/ m # 0, Leased(r, d, u, j, n)
    PROVE  Leased(r, e, u, j, m)
BY DEF Leased, Lapsing, Holding, Renewed, Owns, SameLease

\* A journal in other hands, before and after.
LEMMA LeasedElse ==
    ASSUME NEW r, NEW d, NEW e, NEW u, NEW j, NEW n, ~Owns(r, d, u), ~Owns(r, e, u),
           Leased(r, d, u, j, n)
    PROVE  Leased(r, e, u, j, n)
BY DEF Leased, Lapsing, Holding

LEMMA LeasedOver ==
    ASSUME NEW r, NEW d, NEW u, NEW j, NEW n, Over(u) \/ (u.lost /\ u.timer = 0)
    PROVE  Leased(r, d, u, j, n)
<1>1. ~InRun(u) /\ u.timer = 0 /\ 0 <= Interval
  BY LimitsAssumption DEF Over, InRun
<1> QED BY <1>1 DEF Leased, Lapsing, Holding

\* A takeover waits until the lease is over by the grace period.
LEMMA LeasedTaken ==
    ASSUME Margins, NEW r, NEW d \in Workflows, NEW e, NEW u \in Runs, NEW j \in Nat, NEW n,
           NEW a \in Nat, d.lease + Grace + a <= 0, ~Owns(r, e, u), Leased(r, d, u, j, n)
    PROVE  Leased(r, e, u, j, n)
<1>1. /\ d.lease \in Int /\ u.leaseLeft \in Int /\ u.timer \in Nat
      /\ Interval \in Nat /\ Grace \in Nat /\ Lease \in Nat /\ MaxJumps \in Nat
  BY LimitsAssumption DEF Workflows, Runs
<1>2. u.leaseLeft <= d.lease => u.leaseLeft <= j - MaxJumps
  BY <1>1 DEF Margins
<1>3. Lapsing(r, e, u, j)
  BY <1>2 DEF Leased, Lapsing
<1>4. u.timer <= Interval => ~Renewed(d, u)
  BY <1>1 DEF Renewed, Since, Margins
<1>5. Holding(r, d, u) => Holding(r, e, u)
  BY <1>4 DEF Holding
<1> QED BY <1>3, <1>5 DEF Leased

LEMMA LeasedClaimed ==
    ASSUME NEW r \in Runners, NEW d, NEW l, NEW c, NEW n, NEW j,
           d.status = "running", d.runner = r, d.epoch = c, d.lease = l, l \in Int
    PROVE  Leased(r, d, [IdleRun EXCEPT !.pc = "claimed", !.epoch = c, !.leaseLeft = l], j, n)
<1> DEFINE e == [IdleRun EXCEPT !.pc = "claimed", !.epoch = c, !.leaseLeft = l]
<1>1. e.pc = "claimed" /\ e.epoch = c /\ e.leaseLeft = l /\ e.timer = 0
  BY DEF IdleRun
<1> HIDE DEF e
<1>2. Owns(r, d, e) /\ e.leaseLeft <= d.lease /\ e.timer <= Interval
  BY <1>1, LimitsAssumption DEF Owns
<1>3. Leased(r, d, e, j, n)
  BY <1>1, <1>2 DEF Leased, Lapsing, Holding
<1> QED BY <1>3 DEF e

LEMMA LeasedStarts ==
    ASSUME NEW r, NEW d, NEW u, NEW v, NEW j, NEW n, Starts(u, v), Leased(r, d, u, j, n)
    PROVE  Leased(r, d, v, j, n)
<1>1. InRun(v) => InRun(u)
  BY DEF Starts, InRun
<1>2. Owns(r, d, u) => Owns(r, d, v)
  BY DEF Starts, Owns
<1>3. Lapsing(r, d, v, j)
  BY <1>1, <1>2 DEF Leased, Lapsing, Starts
<1>4. v.age = 0 /\ Since(v) = 0 /\ v.timer <= Interval /\ v.renewer = "sleep"
        /\ v.pc = "boundary"
  BY LimitsAssumption DEF Starts, Since
<1>5. Holding(r, d, v)
  BY <1>4 DEF Holding
<1> QED BY <1>3, <1>5 DEF Leased

\* A call begins with a fence that held at a clock reading of the run.
LEMMA LeasedRound ==
    ASSUME NEW r \in Runners, NEW u \in Runs, NEW v, NEW j, NEW n, db \in Workflows,
           GoesRound(r, u, v), u = run[r], Leased(r, db, u, j, n)
    PROVE  Leased(r, db, v, j, n)
<1>1. /\ db.lease \in Int /\ u.timer \in Nat /\ u.age \in Nat
      /\ Interval \in Nat /\ Lease \in Nat
  BY LimitsAssumption DEF Workflows, Runs
<1>2. /\ InRun(u) <=> InRun(v)
      /\ v.leaseLeft = u.leaseLeft /\ v.renewer = u.renewer /\ v.timer = u.timer /\ v.age = 0
      /\ u.pc # "claimed"
  BY DEF GoesRound, SameTimes, InRun
<1>3. Owns(r, db, u) <=> Owns(r, db, v)
  BY DEF GoesRound, SameTimes, Owns
<1>4. Lapsing(r, db, v, j)
  BY <1>2, <1>3 DEF Leased, Lapsing
<1>5. Renewed(db, u) <=> Renewed(db, v)
  BY <1>2 DEF Renewed, Since
<1>6. ASSUME Holding(r, db, u) PROVE Holding(r, db, v)
  <2>1. CASE u.pc = "boundary" /\ v.pc = "running" /\ \E a \in 0 .. u.age : Fenced(r, a)
    <3>1. PICK a \in 0 .. u.age : Fenced(r, a)
      BY <2>1
    <3>2. Owns(r, db, u) /\ db.lease >= 1 - a
      BY <1>1, <2>1, <3>1 DEF Fenced, Owns
    <3>3. InRun(u) => Renewed(db, u)
      BY <1>1, <1>6, <2>1, <3>1, <3>2 DEF Holding, Renewed, Since
    <3> QED BY <1>2, <1>3, <1>5, <1>6, <2>1, <3>2, <3>3 DEF Holding
  <2>2. CASE u.pc = "running" /\ v.pc = "returned"
    BY <1>2, <1>3, <1>5, <1>6, <2>2 DEF Holding
  <2>3. CASE u.pc \in {"boundary", "returned"} /\ v.pc = "boundary"
    <3>1. u.age <= Since(u) => v.age <= Since(v)
      BY <1>1, <1>2 DEF Since
    <3> QED BY <1>2, <1>3, <1>5, <1>6, <2>3, <3>1 DEF Holding
  <2> QED BY <2>1, <2>2, <2>3 DEF GoesRound
<1> QED BY <1>4, <1>6 DEF Leased

\* The renewer wakes before the lease it knows is over, and so before the lease is.
LEMMA LeasedWakes ==
    ASSUME NEW r, NEW d \in Workflows, NEW u \in Runs, NEW v, NEW j \in Nat, NEW n,
           j <= MaxJumps, u.leaseLeft > 0, u.timer = 0,
           v.pc = u.pc, v.lost = u.lost, v.epoch = u.epoch, v.leaseLeft = u.leaseLeft,
           v.age = u.age, v.renewer = "renew", v.timer = Interval, Leased(r, d, u, j, n)
    PROVE  Leased(r, d, v, j, n)
<1>1. /\ d.lease \in Int /\ u.leaseLeft \in Int
      /\ Interval \in Nat /\ Lease \in Nat /\ MaxJumps \in Nat
  BY LimitsAssumption DEF Workflows, Runs
<1>2. InRun(u) <=> InRun(v)
  BY DEF InRun
<1>3. Owns(r, d, u) <=> Owns(r, d, v)
  BY DEF Owns
<1>4. Lapsing(r, d, v, j)
  BY <1>2, <1>3 DEF Leased, Lapsing
<1>5. InRun(u) => d.lease >= 1
  BY <1>1 DEF Leased, Lapsing
<1>6. InRun(u) => Renewed(d, v)
  BY <1>1, <1>5 DEF Renewed, Since
<1>7. Holding(r, d, u) => Holding(r, d, v)
  BY <1>1, <1>2, <1>3, <1>6 DEF Holding
<1> QED BY <1>4, <1>7 DEF Leased

\* A renewal counts the new lease from its clock reading.
LEMMA LeasedRenewed ==
    ASSUME Margins, NEW r, NEW d \in Workflows, NEW e, NEW u \in Runs, NEW v, NEW j, NEW n,
           NEW l, l = Lease - (Interval - u.timer), e.lease = l,
           Owns(r, e, u), v.pc = u.pc, v.lost = u.lost, v.epoch = u.epoch, v.leaseLeft = l,
           v.renewer = "sleep", v.timer = Interval, Leased(r, d, u, j, n)
    PROVE  Leased(r, e, v, j, n)
<1>1. u.timer \in Nat /\ Interval \in Nat /\ Lease \in Nat
  BY LimitsAssumption DEF Runs
<1>2. Owns(r, e, v) /\ v.leaseLeft <= e.lease
  BY <1>1 DEF Owns
<1>3. Renewed(e, v)
  BY <1>1 DEF Renewed, Since
<1> QED BY <1>1, <1>2, <1>3 DEF Leased, Lapsing, Holding

\* What one unit of time does to the lease and to a run of runner r.
LEMMA LeasedTicks ==
    ASSUME NEW r \in Runners, db \in Workflows, run[r] \in Runs, NEW e, NEW v,
           NEW j \in Nat, NEW n, n = 0 => Awake(r), MayTick(r),
           e.status = db.status, e.runner = db.runner, e.epoch = db.epoch,
           e.lease = Down(db.lease, LeaseFloor),
           v.pc = run[r].pc, v.lost = run[r].lost, v.epoch = run[r].epoch,
           v.renewer = run[r].renewer, v.leaseLeft = Down(run[r].leaseLeft, -MaxJumps),
           v.age = run[r].age \/ v.age = run[r].age + 1,
           v.timer = IF Awake(r) THEN Down(run[r].timer, 0) ELSE run[r].timer,
           Leased(r, db, run[r], j, n)
    PROVE  Leased(r, e, v, j, n)
<1> DEFINE u == run[r]
<1>1. /\ db.lease \in Int /\ u.leaseLeft \in Int /\ u.timer \in Nat /\ u.age \in Nat
      /\ Interval \in Nat /\ Lease \in Nat /\ MaxJumps \in Nat
      /\ LeaseFloor \in Int
  BY LimitsAssumption, FloorsTyped DEF Workflows, Runs
<1>2. /\ e.lease >= db.lease - 1 /\ v.leaseLeft \in Int
      /\ v.leaseLeft <= u.leaseLeft - 1 \/ v.leaseLeft = -MaxJumps
  BY <1>1 DEF Down
<1>3. (InRun(u) <=> InRun(v)) /\ (Owns(r, db, u) <=> Owns(r, e, v))
  BY DEF InRun, Owns
<1>4. Lapsing(r, db, u, j)
  BY DEF Leased
<1>5. Lapsing(r, e, v, j)
  <2>1. CASE v.leaseLeft = -MaxJumps
    BY <1>1, <2>1 DEF Lapsing
  <2>2. CASE v.leaseLeft <= u.leaseLeft - 1 /\ u.leaseLeft <= j - MaxJumps
    <3>1. v.leaseLeft <= j - MaxJumps
      BY <1>1, <1>2, <2>2
    <3> QED BY <3>1 DEF Lapsing
  <2>3. CASE v.leaseLeft <= u.leaseLeft - 1 /\ Owns(r, db, u) /\ u.leaseLeft <= db.lease
    <3>1. e.lease \in Int
      BY <1>1 DEF Down
    <3>2. v.leaseLeft <= e.lease
      BY <1>1, <1>2, <2>3, <3>1
    <3> QED BY <1>3, <2>3, <3>2 DEF Lapsing
  <2>4. CASE ~InRun(u)
    BY <1>3, <2>4 DEF Lapsing
  <2> QED BY <1>2, <1>4, <2>1, <2>2, <2>3, <2>4 DEF Lapsing
<1>6. ASSUME n = 0 PROVE Holding(r, e, v)
  <2>1. Holding(r, db, u) /\ Awake(r)
    BY <1>6 DEF Leased
  <2>2. v.timer <= Interval /\ v.timer = Down(u.timer, 0)
    BY <1>1, <2>1 DEF Holding, Down
  <2>3. u.renewer # "off" => v.timer = u.timer - 1
    BY <1>1, <2>1, <2>2 DEF MayTick, Down
  <2>4. u.renewer \in {"sleep", "renew"} => Since(v) = Since(u) + 1
    BY <1>1, <2>3 DEF Since
  <2>5. e.lease \in Int
    BY <1>1 DEF Down
  <2>6. u.renewer \in {"sleep", "renew"} /\ Renewed(db, u) => Renewed(e, v)
    <3>1. Since(u) \in Int
      BY <1>1 DEF Since
    <3> HIDE DEF u
    <3> QED BY <1>1, <1>2, <2>4, <2>5, <3>1 DEF Renewed, u
  <2>7. u.renewer = "sleep" /\ u.age <= Since(u) => v.age <= Since(v)
    BY <1>1, <2>4 DEF Since
  <2> HIDE DEF u
  <2>8. v.renewer = u.renewer /\ v.pc = u.pc
    BY DEF u
  <2> QED BY <1>3, <2>1, <2>2, <2>6, <2>7, <2>8 DEF Holding
<1> QED BY <1>5, <1>6 DEF Leased

LEMMA LeasedJumps ==
    ASSUME NEW r \in Runners, db \in Workflows, run[r] \in Runs, NEW e, NEW v,
           NEW j \in Nat, NEW n,
           e.status = db.status, e.runner = db.runner, e.epoch = db.epoch,
           e.lease = db.lease + 1,
           v.pc = run[r].pc, v.lost = run[r].lost, v.epoch = run[r].epoch,
           v.renewer = run[r].renewer, v.timer = run[r].timer, v.age = run[r].age,
           v.pc # "idle" => v.leaseLeft = run[r].leaseLeft + 1,
           Leased(r, db, run[r], j, n)
    PROVE  Leased(r, e, v, j + 1, n)
<1> DEFINE u == run[r]
<1>1. /\ db.lease \in Int /\ u.leaseLeft \in Int /\ u.timer \in Nat
      /\ Interval \in Nat /\ Lease \in Nat /\ MaxJumps \in Nat
  BY LimitsAssumption DEF Workflows, Runs
<1>2. (InRun(u) <=> InRun(v)) /\ (Owns(r, db, u) <=> Owns(r, e, v))
  BY DEF InRun, Owns
<1>3. InRun(v) => v.pc # "idle"
  BY DEF InRun
<1>4. Lapsing(r, e, v, j + 1)
  BY <1>1, <1>2, <1>3 DEF Leased, Lapsing
<1>5. Renewed(db, u) => Renewed(e, v)
  BY <1>1 DEF Renewed, Since
<1>6. Since(v) = Since(u) /\ v.renewer = u.renewer /\ v.pc = u.pc /\ v.age = u.age
        /\ v.timer = u.timer
  BY DEF Since
<1> HIDE DEF u
<1>7. Holding(r, db, u) => Holding(r, e, v)
  BY <1>2, <1>5, <1>6 DEF Holding
<1> QED BY <1>4, <1>7 DEF Leased, u

LEMMA InitLeased == Init => XInv
<1> SUFFICES ASSUME Init PROVE XInv
  OBVIOUS
<1>1. Over(IdleRun) /\ 0 <= MaxJumps
  BY LimitsAssumption DEF Over, IdleRun
<1>2. \A r \in Runners : Leased(r, db, run[r], jumps, stalls)
  BY <1>1, LeasedOver DEF Init
<1> QED BY <1>1, <1>2, InitInv DEF Init, XInv

\* The actions of the function leave the environment alone.
LEMMA FunctionEnv ==
    ASSUME NEW s \in Runners, Function(s)
    PROVE  UNCHANGED <<eng, stalled, faults, stalls, jumps>>
BY DEF Function, UnchangedEnv, Load, NonDeterministic, Replay, ReturnNil, HaltAtBoundary,
       StillBackingOff, CancelAtBoundary, BeginFirst, BeginAgain, Return, StepInterrupted,
       FinishStep, FailWorkflow, RetryStep, SleepStep, NowStep, FencedOut, Finalize, Release

LEMMA LeasedStep ==
    ASSUME Margins, XInv, [Next]_vars, NEW r \in Runners
    PROVE  Leased(r, db', run'[r], jumps', stalls')
<1>1. /\ db \in Workflows /\ run \in [Runners -> Runs] /\ run[r] \in Runs
      /\ jumps \in Nat /\ stalls \in Nat /\ Leased(r, db, run[r], jumps, stalls) /\ IInv
      /\ jumps <= MaxJumps
  BY DEF XInv, IInv, TypeOK
<1>2. ASSUME SameLease(db, db'), run'[r] = run[r], jumps' = jumps,
             stalls' = stalls \/ stalls' # 0
      PROVE  Leased(r, db', run'[r], jumps', stalls')
  BY <1>1, <1>2, LeasedSame
<1>3. SameLease(db, db)
  BY DEF SameLease
<1>4. ASSUME NEW s \in Runners, EndRun(s), db' = db, jumps' = jumps, stalls' = stalls
      PROVE  Leased(r, db', run'[r], jumps', stalls')
  <2>1. run'[r] = run[r] \/ run'[r] = IdleRun
    BY <1>1, <1>4 DEF EndRun
  <2>2. Over(IdleRun)
    BY DEF Over, IdleRun
  <2> QED BY <1>2, <1>3, <1>4, <2>1, <2>2, LeasedOver
<1>5. ASSUME NEW s \in Runners, LoseLease(s), db' = db, jumps' = jumps, stalls' = stalls
      PROVE  Leased(r, db', run'[r], jumps', stalls')
  <2> DEFINE e == [run[s] EXCEPT !.lost = TRUE, !.renewer = "off", !.timer = 0]
  <2>1. e.lost /\ e.timer = 0
    BY <1>1 DEF Runs
  <2>2. run' = [run EXCEPT ![s] = e]
    BY <1>5 DEF LoseLease
  <2> HIDE DEF e
  <2>3. run'[r] = run[r] \/ run'[r] = e
    BY <1>1, <2>2
  <2> QED BY <1>2, <1>3, <1>5, <2>1, <2>3, LeasedOver
<1>6. ASSUME NEW s \in Runners, Function(s) PROVE Leased(r, db', run'[r], jumps', stalls')
  <2>1. jumps' = jumps /\ stalls' = stalls
    BY <1>6, FunctionEnv
  <2>2. \/ db' = db
        \/ /\ Owns(s, db, run[s])
           /\ \/ db'.status # "running"
              \/ db'.runner = s /\ db'.epoch = db.epoch /\ db'.lease = db.lease
    BY <1>1, <1>6, FunctionOwner
  <2>3. CASE s = r
    <3>1. Proceeds(r, run[r], run'[r])
      BY <1>1, <1>6, <2>3, FunctionTiming
    <3>2. CASE Over(run'[r])
      BY <3>2, LeasedOver
    <3>3. CASE Starts(run[r], run'[r]) /\ db' = db
      BY <1>1, <2>1, <3>3, LeasedStarts
    <3>4. CASE GoesRound(r, run[r], run'[r]) /\ db'.status = db.status
      <4>1. Leased(r, db, run'[r], jumps, stalls)
        BY <1>1, <3>4, LeasedRound
      <4>2. SameLease(db, db')
        <5>1. CASE Owns(r, db, run[r])
          BY <2>2, <2>3, <3>4, <5>1 DEF Owns, SameLease
        <5>2. CASE ~Owns(r, db, run[r])
          BY <2>2, <2>3, <5>2 DEF SameLease
        <5> QED BY <5>1, <5>2
      <4> QED BY <2>1, <4>1, <4>2, LeasedSame
    <3> QED BY <3>1, <3>2, <3>3, <3>4 DEF Proceeds
  <2>4. CASE s # r
    <3>1. run'[r] = run[r]
      BY <1>1, <1>6, <2>4, FunctionOwner
    <3>2. CASE db' = db
      BY <1>2, <1>3, <2>1, <3>1, <3>2
    <3>3. CASE db' # db
      <4>1. ~Owns(r, db, run[r]) /\ ~Owns(r, db', run[r])
        BY <2>2, <2>4, <3>3 DEF Owns
      <4> QED BY <1>1, <2>1, <3>1, <4>1, LeasedElse
    <3> QED BY <3>2, <3>3
  <2> QED BY <2>3, <2>4
<1>7. ASSUME NEW s \in Runners, Claim(s) PROVE Leased(r, db', run'[r], jumps', stalls')
  <2>1. PICK a \in 0 .. StoreTimeout :
          /\ Claimable(a)
          /\ db' = [db EXCEPT !.status = "running", !.runner = s, !.epoch = db.epoch + 1,
                              !.lease = Lease - a, !.wake = WakeFloor]
          /\ run' = [run EXCEPT ![s] = [IdleRun EXCEPT !.pc = "claimed",
                                          !.epoch = db.epoch + 1, !.leaseLeft = Lease - a]]
    BY <1>7 DEF Claim, Normal
  <2> DEFINE l == Lease - a
             c == db.epoch + 1
             e == [IdleRun EXCEPT !.pc = "claimed", !.epoch = c, !.leaseLeft = l]
  <2>2. l \in Int /\ a \in Nat /\ jumps' = jumps /\ stalls' = stalls
    BY <1>7, LimitsAssumption DEF Claim, UnchangedEnv
  <2>3. run' = [run EXCEPT ![s] = e]
          /\ db' = [db EXCEPT !.status = "running", !.runner = s, !.epoch = c,
                              !.lease = l, !.wake = WakeFloor]
    BY <2>1
  <2>3a. Leased(r, db', e, jumps', stalls') \/ ~(s = r /\ db'.status = "running"
            /\ db'.runner = r /\ db'.epoch = c /\ db'.lease = l)
    <3> HIDE DEF l, c
    <3> QED BY <2>2, LeasedClaimed
  <2> HIDE DEF l, c
  <2>4. db'.status = "running" /\ db'.runner = s /\ db'.epoch = c /\ db'.lease = l
    BY <1>1, <2>3 DEF Workflows
  <2> HIDE DEF e
  <2>5. CASE s = r
    <3>1. run'[r] = e
      BY <1>1, <2>3, <2>5
    <3> QED BY <2>3a, <2>4, <2>5, <3>1
  <2>6. CASE s # r
    <3>1. run'[r] = run[r] /\ ~Owns(r, db', run[r])
      BY <1>1, <2>3, <2>4, <2>6 DEF Owns
    <3>2. CASE db.status = "running" /\ db.lease + Grace + a <= 0
      BY <1>1, <2>2, <3>1, <3>2, LeasedTaken
    <3>3. CASE db.status # "running"
      <4>1. ~Owns(r, db, run[r])
        BY <3>3 DEF Owns
      <4> QED BY <1>1, <2>2, <3>1, <4>1, LeasedElse
    <3> QED BY <2>1, <3>2, <3>3 DEF Claimable, Unheld
  <2> QED BY <2>5, <2>6
<1>8. ASSUME NEW s \in Runners, RenewWake(s), ~LoseLease(s)
      PROVE  Leased(r, db', run'[r], jumps', stalls')
  <2> DEFINE e == [run[s] EXCEPT !.renewer = "renew", !.timer = Interval]
  <2>1. /\ e.pc = run[s].pc /\ e.lost = run[s].lost /\ e.epoch = run[s].epoch
        /\ e.leaseLeft = run[s].leaseLeft /\ e.age = run[s].age
        /\ e.renewer = "renew" /\ e.timer = Interval
    BY <1>1 DEF Runs
  <2>2. /\ run' = [run EXCEPT ![s] = e] /\ db' = db /\ run[s].timer = 0
        /\ ~(run[s].leaseLeft <= 0) /\ jumps' = jumps /\ stalls' = stalls
    BY <1>8 DEF RenewWake, UnchangedEnv
  <2> HIDE DEF e
  <2>3. run'[r] = run[r] \/ (s = r /\ run'[r] = e)
    BY <1>1, <2>2
  <2>4. CASE s = r /\ run'[r] = e
    <3>1. run[r].leaseLeft > 0
      BY <1>1, <2>2, <2>4 DEF Runs
    <3>2. Leased(r, db, e, jumps, stalls)
      BY <1>1, <2>1, <2>2, <2>4, <3>1, LeasedWakes
    <3> QED BY <2>2, <2>4, <3>2
  <2> QED BY <1>2, <1>3, <2>2, <2>3, <2>4
<1>9. ASSUME NEW s \in Runners, RenewTx(s), ~(LoseLease(s) /\ db' = db)
      PROVE  Leased(r, db', run'[r], jumps', stalls')
  <2> DEFINE l == Lease - (Interval - run[s].timer)
             e == [run[s] EXCEPT !.renewer = "sleep", !.timer = Interval, !.leaseLeft = l]
  <2>1. /\ e.pc = run[s].pc /\ e.lost = run[s].lost /\ e.epoch = run[s].epoch
        /\ e.leaseLeft = l /\ e.renewer = "sleep" /\ e.timer = Interval
    BY <1>1 DEF Runs
  <2>2. /\ run' = [run EXCEPT ![s] = e] /\ db' = [db EXCEPT !.lease = l]
        /\ Fenced(s, Interval - run[s].timer) /\ jumps' = jumps /\ stalls' = stalls
    BY <1>9 DEF RenewTx, Normal, UnchangedEnv
  <2> HIDE DEF e
  <2>3. run'[r] = run[r] \/ (s = r /\ run'[r] = e)
    BY <1>1, <2>2
  <2>3a. s # r => run'[r] = run[r]
    BY <1>1, <2>2
  <2>4. db'.runner = s /\ db'.status = "running" /\ db'.epoch = run[s].epoch /\ db'.lease = l
          /\ db.runner = s
    <3> HIDE DEF l
    <3> QED BY <1>1, <2>2 DEF Workflows, Fenced
  <2>5. CASE s = r
    <3>1. run'[r] = e
      BY <1>1, <2>2, <2>5
    <3>2. CASE run[r].pc # "idle"
      <4>1. Owns(r, db', run[r])
        BY <2>4, <2>5, <3>2 DEF Owns
      <4>2. Leased(r, db', e, jumps, stalls)
        BY <1>1, <2>1, <2>4, <2>5, <4>1, LeasedRenewed
      <4> QED BY <2>2, <3>1, <4>2
    <3>3. CASE run[r].pc = "idle"
      <4>1. ~InRun(e) /\ e.timer <= Interval
        BY <2>1, <2>5, <3>3, LimitsAssumption DEF InRun
      <4> QED BY <3>1, <4>1 DEF Leased, Lapsing, Holding
    <3> QED BY <3>2, <3>3
  <2>6. CASE s # r
    <3>1. ~Owns(r, db, run[r]) /\ ~Owns(r, db', run[r])
      BY <2>4, <2>6 DEF Owns
    <3> QED BY <1>1, <2>2, <2>3a, <2>6, <3>1, LeasedElse
  <2> QED BY <2>5, <2>6
<1>10. ASSUME NEW s \in Runners,
              \/ Claim(s) \/ Function(s) \/ StoreFails(s)
              \/ Renewal(s) \/ RenewFails(s)
              \/ Stop(s) \/ Shutdown(s) \/ Crash(s) \/ Restart(s) \/ Stall(s) \/ Resume(s)
       PROVE  Leased(r, db', run'[r], jumps', stalls')
  <2>1. CASE StoreFails(s) \/ Exit(s) \/ Crash(s)
    BY <1>4, <2>1 DEF StoreFails, Exit, Crash
  <2>2. CASE Stop(s) \/ CancelSteps(s) \/ Restart(s) \/ Resume(s)
    BY <1>2, <1>3, <2>2 DEF Stop, CancelSteps, Restart, Resume
  <2>3. CASE Stall(s)
    BY <1>1, <1>2, <1>3, <2>3 DEF Stall
  <2>4. CASE RenewWake(s)
    BY <1>5, <1>8, <2>4 DEF RenewWake, UnchangedEnv
  <2>5. CASE RenewTx(s)
    BY <1>5, <1>9, <2>5 DEF RenewTx, UnchangedEnv
  <2>6. CASE RenewFails(s)
    BY <1>5, <2>6 DEF RenewFails
  <2> QED BY <1>6, <1>7, <1>10, <2>1, <2>2, <2>3, <2>4, <2>5, <2>6 DEF Renewal, Shutdown
<1>11. CASE StartWithID \/ Cancel \/ Prune
  <2>1. run' = run /\ jumps' = jumps /\ stalls' = stalls
    BY <1>11 DEF StartWithID, Cancel, Prune, UnchangedEnv
  <2>2. SameLease(db, db') \/ (db.status # "running" /\ db'.status # "running")
    <3>1. CASE StartWithID
      BY <3>1 DEF StartWithID, Full, Absent
    <3>2. CASE Prune
      BY <3>2 DEF Prune, Normal, Absent, Terminal
    <3>3. CASE Cancel
      <4>1. CASE db.status \in {"pending", "waiting"} /\ db' = Ended(db, "cancelled")
        <5>1. db'.status = "cancelled"
          BY <1>1, <4>1, EndKinds DEF EndsAs
        <5> QED BY <4>1, <5>1
      <4>2. CASE db' = [db EXCEPT !.cancel = TRUE]
        BY <1>1, <4>2 DEF Workflows, SameLease
      <4> QED BY <3>3, <4>1, <4>2 DEF Cancel, Full
    <3> QED BY <1>11, <3>1, <3>2, <3>3
  <2>3. CASE db.status # "running" /\ db'.status # "running"
    <3>1. ~Owns(r, db, run[r]) /\ ~Owns(r, db', run[r])
      BY <2>3 DEF Owns
    <3> QED BY <1>1, <2>1, <3>1, LeasedElse
  <2> QED BY <1>2, <2>1, <2>2, <2>3
<1>12. CASE PowerCut
  <2>1. run'[r] = IdleRun
    BY <1>12 DEF PowerCut
  <2>2. Over(IdleRun)
    BY DEF Over, IdleRun
  <2> QED BY <2>1, <2>2, LeasedOver
<1>13. CASE Tick
  <2> DEFINE l == Down(run[r].leaseLeft, -MaxJumps)
             a == IF InStore(r) /\ run[r].age < StoreTimeout THEN run[r].age + 1
                  ELSE run[r].age
             t == IF Awake(r) THEN Down(run[r].timer, 0) ELSE run[r].timer
             e == [run[r] EXCEPT !.leaseLeft = l, !.age = a, !.timer = t]
  <2>1. run'[r] = e /\ MayTick(r) /\ jumps' = jumps /\ stalls' = stalls
    BY <1>1, <1>13 DEF Tick
  <2>2. /\ db'.status = db.status /\ db'.runner = db.runner /\ db'.epoch = db.epoch
        /\ db'.lease = Down(db.lease, LeaseFloor)
    BY <1>1, <1>13 DEF Tick, Later, Workflows
  <2>3. /\ e.pc = run[r].pc /\ e.lost = run[r].lost /\ e.epoch = run[r].epoch
        /\ e.renewer = run[r].renewer /\ e.leaseLeft = l /\ e.age = a /\ e.timer = t
    <3> HIDE DEF l, a, t
    <3> QED BY <1>1 DEF Runs
  <2>4. stalls = 0 => Awake(r)
    BY DEF XInv, Awake
  <2> HIDE DEF e
  <2>5. Leased(r, db', e, jumps, stalls)
    BY <1>1, <2>1, <2>2, <2>3, <2>4, LeasedTicks
  <2> QED BY <2>1, <2>5
<1>14. CASE JumpBack
  <2> DEFINE l == IF run[r].pc = "idle" THEN run[r].leaseLeft ELSE run[r].leaseLeft + 1
             e == [run[r] EXCEPT !.leaseLeft = l]
  <2>1. run'[r] = e /\ jumps' = jumps + 1 /\ stalls' = stalls
    BY <1>1, <1>14 DEF JumpBack
  <2>2. /\ db'.status = db.status /\ db'.runner = db.runner /\ db'.epoch = db.epoch
        /\ db'.lease = db.lease + 1
    BY <1>1, <1>14 DEF JumpBack, Earlier, Workflows
  <2>3. /\ e.pc = run[r].pc /\ e.lost = run[r].lost /\ e.epoch = run[r].epoch
        /\ e.renewer = run[r].renewer /\ e.leaseLeft = l /\ e.age = run[r].age
        /\ e.timer = run[r].timer
    <3> HIDE DEF l
    <3> QED BY <1>1 DEF Runs
  <2> HIDE DEF e
  <2>4. Leased(r, db', e, jumps + 1, stalls)
    BY <1>1, <2>2, <2>3, LeasedJumps
  <2> QED BY <2>1, <2>4
<1>15. CASE UNCHANGED vars
  BY <1>2, <1>3, <1>15 DEF vars
<1> QED BY <1>10, <1>11, <1>12, <1>13, <1>14, <1>15 DEF Next

LEMMA LeasedInvariant == Margins => (Spec => []XInv)
<1>1. ASSUME Margins, XInv, [Next]_vars PROVE XInv'
  <2>1. IInv'
    BY <1>1, InductiveStep DEF XInv
  <2>2. \A r \in Runners : Leased(r, db', run'[r], jumps', stalls')
    BY <1>1, LeasedStep
  <2>3. jumps \in Nat /\ stalls \in Nat /\ MaxJumps \in Nat
    BY <1>1, LimitsAssumption DEF XInv, IInv, TypeOK
  <2>4. /\ jumps' <= MaxJumps
        /\ stalls' = 0 => stalled' = {}
    <3>1. ASSUME NEW s \in Runners,
                 \/ Claim(s) \/ Function(s) \/ StoreFails(s)
                 \/ Renewal(s) \/ RenewFails(s)
                 \/ Stop(s) \/ Shutdown(s) \/ Crash(s) \/ Restart(s) \/ Stall(s) \/ Resume(s)
          PROVE  /\ jumps' = jumps
                 /\ \/ stalls' = stalls /\ stalled' \subseteq stalled
                    \/ stalls' = stalls + 1
      <4>1. CASE Function(s)
        BY <4>1, FunctionEnv
      <4>2. CASE Claim(s) \/ StoreFails(s) \/ Renewal(s) \/ RenewFails(s)
        BY <4>2 DEF Claim, StoreFails, Renewal, RenewWake, RenewTx, RenewFails, UnchangedEnv
      <4>3. CASE Stop(s) \/ Shutdown(s) \/ Crash(s) \/ Restart(s) \/ Stall(s) \/ Resume(s)
        BY <4>3 DEF Stop, Shutdown, CancelSteps, Exit, Crash, Restart, Stall, Resume
      <4> QED BY <3>1, <4>1, <4>2, <4>3
    <3>2. CASE StartWithID \/ Cancel \/ Prune \/ PowerCut \/ Tick \/ UNCHANGED vars
      BY <1>1, <3>2
         DEF StartWithID, Cancel, Prune, PowerCut, Tick, vars, UnchangedEnv, XInv
    <3>3. CASE JumpBack
      BY <1>1, <2>3, <3>3 DEF JumpBack, XInv
    <3> QED BY <1>1, <2>3, <3>1, <3>2, <3>3 DEF Next, XInv
  <2>5. (\A r \in Runners : Leased(r, db, run[r], jumps, stalls))'
    BY <2>2 DEF Leased, Lapsing, Holding, Renewed, Owns, Since, InRun
  <2> QED BY <2>1, <2>4, <2>5 DEF XInv
<1> HIDE DEF Margins
<1>2. Margins /\ XInv /\ [Next]_vars => XInv'
  BY <1>1
<1>3. CASE Margins
  BY <1>2, <1>3, InitLeased, PTL DEF Spec
<1> QED BY <1>3

\* doc.go, Leases.  For any number of runners, any lease, grace period, store timeout and
\* programs within Margins: two step functions run with live contexts only after a
\* process was suspended, and then one of the two has outlived the lease it had last
\* confirmed.
THEOREM StepsExclude == Margins => (Spec => []StepExclusive)
<1>1. ASSUME Margins, XInv PROVE StepExclusive
  <2> SUFFICES ASSUME NEW r \in Runners, NEW s \in Runners, r # s, Acting(r), Acting(s)
               PROVE  /\ stalls > 0
                      /\ run[r].leaseLeft <= 0 \/ run[s].leaseLeft <= 0
    BY DEF StepExclusive
  <2>1. /\ InRun(run[r]) /\ InRun(run[s])
        /\ run[r].pc = "running" /\ run[s].pc = "running"
    BY DEF Acting, CtxDone, InRun
  <2>2. /\ Leased(r, db, run[r], jumps, stalls) /\ Leased(s, db, run[s], jumps, stalls)
        /\ jumps \in Nat /\ stalls \in Nat /\ jumps <= MaxJumps /\ MaxJumps \in Nat
        /\ run[r].leaseLeft \in Int /\ run[s].leaseLeft \in Int
    BY <1>1, LimitsAssumption DEF XInv, IInv, TypeOK, Runs
  <2>3. ~(Owns(r, db, run[r]) /\ Owns(s, db, run[s]))
    BY DEF Owns
  <2>4. stalls # 0
    BY <2>1, <2>2, <2>3 DEF Leased, Holding
  <2>5. run[r].leaseLeft <= jumps - MaxJumps \/ run[s].leaseLeft <= jumps - MaxJumps
    BY <2>1, <2>2, <2>3 DEF Leased, Lapsing
  <2> QED BY <2>2, <2>4, <2>5
<1> HIDE DEF Margins
<1>2. Margins /\ XInv => StepExclusive
  BY <1>1
<1>3. CASE Margins
  BY <1>2, <1>3, LeasedInvariant, PTL
<1> QED BY <1>3

----------------------------------------------------------------------------
(* WaitsOut.  A wake time is left behind only by a step that is not over, and *)
(* a runner goes round at once only for a step without a backoff.             *)

Settled(d, j) == LastOpen(d) \/ d.stepWake <= WakeFloor + j
AtOnce(r, u) == u.retrying => Program[r][u.seq + 1].backoff = 0

WInv ==
    /\ IInv
    /\ jumps <= MaxJumps
    /\ Settled(db, jumps) /\ Settled(synced, jumps)
    /\ \A r \in Runners : AtOnce(r, run[r])

LEMMA SettledSame ==
    ASSUME NEW d, NEW e, NEW j, e.rows = d.rows, e.stepWake = d.stepWake, Settled(d, j)
    PROVE  Settled(e, j)
BY DEF Settled, LastOpen

LEMMA SettledFloor ==
    ASSUME NEW e, NEW j \in Nat, e.stepWake = WakeFloor
    PROVE  Settled(e, j)
<1>1. WakeFloor <= WakeFloor + j
  BY FloorsTyped
<1> QED BY <1>1 DEF Settled

LEMMA SettledEnded ==
    ASSUME NEW d \in Workflows, NEW s, NEW j, Settled(d, j)
    PROVE  Settled(Ended(d, s), j)
<1>1. Ended(d, s).rows = d.rows /\ Ended(d, s).stepWake = d.stepWake
  BY DEF Ended, Workflows
<1> QED BY <1>1, SettledSame

LEMMA SettledSuspended ==
    ASSUME NEW d \in Workflows, NEW w, NEW j, Settled(d, j)
    PROVE  Settled(Suspended(d, w), j)
<1>1. Suspended(d, w).rows = d.rows /\ Suspended(d, w).stepWake = d.stepWake
  BY DEF Suspended, Workflows
<1> QED BY <1>1, SettledSame

LEMMA SettledDone ==
    ASSUME NEW d \in Workflows, NEW i, NEW out, NEW j \in Nat
    PROVE  Settled(RowDone(d, i, out), j)
<1>1. RowDone(d, i, out).stepWake = WakeFloor
  BY DEF RowDone, Workflows
<1> QED BY <1>1, SettledFloor

LEMMA FunctionSettles ==
    ASSUME IInv, NEW r \in Runners, Function(r), NEW j \in Nat, Settled(db, j)
    PROVE  Settled(db', j) /\ (synced' = synced \/ synced' = db')
<1> DEFINE i == run[r].seq + 1
<1>1. /\ db \in Workflows /\ db.rows \in Seq(Rows) /\ run \in [Runners -> Runs]
      /\ run[r] \in Runs
  BY DEF IInv, TypeOK, Workflows
<1>2. CASE \/ Load(r) \/ NonDeterministic(r) \/ Replay(r) \/ ReturnNil(r) \/ HaltAtBoundary(r)
           \/ Return(r) \/ StepInterrupted(r) \/ FencedOut(r)
  BY <1>2 DEF Load, NonDeterministic, Replay, ReturnNil, HaltAtBoundary, Return,
              StepInterrupted, FencedOut
<1>3. CASE StillBackingOff(r) \/ CancelAtBoundary(r) \/ Finalize(r)
  BY <1>1, <1>3, SettledEnded, SettledSuspended
     DEF StillBackingOff, CancelAtBoundary, Finalize, Full
<1>4. CASE Release(r)
  <2>1. UNCHANGED synced /\
        (db' = db \/ db' = [db EXCEPT !.status = "pending", !.runner = NoRunner, !.lease = LeaseFloor])
    BY <1>4 DEF Release, Normal
  <2>2. db'.rows = db.rows /\ db'.stepWake = db.stepWake
    BY <1>1, <2>1 DEF Workflows
  <2> QED BY <2>1, <2>2, SettledSame
<1>5. CASE BeginFirst(r)
  <2> DEFINE row == NewRow(SlotOf(r).name)
  <2>1. db' = [db EXCEPT !.rows = Append(@, row), !.stepWake = WakeFloor] /\ synced' = db'
    BY <1>5 DEF BeginFirst, Full
  <2> HIDE DEF row
  <2>2. db'.stepWake = WakeFloor
    BY <1>1, <2>1 DEF Workflows
  <2> QED BY <2>1, <2>2, SettledFloor
<1>6. CASE BeginAgain(r)
  <2> DEFINE m == db.rows[i].attempts + 1
  <2>1. /\ \/ db' = Ended(db, "failed")
           \/ db' = [db EXCEPT !.rows[i].attempts = m, !.stepWake = WakeFloor]
        /\ synced' = db'
    BY <1>6 DEF BeginAgain, Full
  <2> HIDE DEF m, i
  <2>2. CASE db' = [db EXCEPT !.rows[i].attempts = m, !.stepWake = WakeFloor]
    <3>1. db'.stepWake = WakeFloor
      BY <1>1, <2>2 DEF Workflows
    <3> QED BY <2>1, <3>1, SettledFloor
  <2>3. CASE db' = Ended(db, "failed")
    BY <1>1, <2>1, <2>3, SettledEnded
  <2> QED BY <2>1, <2>2, <2>3
<1>7. CASE FinishStep(r)
  <2>1. PICK out : db' = RowDone(db, i, out) /\ synced' = db'
    BY <1>7 DEF FinishStep, Full
  <2> QED BY <1>1, <2>1, SettledDone
<1>8. CASE FailWorkflow(r)
  <2>1. PICK a : Outcome(r) /\ Fenced(r, a)
    BY <1>8 DEF FailWorkflow
  <2>2. db' = Ended(RowDone(db, i, "err"), "failed") /\ synced' = db'
    BY <1>8 DEF FailWorkflow, Full
  <2>3. RowDone(db, i, "err") \in Workflows
    BY <1>1, <2>1, DuringStep, RowDoneTyped DEF Outs
  <2>4. Settled(RowDone(db, i, "err"), j)
    BY <1>1, SettledDone
  <2> QED BY <2>2, <2>3, <2>4, SettledEnded
<1>9. CASE RetryStep(r)
  <2> DEFINE delay == BackoffFor(SlotOf(r).backoff, Failures(r))
  <2>1. PICK a \in 0 .. run[r].age :
          LET failed == [db EXCEPT !.rows[i].failures = @ + 1, !.stepWake = delay - a] IN
          Fenced(r, a) /\ CanRetry(r) /\ (Full(Suspended(failed, delay - a)) \/ Full(failed))
    BY <1>9 DEF RetryStep
  <2>2. Outcome(r)
    BY <1>9 DEF RetryStep
  <2>3. /\ InStep(r, db, run[r]) /\ run[r].seq \in Nat /\ run[r].seq < Len(Program[r])
        /\ db.status = "running" /\ i \in 1 .. Len(db.rows) /\ run[r].age \in Nat
    BY <1>1, <2>1, <2>2, DuringStep DEF Runs
  <2>4. delay \in Nat
    <3>1. SlotOf(r).retries \in 0 .. (MaxStepAttempts - 1) /\ SlotOf(r).backoff \in Nat
      BY <2>3, Slot DEF Slots
    <3>2. db.rows[i].failures \in Nat
      <4>1. db.rows[i] \in Rows
        BY <1>1, <2>3
      <4> QED BY <4>1 DEF Rows
    <3>3. Failures(r) \in 1 .. 10
      <4>1. Failures(r) = db.rows[i].failures + 1 /\ Failures(r) <= SlotOf(r).retries
        BY <2>1 DEF CanRetry, Failures
      <4> QED BY <3>1, <3>2, <4>1, LimitsAssumption
    <3> QED BY <3>1, <3>3, BackoffTyped
  <2> DEFINE w == delay - a
             d == OneFailure(db, i, w)
  <2> HIDE DEF delay
  <2>5. w \in Int
    BY <2>3, <2>4
  <2>6. [db EXCEPT !.rows[i].failures = @ + 1, !.stepWake = w] = d
    BY <1>1 DEF OneFailure
  <2>7. (db' = Suspended(d, w) \/ db' = d) /\ synced' = db'
    BY <2>1, <2>6 DEF Full
  <2> HIDE DEF w
  <2>8. d \in Workflows /\ Len(d.rows) = Len(db.rows) /\ d.rows[i].done = db.rows[i].done
    <3>1. db.status # "absent" /\ Sound(db, calls)
      BY <2>3 DEF IInv
    <3> HIDE DEF i
    <3> QED BY <1>1, <2>3, <2>5, <3>1, SoundFailure
  <2> HIDE DEF d
  <2>9. LastOpen(d)
    BY <2>3, <2>8 DEF InStep, LastOpen
  <2>10. Settled(d, j)
    BY <2>9 DEF Settled
  <2> QED BY <2>7, <2>8, <2>10, SettledSuspended
<1>10. CASE SleepStep(r)
  <2>1. PICK a \in 0 .. run[r].age :
          LET wake == IF HasRow(r) THEN db.stepWake ELSE SlotOf(r).until - a
              noted == IF HasRow(r) THEN db
                       ELSE [db EXCEPT !.rows = Append(@, NewRow(Sleep)), !.stepWake = wake] IN
          Fenced(r, a) /\ (Full(RowDone(noted, i, "ok")) \/ Full(Suspended(noted, wake)))
    BY <1>10 DEF SleepStep
  <2>2. Ready(r) /\ SlotOf(r).name = Sleep
    BY <1>10 DEF SleepStep
  <2>3. CASE HasRow(r)
    <3>1. (db' = RowDone(db, i, "ok") \/ db' = Suspended(db, db.stepWake)) /\ synced' = db'
      BY <2>1, <2>3 DEF Full
    <3> QED BY <1>1, <3>1, SettledDone, SettledSuspended
  <2>4. CASE ~HasRow(r)
    <3> DEFINE row == NewRow(Sleep)
               w == SlotOf(r).until - a
               d == [db EXCEPT !.rows = Append(@, row), !.stepWake = w]
    <3>1. (db' = RowDone(d, i, "ok") \/ db' = Suspended(d, w)) /\ synced' = db'
      BY <2>1, <2>4 DEF Full
    <3>2. w \in Int
      <4>1. run[r].age \in Nat /\ SlotOf(r).until \in Nat
        BY <1>1, <2>2, AtReady, Slot DEF Runs, Slots
      <4> QED BY <4>1
    <3>3. row \in Rows /\ row.done = FALSE
      BY NewRowTyped DEF Names, NewRow
    <3> HIDE DEF w, row
    <3>4. d \in Workflows
      BY <1>1, <3>2, <3>3, AppendTyped
    <3>5. d.rows = Append(db.rows, row)
      BY <1>1 DEF Workflows
    <3> HIDE DEF d
    <3>6. LastOpen(d)
      BY <1>1, <3>3, <3>5 DEF LastOpen
    <3>7. Settled(d, j)
      BY <3>6 DEF Settled
    <3> QED BY <3>1, <3>4, <3>7, SettledDone, SettledSuspended
  <2> QED BY <2>3, <2>4
<1>11. CASE NowStep(r)
  <2> DEFINE row == [NewRow(NowName) EXCEPT !.done = TRUE, !.out = "ok"]
  <2>1. PICK a : Fenced(r, a)
    BY <1>11 DEF NowStep
  <2>2. Ready(r) /\ ~HasRow(r) /\ db' = [db EXCEPT !.rows = Append(@, row)] /\ synced' = db'
    BY <1>11 DEF NowStep, Full
  <2>3. \A k \in 1 .. Len(db.rows) : db.rows[k].done
    BY <2>1, <2>2, FreshSlot
  <2>4. ~LastOpen(db)
    BY <1>1, <2>3 DEF LastOpen
  <2> HIDE DEF row
  <2>5. db'.stepWake = db.stepWake
    BY <1>1, <2>2 DEF Workflows
  <2> QED BY <2>2, <2>4, <2>5 DEF Settled
<1> QED BY <1>2, <1>3, <1>4, <1>5, <1>6, <1>7, <1>8, <1>9, <1>10, <1>11 DEF Function

\* A delay of zero comes from a backoff of zero.
LEMMA NoBackoff ==
    ASSUME MaxBackoff > 0, NEW base \in Nat, NEW n \in 1 .. 10, BackoffFor(base, n) = 0
    PROVE  base = 0
<1>1. Doubling[n] \in Nat /\ Doubling[n] >= 1
  BY DEF Doubling
<1>2. base >= 1 => base * Doubling[n] >= 1
  <2> DEFINE m == Doubling[n]
  <2>1. m \in Nat /\ m >= 1
    BY <1>1
  <2> HIDE DEF m
  <2>2. base >= 1 => base * m >= 1
    BY <2>1
  <2> QED BY <2>2 DEF m
<1>3. base * Doubling[n] = 0
  BY <1>1, LimitsAssumption DEF BackoffFor
<1> QED BY <1>2, <1>3

LEMMA RetryAtOnce ==
    ASSUME IInv, MaxBackoff > 0, NEW r \in Runners, RetryStep(r), ~EndRun(r)
    PROVE  SlotOf(r).backoff = 0
<1>1. PICK a : Fenced(r, a) /\ CanRetry(r) /\ BackoffFor(SlotOf(r).backoff, Failures(r)) = 0
  BY DEF RetryStep
<1>2. Outcome(r)
  BY DEF RetryStep
<1>3. run[r].seq < Len(Program[r]) /\ run[r].seq + 1 \in 1 .. Len(db.rows) /\ db.rows \in Seq(Rows)
  BY <1>1, <1>2, DuringStep
<1>4. SlotOf(r).retries \in 0 .. (MaxStepAttempts - 1) /\ SlotOf(r).backoff \in Nat
  BY <1>3, Slot DEF Slots
<1>5. db.rows[run[r].seq + 1].failures \in Nat
  <2>1. db.rows[run[r].seq + 1] \in Rows
    BY <1>3
  <2> QED BY <2>1 DEF Rows
<1>6. Failures(r) \in 1 .. 10
  <2>1. Failures(r) = db.rows[run[r].seq + 1].failures + 1 /\ Failures(r) <= SlotOf(r).retries
    BY <1>1 DEF CanRetry, Failures
  <2> QED BY <1>4, <1>5, <2>1, LimitsAssumption
<1> QED BY <1>1, <1>4, <1>6, NoBackoff

\* What an action of the function does to the place of a run in its program.
Stands(u, v) == v.seq = u.seq /\ v.retrying = u.retrying
Passes(r) == Replay(r) \/ FinishStep(r) \/ SleepStep(r) \/ NowStep(r)

LEMMA AdvancePlace ==
    ASSUME run \in [Runners -> Runs], NEW r \in Runners, NEW out, Advance(r, out)
    PROVE  \/ run'[r].pc # "boundary" /\ Stands(run[r], run'[r])
           \/ ~run'[r].retrying
<1>1. CASE FinishWith(r, "failed")
  <2> DEFINE e == Finishing(run[r], "failed")
  <2>1. e.pc = "finish" /\ Stands(run[r], e)
    BY FinishRun DEF Stands
  <2>2. run'[r] = e
    BY <1>1 DEF FinishWith, Finishing
  <2> HIDE DEF e
  <2> QED BY <2>1, <2>2
<1>2. CASE ~FinishWith(r, "failed")
  <2> DEFINE n == run[r].seq + 1
             e == [run[r] EXCEPT !.pc = "boundary", !.seq = n, !.retrying = FALSE,
                                 !.attempt = 0, !.result = "none", !.age = 0]
  <2>1. run' = [run EXCEPT ![r] = e]
    BY <1>2 DEF Advance
  <2> HIDE DEF n
  <2>2. e.retrying = FALSE
    BY DEF Runs
  <2> HIDE DEF e
  <2>3. run'[r] = e
    BY <2>1
  <2> QED BY <2>2, <2>3
<1> QED BY <1>1, <1>2

LEMMA FunctionPlace ==
    ASSUME IInv, NEW r \in Runners, Function(r)
    PROVE  \/ Stands(run[r], run'[r])
           \/ run'[r] = IdleRun
           \/ RetryStep(r) /\ ~EndRun(r) /\ run'[r].seq = run[r].seq
           \/ Passes(r) /\ ~run'[r].retrying
<1>1. run \in [Runners -> Runs] /\ run[r] \in Runs
  BY DEF IInv, TypeOK
<1>2. ASSUME EndRun(r) PROVE run'[r] = IdleRun
  BY <1>1, <1>2 DEF EndRun
<1>3. ASSUME Interrupt(r) PROVE Stands(run[r], run'[r])
  <2> DEFINE e == [run[r] EXCEPT !.pc = "interrupt", !.age = 0, !.renewer = "off", !.timer = 0]
  <2>1. Stands(run[r], e)
    BY <1>1 DEF Runs, Stands
  <2>2. run'[r] = e
    BY <1>1, <1>3 DEF Interrupt
  <2> HIDE DEF e
  <2> QED BY <2>1, <2>2
<1>4. ASSUME NEW v, FinishWith(r, v) PROVE Stands(run[r], run'[r])
  <2> DEFINE e == Finishing(run[r], v)
  <2>1. Stands(run[r], e)
    BY <1>1 DEF Finishing, Runs, Stands
  <2>2. run'[r] = e
    BY <1>1, <1>4 DEF FinishWith, Finishing
  <2> HIDE DEF e
  <2> QED BY <2>1, <2>2
<1>5. CASE \/ NonDeterministic(r) \/ ReturnNil(r) \/ HaltAtBoundary(r) \/ StepInterrupted(r)
           \/ StillBackingOff(r) \/ CancelAtBoundary(r) \/ FailWorkflow(r)
           \/ FencedOut(r) \/ Finalize(r) \/ Release(r)
  BY <1>2, <1>3, <1>4, <1>5
     DEF NonDeterministic, ReturnNil, HaltAtBoundary, StepInterrupted,
         StillBackingOff, CancelAtBoundary, FailWorkflow, FencedOut, Finalize, Release
<1>6. CASE Load(r)
  <2>1. CASE EndRun(r)
    BY <1>2, <2>1
  <2>2. CASE ~EndRun(r)
    <3> DEFINE e == [run[r] EXCEPT !.pc = "boundary", !.rows = db.rows, !.age = 0,
                                   !.renewer = "sleep", !.timer = Interval]
    <3>1. run'[r] = e
      BY <1>1, <1>6, <2>2 DEF Load
    <3>2. Stands(run[r], e)
      BY <1>1 DEF Runs, Stands
    <3> HIDE DEF e
    <3> QED BY <3>1, <3>2
  <2> QED BY <2>1, <2>2
<1>7. CASE Return(r)
  <2>1. PICK res \in Results :
          run' = [run EXCEPT ![r] = [run[r] EXCEPT !.pc = "returned", !.result = res, !.age = 0]]
    BY <1>7 DEF Return
  <2> DEFINE e == [run[r] EXCEPT !.pc = "returned", !.result = res, !.age = 0]
  <2>2. Stands(run[r], e)
    BY <1>1 DEF Runs, Stands
  <2>3. run'[r] = e
    BY <1>1, <2>1
  <2> HIDE DEF e
  <2> QED BY <2>2, <2>3
<1>8. CASE BeginFirst(r) \/ BeginAgain(r)
  <2>1. \/ EndRun(r)
        \/ \E n : run' = [run EXCEPT ![r] = [run[r] EXCEPT !.pc = "running",
                                                           !.attempt = n, !.age = 0]]
    BY <1>8 DEF BeginFirst, BeginAgain, Call
  <2>2. CASE ~EndRun(r)
    <3>1. PICK n : run' = [run EXCEPT ![r] = [run[r] EXCEPT !.pc = "running",
                                                           !.attempt = n, !.age = 0]]
      BY <2>1, <2>2
    <3> DEFINE e == [run[r] EXCEPT !.pc = "running", !.attempt = n, !.age = 0]
    <3>2. Stands(run[r], e)
      BY <1>1 DEF Runs, Stands
    <3>3. run'[r] = e
      BY <1>1, <3>1
    <3> HIDE DEF e
    <3> QED BY <3>2, <3>3
  <2> QED BY <1>2, <2>2
<1>9. CASE RetryStep(r)
  <2> DEFINE e == [run[r] EXCEPT !.pc = "boundary", !.retrying = TRUE, !.attempt = 0,
                                 !.result = "none", !.age = 0]
  <2>1. EndRun(r) \/ run' = [run EXCEPT ![r] = e]
    BY <1>9 DEF RetryStep
  <2>2. e.seq = run[r].seq
    BY <1>1 DEF Runs
  <2> HIDE DEF e
  <2>3. CASE ~EndRun(r)
    <3>1. run'[r] = e
      BY <1>1, <2>1, <2>3
    <3> QED BY <1>9, <2>2, <2>3, <3>1
  <2> QED BY <1>2, <2>3
<1>10. CASE Passes(r)
  <2>1. EndRun(r) \/ \E out : Advance(r, out)
    BY <1>10 DEF Passes, Replay, FinishStep, SleepStep, NowStep
  <2> QED BY <1>1, <1>2, <1>10, <2>1, AdvancePlace
<1> QED BY <1>5, <1>6, <1>7, <1>8, <1>9, <1>10 DEF Function, Passes

LEMMA RenewalStands ==
    ASSUME run \in [Runners -> Runs], NEW s \in Runners, Renewal(s) \/ RenewFails(s)
    PROVE  \E e : run' = [run EXCEPT ![s] = e] /\ Stands(run[s], e)
<1>1. \/ LoseLease(s)
      \/ \E f, t : run' = [run EXCEPT ![s] = [run[s] EXCEPT !.renewer = f, !.timer = t]]
      \/ \E f, t, l : run' = [run EXCEPT ![s] = [run[s] EXCEPT !.renewer = f, !.timer = t,
                                                               !.leaseLeft = l]]
  BY DEF Renewal, RenewWake, RenewTx, RenewFails
<1>2. CASE LoseLease(s)
  <2> DEFINE e == [run[s] EXCEPT !.lost = TRUE, !.renewer = "off", !.timer = 0]
  <2>1. Stands(run[s], e)
    BY DEF Runs, Stands
  <2>2. run' = [run EXCEPT ![s] = e]
    BY <1>2 DEF LoseLease
  <2> QED BY <2>1, <2>2
<1>3. ASSUME NEW f, NEW t, run' = [run EXCEPT ![s] = [run[s] EXCEPT !.renewer = f, !.timer = t]]
      PROVE  \E e : run' = [run EXCEPT ![s] = e] /\ Stands(run[s], e)
  <2> DEFINE e == [run[s] EXCEPT !.renewer = f, !.timer = t]
  <2>1. Stands(run[s], e)
    BY DEF Runs, Stands
  <2>2. run' = [run EXCEPT ![s] = e]
    BY <1>3
  <2> QED BY <2>1, <2>2
<1>4. ASSUME NEW f, NEW t, NEW l,
             run' = [run EXCEPT ![s] = [run[s] EXCEPT !.renewer = f, !.timer = t,
                                                      !.leaseLeft = l]]
      PROVE  \E e : run' = [run EXCEPT ![s] = e] /\ Stands(run[s], e)
  <2> DEFINE e == [run[s] EXCEPT !.renewer = f, !.timer = t, !.leaseLeft = l]
  <2>1. Stands(run[s], e)
    BY DEF Runs, Stands
  <2>2. run' = [run EXCEPT ![s] = e]
    BY <1>4
  <2> QED BY <2>1, <2>2
<1> QED BY <1>1, <1>2, <1>3, <1>4

LEMMA AtOnceStep ==
    ASSUME MaxBackoff > 0, WInv, [Next]_vars, NEW r \in Runners
    PROVE  AtOnce(r, run'[r])
<1>1. run \in [Runners -> Runs] /\ run[r] \in Runs /\ AtOnce(r, run[r]) /\ IInv
  BY DEF WInv, IInv, TypeOK
<1>2. ASSUME Stands(run[r], run'[r]) PROVE AtOnce(r, run'[r])
  BY <1>1, <1>2 DEF Stands, AtOnce
<1>3. ASSUME run'[r] = IdleRun PROVE AtOnce(r, run'[r])
  BY <1>3 DEF IdleRun, AtOnce
<1>4. ASSUME run'[r] = run[r] PROVE AtOnce(r, run'[r])
  BY <1>1, <1>4
<1>5. ASSUME NEW s \in Runners, EndRun(s) PROVE AtOnce(r, run'[r])
  <2>1. run'[r] = run[r] \/ run'[r] = IdleRun
    BY <1>1, <1>5 DEF EndRun
  <2> QED BY <1>3, <1>4, <2>1
<1>6. ASSUME NEW s \in Runners, Function(s) PROVE AtOnce(r, run'[r])
  <2>1. CASE s # r
    <3>1. run'[r] = run[r]
      BY <1>1, <1>6, <2>1, FunctionOwner
    <3> QED BY <1>4, <3>1
  <2>2. CASE s = r
    <3>1. CASE RetryStep(r) /\ ~EndRun(r) /\ run'[r].seq = run[r].seq
      BY <1>1, <3>1, RetryAtOnce DEF AtOnce, SlotOf
    <3>2. CASE ~run'[r].retrying
      BY <3>2 DEF AtOnce
    <3> QED BY <1>1, <1>2, <1>3, <1>6, <2>2, <3>1, <3>2, FunctionPlace
  <2> QED BY <2>1, <2>2
<1>7. ASSUME NEW s \in Runners, Claim(s) PROVE AtOnce(r, run'[r])
  <2>1. PICK l, c : run' = [run EXCEPT ![s] = [IdleRun EXCEPT !.pc = "claimed", !.epoch = c,
                                                               !.leaseLeft = l]]
    BY <1>7 DEF Claim
  <2> DEFINE e == [IdleRun EXCEPT !.pc = "claimed", !.epoch = c, !.leaseLeft = l]
  <2>2. e.retrying = FALSE
    BY DEF IdleRun
  <2>3. run' = [run EXCEPT ![s] = e]
    BY <2>1
  <2> HIDE DEF e
  <2>4. run'[r] = run[r] \/ run'[r] = e
    BY <1>1, <2>3
  <2> QED BY <1>4, <2>2, <2>4 DEF AtOnce
<1>8. ASSUME NEW s \in Runners, Renewal(s) \/ RenewFails(s) PROVE AtOnce(r, run'[r])
  <2>1. PICK e : run' = [run EXCEPT ![s] = e] /\ Stands(run[s], e)
    BY <1>1, <1>8, RenewalStands
  <2>2. run'[r] = run[r] \/ (s = r /\ run'[r] = e)
    BY <1>1, <2>1
  <2> QED BY <1>2, <1>4, <2>1, <2>2
<1>9. ASSUME NEW s \in Runners,
              \/ Claim(s) \/ Function(s) \/ StoreFails(s)
              \/ Renewal(s) \/ RenewFails(s)
              \/ Stop(s) \/ Shutdown(s) \/ Crash(s) \/ Restart(s) \/ Stall(s) \/ Resume(s)
       PROVE  AtOnce(r, run'[r])
  <2>1. CASE StoreFails(s) \/ Exit(s) \/ Crash(s)
    BY <1>5, <2>1 DEF StoreFails, Exit, Crash
  <2>2. CASE Stop(s) \/ CancelSteps(s) \/ Restart(s) \/ Stall(s) \/ Resume(s)
    BY <1>4, <2>2 DEF Stop, CancelSteps, Restart, Stall, Resume
  <2> QED BY <1>6, <1>7, <1>8, <1>9, <2>1, <2>2 DEF Shutdown
<1>10. CASE StartWithID \/ Cancel \/ Prune \/ UNCHANGED vars
  BY <1>4, <1>10 DEF StartWithID, Cancel, Prune, vars
<1>11. CASE PowerCut
  BY <1>3, <1>11 DEF PowerCut
<1>12. CASE Tick \/ JumpBack
  <2>1. Stands(run[r], run'[r])
    <3>1. CASE Tick
      <4>1. \E l, a, t : run'[r] = [run[r] EXCEPT !.leaseLeft = l, !.age = a, !.timer = t]
        BY <3>1 DEF Tick
      <4> QED BY <1>1, <4>1 DEF Runs, Stands
    <3>2. CASE JumpBack
      <4>1. \E l : run'[r] = [run[r] EXCEPT !.leaseLeft = l]
        BY <3>2 DEF JumpBack
      <4> QED BY <1>1, <4>1 DEF Runs, Stands
    <3> QED BY <1>12, <3>1, <3>2
  <2> QED BY <1>2, <2>1
<1> QED BY <1>9, <1>10, <1>11, <1>12 DEF Next

LEMMA SettledStep ==
    ASSUME WInv, [Next]_vars
    PROVE  jumps' <= MaxJumps /\ Settled(db', jumps') /\ Settled(synced', jumps')
<1>1. /\ db \in Workflows /\ synced \in Workflows /\ jumps \in Nat /\ MaxJumps \in Nat
      /\ WakeFloor \in Int /\ IInv /\ jumps <= MaxJumps
      /\ Settled(db, jumps) /\ Settled(synced, jumps)
  BY LimitsAssumption, FloorsTyped DEF WInv, IInv, TypeOK
<1> DEFINE Goal == jumps' <= MaxJumps /\ Settled(db', jumps') /\ Settled(synced', jumps')
<1>2. ASSUME jumps' = jumps, db' = db, synced' = synced PROVE Goal
  BY <1>1, <1>2
<1>3. ASSUME jumps' = jumps, Settled(db', jumps), synced' = synced \/ synced' = db' PROVE Goal
  BY <1>1, <1>3
<1>4. ASSUME NEW s \in Runners, Function(s) PROVE Goal
  <2>1. jumps' = jumps
    BY <1>4, FunctionEnv
  <2>2. Settled(db', jumps) /\ (synced' = synced \/ synced' = db')
    BY <1>1, <1>4, FunctionSettles
  <2> QED BY <1>3, <2>1, <2>2
<1>5. ASSUME NEW s \in Runners, Claim(s) \/ RenewTx(s) PROVE Goal
  <2>1. /\ jumps' = jumps /\ synced' = synced
        /\ \/ db' = db
           \/ \E l : db' = [db EXCEPT !.lease = l]
           \/ \E c, l : db' = [db EXCEPT !.status = "running", !.runner = s, !.epoch = c,
                                         !.lease = l, !.wake = WakeFloor]
    BY <1>5 DEF Claim, RenewTx, Normal, UnchangedEnv
  <2>2. db'.rows = db.rows /\ db'.stepWake = db.stepWake
    BY <1>1, <2>1 DEF Workflows
  <2>3. Settled(db', jumps)
    BY <1>1, <2>2, SettledSame
  <2> QED BY <1>3, <2>1, <2>3
<1>6. ASSUME NEW s \in Runners,
              \/ Claim(s) \/ Function(s) \/ StoreFails(s)
              \/ Renewal(s) \/ RenewFails(s)
              \/ Stop(s) \/ Shutdown(s) \/ Crash(s) \/ Restart(s) \/ Stall(s) \/ Resume(s)
       PROVE  Goal
  <2>1. CASE \/ StoreFails(s) \/ RenewWake(s) \/ RenewFails(s) \/ Stop(s) \/ Shutdown(s)
             \/ Crash(s) \/ Restart(s) \/ Stall(s) \/ Resume(s)
    BY <1>2, <2>1 DEF StoreFails, RenewWake, RenewFails, Stop, Shutdown, CancelSteps, Exit,
                      Crash, Restart, Stall, Resume, UnchangedEnv
  <2> QED BY <1>4, <1>5, <1>6, <2>1 DEF Renewal
<1>7. CASE StartWithID \/ Prune
  <2>1. /\ jumps' = jumps /\ (synced' = synced \/ synced' = db')
        /\ db'.stepWake = WakeFloor
    <3>1. CASE StartWithID
      BY <3>1 DEF StartWithID, Full, Absent, UnchangedEnv
    <3>2. CASE Prune
      BY <3>2 DEF Prune, Normal, Absent, UnchangedEnv
    <3> QED BY <1>7, <3>1, <3>2
  <2> QED BY <1>1, <1>3, <2>1, SettledFloor
<1>8. CASE Cancel
  <2>1. jumps' = jumps /\ synced' = db'
        /\ (db' = Ended(db, "cancelled") \/ db' = [db EXCEPT !.cancel = TRUE])
    BY <1>8 DEF Cancel, Full, UnchangedEnv
  <2>2. CASE db' = [db EXCEPT !.cancel = TRUE]
    <3>1. db'.rows = db.rows /\ db'.stepWake = db.stepWake
      BY <1>1, <2>2 DEF Workflows
    <3>2. Settled(db', jumps)
      BY <1>1, <3>1, SettledSame
    <3> QED BY <1>3, <2>1, <3>2
  <2>3. CASE db' = Ended(db, "cancelled")
    BY <1>1, <1>3, <2>1, <2>3, SettledEnded
  <2> QED BY <2>1, <2>2, <2>3
<1>9. CASE PowerCut
  BY <1>1, <1>9 DEF PowerCut
<1>10. ASSUME NEW d \in Workflows, Settled(d, jumps)
       PROVE  Settled(Later(d), jumps) /\ Settled(Earlier(d), jumps + 1)
  <2>1. /\ Later(d).rows = d.rows /\ Later(d).stepWake = Down(d.stepWake, WakeFloor)
        /\ Earlier(d).rows = d.rows /\ Earlier(d).stepWake = d.stepWake + 1
        /\ d.stepWake \in Int
    BY <1>10 DEF Later, Earlier, Workflows
  <2> DEFINE x == d.stepWake
  <2>2. x \in Int /\ Later(d).stepWake = Down(x, WakeFloor) /\ Earlier(d).stepWake = x + 1
    BY <2>1
  <2> HIDE DEF x
  <2>3. x <= WakeFloor + jumps => Down(x, WakeFloor) <= WakeFloor + jumps
    BY <1>1, <2>2 DEF Down
  <2>4. x <= WakeFloor + jumps => x + 1 <= WakeFloor + (jumps + 1)
    BY <1>1, <2>2
  <2> QED BY <1>10, <2>1, <2>2, <2>3, <2>4 DEF Settled, LastOpen, x
<1>11. CASE Tick
  BY <1>1, <1>10, <1>11 DEF Tick
<1>12. CASE JumpBack
  <2>1. jumps' = jumps + 1 /\ db' = Earlier(db) /\ synced' = Earlier(synced) /\ jumps < MaxJumps
    BY <1>12 DEF JumpBack
  <2> QED BY <1>1, <1>10, <2>1
<1>13. CASE UNCHANGED vars
  BY <1>2, <1>13 DEF vars
<1> QED BY <1>6, <1>7, <1>8, <1>9, <1>11, <1>12, <1>13 DEF Next

\* Before a wake time that has not come, nothing but a step without a backoff begins.
LEMMA WaitingStep ==
    ASSUME WInv, [Next]_vars, NEW r \in Runners, run[r].seq < Len(Program[r]),
           run[r].pc = "boundary", db.stepWake > 0
    PROVE  /\ Begins(r) => SlotOf(r).backoff = 0
           /\ ~(SlotOf(r).name = Sleep /\ run'[r].pc = "boundary" /\ run'[r].seq > run[r].seq
                  /\ ~Replayable(r))
<1>1. /\ db \in Workflows /\ run \in [Runners -> Runs] /\ run[r] \in Runs /\ IInv
      /\ db.rows \in Seq(Rows) /\ db.stepWake \in Int /\ jumps \in Nat /\ run[r].seq \in Nat
      /\ run[r].age \in Nat /\ AtOnce(r, run[r])
  BY DEF WInv, IInv, TypeOK, Workflows, Runs
<1>2. LastOpen(db)
  <2>1. WakeFloor + jumps <= 0
    BY <1>1, LimitsAssumption DEF WakeFloor, WInv
  <2>2. WakeFloor + jumps \in Int
    BY <1>1, FloorsTyped
  <2> QED BY <1>1, <2>1, <2>2 DEF WInv, Settled
<1>3. ASSUME Ready(r), ~HasRow(r), NEW a, Fenced(r, a) PROVE FALSE
  <2>1. \A k \in 1 .. Len(db.rows) : db.rows[k].done
    BY <1>1, <1>3, FreshSlot
  <2> QED BY <1>1, <1>2, <2>1 DEF LastOpen
<1>4. ASSUME Begins(r) PROVE SlotOf(r).backoff = 0
  <2>1. BeginFirst(r) \/ BeginAgain(r)
    BY <1>1, <1>4, Callers
  <2>2. ~BeginFirst(r)
    BY <1>3 DEF BeginFirst
  <2>3. PICK a \in 0 .. run[r].age : Ready(r) /\ HasRow(r) /\ ~Backing(r, a)
    BY <2>1, <2>2 DEF BeginAgain
  <2>4. db.stepWake + a > 0
    BY <1>1
  <2>5. run[r].retrying
    BY <2>3, <2>4 DEF HasRow, Backing
  <2> QED BY <1>1, <2>5 DEF AtOnce, SlotOf
<1>5. ASSUME SlotOf(r).name = Sleep, run'[r].pc = "boundary", run'[r].seq > run[r].seq,
             ~Replayable(r)
      PROVE  FALSE
  <2>1. run'[r].seq # run[r].seq
    BY <1>1, <1>5
  <2>2. ASSUME Function(r) PROVE FALSE
    <3>1. Passes(r)
      BY <1>1, <1>5, <2>1, <2>2, FunctionPlace DEF Stands, IdleRun
    <3>2. ~Replay(r) /\ ~FinishStep(r) /\ ~NowStep(r)
      BY <1>5 DEF Replay, FinishStep, Outcome, NowStep, Sleep, NowName
    <3>3. SleepStep(r)
      BY <3>1, <3>2 DEF Passes
    <3>4. PICK a \in 0 .. run[r].age :
            /\ Fenced(r, a)
            /\ EndRun(r) \/ (IF HasRow(r) THEN db.stepWake ELSE SlotOf(r).until - a) + a <= 0
      BY <3>3 DEF SleepStep
    <3>5. HasRow(r)
      BY <1>3, <3>3, <3>4 DEF SleepStep
    <3>6. ~EndRun(r)
      BY <1>1, <1>5 DEF EndRun, IdleRun
    <3>7. db.stepWake + a <= 0
      BY <3>4, <3>5, <3>6
    <3> QED BY <1>1, <3>7
  <2>3. PICK s \in Runners :
          \/ Claim(s) \/ Function(s) \/ StoreFails(s)
          \/ Renewal(s) \/ RenewFails(s)
          \/ Stop(s) \/ Shutdown(s) \/ Crash(s) \/ Restart(s) \/ Stall(s) \/ Resume(s)
    <3>1. ~(StartWithID \/ Cancel \/ Prune \/ UNCHANGED vars)
      BY <2>1 DEF StartWithID, Cancel, Prune, vars
    <3>2. ~PowerCut
      BY <1>5 DEF PowerCut, IdleRun
    <3>3. ~Tick
      <4>1. ASSUME Tick
            PROVE  \E l, a, t : run'[r] = [run[r] EXCEPT !.leaseLeft = l, !.age = a, !.timer = t]
        BY <4>1 DEF Tick
      <4>2. Tick => run'[r].seq = run[r].seq
        BY <1>1, <4>1 DEF Runs
      <4> QED BY <2>1, <4>2
    <3>4. ~JumpBack
      <4>1. JumpBack => \E l : run'[r] = [run[r] EXCEPT !.leaseLeft = l]
        BY DEF JumpBack
      <4>2. JumpBack => run'[r].seq = run[r].seq
        BY <1>1, <4>1 DEF Runs
      <4> QED BY <2>1, <4>2
    <3> QED BY <3>1, <3>2, <3>3, <3>4 DEF Next
  <2>4. CASE Function(s)
    <3>1. CASE s = r
      BY <2>2, <2>4, <3>1
    <3>2. CASE s # r
      BY <1>1, <2>1, <2>4, <3>2, FunctionOwner
    <3> QED BY <3>1, <3>2
  <2>5. CASE EndRun(s)
    <3>1. run'[r] = run[r] \/ run'[r] = IdleRun
      BY <1>1, <2>5 DEF EndRun
    <3> QED BY <1>5, <2>1, <3>1 DEF IdleRun
  <2>6. CASE Claim(s)
    <3>1. s # r
      BY <2>6 DEF Claim
    <3>2. \E e : run' = [run EXCEPT ![s] = e]
      BY <2>6 DEF Claim
    <3> QED BY <1>1, <2>1, <3>1, <3>2
  <2>7. CASE Renewal(s) \/ RenewFails(s)
    <3>1. \E e : run' = [run EXCEPT ![s] = e] /\ Stands(run[s], e)
      BY <1>1, <2>7, RenewalStands
    <3>2. PICK e : run' = [run EXCEPT ![s] = e] /\ Stands(run[s], e)
      BY <3>1
    <3>3. run'[r] = run[r] \/ (s = r /\ run'[r] = e)
      BY <1>1, <3>2
    <3> QED BY <2>1, <3>2, <3>3 DEF Stands
  <2>8. CASE Stop(s) \/ CancelSteps(s) \/ Restart(s) \/ Stall(s) \/ Resume(s)
    BY <2>1, <2>8 DEF Stop, CancelSteps, Restart, Stall, Resume
  <2> QED BY <2>3, <2>4, <2>5, <2>6, <2>7, <2>8 DEF StoreFails, Exit, Crash, Shutdown
<1> QED BY <1>4, <1>5

\* doc.go: "a restart in the middle of either does not reset it and does not shorten it".
\* For any programs, faults and clock jumps, as long as retries may wait at all: no retry
\* is called and no sleep finished before its persisted wake time.
THEOREM WaitsAreKept == MaxBackoff > 0 => (Spec => WaitsOut)
<1>1. Init => WInv
  <2> SUFFICES ASSUME Init PROVE WInv
    OBVIOUS
  <2>1. Absent.stepWake = WakeFloor /\ jumps = 0 /\ db = Absent /\ synced = Absent
    BY DEF Init, Absent
  <2>2. Settled(db, jumps) /\ Settled(synced, jumps) /\ jumps <= MaxJumps
    BY <2>1, SettledFloor, LimitsAssumption
  <2>3. \A r \in Runners : AtOnce(r, run[r])
    BY DEF Init, IdleRun, AtOnce
  <2> QED BY <2>2, <2>3, InitInv DEF WInv
<1>2. ASSUME MaxBackoff > 0, WInv, [Next]_vars PROVE WInv'
  <2>1. IInv'
    BY <1>2, InductiveStep DEF WInv
  <2>2. jumps' <= MaxJumps /\ Settled(db', jumps') /\ Settled(synced', jumps')
    BY <1>2, SettledStep
  <2>3. \A r \in Runners : AtOnce(r, run'[r])
    BY <1>2, AtOnceStep
  <2> QED BY <2>1, <2>2, <2>3 DEF WInv, Settled, LastOpen, AtOnce, WakeFloor
<1> DEFINE Waits == \A r \in Runners :
         (run[r].seq < Len(Program[r]) /\ run[r].pc = "boundary" /\ db.stepWake > 0) =>
            /\ Begins(r) => SlotOf(r).backoff = 0
            /\ ~(SlotOf(r).name = Sleep /\ run'[r].pc = "boundary" /\ run'[r].seq > run[r].seq
                   /\ ~Replayable(r))
<1>3. WInv /\ [Next]_vars => Waits
  BY WaitingStep
<1>4. CASE MaxBackoff > 0
  <2>1. WInv /\ [Next]_vars => WInv'
    BY <1>2, <1>4
  <2> HIDE DEF Waits
  <2>2. Spec => [][Waits]_vars
    BY <1>1, <1>3, <2>1, PTL DEF Spec
  <2> QED BY <2>2 DEF Waits, WaitsOut
<1> QED BY <1>4

=============================================================================
