---------------------------- MODULE JournalProofs ----------------------------
(* Proofs about Journal for any number of runners, any programs and any     *)
(* lengths of leases, waits and bounds.                                     *)
EXTENDS Journal, TLAPS

----------------------------------------------------------------------------
(* Types.                                                                   *)

LEMMA FloorsTyped == WakeFloor \in Int /\ LeaseFloor \in Int
BY LimitsAssumption DEF WakeFloor, LeaseFloor

LEMMA SlotTyped ==
    ASSUME NEW r \in Runners, run[r].seq \in Nat, run[r].seq < Len(Program[r])
    PROVE  SlotOf(r) \in Slots
<1>1. Program[r] \in Seq(Slots)
  BY ProgramAssumption
<1> QED BY <1>1 DEF SlotOf

LEMMA EndedTyped ==
    ASSUME NEW d \in Workflows, NEW s \in Terminal
    PROVE  Ended(d, s) \in Workflows
<1>1. s \in Statuses
  BY DEF Statuses
<1> QED BY <1>1, FloorsTyped DEF Ended, Workflows

LEMMA SuspendedTyped ==
    ASSUME NEW d \in Workflows, NEW w \in Int
    PROVE  Suspended(d, w) \in Workflows
<1>1. "waiting" \in Statuses
  BY DEF Statuses
<1> QED BY <1>1, FloorsTyped DEF Suspended, Workflows

LEMMA RowDoneTyped ==
    ASSUME NEW d \in Workflows, NEW i \in 1 .. Len(d.rows), NEW out \in Outs
    PROVE  RowDone(d, i, out) \in Workflows
<1>1. d.rows \in Seq(Rows) /\ d.rows[i] \in Rows
  BY DEF Workflows
<1>2. [d.rows[i] EXCEPT !.done = TRUE, !.out = out] \in Rows
  BY <1>1 DEF Rows
<1>3. [d.rows EXCEPT ![i] = [@ EXCEPT !.done = TRUE, !.out = out]] \in Seq(Rows)
  BY <1>1, <1>2
<1>4. RowDone(d, i, out) =
        [d EXCEPT !.rows = [d.rows EXCEPT ![i] = [@ EXCEPT !.done = TRUE, !.out = out]],
                  !.stepWake = WakeFloor]
  BY DEF RowDone, Workflows
<1> QED BY <1>3, <1>4, FloorsTyped DEF Workflows

LEMMA LaterTyped ==
    ASSUME NEW d \in Workflows
    PROVE  Later(d) \in Workflows
<1>1. \A x, f \in Int : Down(x, f) \in Int
  BY DEF Down
<1>2. /\ Down(d.lease, LeaseFloor) \in Int
      /\ Down(d.wake, WakeFloor) \in Int
      /\ Down(d.stepWake, WakeFloor) \in Int
  BY <1>1, FloorsTyped DEF Workflows
<1>4. (IF d.status \in Terminal /\ d.fin <= Retention THEN d.fin + 1 ELSE d.fin) \in Nat
  BY DEF Workflows
<1> QED BY <1>2, <1>4 DEF Later, Workflows

LEMMA EarlierTyped ==
    ASSUME NEW d \in Workflows
    PROVE  Earlier(d) \in Workflows
<1>1. /\ d.lease + 1 \in Int /\ d.wake + 1 \in Int /\ d.stepWake + 1 \in Int
      /\ (IF d.fin > 0 THEN d.fin - 1 ELSE 0) \in Nat
  BY DEF Workflows
<1> QED BY <1>1 DEF Earlier, Workflows

LEMMA AbsentTyped == Absent \in Workflows
BY FloorsTyped DEF Absent, Workflows, Statuses

LEMMA IdleTyped == IdleRun \in Runs
BY DEF IdleRun, Runs, Results

LEMMA NewRowTyped ==
    ASSUME NEW n \in Names
    PROVE  NewRow(n) \in Rows /\ [NewRow(n) EXCEPT !.done = TRUE, !.out = "ok"] \in Rows
<1>1. 1 \in 1 .. MaxStepAttempts
  BY LimitsAssumption
<1>2. QED
  BY <1>1 DEF NewRow, Rows, Outs

LEMMA AppendTyped ==
    ASSUME NEW d \in Workflows, NEW row \in Rows, NEW w \in Int
    PROVE  /\ [d EXCEPT !.rows = Append(@, row)] \in Workflows
           /\ [d EXCEPT !.rows = Append(@, row), !.stepWake = w] \in Workflows
<1>1. Append(d.rows, row) \in Seq(Rows)
  BY DEF Workflows
<1> QED BY <1>1 DEF Workflows

LEMMA AttemptTyped ==
    ASSUME NEW d \in Workflows, NEW i \in 1 .. Len(d.rows), NEW n \in Nat, NEW w \in Int
    PROVE  /\ n \in 1 .. MaxStepAttempts =>
                [d EXCEPT !.rows[i].attempts = n, !.stepWake = w] \in Workflows
           /\ [d EXCEPT !.rows[i].failures = n, !.stepWake = w] \in Workflows
<1>1. d.rows \in Seq(Rows) /\ d.rows[i] \in Rows
  BY DEF Workflows
<1>2. /\ n \in 1 .. MaxStepAttempts => [d.rows[i] EXCEPT !.attempts = n] \in Rows
      /\ [d.rows[i] EXCEPT !.failures = n] \in Rows
  BY <1>1 DEF Rows
<1>3. /\ n \in 1 .. MaxStepAttempts =>
            [d.rows EXCEPT ![i] = [d.rows[i] EXCEPT !.attempts = n]] \in Seq(Rows)
      /\ [d.rows EXCEPT ![i] = [d.rows[i] EXCEPT !.failures = n]] \in Seq(Rows)
  BY <1>1, <1>2
<1>4. /\ [d EXCEPT !.rows[i].attempts = n, !.stepWake = w] =
            [d EXCEPT !.rows = [d.rows EXCEPT ![i] = [d.rows[i] EXCEPT !.attempts = n]],
                      !.stepWake = w]
      /\ [d EXCEPT !.rows[i].failures = n, !.stepWake = w] =
            [d EXCEPT !.rows = [d.rows EXCEPT ![i] = [d.rows[i] EXCEPT !.failures = n]],
                      !.stepWake = w]
  BY DEF Workflows
<1> QED BY <1>3, <1>4 DEF Workflows

LEMMA BackoffTyped ==
    ASSUME NEW base \in Nat, NEW n \in 1 .. 10
    PROVE  BackoffFor(base, n) \in Nat
<1>1. Doubling[n] \in Nat
  BY DEF Doubling
<1>2. base * Doubling[n] \in Nat
  BY <1>1
<1> QED BY <1>2, LimitsAssumption DEF BackoffFor

----------------------------------------------------------------------------
(* The inductive invariant.                                                 *)

\* A stored journal d is a log, and the calls cs were journaled in it.
Sound(d, cs) ==
    /\ \A i \in 1 .. Len(d.rows) - 1 : d.rows[i].done
    /\ \A c \in cs : /\ c.seq \in 1 .. Len(d.rows)
                     /\ d.rows[c.seq].name = c.name
                     /\ d.rows[c.seq].attempts >= c.attempt
    /\ d.status = "absent" => d.rows = << >>

Owns(r, d, u) == u.pc # "idle" /\ d.status = "running" /\ d.runner = r /\ d.epoch = u.epoch

\* Between two steps, the journal is the snapshot the runner replays, or, beyond it,
\* exactly the steps the runner has completed.
AtBoundary(d, u) ==
    /\ u.seq <= Len(d.rows)
    /\ \A i \in 1 .. u.seq : d.rows[i].done
    /\ u.seq < Len(u.rows) => d.rows = u.rows
    /\ u.seq >= Len(u.rows) => Len(d.rows) = u.seq

\* During a step, its row is the last one and it is the only one unfinished.
InStep(r, d, u) ==
    /\ Len(d.rows) = u.seq + 1
    /\ Len(u.rows) <= u.seq + 1
    /\ \A i \in 1 .. u.seq : d.rows[i].done
    /\ ~d.rows[u.seq + 1].done
    /\ d.rows[u.seq + 1].name = Program[r][u.seq + 1].name

\* What a runner's run u knows of the journal d as long as it owns the workflow.
Good(r, d, u) ==
    /\ u.pc = "claimed" => u.seq = 0 /\ ~u.retrying
    /\ u.pc \in {"running", "returned"} \/ u.retrying => u.seq < Len(Program[r])
    /\ u.pc = "finish" => u.verdict \in {"succeeded", "failed"}
    /\ Owns(r, d, u) =>
        /\ u.pc = "boundary" /\ ~u.retrying => AtBoundary(d, u)
        /\ u.pc = "boundary" /\ u.retrying => InStep(r, d, u)
        /\ u.pc \in {"running", "returned"} => InStep(r, d, u)

IInv ==
    /\ TypeOK
    /\ Sound(db, calls) /\ Sound(synced, calls)
    /\ \A r \in Runners : Good(r, db, run[r])

----------------------------------------------------------------------------
(* What a change of a journal row or of a run does to the invariant.        *)

LEMMA SoundSame ==
    ASSUME NEW d, NEW e, NEW cs, Sound(d, cs), e.rows = d.rows,
           e.status = "absent" => d.status = "absent"
    PROVE  Sound(e, cs)
BY DEF Sound

LEMMA SoundDone ==
    ASSUME NEW d \in Workflows, NEW cs, Sound(d, cs), NEW out \in Outs,
           NEW i \in 1 .. Len(d.rows), d.status # "absent"
    PROVE  LET e == RowDone(d, i, out) IN
           /\ Sound(e, cs)
           /\ Len(e.rows) = Len(d.rows) /\ e.rows[i].done
           /\ \A j \in 1 .. Len(d.rows) : j # i => e.rows[j] = d.rows[j]
           /\ e.status = d.status /\ e.runner = d.runner /\ e.epoch = d.epoch
<1> DEFINE e == RowDone(d, i, out)
<1>1. d.rows \in Seq(Rows) /\ d.rows[i] \in Rows
  BY DEF Workflows
<1>2. e.rows = [d.rows EXCEPT ![i] = [@ EXCEPT !.done = TRUE, !.out = out]]
  BY DEF RowDone, Workflows
<1>3. Len(e.rows) = Len(d.rows)
  BY <1>1, <1>2
<1>4. \A j \in 1 .. Len(d.rows) : j # i => e.rows[j] = d.rows[j]
  BY <1>1, <1>2
<1>5. e.rows[i] = [d.rows[i] EXCEPT !.done = TRUE, !.out = out]
  BY <1>1, <1>2
<1>6. e.rows[i].done /\ e.rows[i].name = d.rows[i].name
        /\ e.rows[i].attempts = d.rows[i].attempts
  BY <1>1, <1>5 DEF Rows
<1>7. e.status = d.status /\ e.runner = d.runner /\ e.epoch = d.epoch
  BY DEF RowDone, Workflows
<1>8. Sound(e, cs)
  <2> HIDE DEF e
  <2>1. \A j \in 1 .. Len(e.rows) - 1 : e.rows[j].done
    BY <1>1, <1>3, <1>4, <1>6 DEF Sound
  <2>2. \A c \in cs : /\ c.seq \in 1 .. Len(e.rows)
                     /\ e.rows[c.seq].name = c.name
                     /\ e.rows[c.seq].attempts >= c.attempt
    BY <1>1, <1>3, <1>4, <1>6 DEF Sound
  <2> QED BY <1>7, <2>1, <2>2 DEF Sound
<1> QED BY <1>3, <1>4, <1>6, <1>7, <1>8

LEMMA SoundAppend ==
    ASSUME NEW d \in Workflows, NEW cs, Sound(d, cs), NEW row \in Rows, NEW w \in Int,
           \A i \in 1 .. Len(d.rows) : d.rows[i].done, d.status # "absent",
           NEW e, e.rows = Append(d.rows, row), e.status # "absent"
    PROVE  /\ Sound(e, cs)
           /\ \A c \in Calls : c.seq = Len(d.rows) + 1 /\ c.name = row.name
                                /\ c.attempt = row.attempts => Sound(e, cs \cup {c})
<1>1. d.rows \in Seq(Rows)
  BY DEF Workflows
<1>2. Len(e.rows) = Len(d.rows) + 1 /\ e.rows[Len(d.rows) + 1] = row
  BY <1>1
<1>3. \A i \in 1 .. Len(d.rows) : e.rows[i] = d.rows[i]
  BY <1>1
<1>4. Sound(e, cs)
  BY <1>1, <1>2, <1>3 DEF Sound
<1>5. ASSUME NEW c \in Calls, c.seq = Len(d.rows) + 1, c.name = row.name,
             c.attempt = row.attempts
      PROVE  Sound(e, cs \cup {c})
  <2>1. row.attempts >= c.attempt
    BY <1>5 DEF Rows
  <2> QED BY <1>1, <1>2, <1>4, <1>5, <2>1 DEF Sound
<1> QED BY <1>4, <1>5

\* The next attempt of a row, and one more failure of it.
NextAttempt(d, i) ==
    [d EXCEPT !.rows[i].attempts = d.rows[i].attempts + 1, !.stepWake = WakeFloor]
OneFailure(d, i, w) ==
    [d EXCEPT !.rows[i].failures = d.rows[i].failures + 1, !.stepWake = w]

LEMMA SoundAttempt ==
    ASSUME NEW d \in Workflows, NEW cs \in SUBSET Calls, Sound(d, cs),
           d.status # "absent", NEW i \in 1 .. Len(d.rows), ~GivenUp(d.rows[i].attempts)
    PROVE  LET e == NextAttempt(d, i) IN
           /\ e \in Workflows
           /\ \A c \in Calls : c.seq = i /\ c.name = d.rows[i].name /\ c.attempt = d.rows[i].attempts + 1
                => Sound(e, cs \cup {c})
           /\ Len(e.rows) = Len(d.rows)
           /\ \A j \in 1 .. Len(d.rows) : e.rows[j].done = d.rows[j].done
                                           /\ e.rows[j].name = d.rows[j].name
           /\ e.status = d.status /\ e.runner = d.runner /\ e.epoch = d.epoch
<1> DEFINE n == d.rows[i].attempts + 1
           e == NextAttempt(d, i)
<1>1. d.rows \in Seq(Rows) /\ d.rows[i] \in Rows
  BY DEF Workflows
<1>2. n \in 1 .. MaxStepAttempts /\ n \in Nat /\ n >= d.rows[i].attempts
  <2>1. MaxStepAttempts \in Nat
    BY LimitsAssumption
  <2>2. d.rows[i].attempts \in 1 .. MaxStepAttempts
    BY <1>1 DEF Rows
  <2>3. d.rows[i].attempts < MaxStepAttempts
    BY <2>1, <2>2 DEF GivenUp
  <2>4. QED
    BY <2>1, <2>2, <2>3
<1>3. e = [d EXCEPT !.rows[i].attempts = n, !.stepWake = WakeFloor]
  BY DEF NextAttempt
<1> HIDE DEF n, e
<1>3a. e \in Workflows
  BY <1>2, <1>3, FloorsTyped, AttemptTyped
<1>4. e.rows = [d.rows EXCEPT ![i] = [d.rows[i] EXCEPT !.attempts = n]]
  BY <1>3 DEF Workflows
<1>5. e.status = d.status /\ e.runner = d.runner /\ e.epoch = d.epoch
  BY <1>3 DEF Workflows
<1>6. Len(e.rows) = Len(d.rows)
  BY <1>1, <1>4
<1>7. \A j \in 1 .. Len(d.rows) : j # i => e.rows[j] = d.rows[j]
  BY <1>1, <1>4
<1>8. e.rows[i] = [d.rows[i] EXCEPT !.attempts = n]
  BY <1>1, <1>4
<1>9. e.rows[i].attempts = n /\ e.rows[i].name = d.rows[i].name
        /\ e.rows[i].done = d.rows[i].done
  BY <1>1, <1>8 DEF Rows
<1>10. \A j \in 1 .. Len(d.rows) : e.rows[j].done = d.rows[j].done
                                     /\ e.rows[j].name = d.rows[j].name
  BY <1>7, <1>9
<1>11. ASSUME NEW c \in Calls, c.seq = i, c.name = d.rows[i].name, c.attempt = n
       PROVE  Sound(e, cs \cup {c})
  <2>1. \A j \in 1 .. Len(e.rows) - 1 : e.rows[j].done
    BY <1>1, <1>6, <1>10 DEF Sound
  <2>2. \A b \in cs : /\ b.seq \in 1 .. Len(e.rows)
                     /\ e.rows[b.seq].name = b.name
                     /\ e.rows[b.seq].attempts >= b.attempt
    <3> TAKE b \in cs
    <3>1. b.seq \in 1 .. Len(d.rows) /\ d.rows[b.seq].name = b.name
            /\ d.rows[b.seq].attempts >= b.attempt
      BY DEF Sound
    <3>2. CASE b.seq # i
      BY <1>6, <1>7, <3>1, <3>2
    <3>3. CASE b.seq = i
      <4>1. b.attempt \in Nat
        BY DEF Calls
      <4>2. d.rows[i].attempts \in Nat
        BY <1>1 DEF Rows
      <4>3. e.rows[i].attempts >= b.attempt
        BY <1>2, <1>9, <3>1, <3>3, <4>1, <4>2
      <4> QED BY <1>6, <1>9, <3>1, <3>3, <4>3
    <3> QED BY <3>2, <3>3
  <2>3. c.seq \in 1 .. Len(e.rows) /\ e.rows[c.seq].name = c.name
          /\ e.rows[c.seq].attempts >= c.attempt
    BY <1>2, <1>6, <1>9, <1>11
  <2> QED BY <1>5, <2>1, <2>2, <2>3 DEF Sound
<1> QED BY <1>3a, <1>5, <1>6, <1>10, <1>11 DEF n, e

LEMMA SoundFailure ==
    ASSUME NEW d \in Workflows, NEW cs, Sound(d, cs), NEW w \in Int, d.status # "absent",
           NEW i \in 1 .. Len(d.rows)
    PROVE  LET e == OneFailure(d, i, w) IN
           /\ e \in Workflows
           /\ Sound(e, cs)
           /\ Len(e.rows) = Len(d.rows)
           /\ \A j \in 1 .. Len(d.rows) : e.rows[j].done = d.rows[j].done
                                           /\ e.rows[j].name = d.rows[j].name
           /\ e.status = d.status /\ e.runner = d.runner /\ e.epoch = d.epoch
<1> DEFINE n == d.rows[i].failures + 1
           e == OneFailure(d, i, w)
<1>1. d.rows \in Seq(Rows) /\ d.rows[i] \in Rows
  BY DEF Workflows
<1>2. n \in Nat
  BY <1>1 DEF Rows
<1>3. e = [d EXCEPT !.rows[i].failures = n, !.stepWake = w]
  BY DEF OneFailure
<1> HIDE DEF n, e
<1>3a. e \in Workflows
  BY <1>2, <1>3, FloorsTyped, AttemptTyped
<1>4. e.rows = [d.rows EXCEPT ![i] = [d.rows[i] EXCEPT !.failures = n]]
  BY <1>3 DEF Workflows
<1>5. e.status = d.status /\ e.runner = d.runner /\ e.epoch = d.epoch
  BY <1>3 DEF Workflows
<1>6. Len(e.rows) = Len(d.rows)
  BY <1>1, <1>4
<1>7. \A j \in 1 .. Len(d.rows) : j # i => e.rows[j] = d.rows[j]
  BY <1>1, <1>4
<1>8. e.rows[i] = [d.rows[i] EXCEPT !.failures = n]
  BY <1>1, <1>4
<1>9. e.rows[i].attempts = d.rows[i].attempts /\ e.rows[i].name = d.rows[i].name
        /\ e.rows[i].done = d.rows[i].done
  BY <1>1, <1>8 DEF Rows
<1>10. \A j \in 1 .. Len(d.rows) : e.rows[j].done = d.rows[j].done
          /\ e.rows[j].name = d.rows[j].name /\ e.rows[j].attempts = d.rows[j].attempts
  BY <1>7, <1>9
<1>11. Sound(e, cs)
  BY <1>1, <1>5, <1>6, <1>10 DEF Sound
<1> QED BY <1>3a, <1>5, <1>6, <1>10, <1>11 DEF n, e

\* Another runner's run says nothing of a workflow it does not own.
LEMMA GoodElse ==
    ASSUME NEW r, NEW d, NEW e, NEW u, Good(r, d, u),
           e.runner # r \/ e.status # "running"
    PROVE  Good(r, e, u)
BY DEF Good, Owns

LEMMA GoodSame ==
    ASSUME NEW r, NEW d, NEW e, NEW u, NEW v, Good(r, d, u),
           e.rows = d.rows, e.runner = d.runner, e.status = d.status, e.epoch = d.epoch,
           v.pc = u.pc, v.seq = u.seq, v.retrying = u.retrying, v.rows = u.rows,
           v.epoch = u.epoch, v.verdict = u.verdict
    PROVE  Good(r, e, v)
BY DEF Good, Owns, AtBoundary, InStep

LEMMA GoodIdle ==
    ASSUME NEW r, NEW d
    PROVE  Good(r, d, IdleRun)
BY DEF Good, Owns, IdleRun

\* A run that is over writes no step.
LEMMA GoodOver ==
    ASSUME NEW r, NEW d, NEW e, NEW u, NEW v, Good(r, d, u),
           v.pc \in {"finish", "interrupt"}, v.seq = u.seq, v.retrying = u.retrying,
           v.pc = "finish" => v.verdict \in {"succeeded", "failed"}
    PROVE  Good(r, e, v)
BY DEF Good

Finishing(u, v) ==
    [u EXCEPT !.pc = "finish", !.verdict = v, !.result = "none",
              !.age = 0, !.renewer = "off", !.timer = 0]

LEMMA FinishRun ==
    ASSUME NEW u \in Runs, NEW v \in {"succeeded", "failed"}
    PROVE  /\ Finishing(u, v) \in Runs
           /\ Finishing(u, v).pc = "finish" /\ Finishing(u, v).seq = u.seq
           /\ Finishing(u, v).retrying = u.retrying /\ Finishing(u, v).verdict = v
BY DEF Finishing, Runs

LEMMA InterruptRun ==
    ASSUME NEW u \in Runs
    PROVE  LET e == [u EXCEPT !.pc = "interrupt", !.age = 0, !.renewer = "off",
                              !.timer = 0] IN
           e \in Runs /\ e.pc = "interrupt" /\ e.seq = u.seq /\ e.retrying = u.retrying
BY DEF Runs

\* A step of runner r that writes nothing.
LEMMA LocalStep ==
    ASSUME IInv, UNCHANGED <<db, synced, calls>>, UnchangedEnv,
           NEW r \in Runners, NEW e \in Runs, run' = [run EXCEPT ![r] = e], Good(r, db, e)
    PROVE  IInv'
<1>1. run' \in [Runners -> Runs] /\ run'[r] = e
        /\ \A s \in Runners \ {r} : run'[s] = run[s]
  BY DEF IInv, TypeOK
<1>2. TypeOK'
  BY <1>1 DEF IInv, TypeOK, UnchangedEnv
<1>3. Sound(db', calls') /\ Sound(synced', calls')
  BY DEF IInv
<1>4. \A s \in Runners : Good(s, db', run'[s])
  BY <1>1 DEF IInv
<1> QED BY <1>2, <1>3, <1>4 DEF IInv

\* A step of runner r that writes d while it owns the workflow, or ends that.
LEMMA WriteStep ==
    ASSUME IInv, UnchangedEnv, NEW r \in Runners, NEW d \in Workflows, db' = d,
           synced' \in Workflows, Sound(synced', calls'),
           calls' \subseteq Calls, Sound(d, calls'), d.runner = r \/ d.status # "running",
           NEW e \in Runs, run' = [run EXCEPT ![r] = e], Good(r, d, e)
    PROVE  IInv'
<1>1. run' \in [Runners -> Runs] /\ run'[r] = e
        /\ \A s \in Runners \ {r} : run'[s] = run[s]
  BY DEF IInv, TypeOK
<1>2. TypeOK'
  BY <1>1 DEF IInv, TypeOK, UnchangedEnv
<1>3. \A s \in Runners : Good(s, db', run'[s])
  <2> TAKE s \in Runners
  <2>1. CASE s = r
    BY <1>1, <2>1
  <2>2. CASE s # r
    <3>1. d.runner # s \/ d.status # "running"
      BY <2>2
    <3>2. Good(s, db, run[s])
      BY DEF IInv
    <3> QED BY <1>1, <2>2, <3>1, <3>2, GoodElse
  <2> QED BY <2>1, <2>2
<1> QED BY <1>2, <1>3 DEF IInv

LEMMA FullStep ==
    ASSUME IInv, UnchangedEnv, NEW r \in Runners, NEW d \in Workflows, Full(d),
           calls' \subseteq Calls, Sound(d, calls'), d.runner = r \/ d.status # "running",
           NEW e \in Runs, run' = [run EXCEPT ![r] = e], Good(r, d, e)
    PROVE  IInv'
BY WriteStep DEF Full

LEMMA NormalStep ==
    ASSUME IInv, UnchangedEnv, NEW r \in Runners, NEW d \in Workflows, Normal(d),
           UNCHANGED calls, Sound(d, calls), d.runner = r \/ d.status # "running",
           NEW e \in Runs, run' = [run EXCEPT ![r] = e], Good(r, d, e)
    PROVE  IInv'
<1>1. /\ db' = d /\ synced' \in Workflows /\ Sound(synced', calls')
      /\ calls' \subseteq Calls /\ Sound(d, calls')
  BY DEF Normal, IInv, TypeOK
<1> QED BY <1>1, WriteStep

\* The same, when the run ends with it.
LEMMA LastStep ==
    ASSUME IInv, UnchangedEnv, NEW r \in Runners, NEW d \in Workflows, Full(d),
           UNCHANGED calls, Sound(d, calls), d.runner = r \/ d.status # "running", EndRun(r)
    PROVE  IInv'
<1>1. calls' \subseteq Calls /\ Sound(d, calls')
  BY DEF IInv, TypeOK
<1>2. run' = [run EXCEPT ![r] = IdleRun]
  BY DEF EndRun
<1>3. Good(r, d, IdleRun)
  BY GoodIdle
<1> QED BY <1>1, <1>2, <1>3, IdleTyped, FullStep

LEMMA GiveUp ==
    ASSUME IInv, UNCHANGED <<db, synced, calls>>, UnchangedEnv, NEW r \in Runners, EndRun(r)
    PROVE  IInv'
<1>1. run' = [run EXCEPT ![r] = IdleRun] /\ Good(r, db, IdleRun)
  BY GoodIdle DEF EndRun
<1> QED BY <1>1, IdleTyped, LocalStep

LEMMA FinishStays ==
    ASSUME IInv, UNCHANGED <<db, synced, calls>>, UnchangedEnv, NEW r \in Runners,
           NEW v \in {"succeeded", "failed"}, FinishWith(r, v)
    PROVE  IInv'
<1> DEFINE e == Finishing(run[r], v)
<1>1. run[r] \in Runs /\ Good(r, db, run[r])
  BY DEF IInv, TypeOK
<1>2. run' = [run EXCEPT ![r] = e]
  BY DEF FinishWith, Finishing
<1>3. /\ e \in Runs
      /\ e.pc = "finish" /\ e.seq = run[r].seq
      /\ e.retrying = run[r].retrying /\ e.verdict = v
  BY <1>1, FinishRun
<1> HIDE DEF e
<1>4. Good(r, db, e)
  BY <1>1, <1>3, GoodOver
<1> QED BY <1>2, <1>3, <1>4, LocalStep

LEMMA InterruptStays ==
    ASSUME IInv, UNCHANGED <<db, synced, calls>>, UnchangedEnv, NEW r \in Runners, Interrupt(r)
    PROVE  IInv'
<1> DEFINE e == [run[r] EXCEPT !.pc = "interrupt", !.age = 0, !.renewer = "off", !.timer = 0]
<1>1. run[r] \in Runs /\ Good(r, db, run[r])
  BY DEF IInv, TypeOK
<1>2. e \in Runs /\ e.pc = "interrupt" /\ e.seq = run[r].seq /\ e.retrying = run[r].retrying
  BY <1>1, InterruptRun
<1>3. run' = [run EXCEPT ![r] = e]
  BY DEF Interrupt
<1> HIDE DEF e
<1>4. Good(r, db, e)
  BY <1>1, <1>2, GoodOver
<1> QED BY <1>2, <1>3, <1>4, LocalStep

\* The next slot, after the row of this one is done in journal d.
LEMMA AdvanceGood ==
    ASSUME NEW r \in Runners, run \in [Runners -> Runs], NEW out, Advance(r, out), NEW d,
           d.rows \in Seq(Rows), NEW c, Good(r, c, run[r]),
           Owns(r, d, run[r]) =>
             LET u == run[r] IN
             /\ u.seq + 1 <= Len(d.rows)
             /\ \A i \in 1 .. u.seq + 1 : d.rows[i].done
             /\ u.seq + 1 < Len(u.rows) => d.rows = u.rows
             /\ u.seq + 1 >= Len(u.rows) => Len(d.rows) = u.seq + 1,
           run[r].pc # "idle"
    PROVE  \E e \in Runs : run' = [run EXCEPT ![r] = e] /\ Good(r, d, e)
<1>1. run[r] \in Runs
  OBVIOUS
<1>2. CASE FinishWith(r, "failed")
  <2> DEFINE e == Finishing(run[r], "failed")
  <2>1. e \in Runs /\ e.pc = "finish" /\ e.seq = run[r].seq /\ e.retrying = run[r].retrying
          /\ e.verdict = "failed"
    BY <1>1, FinishRun
  <2>2. run' = [run EXCEPT ![r] = e]
    BY <1>2 DEF FinishWith, Finishing
  <2> HIDE DEF e
  <2>3. Good(r, d, e)
    BY <2>1, GoodOver
  <2> QED BY <2>1, <2>2, <2>3
<1>3. CASE ~FinishWith(r, "failed")
  <2> DEFINE n == run[r].seq + 1
             e == [run[r] EXCEPT !.pc = "boundary", !.seq = n, !.retrying = FALSE,
                                 !.attempt = 0, !.result = "none", !.age = 0]
  <2>1. n \in Nat
    BY <1>1 DEF Runs
  <2>2. run' = [run EXCEPT ![r] = e]
    BY <1>3 DEF Advance
  <2> HIDE DEF n
  <2>3. e \in Runs
    BY <1>1, <2>1 DEF Runs, Results
  <2>4. e.pc = "boundary" /\ e.seq = n /\ e.rows = run[r].rows /\ e.epoch = run[r].epoch
    BY <1>1 DEF Runs
  <2>5. e.retrying = FALSE
    BY <1>1 DEF Runs
  <2> HIDE DEF e
  <2>6. ASSUME Owns(r, d, e) PROVE AtBoundary(d, e)
    <3>1. Owns(r, d, run[r])
      BY <2>4, <2>6 DEF Owns
    <3> QED BY <2>4, <3>1 DEF AtBoundary, n
  <2>7. Good(r, d, e)
    BY <2>4, <2>5, <2>6 DEF Good
  <2> QED BY <2>2, <2>3, <2>7
<1> QED BY <1>2, <1>3

----------------------------------------------------------------------------
(* What a runner knows before a write.                                      *)

LEMMA Fence ==
    ASSUME NEW r \in Runners, run[r].pc # "idle", NEW a, Fenced(r, a)
    PROVE  Owns(r, db, run[r]) /\ db.status = "running" /\ db.runner = r
BY DEF Fenced, Owns

LEMMA Slot ==
    ASSUME IInv, NEW r \in Runners, run[r].seq < Len(Program[r])
    PROVE  /\ SlotOf(r) \in Slots /\ SlotOf(r).name \in Names
           /\ SlotOf(r) = Program[r][run[r].seq + 1]
<1>1. Program[r] \in Seq(Slots) /\ run[r].seq \in Nat
  BY ProgramAssumption DEF IInv, TypeOK, Runs
<1>2. SlotOf(r) \in Slots
  BY <1>1 DEF SlotOf
<1> QED BY <1>2 DEF SlotOf, Slots

LEMMA AtReady ==
    ASSUME IInv, NEW r \in Runners, Ready(r)
    PROVE  /\ run[r] \in Runs /\ run[r].seq \in Nat /\ run[r].pc = "boundary"
           /\ run[r].seq < Len(Program[r])
           /\ Good(r, db, run[r]) /\ db \in Workflows /\ db.rows \in Seq(Rows)
<1>1. run[r] \in Runs /\ db \in Workflows /\ Good(r, db, run[r])
  BY DEF IInv, TypeOK
<1>2. run[r].pc = "boundary" /\ run[r].seq < Len(Program[r])
  BY DEF Ready, NeedsRow, AtSlot
<1>3. run[r].seq \in Nat /\ db.rows \in Seq(Rows)
  BY <1>1 DEF Runs, Workflows
<1> QED BY <1>1, <1>2, <1>3

\* A step with no row of its own comes right after the last completed one.
LEMMA FreshSlot ==
    ASSUME IInv, NEW r \in Runners, Ready(r), ~HasRow(r), NEW a, Fenced(r, a)
    PROVE  /\ Len(db.rows) = run[r].seq /\ \A i \in 1 .. Len(db.rows) : db.rows[i].done
           /\ Len(run[r].rows) <= run[r].seq
<1>1. /\ run[r] \in Runs /\ run[r].seq \in Nat /\ run[r].pc = "boundary"
      /\ Good(r, db, run[r])
  BY AtReady
<1>2. Owns(r, db, run[r])
  BY <1>1, Fence
<1>3. ~run[r].retrying /\ ~(run[r].seq < Len(run[r].rows))
  BY DEF HasRow, Journaled
<1>4. AtBoundary(db, run[r])
  BY <1>1, <1>2, <1>3 DEF Good
<1>5. Len(run[r].rows) \in Nat
  BY <1>1 DEF Runs
<1> QED BY <1>1, <1>3, <1>4, <1>5 DEF AtBoundary

\* A row left unfinished by an earlier attempt is the last one of the journal.
LEMMA OldSlot ==
    ASSUME IInv, NEW r \in Runners, Ready(r), HasRow(r), NEW a, Fenced(r, a)
    PROVE  InStep(r, db, run[r])
<1>1. /\ run[r] \in Runs /\ run[r].seq \in Nat /\ run[r].pc = "boundary"
      /\ Good(r, db, run[r]) /\ db.rows \in Seq(Rows)
  BY AtReady
<1>2. Owns(r, db, run[r])
  BY <1>1, Fence
<1>3. CASE run[r].retrying
  BY <1>1, <1>2, <1>3 DEF Good
<1>4. CASE ~run[r].retrying
  <2>1. run[r].seq < Len(run[r].rows)
    BY <1>4 DEF HasRow, Journaled
  <2>2. AtBoundary(db, run[r])
    BY <1>1, <1>2, <1>4 DEF Good
  <2>3. db.rows = run[r].rows /\ \A i \in 1 .. run[r].seq : db.rows[i].done
    BY <2>1, <2>2 DEF AtBoundary
  <2>4. ~Refused(r) /\ ~Replayable(r)
    BY DEF Ready, NeedsRow
  <2>5. run[r].rows[run[r].seq + 1].name = SlotOf(r).name
    BY <1>4, <2>1, <2>4 DEF Refused, Journaled, LocalRow
  <2>6. ~run[r].rows[run[r].seq + 1].done
    BY <1>4, <2>1, <2>4 DEF Replayable, Journaled, LocalRow
  <2>7. Len(db.rows) = run[r].seq + 1
    <3>1. \A i \in 1 .. Len(db.rows) - 1 : db.rows[i].done
      BY DEF IInv, Sound
    <3>2. Len(db.rows) \in Nat
      BY <1>1
    <3> QED BY <1>1, <2>1, <2>3, <2>6, <3>1, <3>2
  <2> QED BY <1>1, <2>3, <2>5, <2>6, <2>7 DEF InStep, SlotOf
<1> QED BY <1>3, <1>4

LEMMA DuringStep ==
    ASSUME IInv, NEW r \in Runners, Outcome(r), NEW a, Fenced(r, a)
    PROVE  /\ InStep(r, db, run[r]) /\ Owns(r, db, run[r]) /\ run[r] \in Runs
           /\ run[r].seq \in Nat /\ run[r].seq < Len(Program[r]) /\ run[r].pc = "returned"
           /\ db \in Workflows /\ db.rows \in Seq(Rows) /\ db.status = "running"
           /\ db.runner = r
           /\ run[r].seq + 1 \in 1 .. Len(db.rows)
<1>1. run[r].pc = "returned"
  BY DEF Outcome
<1>2. run[r] \in Runs /\ db \in Workflows /\ Good(r, db, run[r])
  BY DEF IInv, TypeOK
<1>3. Owns(r, db, run[r]) /\ db.status = "running" /\ db.runner = r
  BY <1>1, Fence
<1>4. InStep(r, db, run[r]) /\ run[r].seq < Len(Program[r])
  BY <1>1, <1>2, <1>3 DEF Good
<1>5. run[r].seq \in Nat /\ db.rows \in Seq(Rows)
  BY <1>2 DEF Runs, Workflows
<1>6. run[r].seq + 1 \in 1 .. Len(db.rows)
  BY <1>4, <1>5 DEF InStep
<1> QED BY <1>1, <1>2, <1>3, <1>4, <1>5, <1>6

----------------------------------------------------------------------------
(* Each action preserves the invariant.                                     *)

LEMMA EndedStep ==
    ASSUME NEW d \in Workflows, NEW s \in Terminal, NEW cs, Sound(d, cs)
    PROVE  /\ Ended(d, s) \in Workflows /\ Sound(Ended(d, s), cs)
           /\ Ended(d, s).status # "running"
<1>1. Ended(d, s) \in Workflows
  BY EndedTyped
<1>2. Ended(d, s).rows = d.rows /\ Ended(d, s).status = s
  BY DEF Ended, Workflows
<1>3. s # "absent" /\ s # "running"
  BY DEF Terminal
<1> QED BY <1>1, <1>2, <1>3, SoundSame

LEMMA SuspendedStep ==
    ASSUME NEW d \in Workflows, NEW w \in Int, NEW cs, Sound(d, cs)
    PROVE  /\ Suspended(d, w) \in Workflows /\ Sound(Suspended(d, w), cs)
           /\ Suspended(d, w).status # "running"
<1>1. Suspended(d, w) \in Workflows
  BY SuspendedTyped
<1>2. Suspended(d, w).rows = d.rows /\ Suspended(d, w).status = "waiting"
  BY DEF Suspended, Workflows
<1> QED BY <1>1, <1>2, SoundSame

\* A caller's or the housekeeping's write to a workflow that stays with its runner.
LEMMA CallerStep ==
    ASSUME IInv, UnchangedEnv, UNCHANGED run, db' \in Workflows, synced' \in Workflows,
           calls' \subseteq Calls, Sound(db', calls'), Sound(synced', calls'),
           db'.status # "running" \/ ( /\ db'.rows = db.rows /\ db'.runner = db.runner
                                       /\ db'.status = db.status /\ db'.epoch = db.epoch )
    PROVE  IInv'
<1>1. TypeOK'
  BY DEF IInv, TypeOK, UnchangedEnv
<1>2. \A s \in Runners : Good(s, db', run'[s])
  <2> TAKE s \in Runners
  <2>1. Good(s, db, run[s])
    BY DEF IInv
  <2> QED BY <2>1, GoodElse, GoodSame
<1> QED BY <1>1, <1>2 DEF IInv

LEMMA StartStep == IInv /\ StartWithID => IInv'
<1> SUFFICES ASSUME IInv, StartWithID PROVE IInv'
  OBVIOUS
<1> DEFINE d == [Absent EXCEPT !.status = "pending"]
<1>1. d \in Workflows
  BY AbsentTyped DEF Workflows, Statuses
<1>2. d.rows = << >> /\ d.status = "pending"
  BY DEF Absent
<1>3. db.rows = << >>
  BY DEF StartWithID, IInv, Sound
<1>4. Sound(d, calls)
  BY <1>2, <1>3 DEF IInv, Sound
<1>5. db' = d /\ synced' = d /\ UNCHANGED <<run, calls>> /\ UnchangedEnv
  BY DEF StartWithID, Full
<1> QED BY <1>1, <1>2, <1>4, <1>5, CallerStep DEF IInv, TypeOK

LEMMA CancelStep == IInv /\ Cancel => IInv'
<1> SUFFICES ASSUME IInv, Cancel PROVE IInv'
  OBVIOUS
<1>1. UNCHANGED <<run, calls>> /\ UnchangedEnv /\ db \in Workflows /\ calls \in SUBSET Calls
        /\ Sound(db, calls)
  BY DEF Cancel, IInv, TypeOK
<1>2. CASE Full(Ended(db, "cancelled"))
  <2>1. "cancelled" \in Terminal
    BY DEF Terminal
  <2>2. /\ Ended(db, "cancelled") \in Workflows /\ Sound(Ended(db, "cancelled"), calls)
        /\ Ended(db, "cancelled").status # "running"
    BY <1>1, <2>1, EndedStep
  <2> QED BY <1>1, <1>2, <2>2, CallerStep DEF Full
<1>3. CASE Full([db EXCEPT !.cancel = TRUE])
  <2> DEFINE d == [db EXCEPT !.cancel = TRUE]
  <2>1. d \in Workflows
    BY <1>1 DEF Workflows
  <2>2. d.rows = db.rows /\ d.runner = db.runner /\ d.status = db.status /\ d.epoch = db.epoch
    BY <1>1 DEF Workflows
  <2>3. Sound(d, calls)
    BY <1>1, <2>2, SoundSame
  <2> QED BY <1>1, <1>3, <2>1, <2>2, <2>3, CallerStep DEF Full
<1> QED BY <1>2, <1>3 DEF Cancel

LEMMA PruneStep == IInv /\ Prune => IInv'
<1> SUFFICES ASSUME IInv, Prune PROVE IInv'
  OBVIOUS
<1>1. db' = Absent /\ UNCHANGED <<synced, run>> /\ UnchangedEnv /\ calls' = {}
  BY DEF Prune, Normal
<1>2. Absent.rows = << >> /\ Absent.status = "absent"
  BY DEF Absent
<1>3. Sound(Absent, {}) /\ Sound(synced, {})
  BY <1>2 DEF IInv, Sound
<1> QED BY <1>1, <1>2, <1>3, AbsentTyped, CallerStep DEF IInv, TypeOK

LEMMA ClaimStep == ASSUME NEW r \in Runners PROVE IInv /\ Claim(r) => IInv'
<1> SUFFICES ASSUME IInv, Claim(r) PROVE IInv'
  OBVIOUS
<1>1. PICK a \in 0 .. StoreTimeout :
        /\ Normal([db EXCEPT !.status = "running", !.runner = r, !.epoch = db.epoch + 1,
                             !.lease = Lease - a, !.wake = WakeFloor])
        /\ run' = [run EXCEPT ![r] = [IdleRun EXCEPT !.pc = "claimed",
                                        !.epoch = db.epoch + 1, !.leaseLeft = Lease - a]]
  BY DEF Claim
<1> DEFINE d == [db EXCEPT !.status = "running", !.runner = r, !.epoch = db.epoch + 1,
                           !.lease = Lease - a, !.wake = WakeFloor]
           e == [IdleRun EXCEPT !.pc = "claimed", !.epoch = db.epoch + 1,
                                !.leaseLeft = Lease - a]
<1>2. db \in Workflows /\ Sound(db, calls) /\ UNCHANGED calls /\ UnchangedEnv
  BY DEF IInv, TypeOK, Claim
<1>3. Lease - a \in Int /\ db.epoch + 1 \in Nat /\ "running" \in Statuses
  BY <1>2, LimitsAssumption DEF Workflows, Statuses
<1>4. d \in Workflows
  BY <1>2, <1>3, FloorsTyped DEF Workflows
<1>5. d.rows = db.rows /\ d.status = "running" /\ d.runner = r
  BY <1>2 DEF Workflows
<1>6. e \in Runs
  BY <1>3, IdleTyped DEF Runs
<1>7. e.pc = "claimed" /\ e.seq = 0 /\ e.retrying = FALSE
  BY DEF IdleRun
<1>8. Normal(d) /\ run' = [run EXCEPT ![r] = e]
  BY <1>1
<1> HIDE DEF d, e
<1>9. Sound(d, calls)
  BY <1>2, <1>5, SoundSame
<1>10. Good(r, d, e)
  BY <1>7 DEF Good
<1> QED BY <1>2, <1>4, <1>5, <1>6, <1>8, <1>9, <1>10, NormalStep

LEMMA LoadStep == ASSUME NEW r \in Runners PROVE IInv /\ Load(r) => IInv'
<1> SUFFICES ASSUME IInv, Load(r) PROVE IInv'
  OBVIOUS
<1>1. UNCHANGED <<db, synced, calls>> /\ UnchangedEnv
  BY DEF Load
<1>2. CASE EndRun(r)
  BY <1>1, <1>2, GiveUp
<1>3. CASE ~EndRun(r)
  <2> DEFINE e == [run[r] EXCEPT !.pc = "boundary", !.rows = db.rows, !.age = 0,
                                 !.renewer = "sleep", !.timer = Interval]
  <2>1. run[r] \in Runs /\ db \in Workflows /\ Good(r, db, run[r]) /\ run[r].pc = "claimed"
    BY DEF IInv, TypeOK, Load
  <2>2. db.rows \in Seq(Rows) /\ Interval \in Nat
    BY <2>1, LimitsAssumption DEF Workflows
  <2>3. e \in Runs
    BY <2>1, <2>2 DEF Runs
  <2>4. e.pc = "boundary" /\ e.seq = run[r].seq /\ e.rows = db.rows
    BY <2>1 DEF Runs
  <2>5. e.retrying = run[r].retrying
    BY <2>1 DEF Runs
  <2>6. run' = [run EXCEPT ![r] = e]
    BY <1>3 DEF Load
  <2> HIDE DEF e
  <2>7. e.seq = 0 /\ ~e.retrying
    BY <2>1, <2>4, <2>5 DEF Good
  <2>8. AtBoundary(db, e)
    BY <2>2, <2>4, <2>7 DEF AtBoundary
  <2>9. Good(r, db, e)
    BY <2>4, <2>7, <2>8 DEF Good
  <2> QED BY <1>1, <2>3, <2>6, <2>9, LocalStep
<1> QED BY <1>2, <1>3

LEMMA NonDeterministicStep == ASSUME NEW r \in Runners PROVE IInv /\ NonDeterministic(r) => IInv'
BY FinishStays DEF NonDeterministic

LEMMA ReturnNilStep == ASSUME NEW r \in Runners PROVE IInv /\ ReturnNil(r) => IInv'
BY FinishStays DEF ReturnNil

LEMMA HaltStep == ASSUME NEW r \in Runners PROVE IInv /\ HaltAtBoundary(r) => IInv'
BY GiveUp, InterruptStays DEF HaltAtBoundary

LEMMA ReplayStep == ASSUME NEW r \in Runners PROVE IInv /\ Replay(r) => IInv'
<1> SUFFICES ASSUME IInv, Replay(r) PROVE IInv'
  OBVIOUS
<1>1. /\ UNCHANGED <<db, synced, calls>> /\ UnchangedEnv
      /\ AtSlot(r) /\ Replayable(r) /\ Advance(r, LocalRow(r).out)
  BY DEF Replay
<1>2. run \in [Runners -> Runs] /\ run[r] \in Runs /\ db \in Workflows /\ Good(r, db, run[r])
  BY DEF IInv, TypeOK
<1>3. run[r].pc = "boundary" /\ ~run[r].retrying /\ run[r].seq < Len(run[r].rows)
        /\ run[r].rows[run[r].seq + 1].done
  BY <1>1 DEF AtSlot, Replayable, Journaled, LocalRow
<1>4. db.rows \in Seq(Rows) /\ run[r].rows \in Seq(Rows) /\ run[r].seq \in Nat
  BY <1>2 DEF Workflows, Runs
<1>5. ASSUME Owns(r, db, run[r])
      PROVE  LET u == run[r] IN
             /\ u.seq + 1 <= Len(db.rows)
             /\ \A i \in 1 .. u.seq + 1 : db.rows[i].done
             /\ u.seq + 1 < Len(u.rows) => db.rows = u.rows
             /\ u.seq + 1 >= Len(u.rows) => Len(db.rows) = u.seq + 1
  <2>1. AtBoundary(db, run[r])
    BY <1>2, <1>3, <1>5 DEF Good
  <2>2. db.rows = run[r].rows /\ \A i \in 1 .. run[r].seq : db.rows[i].done
    BY <1>3, <2>1 DEF AtBoundary
  <2>3. Len(db.rows) \in Nat
    BY <1>4
  <2> QED BY <1>3, <1>4, <2>2, <2>3
<1>6. PICK e \in Runs : run' = [run EXCEPT ![r] = e] /\ Good(r, db, e)
  <2>1. run[r].pc # "idle"
    BY <1>3
  <2> QED BY <1>1, <1>2, <1>4, <1>5, <2>1, AdvanceGood
<1> QED BY <1>1, <1>6, LocalStep

LEMMA StillBackingOffStep ==
    ASSUME NEW r \in Runners PROVE IInv /\ StillBackingOff(r) => IInv'
<1> SUFFICES ASSUME IInv, StillBackingOff(r) PROVE IInv'
  OBVIOUS
<1>1. Full(Suspended(db, db.stepWake)) /\ EndRun(r) /\ UNCHANGED calls /\ UnchangedEnv
  BY DEF StillBackingOff
<1>2. db \in Workflows /\ Sound(db, calls) /\ db.stepWake \in Int
  BY DEF IInv, TypeOK, Workflows
<1> QED BY <1>1, <1>2, SuspendedStep, LastStep

LEMMA CancelAtBoundaryStep ==
    ASSUME NEW r \in Runners PROVE IInv /\ CancelAtBoundary(r) => IInv'
<1> SUFFICES ASSUME IInv, CancelAtBoundary(r) PROVE IInv'
  OBVIOUS
<1>1. Full(Ended(db, "cancelled")) /\ EndRun(r) /\ UNCHANGED calls /\ UnchangedEnv
  BY DEF CancelAtBoundary
<1>2. db \in Workflows /\ Sound(db, calls) /\ "cancelled" \in Terminal
  BY DEF IInv, TypeOK, Terminal
<1> QED BY <1>1, <1>2, EndedStep, LastStep

\* The runs a step function is called in, and those it has returned in.
LEMMA CalledRun ==
    ASSUME NEW r \in Runners, NEW d, NEW u \in Runs, NEW n \in Nat, InStep(r, d, u),
           u.seq < Len(Program[r])
    PROVE  LET e == [u EXCEPT !.pc = "running", !.attempt = n, !.age = 0] IN
           e \in Runs /\ Good(r, d, e)
<1> DEFINE e == [u EXCEPT !.pc = "running", !.attempt = n, !.age = 0]
<1>1. e \in Runs
  BY DEF Runs
<1>2. e.pc = "running" /\ e.seq = u.seq /\ e.rows = u.rows
  BY DEF Runs
<1> HIDE DEF e
<1>3. Good(r, d, e)
  BY <1>2 DEF Good, InStep
<1> QED BY <1>1, <1>3 DEF e

LEMMA BeginFirstStep == ASSUME NEW r \in Runners PROVE IInv /\ BeginFirst(r) => IInv'
<1> SUFFICES ASSUME IInv, BeginFirst(r) PROVE IInv'
  OBVIOUS
<1> DEFINE row == NewRow(SlotOf(r).name)
           d == [db EXCEPT !.rows = Append(@, row), !.stepWake = WakeFloor]
           c == [seq |-> run[r].seq + 1, name |-> SlotOf(r).name, attempt |-> 1]
           e == [run[r] EXCEPT !.pc = "running", !.attempt = 1, !.age = 0]
<1>1. PICK a : Fenced(r, a)
  BY DEF BeginFirst
<1>2. /\ Ready(r) /\ ~HasRow(r) /\ Full(d) /\ UnchangedEnv
      /\ run' = [run EXCEPT ![r] = e] /\ calls' = calls \cup {c}
  BY DEF BeginFirst, Call
<1>3. /\ run[r] \in Runs /\ run[r].seq \in Nat /\ run[r].pc = "boundary"
      /\ run[r].seq < Len(Program[r]) /\ db \in Workflows /\ db.rows \in Seq(Rows)
  BY <1>2, AtReady
<1>4. /\ Len(db.rows) = run[r].seq /\ \A i \in 1 .. Len(db.rows) : db.rows[i].done
      /\ Len(run[r].rows) <= run[r].seq
  BY <1>1, <1>2, FreshSlot
<1>5. SlotOf(r).name \in Names /\ SlotOf(r) = Program[r][run[r].seq + 1]
  BY <1>3, Slot
<1>6. row \in Rows
  BY <1>5, NewRowTyped
<1>7. row.attempts = 1 /\ row.name = SlotOf(r).name /\ row.done = FALSE
  BY DEF NewRow
<1>8. c \in Calls
  BY <1>3, <1>5 DEF Calls
<1>9. db.status = "running" /\ db.runner = r
  BY <1>1 DEF Fenced
<1>10. c.seq = Len(db.rows) + 1 /\ c.name = row.name /\ c.attempt = row.attempts
  BY <1>4, <1>7
<1> HIDE DEF row, c
<1>11. d \in Workflows
  BY <1>3, <1>6, FloorsTyped, AppendTyped
<1>12. d.rows = Append(db.rows, row) /\ d.status = "running" /\ d.runner = r
  BY <1>3, <1>9 DEF Workflows
<1> HIDE DEF d
<1>13. Sound(d, calls \cup {c})
  <2>1. Sound(db, calls) /\ db.status # "absent" /\ d.status # "absent"
    BY <1>9, <1>12 DEF IInv
  <2> QED BY <2>1, <1>3, <1>4, <1>6, <1>8, <1>10, <1>12, SoundAppend
<1>14. InStep(r, d, run[r])
  <2>1. /\ Len(d.rows) = run[r].seq + 1 /\ d.rows[run[r].seq + 1] = row
        /\ \A i \in 1 .. run[r].seq : d.rows[i] = db.rows[i]
    BY <1>3, <1>4, <1>6, <1>12
  <2>2. Len(run[r].rows) \in Nat
    BY <1>3 DEF Runs
  <2>3. ~d.rows[run[r].seq + 1].done
    BY <1>7, <2>1
  <2>4. d.rows[run[r].seq + 1].name = Program[r][run[r].seq + 1].name
    BY <1>5, <1>7, <2>1
  <2>5. \A i \in 1 .. run[r].seq : d.rows[i].done
    BY <1>4, <2>1
  <2>6. Len(run[r].rows) <= run[r].seq + 1
    BY <1>3, <1>4, <2>2
  <2> QED BY <2>1, <2>3, <2>4, <2>5, <2>6 DEF InStep
<1>15. e \in Runs /\ Good(r, d, e)
  BY <1>3, <1>14, CalledRun
<1>16. calls' \subseteq Calls /\ Sound(d, calls')
  BY <1>2, <1>8, <1>13 DEF IInv, TypeOK
<1> HIDE DEF e
<1> QED BY <1>2, <1>11, <1>12, <1>15, <1>16, FullStep

LEMMA BeginAgainStep == ASSUME NEW r \in Runners PROVE IInv /\ BeginAgain(r) => IInv'
<1> SUFFICES ASSUME IInv, BeginAgain(r) PROVE IInv'
  OBVIOUS
<1> DEFINE i == run[r].seq + 1
           n == db.rows[i].attempts
           m == n + 1
<1>1. PICK a : Fenced(r, a)
  BY DEF BeginAgain
<1>2. Ready(r) /\ HasRow(r) /\ UnchangedEnv
  BY DEF BeginAgain
<1>3. /\ run[r] \in Runs /\ run[r].seq \in Nat /\ run[r].seq < Len(Program[r])
      /\ db \in Workflows /\ db.rows \in Seq(Rows)
  BY <1>2, AtReady
<1>4. InStep(r, db, run[r])
  BY <1>1, <1>2, OldSlot
<1>5. db.status = "running" /\ db.runner = r /\ Sound(db, calls) /\ calls \in SUBSET Calls
  BY <1>1 DEF Fenced, IInv, TypeOK
<1>6. SlotOf(r).name \in Names /\ SlotOf(r) = Program[r][run[r].seq + 1]
  BY <1>3, Slot
<1>7. CASE /\ ~GivenUp(n)
           /\ Full([db EXCEPT !.rows[i].attempts = m, !.stepWake = WakeFloor])
           /\ Call(r, m)
  <2> DEFINE d == [db EXCEPT !.rows[i].attempts = m, !.stepWake = WakeFloor]
             c == [seq |-> i, name |-> SlotOf(r).name, attempt |-> m]
             e == [run[r] EXCEPT !.pc = "running", !.attempt = m, !.age = 0]
  <2>1. i \in 1 .. Len(db.rows) /\ db.rows[i].name = SlotOf(r).name
    BY <1>3, <1>4, <1>6 DEF InStep
  <2>2. m \in Nat
    <3>1. db.rows[i] \in Rows
      BY <1>3, <2>1
    <3>2. n \in Nat /\ m = n + 1
      BY <3>1 DEF Rows
    <3> QED BY <3>2
  <2>3. c \in Calls
    BY <1>3, <1>6, <2>2 DEF Calls
  <2>4. c.seq = i /\ c.name = db.rows[i].name /\ c.attempt = m
    BY <2>1
  <2>5. Full(d) /\ run' = [run EXCEPT ![r] = e] /\ calls' = calls \cup {c}
    BY <1>7 DEF Call
  <2>6. /\ d \in Workflows
        /\ \A b \in Calls : b.seq = i /\ b.name = db.rows[i].name /\ b.attempt = m
             => Sound(d, calls \cup {b})
        /\ Len(d.rows) = Len(db.rows)
        /\ \A j \in 1 .. Len(db.rows) : d.rows[j].done = db.rows[j].done
                                           /\ d.rows[j].name = db.rows[j].name
        /\ d.status = db.status /\ d.runner = db.runner
    <3>1. /\ db.status # "absent" /\ WakeFloor \in Int /\ i \in 1 .. Len(db.rows)
          /\ ~GivenUp(db.rows[i].attempts)
      BY <1>5, <1>7, <2>1, FloorsTyped
    <3>2. m = db.rows[i].attempts + 1 /\ d = NextAttempt(db, i)
      BY DEF NextAttempt
    <3> HIDE DEF i, n, m, d
    <3> QED BY <1>3, <1>5, <3>1, <3>2, SoundAttempt
  <2> HIDE DEF c, d, m, n, i
  <2>7. Sound(d, calls \cup {c})
    BY <2>3, <2>4, <2>6
  <2>8. InStep(r, d, run[r])
    <3>1. run[r].seq + 1 \in 1 .. Len(db.rows) /\ 1 .. run[r].seq \subseteq 1 .. Len(db.rows)
      BY <1>3, <1>4 DEF InStep
    <3> QED BY <1>4, <2>6, <3>1 DEF InStep
  <2>9. e \in Runs /\ Good(r, d, e)
    BY <1>3, <2>2, <2>8, CalledRun
  <2> HIDE DEF e
  <2>10. calls' \subseteq Calls /\ Sound(d, calls')
    BY <1>5, <2>3, <2>5, <2>7
  <2> QED BY <1>2, <1>5, <2>5, <2>6, <2>9, <2>10, FullStep
<1>8. CASE Full(Ended(db, "failed")) /\ EndRun(r) /\ UNCHANGED calls
  <2>1. "failed" \in Terminal
    BY DEF Terminal
  <2> QED BY <1>2, <1>3, <1>5, <1>8, <2>1, EndedStep, LastStep
<1> QED BY <1>7, <1>8 DEF BeginAgain

LEMMA ReturnStep == ASSUME NEW r \in Runners PROVE IInv /\ Return(r) => IInv'
<1> SUFFICES ASSUME IInv, Return(r) PROVE IInv'
  OBVIOUS
<1>1. PICK res \in Results :
        run' = [run EXCEPT ![r] = [run[r] EXCEPT !.pc = "returned", !.result = res, !.age = 0]]
  BY DEF Return
<1> DEFINE e == [run[r] EXCEPT !.pc = "returned", !.result = res, !.age = 0]
<1>2. /\ UNCHANGED <<db, synced, calls>> /\ UnchangedEnv /\ run[r] \in Runs
      /\ run[r].pc = "running" /\ Good(r, db, run[r])
  BY DEF Return, IInv, TypeOK
<1>3. e \in Runs
  BY <1>2 DEF Runs
<1>4. e.pc = "returned" /\ e.seq = run[r].seq /\ e.rows = run[r].rows
        /\ e.epoch = run[r].epoch
  BY <1>2 DEF Runs
<1>5. run' = [run EXCEPT ![r] = e]
  BY <1>1
<1> HIDE DEF e
<1>6. run[r].seq < Len(Program[r]) /\ (Owns(r, db, run[r]) => InStep(r, db, run[r]))
  BY <1>2 DEF Good
<1>7. Owns(r, db, e) => InStep(r, db, e)
  BY <1>2, <1>4, <1>6 DEF Owns, InStep
<1>8. Good(r, db, e)
  BY <1>4, <1>6, <1>7 DEF Good
<1> QED BY <1>2, <1>3, <1>5, <1>8, LocalStep

LEMMA StepInterruptedStep == ASSUME NEW r \in Runners PROVE IInv /\ StepInterrupted(r) => IInv'
BY GiveUp, InterruptStays DEF StepInterrupted

\* The row of a step is completed and the function goes on.  c is the journal with
\* the row in it.
LEMMA DoneAndAdvance ==
    ASSUME IInv, UnchangedEnv, UNCHANGED calls, NEW r \in Runners, run[r].pc # "idle",
           NEW c \in Workflows, c.status = "running", c.runner = r,
           Sound(c, calls), InStep(r, c, run[r]), NEW out \in Outs,
           Full(RowDone(c, run[r].seq + 1, out)), Advance(r, out)
    PROVE  IInv'
<1> DEFINE i == run[r].seq + 1
           d == RowDone(c, i, out)
<1>1. /\ run[r] \in Runs /\ run[r].seq \in Nat /\ run \in [Runners -> Runs]
      /\ c.rows \in Seq(Rows) /\ Good(r, db, run[r]) /\ calls \subseteq Calls
  BY DEF IInv, TypeOK, Runs, Workflows
<1>2. i \in 1 .. Len(c.rows) /\ c.status # "absent"
  BY <1>1 DEF InStep
<1>3. d \in Workflows
  BY <1>2, RowDoneTyped
<1>4. /\ Sound(d, calls)
      /\ Len(d.rows) = Len(c.rows) /\ d.rows[i].done
      /\ \A j \in 1 .. Len(c.rows) : j # i => d.rows[j] = c.rows[j]
      /\ d.status = c.status /\ d.runner = c.runner /\ d.epoch = c.epoch
  BY <1>2, SoundDone
<1>5. d.rows \in Seq(Rows)
  BY <1>3 DEF Workflows
<1>6. Full(d)
  OBVIOUS
<1> HIDE DEF d
<1>7. Len(d.rows) = run[r].seq + 1 /\ Len(run[r].rows) <= run[r].seq + 1
  BY <1>4 DEF InStep
<1>8. \A j \in 1 .. run[r].seq + 1 : d.rows[j].done
  <2> TAKE j \in 1 .. run[r].seq + 1
  <2>1. CASE j = i
    BY <1>4, <2>1
  <2>2. CASE j # i
    <3>1. j \in 1 .. run[r].seq /\ j \in 1 .. Len(c.rows)
      BY <1>1, <1>2, <2>2
    <3>2. c.rows[j].done
      BY <3>1 DEF InStep
    <3> QED BY <1>4, <2>2, <3>1, <3>2
  <2> QED BY <2>1, <2>2
<1>9. LET u == run[r] IN
         /\ u.seq + 1 <= Len(d.rows)
         /\ \A j \in 1 .. u.seq + 1 : d.rows[j].done
         /\ u.seq + 1 < Len(u.rows) => d.rows = u.rows
         /\ u.seq + 1 >= Len(u.rows) => Len(d.rows) = u.seq + 1
  <2>1. Len(run[r].rows) \in Nat
    BY <1>1 DEF Runs
  <2>2. ~(run[r].seq + 1 < Len(run[r].rows)) /\ run[r].seq + 1 <= Len(d.rows)
    BY <1>1, <1>7, <2>1
  <2> QED BY <1>7, <1>8, <2>2
<1>10. PICK e \in Runs : run' = [run EXCEPT ![r] = e] /\ Good(r, d, e)
  BY <1>1, <1>5, <1>9, AdvanceGood
<1> QED BY <1>1, <1>3, <1>4, <1>6, <1>10, FullStep

LEMMA FinishStepStep == ASSUME NEW r \in Runners PROVE IInv /\ FinishStep(r) => IInv'
<1> SUFFICES ASSUME IInv, FinishStep(r) PROVE IInv'
  OBVIOUS
<1> DEFINE out == IF run[r].result = "ok" THEN "ok" ELSE "err"
<1>1. PICK a : Fenced(r, a)
  BY DEF FinishStep
<1>2. /\ Outcome(r) /\ Full(RowDone(db, run[r].seq + 1, out)) /\ Advance(r, out)
      /\ UNCHANGED calls /\ UnchangedEnv
  BY DEF FinishStep
<1>3. /\ InStep(r, db, run[r]) /\ run[r].pc # "idle" /\ db \in Workflows
      /\ db.status = "running" /\ db.runner = r /\ Sound(db, calls)
  BY <1>1, <1>2, DuringStep DEF IInv
<1>4. out \in Outs
  BY DEF Outs
<1> HIDE DEF out
<1> QED BY <1>2, <1>3, <1>4, DoneAndAdvance

LEMMA FailWorkflowStep == ASSUME NEW r \in Runners PROVE IInv /\ FailWorkflow(r) => IInv'
<1> SUFFICES ASSUME IInv, FailWorkflow(r) PROVE IInv'
  OBVIOUS
<1> DEFINE d == RowDone(db, run[r].seq + 1, "err")
<1>1. PICK a : Fenced(r, a)
  BY DEF FailWorkflow
<1>2. Outcome(r) /\ Full(Ended(d, "failed")) /\ EndRun(r) /\ UNCHANGED calls /\ UnchangedEnv
  BY DEF FailWorkflow
<1>3. /\ db \in Workflows /\ db.status # "absent" /\ run[r].seq + 1 \in 1 .. Len(db.rows)
      /\ Sound(db, calls)
  BY <1>1, <1>2, DuringStep DEF IInv
<1>4. "err" \in Outs /\ "failed" \in Terminal
  BY DEF Outs, Terminal
<1>5. d \in Workflows /\ Sound(d, calls)
  BY <1>3, <1>4, RowDoneTyped, SoundDone
<1> HIDE DEF d
<1> QED BY <1>2, <1>4, <1>5, EndedStep, LastStep

LEMMA RetryStepStep == ASSUME NEW r \in Runners PROVE IInv /\ RetryStep(r) => IInv'
<1> SUFFICES ASSUME IInv, RetryStep(r) PROVE IInv'
  OBVIOUS
<1> DEFINE i == run[r].seq + 1
           delay == BackoffFor(SlotOf(r).backoff, Failures(r))
<1>1. PICK a \in 0 .. run[r].age :
        LET failed == [db EXCEPT !.rows[i].failures = @ + 1, !.stepWake = delay - a] IN
        /\ Fenced(r, a)
        /\ CanRetry(r)
        /\ \/ Full(Suspended(failed, delay - a)) /\ EndRun(r)
           \/ /\ Full(failed)
              /\ run' = [run EXCEPT ![r] = [run[r] EXCEPT !.pc = "boundary", !.retrying = TRUE,
                                              !.attempt = 0, !.result = "none", !.age = 0]]
  BY DEF RetryStep
<1>2. Outcome(r) /\ UNCHANGED calls /\ UnchangedEnv
  BY DEF RetryStep
<1>3. /\ InStep(r, db, run[r]) /\ run[r] \in Runs /\ run[r].seq \in Nat
      /\ run[r].seq < Len(Program[r])
      /\ db \in Workflows /\ db.rows \in Seq(Rows) /\ db.status = "running"
      /\ db.runner = r /\ i \in 1 .. Len(db.rows)
  BY <1>1, <1>2, DuringStep
<1>4. Sound(db, calls) /\ calls' \subseteq Calls
  BY <1>2 DEF IInv, TypeOK
<1>5. SlotOf(r).retries \in 0 .. (MaxStepAttempts - 1) /\ SlotOf(r).backoff \in Nat
  BY <1>3, Slot DEF Slots
<1>6. db.rows[i].failures \in Nat
  <2>1. db.rows[i] \in Rows
    BY <1>3
  <2> QED BY <2>1 DEF Rows
<1>7. Failures(r) \in 1 .. 10
  <2>1. Failures(r) = db.rows[i].failures + 1 /\ Failures(r) <= SlotOf(r).retries
    BY <1>1 DEF CanRetry, Failures
  <2> QED BY <1>5, <1>6, <2>1, LimitsAssumption
<1>8. delay \in Nat
  BY <1>5, <1>7, BackoffTyped
<1> DEFINE w == delay - a
<1>9. w \in Int
  <2>1. run[r].age \in Nat
    BY <1>3 DEF Runs
  <2> HIDE DEF delay
  <2> QED BY <1>8, <2>1
<1> DEFINE d == OneFailure(db, i, w)
<1>10. [db EXCEPT !.rows[i].failures = @ + 1, !.stepWake = w] = d
  BY <1>3 DEF OneFailure
<1> HIDE DEF w, delay
<1>11. /\ d \in Workflows /\ Sound(d, calls) /\ Len(d.rows) = Len(db.rows)
       /\ \A j \in 1 .. Len(db.rows) : d.rows[j].done = db.rows[j].done
                                           /\ d.rows[j].name = db.rows[j].name
       /\ d.status = db.status /\ d.runner = db.runner
  <2>1. db.status # "absent"
    BY <1>3
  <2> HIDE DEF i
  <2> QED BY <1>3, <1>4, <1>9, <2>1, SoundFailure
<1>12. CASE Full(Suspended(d, w)) /\ EndRun(r)
  <2> HIDE DEF d
  <2> QED BY <1>2, <1>9, <1>11, <1>12, SuspendedStep, LastStep
<1>13. CASE /\ Full(d)
            /\ run' = [run EXCEPT ![r] = [run[r] EXCEPT !.pc = "boundary", !.retrying = TRUE,
                                              !.attempt = 0, !.result = "none", !.age = 0]]
  <2> DEFINE e == [run[r] EXCEPT !.pc = "boundary", !.retrying = TRUE, !.attempt = 0,
                                 !.result = "none", !.age = 0]
  <2>1. e \in Runs
    BY <1>3 DEF Runs
  <2>2. e.pc = "boundary" /\ e.seq = run[r].seq /\ e.rows = run[r].rows
    BY <1>3 DEF Runs
  <2>3. e.retrying = TRUE
    BY <1>3 DEF Runs
  <2>4. run' = [run EXCEPT ![r] = e]
    BY <1>13
  <2> HIDE DEF e, d
  <2>5. run[r].seq + 1 \in 1 .. Len(db.rows) /\ 1 .. run[r].seq \subseteq 1 .. Len(db.rows)
    BY <1>3
  <2>6. InStep(r, d, e)
    BY <1>3, <1>11, <2>2, <2>5 DEF InStep
  <2>7. Good(r, d, e)
    BY <1>3, <2>2, <2>3, <2>6 DEF Good
  <2> QED BY <1>2, <1>3, <1>4, <1>11, <1>13, <2>1, <2>4, <2>7, FullStep
<1> QED BY <1>1, <1>10, <1>12, <1>13 DEF w

LEMMA SleepStepStep == ASSUME NEW r \in Runners PROVE IInv /\ SleepStep(r) => IInv'
<1> SUFFICES ASSUME IInv, SleepStep(r) PROVE IInv'
  OBVIOUS
<1>1. PICK a \in 0 .. run[r].age :
        LET wake == IF HasRow(r) THEN db.stepWake ELSE SlotOf(r).until - a
            noted == IF HasRow(r) THEN db
                     ELSE [db EXCEPT !.rows = Append(@, NewRow(Sleep)), !.stepWake = wake] IN
        /\ Fenced(r, a)
        /\ \/ Full(RowDone(noted, run[r].seq + 1, "ok")) /\ Advance(r, "ok")
           \/ Full(Suspended(noted, wake)) /\ EndRun(r)
  BY DEF SleepStep
<1> DEFINE wake == IF HasRow(r) THEN db.stepWake ELSE SlotOf(r).until - a
           noted == IF HasRow(r) THEN db
                    ELSE [db EXCEPT !.rows = Append(@, NewRow(Sleep)), !.stepWake = wake]
<1>2. Ready(r) /\ SlotOf(r).name = Sleep /\ UNCHANGED calls /\ UnchangedEnv /\ Fenced(r, a)
  BY <1>1 DEF SleepStep
<1>3. /\ run[r] \in Runs /\ run[r].seq \in Nat /\ run[r].pc = "boundary"
      /\ run[r].seq < Len(Program[r]) /\ db \in Workflows /\ db.rows \in Seq(Rows)
  BY <1>2, AtReady
<1>4. db.status = "running" /\ db.runner = r /\ Sound(db, calls)
  BY <1>2 DEF Fenced, IInv
<1>5. SlotOf(r) \in Slots /\ SlotOf(r) = Program[r][run[r].seq + 1]
  BY <1>3, Slot
<1>6. wake \in Int
  <2>1. run[r].age \in Nat /\ db.stepWake \in Int /\ SlotOf(r).until \in Nat
    BY <1>3, <1>5 DEF Runs, Workflows, Slots
  <2>2. SlotOf(r).until - a \in Int
    BY <2>1
  <2> QED BY <2>1, <2>2
<1> HIDE DEF wake
<1>7. /\ noted \in Workflows /\ Sound(noted, calls) /\ InStep(r, noted, run[r])
      /\ noted.status = "running" /\ noted.runner = r
  <2>1. CASE HasRow(r)
    <3>1. InStep(r, db, run[r])
      BY <1>2, <2>1, OldSlot
    <3> QED BY <1>3, <1>4, <2>1, <3>1
  <2>2. CASE ~HasRow(r)
    <3> DEFINE row == NewRow(Sleep)
               d == [db EXCEPT !.rows = Append(@, row), !.stepWake = wake]
    <3>1. noted = d
      BY <2>2
    <3>2. row \in Rows
      BY NewRowTyped DEF Names
    <3>3. row.name = Sleep /\ row.done = FALSE
      BY DEF NewRow
    <3>4. /\ Len(db.rows) = run[r].seq /\ \A i \in 1 .. Len(db.rows) : db.rows[i].done
          /\ Len(run[r].rows) <= run[r].seq
      BY <1>2, <2>2, FreshSlot
    <3> HIDE DEF row
    <3>5. d \in Workflows
      BY <1>3, <1>6, <3>2, AppendTyped
    <3>6. d.rows = Append(db.rows, row) /\ d.status = "running" /\ d.runner = r
      BY <1>3, <1>4 DEF Workflows
    <3> HIDE DEF d, noted
    <3>7. Sound(d, calls)
      <4>1. db.status # "absent" /\ d.status # "absent"
        BY <1>4, <3>6
      <4> QED BY <1>3, <1>4, <1>6, <3>2, <3>4, <3>6, <4>1, SoundAppend
    <3>8. InStep(r, d, run[r])
      <4>1. /\ Len(d.rows) = run[r].seq + 1 /\ d.rows[run[r].seq + 1] = row
            /\ \A i \in 1 .. run[r].seq : d.rows[i] = db.rows[i]
        BY <1>3, <3>2, <3>4, <3>6
      <4>2. ~d.rows[run[r].seq + 1].done
        BY <3>3, <4>1
      <4>3. d.rows[run[r].seq + 1].name = Program[r][run[r].seq + 1].name
        BY <1>2, <1>5, <3>3, <4>1
      <4>4. \A i \in 1 .. run[r].seq : d.rows[i].done
        BY <3>4, <4>1
      <4>5. Len(run[r].rows) <= run[r].seq + 1
        <5>1. Len(run[r].rows) \in Nat
          BY <1>3 DEF Runs
        <5> QED BY <1>3, <3>4, <5>1
      <4> QED BY <4>1, <4>2, <4>3, <4>4, <4>5 DEF InStep
    <3> QED BY <3>1, <3>5, <3>6, <3>7, <3>8
  <2> QED BY <2>1, <2>2
<1>8. \/ Full(RowDone(noted, run[r].seq + 1, "ok")) /\ Advance(r, "ok")
      \/ Full(Suspended(noted, wake)) /\ EndRun(r)
  BY <1>1 DEF wake
<1> HIDE DEF noted
<1>9. "ok" \in Outs /\ run[r].pc # "idle"
  BY <1>3 DEF Outs
<1>10. CASE Full(RowDone(noted, run[r].seq + 1, "ok")) /\ Advance(r, "ok")
  BY <1>2, <1>7, <1>9, <1>10, DoneAndAdvance
<1>11. CASE Full(Suspended(noted, wake)) /\ EndRun(r)
  BY <1>2, <1>6, <1>7, <1>11, SuspendedStep, LastStep
<1> QED BY <1>8, <1>10, <1>11

LEMMA NowStepStep == ASSUME NEW r \in Runners PROVE IInv /\ NowStep(r) => IInv'
<1> SUFFICES ASSUME IInv, NowStep(r) PROVE IInv'
  OBVIOUS
<1> DEFINE row == [NewRow(NowName) EXCEPT !.done = TRUE, !.out = "ok"]
           d == [db EXCEPT !.rows = Append(@, row)]
<1>1. PICK a : Fenced(r, a)
  BY DEF NowStep
<1>2. Ready(r) /\ ~HasRow(r) /\ Full(d) /\ Advance(r, "ok") /\ UNCHANGED calls /\ UnchangedEnv
  BY DEF NowStep
<1>3. /\ run[r] \in Runs /\ run[r].seq \in Nat /\ run[r].pc = "boundary"
      /\ db \in Workflows /\ db.rows \in Seq(Rows) /\ Good(r, db, run[r])
  BY <1>2, AtReady
<1>4. /\ Len(db.rows) = run[r].seq /\ \A i \in 1 .. Len(db.rows) : db.rows[i].done
      /\ Len(run[r].rows) <= run[r].seq
  BY <1>1, <1>2, FreshSlot
<1>5. row \in Rows
  BY NewRowTyped DEF Names
<1>6. row.done = TRUE
  BY DEF NewRow
<1> HIDE DEF row
<1>7. d \in Workflows
  BY <1>3, <1>5, FloorsTyped, AppendTyped
<1>8. db.status = "running" /\ db.runner = r /\ Sound(db, calls) /\ calls \subseteq Calls
        /\ run \in [Runners -> Runs]
  BY <1>1 DEF Fenced, IInv, TypeOK
<1>9. d.rows = Append(db.rows, row) /\ d.status = "running" /\ d.runner = r
  BY <1>3, <1>8 DEF Workflows
<1> HIDE DEF d
<1>10. Sound(d, calls)
  <2>1. db.status # "absent" /\ d.status # "absent" /\ 0 \in Int
    BY <1>8, <1>9
  <2> QED BY <1>3, <1>4, <1>5, <1>8, <1>9, <2>1, SoundAppend
<1>11. /\ Len(d.rows) = run[r].seq + 1 /\ d.rows[run[r].seq + 1] = row
       /\ \A i \in 1 .. run[r].seq : d.rows[i] = db.rows[i]
       /\ d.rows \in Seq(Rows)
  BY <1>3, <1>4, <1>5, <1>9
<1>12. \A i \in 1 .. run[r].seq + 1 : d.rows[i].done
  <2> TAKE i \in 1 .. run[r].seq + 1
  <2>1. CASE i = run[r].seq + 1
    BY <1>6, <1>11, <2>1
  <2>2. CASE i # run[r].seq + 1
    <3>1. i \in 1 .. run[r].seq
      BY <1>3, <2>2
    <3> QED BY <1>4, <1>11, <3>1
  <2> QED BY <2>1, <2>2
<1>13. LET u == run[r] IN
         /\ u.seq + 1 <= Len(d.rows)
         /\ \A i \in 1 .. u.seq + 1 : d.rows[i].done
         /\ u.seq + 1 < Len(u.rows) => d.rows = u.rows
         /\ u.seq + 1 >= Len(u.rows) => Len(d.rows) = u.seq + 1
  <2>1. Len(run[r].rows) \in Nat
    BY <1>3 DEF Runs
  <2>2. ~(run[r].seq + 1 < Len(run[r].rows)) /\ run[r].seq + 1 <= Len(d.rows)
    BY <1>3, <1>4, <1>11, <2>1
  <2> QED BY <1>11, <1>12, <2>2
<1>14. run[r].pc # "idle"
  BY <1>3
<1>15. PICK e \in Runs : run' = [run EXCEPT ![r] = e] /\ Good(r, d, e)
  BY <1>2, <1>3, <1>8, <1>11, <1>13, <1>14, AdvanceGood
<1> QED BY <1>2, <1>7, <1>8, <1>9, <1>10, <1>15, FullStep

LEMMA FencedOutStep == ASSUME NEW r \in Runners PROVE IInv /\ FencedOut(r) => IInv'
BY GiveUp DEF FencedOut

LEMMA FinalizeStep == ASSUME NEW r \in Runners PROVE IInv /\ Finalize(r) => IInv'
<1> SUFFICES ASSUME IInv, Finalize(r) PROVE IInv'
  OBVIOUS
<1>1. /\ run[r].pc = "finish" /\ Full(Ended(db, run[r].verdict)) /\ EndRun(r)
      /\ UNCHANGED calls /\ UnchangedEnv
  BY DEF Finalize
<1>2. db \in Workflows /\ Sound(db, calls) /\ Good(r, db, run[r])
  BY DEF IInv, TypeOK
<1>3. run[r].verdict \in Terminal
  BY <1>1, <1>2 DEF Good, Terminal
<1> QED BY <1>1, <1>2, <1>3, EndedStep, LastStep

LEMMA ReleaseStep == ASSUME NEW r \in Runners PROVE IInv /\ Release(r) => IInv'
<1> SUFFICES ASSUME IInv, Release(r) PROVE IInv'
  OBVIOUS
<1> DEFINE d == [db EXCEPT !.status = "pending", !.runner = NoRunner, !.lease = LeaseFloor]
<1>1. EndRun(r) /\ UNCHANGED calls /\ UnchangedEnv /\ (Normal(d) \/ UNCHANGED <<db, synced>>)
  BY DEF Release
<1>2. db \in Workflows /\ Sound(db, calls)
  BY DEF IInv, TypeOK
<1>3. d \in Workflows
  BY <1>2, FloorsTyped DEF Workflows, Statuses
<1>4. d.rows = db.rows /\ d.status = "pending"
  BY <1>2 DEF Workflows
<1> HIDE DEF d
<1>5. Sound(d, calls)
  BY <1>2, <1>4, SoundSame
<1>6. run' = [run EXCEPT ![r] = IdleRun] /\ Good(r, d, IdleRun) /\ d.status # "running"
  BY <1>1, <1>4, GoodIdle DEF EndRun
<1>7. CASE Normal(d)
  BY <1>1, <1>3, <1>5, <1>6, <1>7, IdleTyped, NormalStep
<1>8. CASE UNCHANGED <<db, synced>>
  BY <1>1, <1>8, GiveUp
<1> QED BY <1>1, <1>7, <1>8

\* A step of the environment or of a process, which touches no journal.
LEMMA ProcessStep ==
    ASSUME IInv, UNCHANGED <<db, synced, calls>>,
           eng' \in [Runners -> {"up", "stopping", "cancelled", "down"}],
           stalled' \subseteq Runners, faults' \in Nat, stalls' \in Nat, jumps' \in Nat,
           run' \in [Runners -> Runs], \A r \in Runners : Good(r, db, run'[r])
    PROVE  IInv'
BY DEF IInv, TypeOK

LEMMA EndedRun ==
    ASSUME IInv, NEW r \in Runners, EndRun(r)
    PROVE  run' \in [Runners -> Runs] /\ \A s \in Runners : Good(s, db, run'[s])
<1>1. run \in [Runners -> Runs] /\ run' = [run EXCEPT ![r] = IdleRun]
  BY DEF IInv, TypeOK, EndRun
<1>2. \A s \in Runners : run'[s] = IdleRun \/ run'[s] = run[s]
  BY <1>1
<1>3. \A s \in Runners : Good(s, db, run[s]) /\ Good(s, db, IdleRun)
  BY GoodIdle DEF IInv
<1>4. run' \in [Runners -> Runs]
  BY <1>1, IdleTyped
<1> QED BY <1>2, <1>3, <1>4

LEMMA StoreFailsStep == ASSUME NEW r \in Runners PROVE IInv /\ StoreFails(r) => IInv'
<1> SUFFICES ASSUME IInv, StoreFails(r) PROVE IInv'
  OBVIOUS
<1>1. EndRun(r) /\ faults' = faults + 1
        /\ UNCHANGED <<db, synced, eng, stalled, stalls, jumps, calls>>
  BY DEF StoreFails
<1>2. run' \in [Runners -> Runs] /\ \A s \in Runners : Good(s, db, run'[s])
  BY <1>1, EndedRun
<1> QED BY <1>1, <1>2, ProcessStep DEF IInv, TypeOK

\* What the renewer changes in a run.
LEMMA LosingRun ==
    ASSUME NEW r, NEW d, NEW u \in Runs, Good(r, d, u)
    PROVE  LET e == [u EXCEPT !.lost = TRUE, !.renewer = "off", !.timer = 0] IN
           e \in Runs /\ Good(r, d, e)
<1> DEFINE e == [u EXCEPT !.lost = TRUE, !.renewer = "off", !.timer = 0]
<1>1. e \in Runs
  BY DEF Runs
<1>2. /\ e.pc = u.pc /\ e.seq = u.seq /\ e.retrying = u.retrying /\ e.rows = u.rows
      /\ e.epoch = u.epoch /\ e.verdict = u.verdict
  BY DEF Runs
<1> HIDE DEF e
<1>3. Good(r, d, e)
  BY <1>2, GoodSame
<1> QED BY <1>1, <1>3 DEF e

LEMMA RenewingRun ==
    ASSUME NEW r, NEW d, NEW u \in Runs, Good(r, d, u), NEW t \in Nat
    PROVE  LET e == [u EXCEPT !.renewer = "renew", !.timer = t] IN
           e \in Runs /\ Good(r, d, e)
<1> DEFINE e == [u EXCEPT !.renewer = "renew", !.timer = t]
<1>1. e \in Runs
  BY DEF Runs
<1>2. /\ e.pc = u.pc /\ e.seq = u.seq /\ e.retrying = u.retrying /\ e.rows = u.rows
      /\ e.epoch = u.epoch /\ e.verdict = u.verdict
  BY DEF Runs
<1> HIDE DEF e
<1>3. Good(r, d, e)
  BY <1>2, GoodSame
<1> QED BY <1>1, <1>3 DEF e

LEMMA RenewedRun ==
    ASSUME NEW r, NEW d, NEW u \in Runs, Good(r, d, u), NEW t \in Nat, NEW l \in Int
    PROVE  LET e == [u EXCEPT !.renewer = "sleep", !.timer = t, !.leaseLeft = l] IN
           e \in Runs /\ Good(r, d, e)
<1> DEFINE e == [u EXCEPT !.renewer = "sleep", !.timer = t, !.leaseLeft = l]
<1>1. e \in Runs
  BY DEF Runs
<1>2. /\ e.pc = u.pc /\ e.seq = u.seq /\ e.retrying = u.retrying /\ e.rows = u.rows
      /\ e.epoch = u.epoch /\ e.verdict = u.verdict
  BY DEF Runs
<1> HIDE DEF e
<1>3. Good(r, d, e)
  BY <1>2, GoodSame
<1> QED BY <1>1, <1>3 DEF e

LEMMA LostRun ==
    ASSUME IInv, NEW r \in Runners, LoseLease(r)
    PROVE  \E e \in Runs : run' = [run EXCEPT ![r] = e] /\ Good(r, db, e)
<1> DEFINE e == [run[r] EXCEPT !.lost = TRUE, !.renewer = "off", !.timer = 0]
<1>1. run[r] \in Runs /\ Good(r, db, run[r])
  BY DEF IInv, TypeOK
<1>2. e \in Runs /\ Good(r, db, e)
  BY <1>1, LosingRun
<1>3. run' = [run EXCEPT ![r] = e]
  BY DEF LoseLease
<1> QED BY <1>2, <1>3

LEMMA RenewWakeStep == ASSUME NEW r \in Runners PROVE IInv /\ RenewWake(r) => IInv'
<1> SUFFICES ASSUME IInv, RenewWake(r) PROVE IInv'
  OBVIOUS
<1>1. UNCHANGED <<db, synced, calls>> /\ UnchangedEnv
  BY DEF RenewWake
<1>2. CASE LoseLease(r)
  BY <1>1, <1>2, LostRun, LocalStep
<1>3. CASE run' = [run EXCEPT ![r] = [run[r] EXCEPT !.renewer = "renew", !.timer = Interval]]
  <2> DEFINE e == [run[r] EXCEPT !.renewer = "renew", !.timer = Interval]
  <2>1. run[r] \in Runs /\ Good(r, db, run[r]) /\ Interval \in Nat
    BY LimitsAssumption DEF IInv, TypeOK
  <2>2. e \in Runs /\ Good(r, db, e)
    BY <2>1, RenewingRun
  <2>3. run' = [run EXCEPT ![r] = e]
    BY <1>3
  <2> QED BY <1>1, <2>2, <2>3, LocalStep
<1> QED BY <1>2, <1>3 DEF RenewWake

LEMMA RenewTxStep == ASSUME NEW r \in Runners PROVE IInv /\ RenewTx(r) => IInv'
<1> SUFFICES ASSUME IInv, RenewTx(r) PROVE IInv'
  OBVIOUS
<1> DEFINE a == Interval - run[r].timer
           l == Lease - a
           d == [db EXCEPT !.lease = l]
           e == [run[r] EXCEPT !.renewer = "sleep", !.timer = Interval, !.leaseLeft = l]
<1>1. /\ UNCHANGED calls /\ UnchangedEnv /\ run[r] \in Runs /\ Good(r, db, run[r])
      /\ db \in Workflows /\ Sound(db, calls) /\ Interval \in Nat /\ Lease \in Nat
  BY LimitsAssumption DEF RenewTx, IInv, TypeOK
<1>2. CASE LoseLease(r) /\ UNCHANGED <<db, synced>>
  BY <1>1, <1>2, LostRun, LocalStep
<1>3. CASE /\ Fenced(r, a) /\ Normal(d) /\ run' = [run EXCEPT ![r] = e]
  <2>1. l \in Int
    BY <1>1 DEF Runs
  <2> HIDE DEF l
  <2>2. e \in Runs /\ Good(r, db, e)
    BY <1>1, <2>1, RenewedRun
  <2>3. d \in Workflows
    BY <1>1, <2>1 DEF Workflows
  <2>4. d.rows = db.rows /\ d.status = db.status /\ d.runner = db.runner
          /\ d.epoch = db.epoch
    BY <1>1 DEF Workflows
  <2>5. db.runner = r
    BY <1>3 DEF Fenced
  <2> HIDE DEF d, e
  <2>6. Good(r, d, e)
    BY <2>2, <2>4, GoodSame
  <2>7. Sound(d, calls)
    BY <1>1, <2>4, SoundSame
  <2> QED BY <1>1, <1>3, <2>2, <2>3, <2>4, <2>5, <2>6, <2>7, NormalStep
<1> QED BY <1>2, <1>3 DEF RenewTx

LEMMA RenewFailsStep == ASSUME NEW r \in Runners PROVE IInv /\ RenewFails(r) => IInv'
<1> SUFFICES ASSUME IInv, RenewFails(r) PROVE IInv'
  OBVIOUS
<1>1. LoseLease(r) /\ faults' = faults + 1
        /\ UNCHANGED <<db, synced, eng, stalled, stalls, jumps, calls>>
  BY DEF RenewFails
<1>2. PICK e \in Runs : run' = [run EXCEPT ![r] = e] /\ Good(r, db, e)
  BY <1>1, LostRun
<1>3. run \in [Runners -> Runs] /\ \A s \in Runners : Good(s, db, run[s])
  BY DEF IInv, TypeOK
<1>4. run' \in [Runners -> Runs] /\ \A s \in Runners : Good(s, db, run'[s])
  BY <1>2, <1>3
<1> QED BY <1>1, <1>4, ProcessStep DEF IInv, TypeOK

LEMMA StopStep == ASSUME NEW r \in Runners PROVE IInv /\ Stop(r) => IInv'
BY ProcessStep DEF Stop, EngineTo, IInv, TypeOK

LEMMA CancelStepsStep == ASSUME NEW r \in Runners PROVE IInv /\ CancelSteps(r) => IInv'
BY ProcessStep DEF CancelSteps, EngineTo, IInv, TypeOK

LEMMA ExitStep == ASSUME NEW r \in Runners PROVE IInv /\ Exit(r) => IInv'
<1> SUFFICES ASSUME IInv, Exit(r) PROVE IInv'
  OBVIOUS
<1>1. EndRun(r) /\ eng' = [eng EXCEPT ![r] = "down"]
        /\ UNCHANGED <<db, synced, stalled, faults, stalls, jumps, calls>>
  BY DEF Exit, EngineTo
<1>2. run' \in [Runners -> Runs] /\ \A s \in Runners : Good(s, db, run'[s])
  BY <1>1, EndedRun
<1> QED BY <1>1, <1>2, ProcessStep DEF IInv, TypeOK

LEMMA CrashStep == ASSUME NEW r \in Runners PROVE IInv /\ Crash(r) => IInv'
<1> SUFFICES ASSUME IInv, Crash(r) PROVE IInv'
  OBVIOUS
<1>1. EndRun(r) /\ eng' = [eng EXCEPT ![r] = "down"] /\ stalled' = stalled \ {r}
        /\ faults' = faults + 1 /\ UNCHANGED <<db, synced, stalls, jumps, calls>>
  BY DEF Crash, EngineTo
<1>2. run' \in [Runners -> Runs] /\ \A s \in Runners : Good(s, db, run'[s])
  BY <1>1, EndedRun
<1>3. /\ eng' \in [Runners -> {"up", "stopping", "cancelled", "down"}]
      /\ stalled' \subseteq Runners /\ faults' \in Nat /\ stalls' \in Nat /\ jumps' \in Nat
  BY <1>1 DEF IInv, TypeOK
<1> QED BY <1>1, <1>2, <1>3, ProcessStep

LEMMA RestartStep == ASSUME NEW r \in Runners PROVE IInv /\ Restart(r) => IInv'
BY ProcessStep DEF Restart, EngineTo, IInv, TypeOK

LEMMA StallStep == ASSUME NEW r \in Runners PROVE IInv /\ Stall(r) => IInv'
BY ProcessStep DEF Stall, IInv, TypeOK

LEMMA ResumeStep == ASSUME NEW r \in Runners PROVE IInv /\ Resume(r) => IInv'
BY ProcessStep DEF Resume, IInv, TypeOK

LEMMA PowerCutStep == IInv /\ PowerCut => IInv'
<1> SUFFICES ASSUME IInv, PowerCut PROVE IInv'
  OBVIOUS
<1>1. /\ db' = synced /\ synced' = synced /\ run' = [r \in Runners |-> IdleRun]
      /\ eng' = [r \in Runners |-> "down"] /\ stalled' = {} /\ faults' = faults + 1
      /\ UNCHANGED <<stalls, jumps, calls>>
  BY DEF PowerCut
<1>2. TypeOK'
  BY <1>1, IdleTyped DEF IInv, TypeOK
<1>3. Sound(db', calls') /\ Sound(synced', calls')
  BY <1>1 DEF IInv
<1>4. \A s \in Runners : Good(s, db', run'[s])
  BY <1>1, GoodIdle
<1> QED BY <1>2, <1>3, <1>4 DEF IInv

\* What time does to a run.
LEMMA TimedRun ==
    ASSUME NEW r, NEW d, NEW c, NEW u \in Runs, Good(r, d, u), NEW l \in Int,
           NEW a \in Nat, NEW t \in Nat,
           c.rows = d.rows, c.runner = d.runner, c.status = d.status, c.epoch = d.epoch
    PROVE  LET e == [u EXCEPT !.leaseLeft = l, !.age = a, !.timer = t] IN
           e \in Runs /\ Good(r, c, e)
<1> DEFINE e == [u EXCEPT !.leaseLeft = l, !.age = a, !.timer = t]
<1>1. e \in Runs
  BY DEF Runs
<1>2. /\ e.pc = u.pc /\ e.seq = u.seq /\ e.retrying = u.retrying /\ e.rows = u.rows
      /\ e.epoch = u.epoch /\ e.verdict = u.verdict
  BY DEF Runs
<1> HIDE DEF e
<1>3. Good(r, c, e)
  BY <1>2, GoodSame
<1> QED BY <1>1, <1>3 DEF e

\* A change of the clock's distance to the stored times, and of the runs'.
LEMMA ClockStep ==
    ASSUME IInv, NEW c, NEW s, db' = c, synced' = s, c \in Workflows, s \in Workflows,
           c.rows = db.rows, c.runner = db.runner, c.status = db.status,
           c.epoch = db.epoch, s.rows = synced.rows, s.status = synced.status,
           UNCHANGED <<eng, stalled, faults, stalls, calls>>, jumps' \in Nat,
           run' \in [Runners -> Runs], \A r \in Runners : Good(r, c, run'[r])
    PROVE  IInv'
<1>1. TypeOK'
  BY DEF IInv, TypeOK
<1>2. Sound(db', calls') /\ Sound(synced', calls')
  BY SoundSame DEF IInv
<1> QED BY <1>1, <1>2 DEF IInv

LEMMA TickStep == IInv /\ Tick => IInv'
<1> SUFFICES ASSUME IInv, Tick PROVE IInv'
  OBVIOUS
<1> DEFINE l(r) == Down(run[r].leaseLeft, -MaxJumps)
           a(r) == IF InStore(r) /\ run[r].age < StoreTimeout THEN run[r].age + 1 ELSE run[r].age
           t(r) == IF Awake(r) THEN Down(run[r].timer, 0) ELSE run[r].timer
           e(r) == [run[r] EXCEPT !.leaseLeft = l(r), !.age = a(r), !.timer = t(r)]
<1>1. /\ db \in Workflows /\ synced \in Workflows /\ run \in [Runners -> Runs]
      /\ \A r \in Runners : Good(r, db, run[r])
  BY DEF IInv, TypeOK
<1>2. db' = Later(db) /\ synced' = Later(synced)
        /\ UNCHANGED <<eng, stalled, faults, stalls, jumps, calls>>
  BY DEF Tick
<1>3. run' = [r \in Runners |-> e(r)]
  <2>1. \A r \in Runners :
          e(r) = [run[r] EXCEPT !.leaseLeft = Down(@, -MaxJumps),
                                !.age = IF InStore(r) /\ @ < StoreTimeout THEN @ + 1 ELSE @,
                                !.timer = IF Awake(r) THEN Down(@, 0) ELSE @]
    BY <1>1 DEF Runs
  <2> HIDE DEF e
  <2> QED BY <2>1 DEF Tick
<1>4. /\ Later(db).rows = db.rows /\ Later(db).runner = db.runner
      /\ Later(db).status = db.status /\ Later(db).epoch = db.epoch
      /\ Later(synced).rows = synced.rows /\ Later(synced).status = synced.status
  BY <1>1 DEF Later, Workflows
<1>5. \A r \in Runners : e(r) \in Runs /\ Good(r, Later(db), e(r))
  <2> TAKE r \in Runners
  <2>1. run[r] \in Runs /\ Good(r, db, run[r])
    BY <1>1
  <2>2. run[r].leaseLeft \in Int /\ run[r].age \in Nat /\ run[r].timer \in Nat
    BY <2>1 DEF Runs
  <2>3. l(r) \in Int /\ a(r) \in Nat /\ t(r) \in Nat
    BY <2>2, LimitsAssumption DEF Down
  <2> HIDE DEF l, a, t
  <2> QED BY <1>4, <2>1, <2>3, TimedRun
<1>6. Later(db) \in Workflows /\ Later(synced) \in Workflows
  BY <1>1, LaterTyped
<1> HIDE DEF e
<1>7. run' \in [Runners -> Runs] /\ \A r \in Runners : Good(r, Later(db), run'[r])
  BY <1>3, <1>5
<1>8. jumps' \in Nat
  BY <1>2 DEF IInv, TypeOK
<1> QED BY <1>2, <1>4, <1>6, <1>7, <1>8, ClockStep

LEMMA JumpBackStep == IInv /\ JumpBack => IInv'
<1> SUFFICES ASSUME IInv, JumpBack PROVE IInv'
  OBVIOUS
<1> DEFINE l(r) == IF run[r].pc = "idle" THEN run[r].leaseLeft ELSE run[r].leaseLeft + 1
           e(r) == [run[r] EXCEPT !.leaseLeft = l(r)]
<1>1. /\ db \in Workflows /\ synced \in Workflows /\ run \in [Runners -> Runs]
      /\ \A r \in Runners : Good(r, db, run[r])
  BY DEF IInv, TypeOK
<1>2. db' = Earlier(db) /\ synced' = Earlier(synced) /\ jumps' \in Nat
        /\ UNCHANGED <<eng, stalled, faults, stalls, calls>>
  BY DEF JumpBack, IInv, TypeOK
<1>3. run' = [r \in Runners |-> e(r)]
  <2>1. \A r \in Runners :
          e(r) = [run[r] EXCEPT !.leaseLeft = IF run[r].pc = "idle" THEN @ ELSE @ + 1]
    BY <1>1 DEF Runs
  <2> HIDE DEF e
  <2> QED BY <2>1 DEF JumpBack
<1>4. /\ Earlier(db).rows = db.rows /\ Earlier(db).runner = db.runner
      /\ Earlier(db).status = db.status /\ Earlier(db).epoch = db.epoch
      /\ Earlier(synced).rows = synced.rows /\ Earlier(synced).status = synced.status
  BY <1>1 DEF Earlier, Workflows
<1>5. \A r \in Runners : e(r) \in Runs /\ Good(r, Earlier(db), e(r))
  <2> TAKE r \in Runners
  <2>1. run[r] \in Runs /\ Good(r, db, run[r])
    BY <1>1
  <2>2. l(r) \in Int
    BY <2>1 DEF Runs
  <2> HIDE DEF l
  <2>3. e(r) \in Runs
    BY <2>1, <2>2 DEF Runs
  <2>4. /\ e(r).pc = run[r].pc /\ e(r).seq = run[r].seq /\ e(r).retrying = run[r].retrying
        /\ e(r).rows = run[r].rows /\ e(r).epoch = run[r].epoch
        /\ e(r).verdict = run[r].verdict
    BY <2>1 DEF Runs
  <2> HIDE DEF e
  <2> QED BY <1>4, <2>1, <2>3, <2>4, GoodSame
<1>6. Earlier(db) \in Workflows /\ Earlier(synced) \in Workflows
  BY <1>1, EarlierTyped
<1> HIDE DEF e
<1>7. run' \in [Runners -> Runs] /\ \A r \in Runners : Good(r, Earlier(db), run'[r])
  BY <1>3, <1>5
<1> QED BY <1>2, <1>4, <1>6, <1>7, ClockStep

----------------------------------------------------------------------------
(* The theorems.                                                            *)

LEMMA InitInv == Init => IInv
<1> SUFFICES ASSUME Init PROVE IInv
  OBVIOUS
<1>1. TypeOK
  BY AbsentTyped, IdleTyped DEF Init, TypeOK
<1>2. Absent.rows = << >>
  BY DEF Absent
<1>3. Sound(db, calls) /\ Sound(synced, calls)
  BY <1>2 DEF Init, Sound
<1>4. \A r \in Runners : Good(r, db, run[r])
  BY GoodIdle DEF Init
<1> QED BY <1>1, <1>3, <1>4 DEF IInv

LEMMA FunctionStep == ASSUME NEW r \in Runners PROVE IInv /\ Function(r) => IInv'
BY LoadStep, NonDeterministicStep, ReplayStep, ReturnNilStep, HaltStep, StillBackingOffStep,
   CancelAtBoundaryStep, BeginFirstStep, BeginAgainStep, ReturnStep, StepInterruptedStep,
   FinishStepStep, FailWorkflowStep, RetryStepStep, SleepStepStep, NowStepStep,
   FencedOutStep, FinalizeStep, ReleaseStep DEF Function

LEMMA InductiveStep == IInv /\ [Next]_vars => IInv'
<1> SUFFICES ASSUME IInv, [Next]_vars PROVE IInv'
  OBVIOUS
<1>1. CASE UNCHANGED vars
  <2>1. UNCHANGED <<db, synced, run, eng, stalled, faults, stalls, jumps, calls>>
    BY <1>1 DEF vars
  <2>2. eng' \in [Runners -> {"up", "stopping", "cancelled", "down"}]
          /\ stalled' \subseteq Runners /\ faults' \in Nat /\ stalls' \in Nat
          /\ jumps' \in Nat /\ run' \in [Runners -> Runs]
          /\ \A r \in Runners : Good(r, db, run'[r])
    BY <2>1 DEF IInv, TypeOK
  <2> QED BY <2>1, <2>2, ProcessStep
<1>2. ASSUME NEW r \in Runners,
             \/ Claim(r) \/ Function(r) \/ StoreFails(r)
             \/ Renewal(r) \/ RenewFails(r)
             \/ Stop(r) \/ Shutdown(r) \/ Crash(r) \/ Restart(r) \/ Stall(r) \/ Resume(r)
      PROVE  IInv'
  BY <1>2, ClaimStep, FunctionStep, StoreFailsStep, RenewWakeStep, RenewTxStep,
     RenewFailsStep, StopStep, CancelStepsStep, ExitStep, CrashStep, RestartStep, StallStep,
     ResumeStep DEF Renewal, Shutdown
<1> QED BY <1>1, <1>2, StartStep, CancelStep, PruneStep, PowerCutStep, TickStep, JumpBackStep
        DEF Next

\* The inductive invariant: the types, one unfinished step at most in the database and
\* in the synced copy, and what each runner holds agrees with the rows it stands on.
THEOREM Invariant == Spec => []IInv
BY InitInv, InductiveStep, PTL DEF Spec

\* Every state is made of the values the tables and the engine's structures hold: a
\* row's status is one of types.go, an owner is a runner or nobody, the journal is a
\* sequence of records of named steps.
THEOREM TypeCorrect == Spec => []TypeOK
<1>1. IInv => TypeOK
  BY DEF IInv
<1> QED BY <1>1, Invariant, PTL

\* store.go, beginStep and finishStep: for any number of runners and whatever
\* crashes, takeovers, lost leases and power cuts they meet, no step is journaled
\* after an unfinished one, neither in the database nor in what a power cut leaves.
THEOREM JournalIsALog == Spec => []OneUnfinished
<1>1. IInv => OneUnfinished
  BY DEF IInv, Sound, OneUnfinished
<1> QED BY <1>1, Invariant, PTL

\* ctx.go, runStep: a step function is called only after the row that says so is on
\* disk, so every call ever made is found, under its name and attempt number, in what
\* a power cut leaves.
THEOREM CallsAreJournaled == Spec => []WriteAhead
<1>1. IInv => WriteAhead
  BY DEF IInv, Sound, WriteAhead
<1> QED BY <1>1, Invariant, PTL

=============================================================================
