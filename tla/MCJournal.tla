------------------------------ MODULE MCJournal ------------------------------
(* Instances of Journal: the programs the runners execute in the runs. *)
EXTENDS Journal, TLC

Slot(n) == [name |-> n, retries |-> 0, backoff |-> 0, handles |-> FALSE, until |-> 0]
Place == Slot("place")
Verify == [Slot("verify") EXCEPT !.retries = 1, !.backoff = 1, !.handles = TRUE]
Pause == [Slot(Sleep) EXCEPT !.until = 1]

\* The time is read, slept on, and then a step with a backed-off retry runs.
SleepProgram == [r \in Runners |-> <<Slot(NowName), Pause, Verify>>]

\* Two versions of the binary share the database: New names the step differently ...
CONSTANT New
RenamedProgram == [r \in Runners |-> IF r = New THEN <<Slot("check")>> ELSE <<Verify>>]

\* ... or goes on to sleep.
LongerProgram == [r \in Runners |-> IF r = New THEN <<Place, Pause>> ELSE <<Place>>]

Symmetry == Permutations(Runners \ {New})
=============================================================================
