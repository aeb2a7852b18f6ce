------------------------- MODULE KillSwitchProofs -------------------------
(***************************************************************************)
(* Type correctness and the staleness bound of the kill switch, for every  *)
(* number of workflows and every refresh interval and timeout.             *)
(*                                                                         *)
(* SeenInTime needs two more facts: a switch that is off was last off just *)
(* now, and the caller "stop" has no call before /stop starts.  At the end *)
(* of the module: the owner gets the final summary of a /stop once.        *)
(***************************************************************************)
EXTENDS KillSwitch, TLAPS

SwitchType ==
    /\ row \in BOOLEAN /\ offAgo \in 0..Horizon
    /\ killed \in BOOLEAN /\ degraded \in BOOLEAN /\ checked \in 0..Refresh
    /\ call \in [Callers -> Calls]

OffNow == ~row => offAgo = 0

Fresh == NoRefresh /\ ~Due /\ ~killed /\ ~degraded => offAgo <= checked + ReadTime

Overlaps == \A c \in Callers :
                call[c].pc = "store" /\ ~call[c].value => offAgo <= call[c].elapsed

SwitchInv == SwitchType /\ OffNow /\ Fresh /\ Overlaps

NotStarted == stop.pc = "idle" => call["stop"].pc = "none"

-----------------------------------------------------------------------------
(* The values a call takes. *)

LEMMA ACall ==
    ASSUME TimeAssumption
    PROVE  /\ NoCall \in Calls
           /\ 0 \in 0..Horizon /\ 0 \in 0..Refresh /\ 0 \in 0..ReadTime
           /\ Refresh \in Nat /\ ReadTime \in Nat /\ Horizon \in Nat
BY SMT DEF TimeAssumption, NoCall, NewCall, Calls, Horizon

LEMMA SmallerOf ==
    ASSUME NEW m \in Nat, NEW n \in Nat
    PROVE  /\ Smaller(m, n) \in 0..n /\ Smaller(m, n) <= m
           /\ Smaller(m, n) < n => Smaller(m, n) = m
BY SMT DEF Smaller

LEMMA Known ==
    /\ "stop" \in Callers /\ "busy" \in Callers /\ "resume" \in Callers
    /\ \A f \in Flows : f \in Callers
BY DEF Callers

LEMMA BecomeType ==
    ASSUME SwitchType, NEW c \in Callers, NEW pc \in {"read", "store"},
           NEW value \in BOOLEAN, Become(c, pc, value)
    PROVE  /\ call' \in [Callers -> Calls]
           /\ call'[c].pc = pc /\ call'[c].value = value
           /\ call'[c].op = call[c].op /\ call'[c].elapsed = call[c].elapsed
           /\ \A d \in Callers : d # c => call'[d] = call[d]
<1> DEFINE one == [pc |-> pc, op |-> call[c].op, value |-> value, elapsed |-> call[c].elapsed]
<1>1. call[c] \in Calls /\ call \in [Callers -> Calls]  BY DEF SwitchType
<1>2. one \in Calls  BY <1>1, SMT DEF Calls
<1>5. call' = [call EXCEPT ![c] = one]  BY DEF Become
<1>6. one.pc = pc /\ one.value = value /\ one.op = call[c].op /\ one.elapsed = call[c].elapsed
  OBVIOUS
<1> HIDE DEF one
<1> QED  BY <1>1, <1>2, <1>5, <1>6

LEMMA AnswerType ==
    ASSUME TimeAssumption, SwitchType, NEW c \in Callers, NEW pc \in {"answered", "failed"},
           NEW value \in BOOLEAN, Answer(c, pc, value)
    PROVE  /\ call' \in [Callers -> Calls]
           /\ call'[c].pc \in {"none", "answered", "failed"}
           /\ \A d \in Callers : d # c => call'[d] = call[d]
<1> DEFINE one == IF c \in {"busy", "resume"} /\ pc = "answered" THEN NoCall
                  ELSE NewCall(pc, "killed", value)
<1>1. NewCall(pc, "killed", value) \in Calls /\ NewCall(pc, "killed", value).pc = pc
  BY ACall, SMT DEF Calls, NewCall
<1>2. NoCall \in Calls /\ NoCall.pc = "none"  BY ACall DEF NoCall, NewCall
<1>3. one \in Calls /\ one.pc \in {"none", "answered", "failed"}  BY <1>1, <1>2
<1>4. call' = [call EXCEPT ![c] = one]  BY DEF Answer
<1>5. call \in [Callers -> Calls]  BY DEF SwitchType
<1> HIDE DEF one
<1> QED  BY <1>3, <1>4, <1>5

(* A new call of a caller that has none under way. *)
LEMMA Opens ==
    ASSUME TimeAssumption, SwitchType, NEW c \in Callers,
           NEW pc \in {"read", "write"}, NEW op \in {"killed", "engage", "clear"},
           call' = [call EXCEPT ![c] = NewCall(pc, op, FALSE)]
    PROVE  /\ call' \in [Callers -> Calls]
           /\ call'[c].pc = pc
           /\ \A d \in Callers : d # c => call'[d] = call[d]
<1>1. NewCall(pc, op, FALSE) \in Calls /\ NewCall(pc, op, FALSE).pc = pc
  BY ACall, SMT DEF Calls, NewCall
<1>2. call \in [Callers -> Calls]  BY DEF SwitchType
<1> QED  BY <1>1, <1>2

(* A step that changes one call and leaves row and memory alone. *)
LEMMA OneCall ==
    ASSUME SwitchInv, NEW c \in Callers,
           call' \in [Callers -> Calls],
           \A d \in Callers : d # c => call'[d] = call[d],
           call[c].pc \notin {"read", "store"}, call'[c].pc # "store",
           UNCHANGED <<row, offAgo, memory>>
    PROVE  SwitchInv'
<1>1. UNCHANGED <<row, offAgo, killed, degraded, checked>>  BY DEF memory
<1>2. SwitchType' /\ OffNow'  BY <1>1 DEF SwitchInv, SwitchType, OffNow
<1>3. Overlaps'  BY <1>1 DEF SwitchInv, Overlaps
<1>4. NoRefresh' => NoRefresh  BY DEF NoRefresh
<1>5. Fresh'  BY <1>1, <1>4 DEF SwitchInv, Fresh, Due
<1> QED  BY <1>2, <1>3, <1>5 DEF SwitchInv

-----------------------------------------------------------------------------
(* The steps of the switch. *)

LEMMA KilledKeeps ==
    ASSUME TimeAssumption, SwitchInv, NEW c \in Callers,
           call[c].pc \notin {"read", "store"}, Killed(c)
    PROVE  SwitchInv' /\ \A d \in Callers : d # c => call'[d] = call[d]
<1>1. SwitchType  BY DEF SwitchInv
<1>2. CASE Due
  <2>1. /\ checked' = 0
        /\ call' = [call EXCEPT ![c] = NewCall("read", "killed", FALSE)]
        /\ UNCHANGED <<row, offAgo, killed, degraded>>
    BY <1>2 DEF Killed
  <2>2. /\ call' \in [Callers -> Calls] /\ call'[c].pc = "read"
        /\ \A d \in Callers : d # c => call'[d] = call[d]
    BY <1>1, <2>1, Opens
  <2>3. SwitchType' /\ OffNow'
    BY <2>1, <2>2, ACall DEF SwitchInv, SwitchType, OffNow
  <2>4. Overlaps'  BY <2>1, <2>2 DEF SwitchInv, Overlaps
  <2>5. Fresh'  BY <2>2 DEF Fresh, NoRefresh
  <2> QED  BY <2>2, <2>3, <2>4, <2>5 DEF SwitchInv
<1>3. CASE ~Due
  <2> DEFINE told == killed \/ degraded
  <2>1. told \in BOOLEAN  BY <1>1 DEF SwitchType
  <2>2. Answer(c, "answered", told) /\ UNCHANGED <<row, offAgo, memory>>
    BY <1>3 DEF Killed
  <2> HIDE DEF told
  <2>3. /\ call' \in [Callers -> Calls]
        /\ call'[c].pc \in {"none", "answered", "failed"}
        /\ \A d \in Callers : d # c => call'[d] = call[d]
    BY <1>1, <2>1, <2>2, AnswerType
  <2> QED  BY <2>2, <2>3, OneCall
<1> QED  BY <1>2, <1>3

LEMMA ChangeKeeps ==
    ASSUME TimeAssumption, SwitchInv, NEW c \in Callers, NEW op \in {"engage", "clear"},
           call[c].pc \notin {"read", "store"}, Change(c, op)
    PROVE  SwitchInv' /\ \A d \in Callers : d # c => call'[d] = call[d]
<1>1. SwitchType  BY DEF SwitchInv
<1>2. /\ call' = [call EXCEPT ![c] = NewCall("write", op, FALSE)]
      /\ UNCHANGED <<row, offAgo, memory>>
  BY DEF Change
<1>3. /\ call' \in [Callers -> Calls] /\ call'[c].pc = "write"
      /\ \A d \in Callers : d # c => call'[d] = call[d]
  BY <1>1, <1>2, Opens
<1> QED  BY <1>2, <1>3, OneCall

(* The row changes: what is off now is off since now. *)
LEMMA RowChanges ==
    ASSUME TimeAssumption, SwitchType, row' \in BOOLEAN,
           offAgo' = IF row' THEN offAgo ELSE 0
    PROVE  offAgo' \in 0..Horizon /\ offAgo' <= offAgo /\ OffNow'
BY ACall, SMT DEF SwitchType, OffNow

LEMMA OtherKeeps ==
    ASSUME TimeAssumption, SwitchInv, row' \in BOOLEAN,
           offAgo' = IF row' THEN offAgo ELSE 0, UNCHANGED <<memory, call>>
    PROVE  SwitchInv'
<1>1. UNCHANGED <<killed, degraded, checked, call>>  BY DEF memory
<1>2. SwitchType  BY DEF SwitchInv
<1>3. offAgo' \in 0..Horizon /\ offAgo' <= offAgo /\ OffNow'  BY <1>2, RowChanges
<1>4. SwitchType'  BY <1>1, <1>2, <1>3 DEF SwitchType
<1>5. /\ offAgo \in Int /\ offAgo' \in Int /\ checked \in Int /\ ReadTime \in Int
  BY <1>2, <1>3, ACall, SMT DEF SwitchType
<1>6. Fresh'  BY <1>1, <1>3, <1>5, SMT DEF SwitchInv, Fresh, NoRefresh, Due
<1>7. \A c \in Callers : call[c].elapsed \in Int
  BY <1>2, ACall, SMT DEF SwitchType, Calls
<1>8. Overlaps'  BY <1>1, <1>3, <1>5, <1>7, SMT DEF SwitchInv, Overlaps
<1> QED  BY <1>3, <1>4, <1>6, <1>8 DEF SwitchInv

LEMMA WriteKeeps ==
    ASSUME TimeAssumption, SwitchInv, NEW c \in Callers, Write(c)
    PROVE  SwitchInv' /\ \A d \in Callers : d # c => call'[d] = call[d]
<1>1. SwitchType /\ call[c].pc = "write" /\ UNCHANGED memory  BY DEF SwitchInv, Write
<1>2. CASE /\ row' = (call[c].op = "engage")
           /\ offAgo' = (IF row' THEN offAgo ELSE 0)
           /\ Become(c, "read", FALSE)
  <2>1. row' \in BOOLEAN  BY <1>2
  <2>2. offAgo' \in 0..Horizon /\ offAgo' <= offAgo /\ OffNow'
    BY <1>1, <1>2, <2>1, RowChanges
  <2>3. /\ call' \in [Callers -> Calls] /\ call'[c].pc = "read"
        /\ \A d \in Callers : d # c => call'[d] = call[d]
    BY <1>1, <1>2, BecomeType
  <2>4. SwitchType'  BY <1>1, <2>1, <2>2, <2>3 DEF SwitchType, memory
  <2>5. Fresh'  BY <2>3 DEF Fresh, NoRefresh
  <2>6. offAgo \in Int /\ offAgo' \in Int /\ \A d \in Callers : call[d].elapsed \in Int
    BY <1>1, <2>2, ACall, SMT DEF SwitchType, Calls
  <2>7. Overlaps'  BY <2>2, <2>3, <2>6, SMT DEF SwitchInv, Overlaps
  <2> QED  BY <2>2, <2>3, <2>4, <2>5, <2>7 DEF SwitchInv
<1>3. CASE Answer(c, "failed", FALSE) /\ UNCHANGED <<row, offAgo>>
  <2>1. /\ call' \in [Callers -> Calls]
        /\ call'[c].pc \in {"none", "answered", "failed"}
        /\ \A d \in Callers : d # c => call'[d] = call[d]
    BY <1>1, <1>3, AnswerType
  <2> QED  BY <1>1, <1>3, <2>1, OneCall
<1> QED  BY <1>2, <1>3 DEF Write

LEMMA ReadRowKeeps ==
    ASSUME TimeAssumption, SwitchInv, NEW c \in Callers, ReadRow(c)
    PROVE  SwitchInv' /\ \A d \in Callers : d # c => call'[d] = call[d]
<1>1. SwitchType /\ row \in BOOLEAN /\ UNCHANGED <<row, offAgo, killed, degraded, checked>>
  BY DEF SwitchInv, SwitchType, ReadRow, memory
<1>2. /\ call' \in [Callers -> Calls]
      /\ call'[c].pc = "store" /\ call'[c].value = row /\ call'[c].elapsed = call[c].elapsed
      /\ \A d \in Callers : d # c => call'[d] = call[d]
  BY <1>1, BecomeType DEF ReadRow
<1>3. SwitchType' /\ OffNow'  BY <1>1, <1>2 DEF SwitchInv, SwitchType, OffNow
<1>4. Fresh'  BY <1>2 DEF Fresh, NoRefresh
<1>5. call[c].elapsed \in 0..ReadTime  BY <1>1 DEF SwitchType, Calls
<1>6. 0 <= call[c].elapsed  BY <1>5, ACall, SMT
<1>7. ~row => offAgo <= call[c].elapsed  BY <1>6 DEF SwitchInv, OffNow
<1>8. Overlaps'  BY <1>1, <1>2, <1>7 DEF SwitchInv, Overlaps
<1> QED  BY <1>2, <1>3, <1>4, <1>8 DEF SwitchInv

LEMMA ReadFailsKeeps ==
    ASSUME TimeAssumption, SwitchInv, NEW c \in Callers, ReadFails(c)
    PROVE  SwitchInv' /\ \A d \in Callers : d # c => call'[d] = call[d]
<1>1. SwitchType /\ UNCHANGED <<row, offAgo>> /\ degraded' = TRUE
  BY DEF SwitchInv, ReadFails, Degraded
<1>2. killed' \in BOOLEAN /\ checked' \in 0..Refresh
  <2>1. \/ UNCHANGED <<killed, checked>>
        \/ killed' = (call[c].op = "engage") /\ checked' = 0
    BY DEF ReadFails
  <2> QED  BY <1>1, <2>1, ACall DEF SwitchType
<1>3. /\ call' \in [Callers -> Calls]
      /\ call'[c].pc \in {"none", "answered", "failed"}
      /\ \A d \in Callers : d # c => call'[d] = call[d]
  BY <1>1, AnswerType DEF ReadFails
<1>4. SwitchType' /\ OffNow'  BY <1>1, <1>2, <1>3 DEF SwitchInv, SwitchType, OffNow
<1>5. Fresh'  BY <1>1 DEF Fresh
<1>6. Overlaps'  BY <1>1, <1>3 DEF SwitchInv, Overlaps
<1> QED  BY <1>3, <1>4, <1>5, <1>6 DEF SwitchInv

(* What was read as off was off within the time of the read. *)
LEMMA StoreKeeps ==
    ASSUME TimeAssumption, SwitchInv, NEW c \in Callers, Store(c)
    PROVE  SwitchInv' /\ \A d \in Callers : d # c => call'[d] = call[d]
<1> DEFINE v == call[c].value
<1>1. /\ SwitchType /\ UNCHANGED <<row, offAgo>>
      /\ call[c].pc = "store" /\ killed' = v /\ degraded' = FALSE /\ checked' = 0
      /\ Answer(c, "answered", v)
  BY DEF SwitchInv, Store
<1>2. v \in BOOLEAN /\ call[c].elapsed \in 0..ReadTime
  BY <1>1 DEF SwitchType, Calls
<1>3. ~v => offAgo <= call[c].elapsed  BY <1>1 DEF SwitchInv, Overlaps
<1> HIDE DEF v
<1>4. /\ call' \in [Callers -> Calls]
      /\ call'[c].pc \in {"none", "answered", "failed"}
      /\ \A d \in Callers : d # c => call'[d] = call[d]
  BY <1>1, <1>2, AnswerType
<1>5. SwitchType' /\ OffNow'
  BY <1>1, <1>2, <1>4, ACall DEF SwitchInv, SwitchType, OffNow
<1>6. offAgo \in Int  BY <1>1, ACall, SMT DEF SwitchType
<1>7. ~v => offAgo <= 0 + ReadTime  BY <1>2, <1>3, <1>6, ACall, SMT
<1>8. Fresh'  BY <1>1, <1>7 DEF Fresh
<1>9. Overlaps'  BY <1>1, <1>4 DEF SwitchInv, Overlaps
<1> QED  BY <1>4, <1>5, <1>8, <1>9 DEF SwitchInv

(* A moment later every age has grown by at most one. *)
LEMMA AdvanceKeeps ==
    ASSUME TimeAssumption, SwitchInv, Advance
    PROVE  SwitchInv' /\ \A d \in Callers : call'[d].pc = call[d].pc
<1> DEFINE Older(d) ==
      IF call[d].pc \in {"write", "read", "store"}
        THEN [call[d] EXCEPT !.elapsed = @ + 1] ELSE call[d]
<1>1. /\ SwitchType /\ UNCHANGED <<row, killed, degraded>>
      /\ call' = [d \in Callers |-> Older(d)]
      /\ checked' = Smaller(checked + 1, Refresh)
      /\ offAgo' = IF row THEN Smaller(offAgo + 1, Horizon) ELSE 0
      /\ \A d \in Callers :
            call[d].pc \in {"write", "read", "store"} => call[d].elapsed < ReadTime
  BY DEF SwitchInv, Advance
<1>2. ASSUME NEW d \in Callers
      PROVE  /\ Older(d) \in Calls
             /\ Older(d).pc = call[d].pc /\ Older(d).value = call[d].value
             /\ call[d].pc = "store" => Older(d).elapsed = call[d].elapsed + 1
  <2>1. call[d] \in Calls  BY <1>1 DEF SwitchType
  <2>2. call[d].elapsed \in 0..ReadTime  BY <2>1 DEF Calls
  <2>3. CASE call[d].pc \in {"write", "read", "store"}
    <3>1. call[d].elapsed + 1 \in 0..ReadTime  BY <1>1, <2>2, <2>3, ACall, SMT
    <3>2. Older(d) = [call[d] EXCEPT !.elapsed = call[d].elapsed + 1]  BY <2>3
    <3> QED  BY <2>1, <3>1, <3>2, SMT DEF Calls
  <2>4. CASE call[d].pc \notin {"write", "read", "store"}  BY <2>1, <2>4
  <2> QED  BY <2>3, <2>4
<1> HIDE DEF Older
<1>3. \A d \in Callers : call'[d] = Older(d)  BY <1>1
<1>4. call' \in [Callers -> Calls]  BY <1>1, <1>2
<1>5. /\ checked' \in 0..Refresh /\ offAgo' \in 0..Horizon /\ offAgo' <= offAgo + 1
      /\ checked' < Refresh => checked' = checked + 1
  <2>1. offAgo \in 0..Horizon /\ checked \in 0..Refresh  BY <1>1 DEF SwitchType
  <2>2. checked + 1 \in Nat /\ offAgo + 1 \in Nat  BY <2>1, ACall, SMT
  <2>3. /\ Smaller(checked + 1, Refresh) \in 0..Refresh
        /\ Smaller(checked + 1, Refresh) < Refresh =>
              Smaller(checked + 1, Refresh) = checked + 1
        /\ Smaller(offAgo + 1, Horizon) \in 0..Horizon
        /\ Smaller(offAgo + 1, Horizon) <= offAgo + 1
    BY <2>2, ACall, SmallerOf, Zenon
  <2>4. 0 \in 0..Horizon /\ 0 <= offAgo + 1  BY <2>1, ACall, SMT
  <2>5. offAgo' \in 0..Horizon /\ offAgo' <= offAgo + 1  BY <1>1, <2>3, <2>4
  <2> QED  BY <1>1, <2>3, <2>5
<1>6. SwitchType' /\ OffNow'  BY <1>1, <1>4, <1>5 DEF SwitchType, OffNow
<1>7. offAgo \in Int /\ checked \in Int /\ offAgo' \in Int /\ checked' \in Int
  BY <1>1, <1>5, ACall, SMT DEF SwitchType
<1>8. NoRefresh' => NoRefresh  BY <1>2, <1>3 DEF NoRefresh
<1>9. ASSUME NoRefresh', ~Due', ~killed', ~degraded' PROVE offAgo' <= checked' + ReadTime
  <2>1. checked' = checked + 1 /\ ~Due
    BY <1>5, <1>7, <1>9, ACall, SMT DEF Due
  <2>2. offAgo <= checked + ReadTime  BY <1>1, <1>8, <1>9, <2>1 DEF SwitchInv, Fresh
  <2> QED  BY <1>5, <1>7, <2>1, <2>2, ACall, SMT
<1>10. ASSUME NEW d \in Callers, call'[d].pc = "store", ~call'[d].value
       PROVE  offAgo' <= call'[d].elapsed
  <2>1. /\ call[d].pc = "store" /\ ~call[d].value
        /\ call'[d].elapsed = call[d].elapsed + 1
    BY <1>2, <1>3, <1>10
  <2>2. offAgo <= call[d].elapsed  BY <2>1 DEF SwitchInv, Overlaps
  <2>3. call[d].elapsed \in Int  BY <1>1, ACall, SMT DEF SwitchType, Calls
  <2> QED  BY <1>5, <1>7, <2>1, <2>2, <2>3, SMT
<1> QED  BY <1>2, <1>3, <1>6, <1>9, <1>10 DEF SwitchInv, Fresh, Overlaps

-----------------------------------------------------------------------------
(* The types of the rest. *)

FlowType == kind \in [Flows -> Kinds] /\ flow \in [Flows -> FlowStates]

StopType == stop \in StopStates /\ sum \in Summaries /\ known \subseteq Flows

RestType ==
    /\ reply \in {"none", "pending", "final"} /\ followup \in BOOLEAN
    /\ faults \in Nat /\ calls \in Nat

Inv == SwitchInv /\ NotStarted /\ FlowType /\ StopType /\ RestType

LEMMA InvFacts ==
    ASSUME Inv
    PROVE  /\ SwitchInv /\ NotStarted /\ FlowType /\ StopType /\ RestType
           /\ kind \in [Flows -> Kinds] /\ flow \in [Flows -> FlowStates]
           /\ stop \in StopStates /\ sum \in Summaries /\ known \subseteq Flows
           /\ stop.todo \subseteq Flows /\ stop.at \subseteq Flows
           /\ stop.stopping \subseteq Flows
           /\ SwitchType
BY SMT DEF Inv, FlowType, StopType, StopStates, SwitchInv

(* One field of the state of a workflow. *)
LEMMA FlowFields ==
    ASSUME NEW fl \in [Flows -> FlowStates], NEW f \in Flows
    PROVE  /\ \A s \in {"idle", "waiting", "check", "place", "sent", "settling", "ended",
                         "cancelled"} : [fl EXCEPT ![f].st = s] \in [Flows -> FlowStates]
           /\ \A b \in BOOLEAN : [fl EXCEPT ![f].asked = b] \in [Flows -> FlowStates]
           /\ \A p \in {"none", "started", "placed", "unknown", "refused"} :
                 [fl EXCEPT ![f].place = p] \in [Flows -> FlowStates]
           /\ \A o \in {"none", "open", "closed", "withdrawn"} :
                 [fl EXCEPT ![f].order = o] \in [Flows -> FlowStates]
<1>1. fl[f] \in FlowStates  OBVIOUS
<1>2. \A s \in {"idle", "waiting", "check", "place", "sent", "settling", "ended",
                "cancelled"} : [fl[f] EXCEPT !.st = s] \in FlowStates
  BY <1>1, SMT DEF FlowStates
<1>3. \A b \in BOOLEAN : [fl[f] EXCEPT !.asked = b] \in FlowStates
  BY <1>1, SMT DEF FlowStates
<1>4. \A p \in {"none", "started", "placed", "unknown", "refused"} :
         [fl[f] EXCEPT !.place = p] \in FlowStates
  BY <1>1, SMT DEF FlowStates
<1>5. \A o \in {"none", "open", "closed", "withdrawn"} :
         [fl[f] EXCEPT !.order = o] \in FlowStates
  BY <1>1, SMT DEF FlowStates
<1> QED  BY <1>2, <1>3, <1>4, <1>5

Pcs == {"flag", "flagcheck", "list", "classify", "cancel", "settle", "scan",
        "examine", "lookup", "withdraw", "wait", "finish", "over"}

(* One field of the state of /stop. *)
LEMMA StopFields ==
    ASSUME NEW r \in StopStates
    PROVE  /\ \A pc \in Pcs : [r EXCEPT !.pc = pc] \in StopStates
           /\ \A s \in SUBSET Flows : /\ [r EXCEPT !.todo = s] \in StopStates
                                     /\ [r EXCEPT !.at = s] \in StopStates
                                     /\ [r EXCEPT !.stopping = s] \in StopStates
           /\ \A b \in BOOLEAN : /\ [r EXCEPT !.late = b] \in StopStates
                                 /\ [r EXCEPT !.detached = b] \in StopStates
           /\ \A n \in 0..MaxOrders : [r EXCEPT !.budget = n] \in StopStates
<1>1. \A pc \in Pcs : [r EXCEPT !.pc = pc] \in StopStates
  BY SMT DEF StopStates, Pcs
<1>2. \A s \in SUBSET Flows : [r EXCEPT !.todo = s] \in StopStates
  BY SMT DEF StopStates
<1>3. \A s \in SUBSET Flows : [r EXCEPT !.at = s] \in StopStates
  BY SMT DEF StopStates
<1>4. \A s \in SUBSET Flows : [r EXCEPT !.stopping = s] \in StopStates
  BY SMT DEF StopStates
<1>5. \A b \in BOOLEAN : [r EXCEPT !.late = b] \in StopStates
  BY SMT DEF StopStates
<1>6. \A b \in BOOLEAN : [r EXCEPT !.detached = b] \in StopStates
  BY SMT DEF StopStates
<1>7. \A n \in 0..MaxOrders : [r EXCEPT !.budget = n] \in StopStates
  BY SMT DEF StopStates
<1> QED  BY <1>1, <1>2, <1>3, <1>4, <1>5, <1>6, <1>7

LEMMA SumFields ==
    ASSUME NEW r \in Summaries
    PROVE  /\ \A b \in BOOLEAN : [r EXCEPT !.engaged = b] \in Summaries
           /\ \A s \in SUBSET Flows : /\ [r EXCEPT !.finishing = s] \in Summaries
                                     /\ [r EXCEPT !.mayExist = s] \in Summaries
           /\ \A e \in SUBSET Errors : [r EXCEPT !.errors = e] \in Summaries
           /\ r.finishing \subseteq Flows /\ r.mayExist \subseteq Flows
           /\ r.errors \subseteq Errors
BY SMT DEF Summaries

LEMMA FailsType ==
    ASSUME StopType, NEW step \in Errors, Fails(step)
    PROVE  sum' \in Summaries
<1>1. sum.errors \cup {step} \in SUBSET Errors  BY SumFields DEF StopType
<1> QED  BY <1>1, SumFields, Zenon DEF Fails, StopType

LEMMA MayExistType ==
    ASSUME StopType, NEW f \in Flows, MayExist(f)
    PROVE  sum' \in Summaries
<1>1. sum.mayExist \cup {f} \in SUBSET Flows  BY SumFields DEF StopType
<1> QED  BY <1>1, SumFields, Zenon DEF MayExist, StopType

LEMMA BoundsType ==
    ASSUME RestType, UNCHANGED bounds \/ Fault \/ Another
    PROVE  faults' \in Nat /\ calls' \in Nat
<1>1. CASE UNCHANGED bounds  BY <1>1 DEF bounds, RestType
<1>2. CASE Fault  BY <1>2, SMT DEF Fault, RestType
<1>3. CASE Another  BY <1>3, SMT DEF Another, RestType
<1> QED  BY <1>1, <1>2, <1>3

LEMMA SwitchStays ==
    ASSUME SwitchInv, UNCHANGED switch
    PROVE  SwitchInv'
BY DEF switch, memory, SwitchInv, SwitchType, OffNow, Fresh, NoRefresh, Due, Overlaps

(* A step of /stop, whatever it does to the workflows and its summary. *)
LEMMA StopStep ==
    ASSUME Inv, stop' \in StopStates, stop'.pc # "idle", sum' \in Summaries,
           flow' \in [Flows -> FlowStates], known' \subseteq Flows,
           UNCHANGED bounds \/ Fault, UNCHANGED <<switch, kind, answers>>
    PROVE  Inv'
<1>1. SwitchInv'  BY SwitchStays DEF Inv
<1>2. NotStarted'  BY DEF NotStarted
<1>3. FlowType' /\ StopType'  BY DEF Inv, FlowType, StopType
<1>4. RestType'  BY BoundsType DEF Inv, RestType, answers
<1> QED  BY <1>1, <1>2, <1>3, <1>4 DEF Inv

(* A step of a workflow on its own. *)
LEMMA FlowStep ==
    ASSUME Inv, flow' \in [Flows -> FlowStates],
           UNCHANGED <<kind, switch, stop, summary, answers, bounds>>
    PROVE  Inv'
<1>1. SwitchInv'  BY SwitchStays DEF Inv
<1>2. NotStarted'  BY DEF Inv, NotStarted, switch
<1>3. FlowType' /\ StopType' /\ RestType'
  BY DEF Inv, FlowType, StopType, RestType, summary, answers, bounds
<1> QED  BY <1>1, <1>2, <1>3 DEF Inv

(* A step of a caller of the switch. *)
LEMMA CallStep ==
    ASSUME Inv, SwitchInv', call'["stop"] = call["stop"] \/ stop.pc # "idle",
           UNCHANGED bounds \/ Fault \/ Another, UNCHANGED <<flows, stop, summary, answers>>
    PROVE  Inv'
<1>1. NotStarted'  BY DEF Inv, NotStarted
<1>2. FlowType' /\ StopType'
  BY DEF Inv, FlowType, StopType, summary, flows
<1>3. RestType'  BY BoundsType DEF Inv, RestType, answers
<1> QED  BY <1>1, <1>2, <1>3 DEF Inv

(* The states of a /stop under way. *)
Moving == {r \in StopStates : r.pc # "idle"}

LEMMA MovingFields ==
    /\ \A r \in StopStates : \A pc \in Pcs : [r EXCEPT !.pc = pc] \in Moving
    /\ \A r \in Moving : \A s \in SUBSET Flows : /\ [r EXCEPT !.todo = s] \in Moving
                                                /\ [r EXCEPT !.at = s] \in Moving
                                                /\ [r EXCEPT !.stopping = s] \in Moving
    /\ \A r \in Moving : \A b \in BOOLEAN : /\ [r EXCEPT !.late = b] \in Moving
                                            /\ [r EXCEPT !.detached = b] \in Moving
    /\ \A r \in Moving : \A n \in 0..MaxOrders : [r EXCEPT !.budget = n] \in Moving
<1>1. ASSUME NEW r \in StopStates, NEW pc \in Pcs PROVE [r EXCEPT !.pc = pc] \in Moving
  <2>1. [r EXCEPT !.pc = pc] \in StopStates  BY StopFields
  <2>2. [r EXCEPT !.pc = pc].pc = pc  BY SMT DEF StopStates
  <2>3. pc # "idle"  BY DEF Pcs
  <2> QED  BY <2>1, <2>2, <2>3 DEF Moving
<1>2. ASSUME NEW r \in Moving, NEW s \in SUBSET Flows
      PROVE  /\ [r EXCEPT !.todo = s] \in Moving /\ [r EXCEPT !.at = s] \in Moving
             /\ [r EXCEPT !.stopping = s] \in Moving
  <2>1. r \in StopStates /\ r.pc # "idle"  BY DEF Moving
  <2>2. /\ [r EXCEPT !.todo = s].pc = r.pc /\ [r EXCEPT !.at = s].pc = r.pc
        /\ [r EXCEPT !.stopping = s].pc = r.pc
    BY <2>1, SMT DEF StopStates
  <2> QED  BY <2>1, <2>2, StopFields, Zenon DEF Moving
<1>3. ASSUME NEW r \in Moving, NEW b \in BOOLEAN
      PROVE  [r EXCEPT !.late = b] \in Moving /\ [r EXCEPT !.detached = b] \in Moving
  <2>1. r \in StopStates /\ r.pc # "idle"  BY DEF Moving
  <2>2. [r EXCEPT !.late = b].pc = r.pc /\ [r EXCEPT !.detached = b].pc = r.pc
    BY <2>1, SMT DEF StopStates
  <2> QED  BY <2>1, <2>2, StopFields, Zenon DEF Moving
<1>4. ASSUME NEW r \in Moving, NEW n \in 0..MaxOrders
      PROVE  [r EXCEPT !.budget = n] \in Moving
  <2>1. r \in StopStates /\ r.pc # "idle"  BY DEF Moving
  <2>2. [r EXCEPT !.budget = n].pc = r.pc  BY <2>1, SMT DEF StopStates
  <2> QED  BY <2>1, <2>2, StopFields, Zenon DEF Moving
<1> QED  BY <1>1, <1>2, <1>3, <1>4

LEMMA GotoType ==
    ASSUME StopType, NEW pc \in Pcs, Goto(pc)
    PROVE  stop' \in Moving /\ stop' \in StopStates /\ stop'.pc # "idle"
<1>1. stop' \in Moving  BY MovingFields, Zenon DEF Goto, StopType
<1> QED  BY <1>1 DEF Moving

-----------------------------------------------------------------------------
(* The steps, one lemma each where there is something to show. *)

LEMMA FlowsKeep ==
    ASSUME Inv, NEW f \in Flows,
           \/ Begin(f) \/ Claim(f) \/ BeginPlace(f) \/ Refuse(f) \/ Send(f)
           \/ EndPlace(f) \/ EndFlow(f) \/ Fills(f)
    PROVE  Inv'
<1>1. flow \in [Flows -> FlowStates]  BY InvFacts
<1>2. ASSUME NEW s \in {"waiting", "check", "settling", "ended", "cancelled"}, Move(f, s)
      PROVE  flow' \in [Flows -> FlowStates]
  BY <1>1, <1>2, FlowFields, Zenon DEF Move
<1>3. ASSUME NEW s \in {"place", "settling", "cancelled"},
             NEW p \in {"none", "started", "placed", "unknown", "refused"},
             flow' = [flow EXCEPT ![f].st = s, ![f].place = p]
      PROVE  flow' \in [Flows -> FlowStates]
  <2>1. [flow EXCEPT ![f].st = s] \in [Flows -> FlowStates]  BY <1>1, FlowFields, Zenon
  <2> QED  BY <1>3, <2>1, FlowFields, Zenon
<1>4. CASE Begin(f) \/ Claim(f)  BY <1>2, <1>4, FlowStep DEF Begin, Claim
<1>5. CASE BeginPlace(f)
  <2>1. CASE flow[f].asked
    <3>1. flow' = [flow EXCEPT ![f].st = "cancelled"]  BY <1>5, <2>1 DEF BeginPlace
    <3>2. flow' \in [Flows -> FlowStates]  BY <1>1, <3>1, FlowFields, Zenon
    <3> QED  BY <1>5, <3>2, FlowStep DEF BeginPlace
  <2>2. CASE ~flow[f].asked
    <3>1. flow' = [flow EXCEPT ![f].st = "place", ![f].place = "started"]
      BY <1>5, <2>2 DEF BeginPlace
    <3>2. flow' \in [Flows -> FlowStates]  BY <1>3, <3>1
    <3> QED  BY <1>5, <3>2, FlowStep DEF BeginPlace
  <2> QED  BY <2>1, <2>2
<1>6. CASE Refuse(f)
  <2> DEFINE s == IF flow[f].asked THEN "cancelled" ELSE "settling"
  <2>1. s \in {"place", "settling", "cancelled"}  OBVIOUS
  <2>2. flow' = [flow EXCEPT ![f].st = s, ![f].place = "refused"]  BY <1>6 DEF Refuse
  <2> HIDE DEF s
  <2> QED  BY <1>3, <1>6, <2>1, <2>2, FlowStep DEF Refuse
<1>7. CASE Send(f)
  <2>1. PICK o \in {"none", "open"} : flow' = [flow EXCEPT ![f].st = "sent", ![f].order = o]
    BY <1>7 DEF Send
  <2>2. [flow EXCEPT ![f].st = "sent"] \in [Flows -> FlowStates]  BY <1>1, FlowFields, Zenon
  <2>3. flow' \in [Flows -> FlowStates]  BY <2>1, <2>2, FlowFields, Zenon
  <2> QED  BY <1>7, <2>3, FlowStep DEF Send
<1>8. CASE EndPlace(f)
  <2> DEFINE s == IF flow[f].asked THEN "cancelled" ELSE "settling"
  <2>1. s \in {"place", "settling", "cancelled"}  OBVIOUS
  <2>2. PICK p \in {"unknown", IF flow[f].order = "none" THEN "refused" ELSE "placed"} :
              flow' = [flow EXCEPT ![f].st = s, ![f].place = p]
    BY <1>8 DEF EndPlace
  <2>3. p \in {"none", "started", "placed", "unknown", "refused"}  OBVIOUS
  <2> HIDE DEF s
  <2> QED  BY <1>3, <1>8, <2>1, <2>2, <2>3, FlowStep DEF EndPlace
<1>9. CASE EndFlow(f)
  <2> DEFINE s == IF flow[f].asked THEN "cancelled" ELSE "ended"
  <2>1. s \in {"waiting", "check", "settling", "ended", "cancelled"}  OBVIOUS
  <2>2. Move(f, s)  BY <1>9 DEF EndFlow
  <2> HIDE DEF s
  <2> QED  BY <1>2, <1>9, <2>1, <2>2, FlowStep DEF EndFlow
<1>10. CASE Fills(f)
  <2>1. flow' \in [Flows -> FlowStates]  BY <1>1, <1>10, FlowFields, Zenon DEF Fills
  <2> QED  BY <1>10, <2>1, FlowStep DEF Fills
<1> QED  BY <1>4, <1>5, <1>6, <1>7, <1>8, <1>9, <1>10

LEMMA ReadingKeeps ==
    ASSUME TimeAssumption, Inv, NEW c \in Callers, Reading(c)
    PROVE  Inv'
<1>1. SwitchInv' /\ \A d \in Callers : d # c => call'[d] = call[d]
  BY WriteKeeps, ReadRowKeeps, ReadFailsKeeps, StoreKeeps DEF Reading, Inv
<1>2. call[c].pc # "none"  BY DEF Reading, Write, ReadRow, ReadFails, Store
<1>3. call'["stop"] = call["stop"] \/ stop.pc # "idle"
  BY <1>1, <1>2, Known DEF Inv, NotStarted
<1>4. /\ UNCHANGED bounds \/ Fault \/ Another
      /\ UNCHANGED <<flows, stop, summary, answers>>
  BY DEF Reading, Write, ReadRow, ReadFails, Store
<1> QED  BY <1>1, <1>3, <1>4, CallStep

LEMMA AskSwitchKeeps ==
    ASSUME TimeAssumption, FlowAssumption, Inv, NEW f \in Flows, AskSwitch(f)
    PROVE  Inv'
<1>1. f \in Callers /\ f # "stop"  BY Known DEF FlowAssumption
<1>2. /\ call[f].pc \notin {"read", "store"} /\ Killed(f)
      /\ UNCHANGED <<flows, stop, summary, answers, bounds>>
  BY DEF AskSwitch
<1>3. SwitchInv' /\ \A d \in Callers : d # f => call'[d] = call[d]
  BY <1>1, <1>2, KilledKeeps DEF Inv
<1> QED  BY <1>1, <1>2, <1>3, Known, CallStep

LEMMA OthersKeep ==
    ASSUME TimeAssumption, Inv, Resume \/ Busy \/ BusyAsks \/ OtherProcess
    PROVE  Inv'
<1>1. CASE Resume
  <2>1. SwitchInv' /\ \A d \in Callers : d # "resume" => call'[d] = call[d]
    BY <1>1, Known, ChangeKeeps DEF Inv, Resume
  <2> QED  BY <1>1, <2>1, Known, CallStep DEF Resume
<1>2. CASE Busy
  <2>1. SwitchInv' /\ \A d \in Callers : d # "busy" => call'[d] = call[d]
    BY <1>2, Known, ChangeKeeps DEF Inv, Busy
  <2> QED  BY <1>2, <2>1, Known, CallStep DEF Busy
<1>3. CASE BusyAsks
  <2>1. SwitchInv' /\ \A d \in Callers : d # "busy" => call'[d] = call[d]
    BY <1>3, Known, KilledKeeps DEF Inv, BusyAsks
  <2> QED  BY <1>3, <2>1, Known, CallStep DEF BusyAsks
<1>4. CASE OtherProcess
  <2>1. SwitchInv'  BY <1>4, OtherKeeps DEF Inv, OtherProcess
  <2> QED  BY <1>4, <2>1, CallStep DEF OtherProcess
<1> QED  BY <1>1, <1>2, <1>3, <1>4

LEMMA TimeKeeps ==
    ASSUME TimeAssumption, Inv, Advance
    PROVE  Inv'
<1>1. SwitchInv' /\ \A d \in Callers : call'[d].pc = call[d].pc
  BY AdvanceKeeps DEF Inv
<1>2. UNCHANGED <<flows, stop, summary, answers, bounds>>  BY DEF Advance
<1>3. NotStarted'  BY <1>1, <1>2, Known DEF Inv, NotStarted
<1>4. FlowType' /\ StopType' /\ RestType'
  BY <1>2 DEF Inv, FlowType, StopType, RestType, flows, summary, answers, bounds
<1> QED  BY <1>1, <1>3, <1>4 DEF Inv

LEMMA FlagKeeps ==
    ASSUME TimeAssumption, Inv, Start \/ Engaged \/ NotEngaged \/ FlagChecked
    PROVE  Inv'
<1>1. StopType /\ RestType /\ FlowType /\ SwitchInv /\ NotStarted  BY InvFacts
<1>2. CASE Start
  <2>1. Goto("flag") /\ Change("stop", "engage") /\ stop.pc = "idle"
    BY <1>2 DEF Start, At
  <2>2. call["stop"].pc = "none"  BY <1>1, <2>1 DEF NotStarted
  <2>3. SwitchInv'  BY <1>1, <2>1, <2>2, Known, ChangeKeeps
  <2>4. stop' \in StopStates /\ stop'.pc # "idle"  BY <1>1, <2>1, GotoType DEF Pcs
  <2>5. FlowType' /\ StopType' /\ RestType' /\ NotStarted'
    BY <1>1, <1>2, <2>4
       DEF Start, FlowType, StopType, RestType, NotStarted, flows, summary, answers, bounds
  <2> QED  BY <2>3, <2>5 DEF Inv
<1>3. CASE NotEngaged
  <2>1. /\ Goto("flagcheck") /\ Killed("stop") /\ call["stop"].pc = "failed" /\ Fails("flag")
    BY <1>3 DEF NotEngaged
  <2>2. SwitchInv'  BY <1>1, <2>1, Known, KilledKeeps
  <2>3. stop' \in StopStates /\ stop'.pc # "idle"  BY <1>1, <2>1, GotoType DEF Pcs
  <2>4. sum' \in Summaries  BY <1>1, <2>1, FailsType DEF Errors
  <2>5. FlowType' /\ StopType' /\ RestType' /\ NotStarted'
    BY <1>1, <1>3, <2>3, <2>4
       DEF NotEngaged, FlowType, StopType, RestType, NotStarted, flows, answers, bounds
  <2> QED  BY <2>2, <2>5 DEF Inv
<1>4. CASE Engaged \/ FlagChecked
  <2>1. PICK b \in BOOLEAN : sum' = [sum EXCEPT !.engaged = b]
    <3>1. call["stop"].value \in BOOLEAN  BY <1>1, Known DEF SwitchInv, SwitchType, Calls
    <3> QED  BY <1>4, <3>1 DEF Engaged, FlagChecked
  <2>2. sum' \in Summaries  BY <1>1, <2>1, SumFields, Zenon DEF StopType
  <2>3. /\ Goto("list")
        /\ UNCHANGED <<switch, flows, known, answers, bounds>>
    BY <1>4 DEF Engaged, FlagChecked
  <2>4. stop' \in StopStates /\ stop'.pc # "idle"  BY <1>1, <2>3, GotoType DEF Pcs
  <2> QED  BY <1>1, <2>2, <2>3, <2>4, StopStep DEF flows, FlowType, StopType
<1> QED  BY <1>2, <1>3, <1>4

(* The steps of /stop that leave the workflows alone. *)
LEMMA StillStep ==
    ASSUME Inv, stop' \in Moving, sum' \in Summaries, UNCHANGED bounds \/ Fault,
           UNCHANGED <<switch, flows, known, answers>>
    PROVE  Inv'
<1>1. stop' \in StopStates /\ stop'.pc # "idle"  BY DEF Moving
<1>2. flow' \in [Flows -> FlowStates] /\ known' \subseteq Flows
  BY InvFacts DEF flows
<1> QED  BY <1>1, <1>2, StopStep DEF flows

LEMMA Under ==
    ASSUME Inv, stop.pc # "idle"
    PROVE  stop \in Moving
BY InvFacts DEF Moving

(* A step that goes on to pc with less to look at. *)
LEMMA TodoPc ==
    ASSUME NEW r \in Moving, NEW s \in SUBSET Flows, NEW pc \in Pcs
    PROVE  /\ [r EXCEPT !.pc = pc] \in Moving
           /\ [r EXCEPT !.pc = pc, !.todo = s] \in Moving
           /\ [r EXCEPT !.pc = pc, !.at = s] \in Moving
<1>1. r \in StopStates  BY DEF Moving
<1>2. [r EXCEPT !.pc = pc] \in Moving  BY <1>1, MovingFields, Zenon
<1> QED  BY <1>2, MovingFields, Zenon

LEMMA ListKeeps ==
    ASSUME Inv, List
    PROVE  Inv'
<1>1. stop \in Moving /\ StopType  BY Under, InvFacts DEF List, At
<1>2. flow' \in [Flows -> FlowStates] /\ UNCHANGED <<switch, kind, answers>>
  BY InvFacts DEF List, flows
<1>3. CASE /\ stop' = [stop EXCEPT !.pc = "classify", !.todo = {f \in Flows : Active(f)}]
           /\ known' = {f \in Flows : flow[f].st # "idle"}
           /\ UNCHANGED <<sum, bounds>>
  <2>1. {f \in Flows : Active(f)} \in SUBSET Flows /\ "classify" \in Pcs  BY DEF Pcs
  <2>2. stop' \in Moving  BY <1>1, <1>3, <2>1, TodoPc, Zenon
  <2>3. stop' \in StopStates /\ stop'.pc # "idle"  BY <2>2 DEF Moving
  <2>4. known' \subseteq Flows /\ sum' \in Summaries  BY <1>3, InvFacts
  <2> QED  BY <1>2, <1>3, <2>3, <2>4, StopStep
<1>4. CASE Fault /\ Fails("workflows") /\ Goto("settle") /\ UNCHANGED known
  <2>1. sum' \in Summaries  BY <1>1, <1>4, FailsType DEF Errors
  <2>2. stop' \in StopStates /\ stop'.pc # "idle"  BY <1>1, <1>4, GotoType DEF Pcs
  <2>3. known' \subseteq Flows  BY <1>4, InvFacts
  <2> QED  BY <1>2, <1>4, <2>1, <2>2, <2>3, StopStep
<1> QED  BY <1>3, <1>4 DEF List

LEMMA ClassifyKeeps ==
    ASSUME Inv, NEW f \in Flows, Classify(f)
    PROVE  Inv'
<1> DEFINE left == stop.todo \ {f}
           step == [stop EXCEPT !.todo = left]
           cancel == [step EXCEPT !.pc = "cancel", !.at = {f}]
<1>1. /\ stop \in Moving /\ StopType /\ left \in SUBSET Flows /\ {f} \in SUBSET Flows
      /\ "cancel" \in Pcs
  BY Under, InvFacts DEF Classify, At, Pcs
<1> HIDE DEF left
<1>2. step \in Moving  BY <1>1, MovingFields, Zenon
<1> HIDE DEF step
<1>3. cancel \in Moving  BY <1>1, <1>2, TodoPc, Zenon
<1> HIDE DEF cancel
<1>4. /\ UNCHANGED <<switch, flows, known, answers>>
      /\ \/ stop' = step /\ UNCHANGED <<sum, bounds>>
         \/ /\ stop' = step /\ UNCHANGED bounds
            /\ sum' = [sum EXCEPT !.finishing = @ \cup {f}]
         \/ stop' = cancel /\ UNCHANGED <<sum, bounds>>
         \/ /\ stop' = cancel /\ Fault
            /\ sum' = [sum EXCEPT !.errors = @ \cup {"workflows"}, !.mayExist = @ \cup {f}]
  BY DEF Classify, left, step, cancel
<1>5. stop' \in Moving /\ (UNCHANGED bounds \/ Fault)  BY <1>2, <1>3, <1>4
<1>6. sum \in Summaries  BY InvFacts
<1>7. CASE UNCHANGED sum  BY <1>4, <1>5, <1>6, <1>7, StillStep
<1>8. CASE sum' = [sum EXCEPT !.finishing = @ \cup {f}]
  <2>1. sum.finishing \cup {f} \in SUBSET Flows  BY <1>6, SumFields
  <2>2. sum' \in Summaries  BY <1>6, <1>8, <2>1, SumFields, Zenon
  <2> QED  BY <1>4, <1>5, <2>2, StillStep
<1>9. CASE sum' = [sum EXCEPT !.errors = @ \cup {"workflows"}, !.mayExist = @ \cup {f}]
  <2>1. /\ sum.errors \cup {"workflows"} \in SUBSET Errors
        /\ sum.mayExist \cup {f} \in SUBSET Flows
    BY <1>6, SumFields DEF Errors
  <2> DEFINE e == sum.errors \cup {"workflows"}
             s == [sum EXCEPT !.errors = e]
  <2>2. s \in Summaries  BY <1>6, <2>1, SumFields, Zenon
  <2>3. s.mayExist = sum.mayExist  BY <1>6, SMT DEF Summaries
  <2>4. sum' = [s EXCEPT !.mayExist = s.mayExist \cup {f}]  BY <1>9
  <2> HIDE DEF s
  <2>5. sum' \in Summaries  BY <2>1, <2>2, <2>3, <2>4, SumFields, Zenon
  <2> QED  BY <1>4, <1>5, <2>5, StillStep
<1> QED  BY <1>4, <1>7, <1>8, <1>9

LEMMA CancelKeeps ==
    ASSUME Inv, NEW f \in Flows, Cancel(f)
    PROVE  Inv'
<1> DEFINE next == [stop EXCEPT !.pc = "classify", !.at = {}]
           waits == [next EXCEPT !.stopping = @ \cup {f}]
           more == stop.stopping \cup {f}
<1>1. /\ stop \in Moving /\ StopType /\ more \in SUBSET Flows /\ {} \in SUBSET Flows
      /\ "classify" \in Pcs /\ stop \in StopStates
  BY Under, InvFacts DEF Cancel, At, Pcs
<1>2. next \in Moving  BY <1>1, TodoPc, Zenon
<1>3. next.stopping = stop.stopping  BY <1>1, SMT DEF StopStates
<1>4. waits = [next EXCEPT !.stopping = more]  BY <1>3
<1> HIDE DEF next, more
<1>5. waits \in Moving  BY <1>1, <1>2, <1>4, MovingFields, Zenon
<1> HIDE DEF waits
<1>6. /\ UNCHANGED <<kind, switch, known, answers>>
      /\ stop' = next \/ stop' = waits
      /\ UNCHANGED bounds \/ Fault
      /\ UNCHANGED sum \/ Fails("workflows")
      /\ \/ UNCHANGED flow
         \/ flow' = [flow EXCEPT ![f].st = "cancelled"]
         \/ flow' = [flow EXCEPT ![f].asked = TRUE]
  BY DEF Cancel, next, waits
<1>7. flow' \in [Flows -> FlowStates]
  <2>1. flow \in [Flows -> FlowStates]  BY InvFacts
  <2>2. [flow EXCEPT ![f].st = "cancelled"] \in [Flows -> FlowStates]
    BY <2>1, FlowFields
  <2>3. [flow EXCEPT ![f].asked = TRUE] \in [Flows -> FlowStates]
    BY <2>1, FlowFields
  <2> QED  BY <1>6, <2>1, <2>2, <2>3, Zenon
<1>8. sum' \in Summaries  BY <1>1, <1>6, FailsType DEF Errors, StopType
<1>9. stop' \in StopStates /\ stop'.pc # "idle"  BY <1>2, <1>5, <1>6 DEF Moving
<1>10. known' \subseteq Flows  BY <1>6, InvFacts
<1> QED  BY <1>6, <1>7, <1>8, <1>9, <1>10, StopStep

LEMMA PanicKeeps ==
    ASSUME Inv, Panic \/ Classified \/ Settled
    PROVE  Inv'
<1>1. stop \in Moving /\ StopType /\ sum \in Summaries /\ {} \in SUBSET Flows
  BY Under, InvFacts DEF Panic, Classified, Settled, At
<1>2. CASE Panic
  <2> DEFINE one == [stop EXCEPT !.pc = "settle", !.todo = {}]
  <2>1. one \in Moving  BY <1>1, TodoPc, Zenon DEF Pcs
  <2>2. stop' = [one EXCEPT !.stopping = {}]  BY <1>2 DEF Panic
  <2> HIDE DEF one
  <2>3. stop' \in Moving  BY <1>1, <2>1, <2>2, MovingFields, Zenon
  <2>4. sum' \in Summaries  BY <1>1, <1>2, FailsType DEF Panic, Errors
  <2> QED  BY <1>2, <2>3, <2>4, StillStep DEF Panic
<1>3. CASE Classified \/ Settled
  <2>1. stop' \in Moving  BY <1>1, <1>3, GotoType DEF Classified, Settled, Pcs
  <2>2. sum' \in Summaries  BY <1>1, <1>3 DEF Classified, Settled, summary
  <2> QED  BY <1>3, <2>1, <2>2, StillStep DEF Classified, Settled, summary
<1> QED  BY <1>2, <1>3

LEMMA SettleKeeps ==
    ASSUME Inv, NEW f \in Flows, Settle(f)
    PROVE  Inv'
<1> DEFINE left == stop.stopping \ {f}
           todo == IF stop.late THEN stop.todo \cup {f} ELSE stop.todo
           step == [stop EXCEPT !.stopping = left]
<1>1. /\ stop \in Moving /\ sum \in Summaries /\ stop \in StopStates
      /\ left \in SUBSET Flows /\ todo \in SUBSET Flows
  BY Under, InvFacts DEF Settle
<1>2. step.late = stop.late /\ step.todo = stop.todo
  BY <1>1, SMT DEF StopStates
<1>3. stop' = [step EXCEPT !.todo = todo]  BY <1>2 DEF Settle
<1> HIDE DEF left, todo
<1>4. step \in Moving  BY <1>1, MovingFields, Zenon
<1> HIDE DEF step
<1>5. stop' \in Moving  BY <1>1, <1>3, <1>4, MovingFields, Zenon
<1> QED  BY <1>1, <1>5, StillStep DEF Settle, summary

LEMMA ScanKeeps ==
    ASSUME Inv, Scan
    PROVE  Inv'
<1> DEFINE todo == IF stop.late THEN stop.todo
                   ELSE {f \in Flows : flow[f].st # "idle"} \ stop.stopping
           step == [stop EXCEPT !.pc = "examine"]
<1>1. /\ stop \in Moving /\ StopType /\ sum \in Summaries /\ stop \in StopStates
      /\ todo \in SUBSET Flows /\ {} \in SUBSET Flows /\ "examine" \in Pcs
  BY Under, InvFacts DEF Scan, At, Pcs
<1>2. step.late = stop.late /\ step.todo = stop.todo
  BY <1>1, SMT DEF StopStates
<1>3. CASE /\ stop' = [stop EXCEPT !.pc = "examine",
                           !.todo = IF stop.late THEN @
                                    ELSE {f \in Flows : flow[f].st # "idle"} \ stop.stopping]
           /\ UNCHANGED <<sum, bounds>>
  <2>1. stop' = [step EXCEPT !.todo = todo]
    <3>1. CASE stop.late  BY <1>2, <1>3, <3>1, Zenon
    <3>2. CASE ~stop.late  BY <1>3, <3>2, Zenon
    <3> QED  BY <3>1, <3>2
  <2> HIDE DEF todo
  <2>2. stop' \in Moving  BY <1>1, <2>1, TodoPc, Zenon
  <2> QED  BY <1>1, <1>3, <2>2, StillStep DEF Scan
<1>4. CASE /\ Fault /\ Fails("orders")
           /\ stop' = [stop EXCEPT !.pc = "examine", !.todo = {}]
  <2>1. stop' \in Moving  BY <1>1, <1>4, TodoPc, Zenon
  <2>2. sum' \in Summaries  BY <1>1, <1>4, FailsType DEF Errors
  <2> QED  BY <1>4, <2>1, <2>2, StillStep DEF Scan
<1> QED  BY <1>3, <1>4 DEF Scan

LEMMA ExamineKeeps ==
    ASSUME CountAssumption, Inv, NEW f \in Flows, Examine(f)
    PROVE  Inv'
<1> DEFINE left == stop.todo \ {f}
           step == [stop EXCEPT !.todo = left]
           found == [step EXCEPT !.pc = "lookup", !.at = {f}]
           spent == stop.budget - 1
           look == [step EXCEPT !.pc = "lookup", !.at = {f}, !.budget = @ - 1]
           ends == [step EXCEPT !.todo = {}]
<1>1. /\ stop \in Moving /\ StopType /\ stop \in StopStates /\ sum \in Summaries
      /\ left \in SUBSET Flows /\ {f} \in SUBSET Flows /\ {} \in SUBSET Flows
      /\ "lookup" \in Pcs
  BY Under, InvFacts DEF Examine, At, Pcs
<1>2. ~Spent => spent \in 0..MaxOrders
  BY <1>1, SMT DEF Spent, StopStates, CountAssumption
<1>3. found.budget = stop.budget  BY <1>1, SMT DEF StopStates
<1>4. look = [found EXCEPT !.budget = spent]  BY <1>3
<1> HIDE DEF left, spent, look
<1>5. step \in Moving  BY <1>1, MovingFields, Zenon
<1>6. ends \in Moving  BY <1>1, <1>5, MovingFields, Zenon
<1> HIDE DEF step, ends
<1>7. found \in Moving  BY <1>1, <1>5, TodoPc, Zenon
<1> HIDE DEF found
<1>8. ~Spent => look \in Moving  BY <1>2, <1>4, <1>7, MovingFields, Zenon
<1>9. /\ UNCHANGED <<switch, flows, known, answers>>
      /\ UNCHANGED bounds \/ Fault
      /\ stop' = step \/ stop' = ends \/ (~Spent /\ stop' = look)
      /\ UNCHANGED sum \/ MayExist(f) \/ Fails("orders")
  BY DEF Examine, step, look, ends, left
<1>10. stop' \in Moving  BY <1>5, <1>6, <1>8, <1>9
<1>11. sum' \in Summaries  BY <1>1, <1>9, FailsType, MayExistType DEF Errors
<1> QED  BY <1>9, <1>10, <1>11, StillStep

LEMMA LookupKeeps ==
    ASSUME Inv, NEW f \in Flows, Lookup(f)
    PROVE  Inv'
<1>1. /\ stop \in Moving /\ StopType /\ sum \in Summaries /\ {} \in SUBSET Flows
      /\ "examine" \in Pcs /\ "withdraw" \in Pcs
  BY Under, InvFacts DEF Lookup, At, Pcs
<1>2. /\ UNCHANGED <<switch, flows, known, answers>>
      /\ UNCHANGED bounds \/ Fault
      /\ Goto("withdraw") \/ stop' = [stop EXCEPT !.pc = "examine", !.at = {}]
      /\ UNCHANGED sum \/ MayExist(f)
  BY DEF Lookup
<1>3. [stop EXCEPT !.pc = "examine", !.at = {}] \in Moving  BY <1>1, TodoPc, Zenon
<1>4. stop' \in Moving  BY <1>1, <1>2, <1>3, GotoType
<1>5. sum' \in Summaries  BY <1>1, <1>2, MayExistType
<1> QED  BY <1>2, <1>4, <1>5, StillStep

LEMMA WithdrawKeeps ==
    ASSUME Inv, NEW f \in Flows, Withdraw(f)
    PROVE  Inv'
<1>1. /\ stop \in Moving /\ StopType /\ sum \in Summaries /\ {} \in SUBSET Flows
      /\ "examine" \in Pcs /\ flow \in [Flows -> FlowStates] /\ known \subseteq Flows
  BY Under, InvFacts DEF Withdraw, At, Pcs
<1>2. /\ UNCHANGED <<kind, switch, known, answers>>
      /\ UNCHANGED bounds \/ Fault
      /\ stop' = [stop EXCEPT !.pc = "examine", !.at = {}]
      /\ UNCHANGED flow \/ flow' = [flow EXCEPT ![f].order = "withdrawn"]
      /\ UNCHANGED sum \/ MayExist(f)
  BY DEF Withdraw
<1>3. stop' \in Moving  BY <1>1, <1>2, TodoPc, Zenon
<1>4. sum' \in Summaries  BY <1>1, <1>2, MayExistType
<1>5. [flow EXCEPT ![f].order = "withdrawn"] \in [Flows -> FlowStates]
  BY <1>1, FlowFields
<1>6. flow' \in [Flows -> FlowStates]  BY <1>1, <1>2, <1>5, Zenon
<1>7. stop' \in StopStates /\ stop'.pc # "idle"  BY <1>3 DEF Moving
<1>8. known' \subseteq Flows  BY <1>1, <1>2
<1> QED  BY <1>2, <1>4, <1>6, <1>7, <1>8, StopStep

LEMMA ExaminedKeeps ==
    ASSUME Inv, Examined
    PROVE  Inv'
<1>1. /\ stop \in Moving /\ StopType /\ sum \in Summaries /\ stop \in StopStates
      /\ "wait" \in Pcs /\ "finish" \in Pcs
  BY Under, InvFacts DEF Examined, At, Pcs
<1>2. /\ UNCHANGED <<switch, flows, known, answers, bounds>>
      /\ UNCHANGED sum \/ Fails("still")
      /\ stop' = [stop EXCEPT !.pc = "wait", !.late = TRUE] \/ Goto("finish")
  BY DEF Examined
<1>3. [stop EXCEPT !.pc = "wait"] \in Moving  BY <1>1, TodoPc
<1>4. [stop EXCEPT !.pc = "wait", !.late = TRUE] \in Moving  BY <1>3, MovingFields, Zenon
<1>5. stop' \in Moving  BY <1>1, <1>2, <1>4, GotoType
<1>6. sum' \in Summaries  BY <1>1, <1>2, FailsType DEF Errors
<1> QED  BY <1>2, <1>5, <1>6, StillStep

LEMMA AnswersKeep ==
    ASSUME Inv, Finish \/ Detach
    PROVE  Inv'
<1>1. StopType /\ stop \in StopStates /\ RestType /\ SwitchInv /\ FlowType
  BY InvFacts
<1>2. UNCHANGED <<switch, flows, summary, bounds>>  BY DEF Finish, Detach
<1>3. SwitchInv'  BY <1>1, <1>2, SwitchStays
<1>4. stop' \in Moving
  <2>1. CASE Finish  BY <1>1, <2>1, GotoType DEF Finish, Pcs
  <2>2. CASE Detach
    <3>1. stop \in Moving  BY <2>2, Under DEF Detach
    <3>2. Detaches \in BOOLEAN  BY DEF Detaches, At
    <3> QED  BY <2>2, <3>1, <3>2, MovingFields, Zenon DEF Detach
  <2> QED  BY <2>1, <2>2
<1>5. stop' \in StopStates /\ stop'.pc # "idle"  BY <1>4 DEF Moving
<1>6. reply' \in {"none", "pending", "final"} /\ followup' \in BOOLEAN
  <2>1. stop.detached \in BOOLEAN  BY <1>1 DEF StopStates
  <2> QED  BY <1>1, <2>1 DEF Finish, Detach, RestType
<1>7. FlowType' /\ StopType' /\ RestType' /\ NotStarted'
  BY <1>1, <1>2, <1>5, <1>6
     DEF FlowType, StopType, RestType, NotStarted, flows, summary, bounds
<1> QED  BY <1>3, <1>7 DEF Inv

-----------------------------------------------------------------------------
(* The invariant and the theorems. *)

LEMMA InitInv ==
    ASSUME TimeAssumption, CountAssumption, Init
    PROVE  Inv
<1>1. \A c \in Callers : call[c] = NoCall  BY DEF Init
<1>2. SwitchType
  BY ACall DEF Init, SwitchType
<1>3. NoCall.pc = "none"  BY DEF NoCall, NewCall
<1>4. OffNow  BY DEF Init, OffNow
<1>5. Fresh
  <2>1. 0 <= 0 + ReadTime  BY ACall, SMT
  <2> QED  BY <2>1 DEF Init, Fresh
<1>6. Overlaps  BY <1>1, <1>3 DEF Overlaps
<1>7. NotStarted  BY <1>1, <1>3, Known DEF NotStarted
<1>8. FlowType
  <2>1. NoFlow \in FlowStates  BY SMT DEF NoFlow, FlowStates
  <2> QED  BY <2>1 DEF Init, FlowType
<1>9. StopType
  <2>1. PICK rest \in 0..MaxOrders :
              stop = [pc |-> "idle", todo |-> {}, at |-> {}, stopping |-> {}, late |-> FALSE,
                      budget |-> rest, detached |-> FALSE]
    BY DEF Init
  <2>2. stop \in StopStates  BY <2>1, SMT DEF StopStates
  <2>3. sum \in Summaries  BY SMT DEF Init, Summaries
  <2> QED  BY <2>2, <2>3 DEF Init, StopType
<1>10. RestType
  <2>1. reply = "none" /\ followup = FALSE /\ faults = 0 /\ calls = 0  BY DEF Init
  <2>2. 0 \in Nat  BY SMT
  <2> QED  BY <2>1, <2>2, Zenon DEF RestType
<1> QED  BY <1>2, <1>4, <1>5, <1>6, <1>7, <1>8, <1>9, <1>10 DEF Inv, SwitchInv

LEMMA NextInv ==
    ASSUME TimeAssumption, CountAssumption, FlowAssumption, Inv, [Next]_vars
    PROVE  Inv'
<1>1. CASE \E c \in Callers : Reading(c)  BY <1>1, ReadingKeeps
<1>2. CASE \E f \in Flows : Works(f)  BY <1>2, FlowsKeep, AskSwitchKeeps DEF Works
<1>3. CASE Start  BY <1>3, FlagKeeps
<1>4. CASE Stops
  BY <1>4, FlagKeeps, ListKeeps, PanicKeeps, ScanKeeps, ExaminedKeeps, AnswersKeep,
     ClassifyKeeps, CancelKeeps, SettleKeeps, ExamineKeeps, LookupKeeps, WithdrawKeeps
     DEF Stops
<1>5. CASE Detach  BY <1>5, AnswersKeep
<1>6. CASE Resume \/ Busy \/ BusyAsks \/ OtherProcess  BY <1>6, OthersKeep
<1>7. CASE Advance  BY <1>7, TimeKeeps
<1>8. CASE UNCHANGED vars
  <2>1. SwitchInv'  BY <1>8, SwitchStays DEF Inv, vars
  <2> QED
    BY <1>8, <2>1
       DEF vars, switch, flows, summary, answers, bounds,
           Inv, NotStarted, FlowType, StopType, RestType
<1> QED  BY <1>1, <1>2, <1>3, <1>4, <1>5, <1>6, <1>7, <1>8 DEF Next

LEMMA InvImplies ==
    ASSUME Inv
    PROVE  TypeOK /\ SeenInTime
BY DEF Inv, SwitchInv, SwitchType, FlowType, StopType, RestType, TypeOK, SeenInTime,
       Fresh, Overlaps

(* Every state the code keeps stays in its type (State, Kill, stopRun). *)
THEOREM Types == Spec => []TypeOK
<1>1. Init => Inv  BY InitInv, TimeAssumption, CountAssumption
<1>2. Inv /\ [Next]_vars => Inv'
  BY NextInv, TimeAssumption, CountAssumption, FlowAssumption
<1>3. Inv => TypeOK  BY InvImplies
<1> QED  BY <1>1, <1>2, <1>3, PTL DEF Spec

(***************************************************************************)
(* The switch is seen in time, whatever the refresh interval, the timeout  *)
(* and the number of callers: the memory says "off" only of a row that was *)
(* off within both, unless a refresh is under way (Killed, read).          *)
(***************************************************************************)
THEOREM Seen == Spec => []SeenInTime
<1>1. Init => Inv  BY InitInv, TimeAssumption, CountAssumption
<1>2. Inv /\ [Next]_vars => Inv'
  BY NextInv, TimeAssumption, CountAssumption, FlowAssumption
<1>3. Inv => SeenInTime  BY InvImplies
<1> QED  BY <1>1, <1>2, <1>3, PTL DEF Spec

-----------------------------------------------------------------------------
(* The final summary reaches the owner exactly once.                       *)

(***************************************************************************)
(* Until the sequence is over, a reply that went out is remembered in      *)
(* detached and no second message was sent; from then on the second        *)
(* message was sent if and only if the reply was early.                    *)
(***************************************************************************)
Handed ==
    IF At("over") THEN followup = (reply = "pending")
    ELSE ~followup /\ reply # "final" /\ stop.detached = (reply = "pending")

(* The sequence goes on, and remembers what it did. *)
GoesOn == stop'.pc # "over" /\ stop'.detached = stop.detached

LEMMA GotoGoesOn ==
    ASSUME stop \in StopStates, NEW pc \in Pcs \ {"over"}, Goto(pc)
    PROVE  GoesOn
BY DEF Goto, GoesOn, StopStates, Pcs

LEMMA HandedSame ==
    ASSUME Handed, UNCHANGED <<stop, answers>>
    PROVE  Handed'
BY DEF Handed, At, answers

LEMMA HandedOn ==
    ASSUME Handed, ~At("over"), GoesOn, UNCHANGED answers
    PROVE  Handed'
BY DEF Handed, At, answers, GoesOn

LEMMA StopGoesOn ==
    ASSUME Inv, Start \/ (Stops /\ ~Finish)
    PROVE  ~At("over") /\ GoesOn /\ UNCHANGED answers
<1>1. stop \in StopStates  BY InvFacts
<1>2. CASE Start \/ Engaged \/ NotEngaged \/ FlagChecked \/ Classified \/ Settled
  <2>1. ~At("over") /\ UNCHANGED answers
    BY <1>2 DEF Start, Engaged, NotEngaged, FlagChecked, Classified, Settled, At
  <2>2. \E pc \in Pcs \ {"over"} : Goto(pc)
    BY <1>2 DEF Start, Engaged, NotEngaged, FlagChecked, Classified, Settled, Pcs
  <2> QED  BY <1>1, <2>1, <2>2, GotoGoesOn
<1>3. CASE List \/ Panic \/ Scan \/ Examined
  <2>1. ~At("over") /\ UNCHANGED answers
    BY <1>3 DEF List, Panic, Scan, Examined, At
  <2>2. GoesOn
    BY <1>1, <1>3 DEF List, Panic, Scan, Examined, At, Goto, GoesOn, StopStates
  <2> QED  BY <2>1, <2>2
<1>4. ASSUME NEW f \in Flows, Classify(f) \/ Cancel(f) \/ Settle(f)
      PROVE  ~At("over") /\ GoesOn /\ UNCHANGED answers
  <2>1. ~At("over") /\ UNCHANGED answers
    BY <1>4 DEF Classify, Cancel, Settle, At
  <2>2. CASE Classify(f)
    BY <1>1, <2>2 DEF Classify, At, GoesOn, StopStates
  <2>3. CASE Cancel(f)
    BY <1>1, <2>3 DEF Cancel, At, GoesOn, StopStates
  <2>4. CASE Settle(f)
    BY <1>1, <2>4 DEF Settle, At, GoesOn, StopStates
  <2> QED  BY <1>4, <2>1, <2>2, <2>3, <2>4
<1>5. ASSUME NEW f \in Flows, Examine(f) \/ Lookup(f) \/ Withdraw(f)
      PROVE  ~At("over") /\ GoesOn /\ UNCHANGED answers
  <2>1. ~At("over") /\ UNCHANGED answers
    BY <1>5 DEF Examine, Lookup, Withdraw, At
  <2>2. CASE Examine(f)
    BY <1>1, <2>2 DEF Examine, At, GoesOn, StopStates
  <2>3. CASE Lookup(f)
    BY <1>1, <2>3 DEF Lookup, At, Goto, GoesOn, StopStates
  <2>4. CASE Withdraw(f)
    BY <1>1, <2>4 DEF Withdraw, At, GoesOn, StopStates
  <2> QED  BY <1>5, <2>1, <2>2, <2>3, <2>4
<1> QED  BY <1>2, <1>3, <1>4, <1>5 DEF Stops

LEMMA HandedStep ==
    ASSUME Inv, Handed, [Next]_vars
    PROVE  Handed'
<1>1. stop \in StopStates /\ reply \in {"none", "pending", "final"} /\ followup \in BOOLEAN
  BY DEF Inv, StopType, RestType
<1>2. CASE Start \/ (Stops /\ ~Finish)
  BY <1>2, StopGoesOn, HandedOn
<1>3. CASE Finish
  <2>1. /\ stop' = [stop EXCEPT !.pc = "over"] /\ followup' = stop.detached
        /\ reply' = reply /\ ~At("over")
    BY <1>3 DEF Finish, Goto, At
  <2>2. stop'.pc = "over"
    BY <1>1, <2>1 DEF StopStates
  <2> QED  BY <2>1, <2>2 DEF Handed, At
<1>4. CASE Detach
  <2>1. /\ reply = "none" /\ stop' = [stop EXCEPT !.detached = ~At("over")]
        /\ reply' = (IF At("over") THEN "final" ELSE "pending") /\ followup' = followup
    BY <1>4 DEF Detach, Detaches
  <2>2. stop'.pc = stop.pc /\ stop'.detached = ~At("over")
    BY <1>1, <2>1 DEF StopStates
  <2> QED  BY <1>1, <2>1, <2>2 DEF Handed, At
<1>5. CASE UNCHANGED <<stop, answers>>
  BY <1>5, HandedSame
<1>6. ASSUME NEW c \in Callers, Reading(c) PROVE UNCHANGED <<stop, answers>>
  BY <1>6 DEF Reading, Write, ReadRow, ReadFails, Store
<1>7. ASSUME NEW f \in Flows, Works(f) PROVE UNCHANGED <<stop, answers>>
  BY <1>7 DEF Works, Begin, Claim, BeginPlace, AskSwitch, Refuse, Send, EndPlace, EndFlow, Fills
<1>8. ASSUME Resume \/ Busy \/ BusyAsks \/ OtherProcess \/ Advance
      PROVE  UNCHANGED <<stop, answers>>
  BY <1>8 DEF Resume, Busy, BusyAsks, OtherProcess, Advance
<1>9. ASSUME UNCHANGED vars PROVE UNCHANGED <<stop, answers>>
  BY <1>9 DEF vars
<1> QED  BY <1>2, <1>3, <1>4, <1>5, <1>6, <1>7, <1>8, <1>9 DEF Next

(***************************************************************************)
(* kill.go, finish and detach: whenever the reply budget runs out, before  *)
(* the end, at it or after it, the owner gets the final summary once.      *)
(***************************************************************************)
THEOREM SummaryOnce == Spec => []FinalOnce
<1>1. Init => Inv /\ Handed
  <2> SUFFICES ASSUME Init PROVE Inv /\ Handed  OBVIOUS
  <2>1. Inv  BY InitInv, TimeAssumption, CountAssumption
  <2>2. stop.pc = "idle" /\ stop.detached = FALSE  BY DEF Init
  <2> QED  BY <2>1, <2>2 DEF Init, Handed, At
<1>2. Inv /\ Handed /\ [Next]_vars => (Inv /\ Handed)'
  BY NextInv, HandedStep, TimeAssumption, CountAssumption, FlowAssumption
<1>3. Inv /\ Handed => FinalOnce
  BY DEF Inv, RestType, Handed, FinalOnce
<1> QED  BY <1>1, <1>2, <1>3, PTL DEF Spec

=============================================================================
