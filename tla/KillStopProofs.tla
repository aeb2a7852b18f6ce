--------------------------- MODULE KillStopProofs ---------------------------
(***************************************************************************)
(* After /stop no order that can still fill goes unnamed, for any number   *)
(* of workflows, failed and panicking calls, and lookups.                  *)
(*                                                                         *)
(* OrdersAccounted speaks of the end of the sequence only.  The invariant  *)
(* says of each workflow how far the sequence has come with it: once       *)
(* cancelFlows is past it, it will not begin to place (Quiet), and once    *)
(* scanOrders is, its order is named or cannot fill any more (SeenTo).     *)
(* Both are kept by whatever the workflow does meanwhile.                  *)
(***************************************************************************)
EXTENDS KillSwitchProofs

Done == {"placed", "unknown", "refused"}

(* Where a workflow is, and what its journal says. *)
ShapeOf(f) ==
    /\ flow[f].st \in {"idle", "waiting", "check"} =>
          flow[f].place = "none" /\ flow[f].order = "none"
    /\ flow[f].st = "place" => flow[f].place = "started" /\ flow[f].order = "none"
    /\ flow[f].st = "sent" => flow[f].place = "started"
    /\ flow[f].st \in {"settling", "ended"} => flow[f].place \in Done
    /\ flow[f].st = "cancelled" => flow[f].place \in Done \cup {"none"}
    /\ flow[f].order # "none" => flow[f].place \in {"started", "placed", "unknown"}

Shape == \A f \in Flows : ShapeOf(f)

(* A workflow that will not begin to place. *)
Quiet(f) ==
    \/ kind[f] = "exit"
    \/ flow[f].asked
    \/ flow[f].st \in {"cancelled", "ended"}
    \/ kind[f] = "hedge" /\ f \in sum.finishing
    \/ kind[f] = "plain" /\ flow[f].place \in Done

(* One whose order is named, or cannot fill any more. *)
SeenTo(f) ==
    \/ kind[f] = "exit"
    \/ f \in sum.mayExist
    \/ kind[f] = "hedge" /\ (flow[f].asked \/ f \in sum.finishing)
    \/ flow[f].order \in {"closed", "withdrawn"}
    \/ /\ kind[f] = "hedge" /\ flow[f].st \in {"cancelled", "ended"}
       /\ flow[f].order = "none" \/ flow[f].place # "placed"
    \/ /\ kind[f] = "plain" /\ flow[f].order = "none"
       /\ \/ flow[f].place = "refused"
          \/ flow[f].place = "none" /\ (flow[f].asked \/ flow[f].st = "cancelled")

Clean == sum.errors \cap {"workflows", "orders", "still"} = {}

Before == {"idle", "flag", "flagcheck", "list"}
Sorting == {"classify", "cancel"}
Looking == {"examine", "lookup", "withdraw"}

Placed ==
    /\ stop.pc \in Before => known = {} /\ stop.stopping = {} /\ ~stop.late
    /\ stop.pc \in Sorting => ~stop.late
    /\ stop.pc = "wait" => stop.late
    /\ stop.pc \notin {"cancel", "lookup", "withdraw"} => stop.at = {}
    /\ stop.pc \in Sorting => stop.todo \subseteq known /\ stop.at \subseteq known
    /\ \A f, g \in stop.at : f = g
    /\ \A f \in known : flow[f].st # "idle"

(* What the sequence has still to do about f. *)
Open(f) == f \in stop.todo \cup stop.at
Late(f) == Open(f) \/ f \in stop.stopping

Covers(f) ==
    /\ stop.pc \in Sorting => Open(f) \/ Quiet(f)
    /\ stop.pc \notin Before \cup Sorting => Quiet(f)
    /\ stop.late \/ stop.pc \in Looking => Late(f) \/ SeenTo(f)
    /\ stop.pc \in {"finish", "over"} => SeenTo(f)

Covered == Clean => \A f \in known : Covers(f)

-----------------------------------------------------------------------------
(* Reading back a record after one field was replaced. *)

Has(r, pc, todo, at, stopping, late) ==
    /\ r \in StopStates
    /\ r.pc = pc /\ r.todo = todo /\ r.at = at /\ r.stopping = stopping /\ r.late = late

LEMMA SetPc ==
    ASSUME NEW r \in StopStates, NEW v \in Pcs, NEW new, new = [r EXCEPT !.pc = v]
    PROVE  Has(new, v, r.todo, r.at, r.stopping, r.late)
<1>1. new \in StopStates  BY StopFields
<1> QED  BY <1>1, Zenon DEF StopStates, Has

LEMMA SetTodo ==
    ASSUME NEW r \in StopStates, NEW v \in SUBSET Flows, NEW new, new = [r EXCEPT !.todo = v]
    PROVE  Has(new, r.pc, v, r.at, r.stopping, r.late)
<1>1. new \in StopStates  BY StopFields
<1> QED  BY <1>1, Zenon DEF StopStates, Has

LEMMA SetAt ==
    ASSUME NEW r \in StopStates, NEW v \in SUBSET Flows, NEW new, new = [r EXCEPT !.at = v]
    PROVE  Has(new, r.pc, r.todo, v, r.stopping, r.late)
<1>1. new \in StopStates  BY StopFields
<1> QED  BY <1>1, Zenon DEF StopStates, Has

LEMMA SetStopping ==
    ASSUME NEW r \in StopStates, NEW v \in SUBSET Flows, NEW new, new = [r EXCEPT !.stopping = v]
    PROVE  Has(new, r.pc, r.todo, r.at, v, r.late)
<1>1. new \in StopStates  BY StopFields
<1> QED  BY <1>1, Zenon DEF StopStates, Has

LEMMA SetLate ==
    ASSUME NEW r \in StopStates, NEW v \in BOOLEAN, NEW new, new = [r EXCEPT !.late = v]
    PROVE  Has(new, r.pc, r.todo, r.at, r.stopping, v)
<1>1. new \in StopStates  BY StopFields
<1> QED  BY <1>1, Zenon DEF StopStates, Has

LEMMA SetBudget ==
    ASSUME NEW r \in StopStates, NEW v \in 0..MaxOrders, NEW new, new = [r EXCEPT !.budget = v]
    PROVE  Has(new, r.pc, r.todo, r.at, r.stopping, r.late)
<1>1. new \in StopStates  BY StopFields
<1> QED  BY <1>1, Zenon DEF StopStates, Has

LEMMA SetDetached ==
    ASSUME NEW r \in StopStates, NEW v \in BOOLEAN, NEW new, new = [r EXCEPT !.detached = v]
    PROVE  Has(new, r.pc, r.todo, r.at, r.stopping, r.late)
<1>1. new \in StopStates  BY StopFields
<1> QED  BY <1>1, Zenon DEF StopStates, Has

LEMMA FailsReads ==
    ASSUME StopType, NEW step, Fails(step)
    PROVE  /\ sum'.finishing = sum.finishing /\ sum'.mayExist = sum.mayExist
           /\ sum'.errors = sum.errors \cup {step}
BY Zenon DEF StopType, Summaries, Fails

LEMMA MayExistReads ==
    ASSUME StopType, NEW f, MayExist(f)
    PROVE  /\ sum'.finishing = sum.finishing /\ sum'.mayExist = sum.mayExist \cup {f}
           /\ sum'.errors = sum.errors
BY Zenon DEF StopType, Summaries, MayExist

LEMMA FlowSt ==
    ASSUME NEW fl \in [Flows -> FlowStates], NEW f \in Flows, NEW v, NEW new,
           new = [fl EXCEPT ![f].st = v]
    PROVE  /\ new[f].st = v
           /\ new[f].asked = fl[f].asked
           /\ new[f].place = fl[f].place
           /\ new[f].order = fl[f].order
           /\ \A g \in Flows : g # f => new[g] = fl[g]
<1>1. fl[f] \in FlowStates  OBVIOUS
<1> QED  BY <1>1, Zenon DEF FlowStates

LEMMA FlowAsked ==
    ASSUME NEW fl \in [Flows -> FlowStates], NEW f \in Flows, NEW v, NEW new,
           new = [fl EXCEPT ![f].asked = v]
    PROVE  /\ new[f].st = fl[f].st
           /\ new[f].asked = v
           /\ new[f].place = fl[f].place
           /\ new[f].order = fl[f].order
           /\ \A g \in Flows : g # f => new[g] = fl[g]
<1>1. fl[f] \in FlowStates  OBVIOUS
<1> QED  BY <1>1, Zenon DEF FlowStates

LEMMA FlowPlace ==
    ASSUME NEW fl \in [Flows -> FlowStates], NEW f \in Flows, NEW v, NEW new,
           new = [fl EXCEPT ![f].place = v]
    PROVE  /\ new[f].st = fl[f].st
           /\ new[f].asked = fl[f].asked
           /\ new[f].place = v
           /\ new[f].order = fl[f].order
           /\ \A g \in Flows : g # f => new[g] = fl[g]
<1>1. fl[f] \in FlowStates  OBVIOUS
<1> QED  BY <1>1, Zenon DEF FlowStates

LEMMA FlowOrder ==
    ASSUME NEW fl \in [Flows -> FlowStates], NEW f \in Flows, NEW v, NEW new,
           new = [fl EXCEPT ![f].order = v]
    PROVE  /\ new[f].st = fl[f].st
           /\ new[f].asked = fl[f].asked
           /\ new[f].place = fl[f].place
           /\ new[f].order = v
           /\ \A g \in Flows : g # f => new[g] = fl[g]
<1>1. fl[f] \in FlowStates  OBVIOUS
<1> QED  BY <1>1, Zenon DEF FlowStates

StopInv == Shape /\ Placed /\ Covered

(* A workflow moves: it stays quiet, and what was seen to stays so. *)
LEMMA FlowMove ==
    ASSUME StopInv, NEW f \in Flows, known \subseteq Flows,
           \A g \in Flows : g # f => flow'[g] = flow[g],
           UNCHANGED <<kind, stop, sum, known>>,
           ShapeOf(f)', flow'[f].st # "idle",
           Quiet(f) => Quiet(f)', SeenTo(f) => SeenTo(f)'
    PROVE  StopInv'
<1>1. Shape'  BY DEF StopInv, Shape, ShapeOf
<1>2. Placed'  BY DEF StopInv, Placed
<1>3. ASSUME NEW g \in known
      PROVE  (Quiet(g) => Quiet(g)') /\ (SeenTo(g) => SeenTo(g)')
  <2>1. CASE g = f  BY <2>1
  <2>2. CASE g # f  BY <2>2 DEF Quiet, SeenTo
  <2> QED  BY <2>1, <2>2
<1>4. Clean' = Clean  BY DEF Clean
<1>5. Covered'  BY <1>3, <1>4 DEF StopInv, Covered, Covers, Open, Late
<1> QED  BY <1>1, <1>2, <1>5 DEF StopInv

LEMMA WorksKeepStop ==
    ASSUME Inv, StopInv, NEW f \in Flows,
           \/ Begin(f) \/ Claim(f) \/ BeginPlace(f) \/ Refuse(f) \/ Send(f)
           \/ EndPlace(f) \/ EndFlow(f) \/ Fills(f)
    PROVE  StopInv'
<1>1. flow \in [Flows -> FlowStates] /\ known \subseteq Flows /\ kind[f] \in Kinds
  BY InvFacts
<1>2. ShapeOf(f)  BY DEF StopInv, Shape
<1>3. UNCHANGED <<kind, stop, sum, known>>
  BY DEF Begin, Claim, BeginPlace, Refuse, Send, EndPlace, EndFlow, Fills, summary
<1>4. CASE Begin(f) \/ Claim(f)
  <2>1. PICK s \in {"waiting", "check"} : Move(f, s)  BY <1>4 DEF Begin, Claim
  <2>2. /\ flow'[f].st = s /\ flow'[f].asked = flow[f].asked
        /\ flow'[f].place = flow[f].place /\ flow'[f].order = flow[f].order
        /\ \A g \in Flows : g # f => flow'[g] = flow[g]
    BY <1>1, <2>1, FlowSt DEF Move
  <2>3. flow[f].st \in {"idle", "waiting"}  BY <1>4 DEF Begin, Claim
  <2>4. ShapeOf(f)' /\ flow'[f].st # "idle"  BY <1>2, <2>2, <2>3 DEF ShapeOf
  <2>5. Quiet(f) => Quiet(f)'  BY <1>3, <2>2, <2>3 DEF Quiet
  <2>6. SeenTo(f) => SeenTo(f)'  BY <1>3, <2>2, <2>3 DEF SeenTo
  <2> QED  BY <1>1, <1>3, <2>2, <2>4, <2>5, <2>6, FlowMove
<1>5. CASE BeginPlace(f)
  <2>1. CASE flow[f].asked
    <3>1. flow' = [flow EXCEPT ![f].st = "cancelled"] /\ flow[f].st = "check"
      BY <1>5, <2>1 DEF BeginPlace
    <3>2. /\ flow'[f].st = "cancelled" /\ flow'[f].asked = flow[f].asked
          /\ flow'[f].place = flow[f].place /\ flow'[f].order = flow[f].order
          /\ \A g \in Flows : g # f => flow'[g] = flow[g]
      BY <1>1, <3>1, FlowSt
    <3>3. ShapeOf(f)' /\ flow'[f].st # "idle"  BY <1>2, <3>1, <3>2 DEF ShapeOf
    <3>4. Quiet(f) => Quiet(f)'  BY <1>3, <3>2 DEF Quiet
    <3>5. SeenTo(f) => SeenTo(f)'  BY <1>3, <3>1, <3>2 DEF SeenTo
    <3> QED  BY <1>1, <1>3, <3>2, <3>3, <3>4, <3>5, FlowMove
  <2>2. CASE ~flow[f].asked
    <3> DEFINE x == [flow EXCEPT ![f].st = "place"]
    <3>1. flow' = [x EXCEPT ![f].place = "started"] /\ flow[f].st = "check"
      BY <1>5, <2>2 DEF BeginPlace
    <3>2. x \in [Flows -> FlowStates]  BY <1>1, FlowFields
    <3>3. /\ x[f].st = "place" /\ x[f].asked = flow[f].asked
          /\ x[f].place = flow[f].place /\ x[f].order = flow[f].order
          /\ \A g \in Flows : g # f => x[g] = flow[g]
      BY <1>1, FlowSt
    <3> HIDE DEF x
    <3>4. /\ flow'[f].st = "place" /\ flow'[f].asked = flow[f].asked
          /\ flow'[f].place = "started" /\ flow'[f].order = flow[f].order
          /\ \A g \in Flows : g # f => flow'[g] = flow[g]
      BY <3>1, <3>2, <3>3, FlowPlace
    <3>5. ShapeOf(f)' /\ flow'[f].st # "idle"  BY <1>2, <3>1, <3>4 DEF ShapeOf
    <3>6. Quiet(f) => Quiet(f)'
      BY <1>2, <1>3, <2>2, <3>1, <3>4 DEF Quiet, ShapeOf, Done
    <3>7. SeenTo(f) => SeenTo(f)'
      BY <1>2, <1>3, <2>2, <3>1, <3>4 DEF SeenTo, ShapeOf
    <3> QED  BY <1>1, <1>3, <3>4, <3>5, <3>6, <3>7, FlowMove
  <2> QED  BY <2>1, <2>2
<1>6. CASE Refuse(f) \/ EndPlace(f)
  <2>1. PICK s \in {"cancelled", "settling"}, p \in Done :
           /\ flow' = [flow EXCEPT ![f].st = s, ![f].place = p]
           /\ flow[f].asked <=> s = "cancelled"
           /\ flow[f].st \in {"place", "sent"}
           /\ p = "refused" => flow[f].order = "none"
    <3>1. CASE Refuse(f)
      <4>1. flow[f].order = "none"  BY <1>2, <3>1 DEF Refuse, ShapeOf
      <4>2. "refused" \in Done /\ flow[f].st = "place"  BY <3>1 DEF Done, Refuse
      <4>3. CASE flow[f].asked  BY <3>1, <4>1, <4>2, <4>3 DEF Refuse
      <4>4. CASE ~flow[f].asked  BY <3>1, <4>1, <4>2, <4>4 DEF Refuse
      <4> QED  BY <4>3, <4>4
    <3>2. CASE EndPlace(f)
      <4>1. PICK p \in {"unknown", IF flow[f].order = "none" THEN "refused" ELSE "placed"} :
              flow' = [flow EXCEPT ![f].st = IF flow[f].asked THEN "cancelled" ELSE "settling",
                                   ![f].place = p]
        BY <3>2 DEF EndPlace
      <4>2. p \in Done /\ (p = "refused" => flow[f].order = "none") /\ flow[f].st = "sent"
        BY <3>2 DEF Done, EndPlace
      <4>3. CASE flow[f].asked  BY <4>1, <4>2, <4>3
      <4>4. CASE ~flow[f].asked  BY <4>1, <4>2, <4>4
      <4> QED  BY <4>3, <4>4
    <3> QED  BY <1>6, <3>1, <3>2
  <2> DEFINE x == [flow EXCEPT ![f].st = s]
  <2>2. flow' = [x EXCEPT ![f].place = p]  BY <2>1
  <2>3. x \in [Flows -> FlowStates]  BY <1>1, FlowFields
  <2>4. /\ x[f].st = s /\ x[f].asked = flow[f].asked
        /\ x[f].place = flow[f].place /\ x[f].order = flow[f].order
        /\ \A g \in Flows : g # f => x[g] = flow[g]
    BY <1>1, FlowSt
  <2> HIDE DEF x
  <2>5. /\ flow'[f].st = s /\ flow'[f].asked = flow[f].asked
        /\ flow'[f].place = p /\ flow'[f].order = flow[f].order
        /\ \A g \in Flows : g # f => flow'[g] = flow[g]
    BY <2>2, <2>3, <2>4, FlowPlace
  <2>6. ShapeOf(f)' /\ flow'[f].st # "idle"
    BY <1>2, <2>1, <2>5 DEF ShapeOf, Done
  <2>7. Quiet(f) => Quiet(f)'  BY <1>3, <2>1, <2>5 DEF Quiet
  <2>8. SeenTo(f) => SeenTo(f)'
    BY <1>2, <1>3, <2>1, <2>5 DEF SeenTo, ShapeOf, Done
  <2> QED  BY <1>1, <1>3, <2>5, <2>6, <2>7, <2>8, FlowMove
<1>7. CASE Send(f)
  <2>1. PICK o \in {"none", "open"} : flow' = [flow EXCEPT ![f].st = "sent", ![f].order = o]
    BY <1>7 DEF Send
  <2> DEFINE x == [flow EXCEPT ![f].st = "sent"]
  <2>2. flow' = [x EXCEPT ![f].order = o] /\ flow[f].st = "place"  BY <1>7, <2>1 DEF Send
  <2>3. x \in [Flows -> FlowStates]  BY <1>1, FlowFields
  <2>4. /\ x[f].st = "sent" /\ x[f].asked = flow[f].asked
        /\ x[f].place = flow[f].place /\ x[f].order = flow[f].order
        /\ \A g \in Flows : g # f => x[g] = flow[g]
    BY <1>1, FlowSt
  <2> HIDE DEF x
  <2>5. /\ flow'[f].st = "sent" /\ flow'[f].asked = flow[f].asked
        /\ flow'[f].place = flow[f].place /\ flow'[f].order = o
        /\ \A g \in Flows : g # f => flow'[g] = flow[g]
    BY <2>2, <2>3, <2>4, FlowOrder
  <2>6. ShapeOf(f)' /\ flow'[f].st # "idle"
    BY <1>2, <2>2, <2>5 DEF ShapeOf
  <2>7. Quiet(f) => Quiet(f)'  BY <1>3, <2>2, <2>5 DEF Quiet
  <2>8. SeenTo(f) => SeenTo(f)'
    BY <1>2, <1>3, <2>2, <2>5 DEF SeenTo, ShapeOf
  <2> QED  BY <1>1, <1>3, <2>5, <2>6, <2>7, <2>8, FlowMove
<1>8. CASE EndFlow(f)
  <2>1. PICK s \in {"cancelled", "ended"} : Move(f, s) /\ flow[f].st = "settling"
    <3>1. CASE flow[f].asked  BY <1>8, <3>1 DEF EndFlow
    <3>2. CASE ~flow[f].asked  BY <1>8, <3>2 DEF EndFlow
    <3> QED  BY <3>1, <3>2
  <2>2. /\ flow'[f].st = s /\ flow'[f].asked = flow[f].asked
        /\ flow'[f].place = flow[f].place /\ flow'[f].order = flow[f].order
        /\ \A g \in Flows : g # f => flow'[g] = flow[g]
    BY <1>1, <2>1, FlowSt DEF Move
  <2>3. ShapeOf(f)' /\ flow'[f].st # "idle"  BY <1>2, <2>1, <2>2 DEF ShapeOf
  <2>4. Quiet(f) => Quiet(f)'  BY <1>3, <2>1, <2>2 DEF Quiet
  <2>5. SeenTo(f) => SeenTo(f)'  BY <1>2, <1>3, <2>1, <2>2 DEF SeenTo, ShapeOf, Done
  <2> QED  BY <1>1, <1>3, <2>2, <2>3, <2>4, <2>5, FlowMove
<1>9. CASE Fills(f)
  <2>1. flow' = [flow EXCEPT ![f].order = "closed"] /\ flow[f].order = "open"
    BY <1>9 DEF Fills
  <2>2. /\ flow'[f].st = flow[f].st /\ flow'[f].asked = flow[f].asked
        /\ flow'[f].place = flow[f].place /\ flow'[f].order = "closed"
        /\ \A g \in Flows : g # f => flow'[g] = flow[g]
    BY <1>1, <2>1, FlowOrder
  <2>3. ShapeOf(f)' /\ flow'[f].st # "idle"  BY <1>2, <2>1, <2>2 DEF ShapeOf
  <2>4. Quiet(f) => Quiet(f)'  BY <1>3, <2>2 DEF Quiet
  <2>5. SeenTo(f)'  BY <1>3, <2>2 DEF SeenTo
  <2> QED  BY <1>1, <1>3, <2>2, <2>3, <2>4, <2>5, FlowMove
<1> QED  BY <1>4, <1>5, <1>6, <1>7, <1>8, <1>9

-----------------------------------------------------------------------------
(* Two fields at once. *)

LEMMA SetPcTodo ==
    ASSUME NEW r \in StopStates, NEW v \in Pcs, NEW w \in SUBSET Flows, NEW new,
           new = [r EXCEPT !.pc = v, !.todo = w]
    PROVE  Has(new, v, w, r.at, r.stopping, r.late)
<1> DEFINE x == [r EXCEPT !.pc = v]
<1>1. Has(x, v, r.todo, r.at, r.stopping, r.late)  BY SetPc
<1>2. new = [x EXCEPT !.todo = w]  OBVIOUS
<1> HIDE DEF x
<1>3. x \in StopStates  BY <1>1 DEF Has
<1>4. Has(new, x.pc, w, x.at, x.stopping, x.late)  BY <1>2, <1>3, SetTodo
<1> QED  BY <1>1, <1>4 DEF Has

LEMMA SetPcAt ==
    ASSUME NEW r \in StopStates, NEW v \in Pcs, NEW w \in SUBSET Flows, NEW new,
           new = [r EXCEPT !.pc = v, !.at = w]
    PROVE  Has(new, v, r.todo, w, r.stopping, r.late)
<1> DEFINE x == [r EXCEPT !.pc = v]
<1>1. Has(x, v, r.todo, r.at, r.stopping, r.late)  BY SetPc
<1>2. new = [x EXCEPT !.at = w]  OBVIOUS
<1> HIDE DEF x
<1>3. x \in StopStates  BY <1>1 DEF Has
<1>4. Has(new, x.pc, x.todo, w, x.stopping, x.late)  BY <1>2, <1>3, SetAt
<1> QED  BY <1>1, <1>4 DEF Has

-----------------------------------------------------------------------------
(* What a step does to the summary, and what that leaves true. *)

SumGrows ==
    /\ sum.finishing \subseteq sum'.finishing /\ sum.mayExist \subseteq sum'.mayExist
    /\ sum.errors \subseteq sum'.errors

LEMMA SumReads ==
    ASSUME StopType
    PROVE  /\ UNCHANGED sum => SumGrows
           /\ \A step : Fails(step) =>
                 /\ SumGrows
                 /\ step \in {"workflows", "orders", "still"} => ~Clean'
           /\ \A f : MayExist(f) => SumGrows /\ f \in sum'.mayExist
           /\ \A b : sum' = [sum EXCEPT !.engaged = b] => SumGrows
           /\ \A f : sum' = [sum EXCEPT !.finishing = @ \cup {f}] =>
                 SumGrows /\ f \in sum'.finishing
<1>1. sum \in Summaries  BY DEF StopType
<1>2. UNCHANGED sum => SumGrows  BY DEF SumGrows
<1>3. ASSUME NEW step, Fails(step)
      PROVE  SumGrows /\ (step \in {"workflows", "orders", "still"} => ~Clean')
  BY <1>3, FailsReads DEF SumGrows, Clean
<1>4. ASSUME NEW f, MayExist(f)
      PROVE  SumGrows /\ f \in sum'.mayExist
  BY <1>4, MayExistReads DEF SumGrows
<1>5. ASSUME NEW b, sum' = [sum EXCEPT !.engaged = b]
      PROVE  SumGrows
  <2>1. sum'.finishing = sum.finishing /\ sum'.mayExist = sum.mayExist /\ sum'.errors = sum.errors
    BY <1>1, <1>5, Zenon DEF Summaries
  <2> QED  BY <2>1 DEF SumGrows
<1>6. ASSUME NEW f, sum' = [sum EXCEPT !.finishing = @ \cup {f}]
      PROVE  SumGrows /\ f \in sum'.finishing
  <2>1. /\ sum'.finishing = sum.finishing \cup {f} /\ sum'.mayExist = sum.mayExist
        /\ sum'.errors = sum.errors
    BY <1>1, <1>6, Zenon DEF Summaries
  <2> QED  BY <2>1 DEF SumGrows
<1> QED  BY <1>2, <1>3, <1>4, <1>5, <1>6

LEMMA Grows ==
    ASSUME SumGrows, UNCHANGED <<kind, flow>>
    PROVE  /\ Shape => Shape'
           /\ \A f : (Quiet(f) => Quiet(f)') /\ (SeenTo(f) => SeenTo(f)')
           /\ Clean' => Clean
<1>1. Shape => Shape'  BY DEF Shape, ShapeOf
<1>2. ASSUME NEW f PROVE (Quiet(f) => Quiet(f)') /\ (SeenTo(f) => SeenTo(f)')
  BY DEF SumGrows, Quiet, SeenTo
<1>3. Clean' => Clean  BY DEF SumGrows, Clean
<1> QED  BY <1>1, <1>2, <1>3

(* The steps that do not touch /stop, the workflows or the summary. *)
LEMMA SameKeepsStop ==
    ASSUME StopInv, UNCHANGED <<kind, flow, stop, sum, known>>
    PROVE  StopInv'
<1>1. Shape'  BY DEF StopInv, Shape, ShapeOf
<1>2. Placed'  BY DEF StopInv, Placed
<1>3. Covered'  BY DEF StopInv, Covered, Clean, Covers, Open, Late, Quiet, SeenTo
<1> QED  BY <1>1, <1>2, <1>3 DEF StopInv

-----------------------------------------------------------------------------
(* The steps of /stop, one lemma each where there is something to show. *)

(* Up to the list nothing is known of any workflow. *)
LEMMA FlagKeepsStop ==
    ASSUME Inv, StopInv, Start \/ Engaged \/ NotEngaged \/ FlagChecked
    PROVE  StopInv'
<1>1. StopType /\ stop \in StopStates  BY InvFacts
<1>2. /\ stop.pc \in Before /\ UNCHANGED <<kind, flow, known>>
      /\ \E v \in {"flag", "flagcheck", "list"} : Goto(v)
  BY DEF Start, Engaged, NotEngaged, FlagChecked, At, Before, flows, summary
<1>3. PICK v \in {"flag", "flagcheck", "list"} : Goto(v)  BY <1>2
<1>4. v \in Pcs /\ v \in Before  BY DEF Pcs, Before
<1>5. Has(stop', v, stop.todo, stop.at, stop.stopping, stop.late)
  BY <1>1, <1>3, <1>4, SetPc DEF Goto
<1>6. known' = {} /\ stop'.stopping = {} /\ ~stop'.late /\ stop'.at = {}
  BY <1>2, <1>5 DEF StopInv, Placed, Before, Has
<1>7. stop'.pc = v  BY <1>5 DEF Has
<1>8. Placed'  BY <1>6, <1>7, <1>4 DEF Placed, Before, Sorting
<1>9. Shape'  BY <1>2 DEF StopInv, Shape, ShapeOf
<1>10. Covered'  BY <1>6 DEF Covered
<1> QED  BY <1>8, <1>9, <1>10 DEF StopInv

LEMMA ListKeepsStop ==
    ASSUME Inv, StopInv, List
    PROVE  StopInv'
<1>1. StopType /\ stop \in StopStates /\ flow \in [Flows -> FlowStates]  BY InvFacts
<1>2. stop.pc = "list" /\ UNCHANGED <<kind, flow>>  BY DEF List, At, flows
<1>3. known = {} /\ stop.stopping = {} /\ ~stop.late /\ stop.at = {}
  BY <1>2 DEF StopInv, Placed, Before
<1>4. Shape'  BY <1>2 DEF StopInv, Shape, ShapeOf
<1>5. CASE /\ stop' = [stop EXCEPT !.pc = "classify", !.todo = {f \in Flows : Active(f)}]
           /\ known' = {f \in Flows : flow[f].st # "idle"}
  <2> DEFINE todo == {f \in Flows : Active(f)}
  <2>1. todo \in SUBSET Flows /\ "classify" \in Pcs  BY DEF Pcs
  <2>2. stop' = [stop EXCEPT !.pc = "classify", !.todo = todo]  BY <1>5
  <2>3. /\ todo \subseteq known'
        /\ \A f \in known' : f \in todo \/ flow[f].st \in {"cancelled", "ended"}
    BY <1>1, <1>5, Zenon DEF Active, Running, FlowStates
  <2> HIDE DEF todo
  <2>4. Has(stop', "classify", todo, {}, {}, FALSE)
    <3>1. Has(stop', "classify", todo, stop.at, stop.stopping, stop.late)
      BY <1>1, <2>1, <2>2, SetPcTodo
    <3> QED  BY <1>3, <3>1 DEF Has
  <2>5. /\ stop'.pc = "classify" /\ stop'.todo = todo /\ stop'.at = {}
        /\ stop'.stopping = {} /\ ~stop'.late
    BY <2>4 DEF Has
  <2>6. \A f \in known' : flow[f].st # "idle"  BY <1>5
  <2>7. Placed'  BY <1>2, <2>3, <2>5, <2>6 DEF Placed, Before, Sorting
  <2>8. ASSUME NEW f \in known' PROVE Covers(f)'
    <3>1. Open(f)' \/ Quiet(f)'  BY <1>2, <2>3, <2>5 DEF Open, Quiet
    <3> QED  BY <2>5, <3>1 DEF Covers, Before, Sorting, Looking
  <2> QED  BY <1>4, <2>7, <2>8 DEF StopInv, Covered
<1>6. CASE Fails("workflows") /\ Goto("settle") /\ UNCHANGED known
  <2>1. ~Clean'  BY <1>1, <1>6, SumReads
  <2>2. Has(stop', "settle", stop.todo, stop.at, stop.stopping, stop.late)
    BY <1>1, <1>6, SetPc DEF Goto, Pcs
  <2>3. stop'.pc = "settle" /\ stop'.at = {} /\ known' = {}  BY <1>3, <1>6, <2>2 DEF Has
  <2>4. Placed'  BY <2>3 DEF Placed, Before, Sorting
  <2> QED  BY <1>4, <2>1, <2>4 DEF StopInv, Covered
<1> QED  BY <1>5, <1>6 DEF List

(* A workflow that is not cancelled need not be. *)
LEMMA ClassifyKeepsStop ==
    ASSUME Inv, StopInv, NEW f \in Flows, Classify(f)
    PROVE  StopInv'
<1> DEFINE left == stop.todo \ {f}
           step == [stop EXCEPT !.todo = left]
           cancel == [step EXCEPT !.pc = "cancel", !.at = {f}]
<1>1. /\ StopType /\ stop \in StopStates /\ kind[f] \in Kinds
      /\ left \in SUBSET Flows /\ {f} \in SUBSET Flows
  BY InvFacts
<1>2. stop.pc = "classify" /\ f \in stop.todo /\ UNCHANGED <<kind, flow, known>>
  BY DEF Classify, At, flows
<1>3. stop.at = {} /\ ~stop.late /\ stop.todo \subseteq known
  BY <1>2 DEF StopInv, Placed, Sorting
<1>4. \A g \in known : flow'[g].st # "idle"  BY <1>2 DEF StopInv, Placed
<1>5. \/ stop' = step /\ kind[f] = "exit" /\ UNCHANGED sum
      \/ /\ stop' = step /\ Settles(f)
         /\ sum' = [sum EXCEPT !.finishing = @ \cup {f}]
      \/ stop' = cancel /\ UNCHANGED sum
      \/ /\ stop' = cancel
         /\ sum' = [sum EXCEPT !.errors = @ \cup {"workflows"}, !.mayExist = @ \cup {f}]
  BY DEF Classify, left, step, cancel
<1>6. Has(step, stop.pc, left, stop.at, stop.stopping, stop.late)  BY <1>1, SetTodo
<1>7. cancel = [step EXCEPT !.pc = "cancel", !.at = {f}]  OBVIOUS
<1> HIDE DEF left, step, cancel
<1>8. step \in StopStates  BY <1>6 DEF Has
<1>9. Has(cancel, "cancel", step.todo, {f}, step.stopping, step.late)
  BY <1>1, <1>7, <1>8, SetPcAt DEF Pcs
<1>10. /\ step.pc = "classify" /\ step.todo = left /\ step.at = {} /\ ~step.late
       /\ cancel.pc = "cancel" /\ cancel.todo = left /\ cancel.at = {f} /\ ~cancel.late
  BY <1>2, <1>3, <1>6, <1>9 DEF Has
<1>11. left \subseteq known /\ \A g \in stop.todo : g # f => g \in left
  BY <1>3 DEF left
<1>12. /\ stop'.pc \in Sorting /\ stop'.todo = left /\ ~stop'.late
       /\ stop' = step => stop'.at = {} /\ stop'.pc = "classify"
       /\ stop' = cancel => stop'.at = {f} /\ stop'.pc = "cancel"
  BY <1>5, <1>10 DEF Sorting
<1>13. stop' = step \/ stop' = cancel  BY <1>5
<1>14. Placed'
  BY <1>2, <1>3, <1>4, <1>11, <1>12, <1>13 DEF Placed, Before, Sorting
<1>15. Shape'  BY <1>2 DEF StopInv, Shape, ShapeOf
<1>16. CASE /\ stop' = cancel
            /\ sum' = [sum EXCEPT !.errors = @ \cup {"workflows"}, !.mayExist = @ \cup {f}]
  <2>1. sum'.errors = sum.errors \cup {"workflows"}
    BY <1>1, <1>16, Zenon DEF StopType, Summaries
  <2>2. ~Clean'  BY <2>1 DEF Clean
  <2> QED  BY <1>14, <1>15, <2>2 DEF StopInv, Covered
<1>17. CASE ~ /\ stop' = cancel
              /\ sum' = [sum EXCEPT !.errors = @ \cup {"workflows"}, !.mayExist = @ \cup {f}]
  <2>1. SumGrows /\ (sum' = [sum EXCEPT !.finishing = @ \cup {f}] => f \in sum'.finishing)
    BY <1>1, <1>5, <1>17, SumReads
  <2>2. /\ \A g : Quiet(g) => Quiet(g)'
        /\ Clean' => Clean
    BY <1>2, <2>1, Grows
  <2>3. Open(f)' \/ Quiet(f)'
    <3>1. CASE stop' = cancel  BY <1>12, <3>1 DEF Open
    <3>2. CASE stop' = step /\ kind[f] = "exit"  BY <1>2, <3>2 DEF Quiet
    <3>3. CASE Settles(f) /\ sum' = [sum EXCEPT !.finishing = @ \cup {f}]
      <4>1. f \in sum'.finishing  BY <2>1, <3>3
      <4>2. CASE kind[f] = "hedge"  BY <1>2, <4>1, <4>2 DEF Quiet
      <4>3. CASE kind[f] = "exit"  BY <1>2, <4>3 DEF Quiet
      <4>4. CASE kind[f] = "plain"
        <5>1. flow[f] \in FlowStates  BY InvFacts
        <5>2. flow[f].place \in {"none", "started", "placed", "unknown", "refused"}
          BY <5>1, SMT DEF FlowStates
        <5>3. flow[f].place \in Done  BY <3>3, <4>4, <5>2 DEF Settles, Done
        <5> QED  BY <1>2, <4>4, <5>3 DEF Quiet
      <4> QED  BY <1>1, <4>2, <4>3, <4>4 DEF Kinds
    <3> QED  BY <1>5, <1>17, <3>1, <3>2, <3>3
  <2>4. ASSUME Clean', NEW g \in known PROVE Covers(g)'
    <3>1. Open(g) \/ Quiet(g)
      BY <1>2, <2>2, <2>4 DEF StopInv, Covered, Covers, Sorting
    <3>2. Open(g)' \/ Quiet(g)'
      <4>1. CASE g = f  BY <2>3, <4>1
      <4>2. CASE g # f /\ Open(g)  BY <1>3, <1>11, <1>12, <4>2 DEF Open
      <4>3. CASE Quiet(g)  BY <2>2, <4>3
      <4> QED  BY <3>1, <4>1, <4>2, <4>3
    <3> QED  BY <1>12, <3>2 DEF Covers, Before, Sorting, Looking
  <2> QED  BY <1>2, <1>14, <1>15, <2>4 DEF StopInv, Covered
<1> QED  BY <1>16, <1>17

(* Cancelled, a workflow waiting for its turn has ended, a running one obeys *)
(* at its next step, and any other has ended already.                      *)
LEMMA CancelKeepsStop ==
    ASSUME Inv, StopInv, NEW f \in Flows, Cancel(f)
    PROVE  StopInv'
<1> DEFINE next == [stop EXCEPT !.pc = "classify", !.at = {}]
           waits == [next EXCEPT !.stopping = @ \cup {f}]
           more == next.stopping \cup {f}
<1>1. /\ StopType /\ stop \in StopStates /\ kind[f] \in Kinds
      /\ flow \in [Flows -> FlowStates] /\ stop.stopping \subseteq Flows
      /\ {} \in SUBSET Flows /\ known \subseteq Flows
  BY InvFacts
<1>2. stop.pc = "cancel" /\ f \in stop.at /\ UNCHANGED <<kind, known>>
  BY DEF Cancel, At
<1>3. /\ ~stop.late /\ stop.todo \subseteq known /\ stop.at \subseteq known
      /\ stop.at = {f} /\ f \in known /\ flow[f].st # "idle"
  BY <1>2 DEF StopInv, Placed, Sorting
<1>4. ShapeOf(f)  BY DEF StopInv, Shape
<1>5. /\ stop' = next \/ stop' = waits
      /\ \/ /\ flow' = IF flow[f].st = "waiting" THEN [flow EXCEPT ![f].st = "cancelled"]
                        ELSE IF Running(f) THEN [flow EXCEPT ![f].asked = TRUE] ELSE flow
            /\ UNCHANGED sum
         \/ Fails("workflows") /\ UNCHANGED flow
  BY DEF Cancel, next, waits
<1>6. waits = [next EXCEPT !.stopping = more]  OBVIOUS
<1>7. Has(next, "classify", stop.todo, {}, stop.stopping, stop.late)
  BY <1>1, SetPcAt DEF Pcs
<1> HIDE DEF next, waits
<1>8. next \in StopStates /\ more \in SUBSET Flows  BY <1>1, <1>7 DEF Has
<1> HIDE DEF more
<1>9. Has(waits, next.pc, next.todo, next.at, more, next.late)
  BY <1>6, <1>8, SetStopping
<1>10. stop'.pc = "classify" /\ stop'.todo = stop.todo /\ stop'.at = {} /\ ~stop'.late
  BY <1>3, <1>5, <1>7, <1>9 DEF Has
<1>11. CASE Fails("workflows") /\ UNCHANGED flow
  <2>1. ~Clean'  BY <1>1, <1>11, SumReads
  <2>2. Shape'  BY <1>2, <1>11 DEF StopInv, Shape, ShapeOf
  <2>3. Placed'
    BY <1>2, <1>3, <1>10, <1>11 DEF StopInv, Placed, Before, Sorting
  <2> QED  BY <2>1, <2>2, <2>3 DEF StopInv, Covered
<1>12. CASE /\ flow' = IF flow[f].st = "waiting" THEN [flow EXCEPT ![f].st = "cancelled"]
                       ELSE IF Running(f) THEN [flow EXCEPT ![f].asked = TRUE] ELSE flow
            /\ UNCHANGED sum
  <2>1. /\ \A g \in Flows : g # f => flow'[g] = flow[g]
        /\ flow'[f].st # "idle" /\ ShapeOf(f)' /\ Quiet(f)'
    <3>1. CASE flow[f].st = "waiting"
      <4>1. flow' = [flow EXCEPT ![f].st = "cancelled"]  BY <1>12, <3>1
      <4>2. /\ flow'[f].st = "cancelled" /\ flow'[f].asked = flow[f].asked
            /\ flow'[f].place = flow[f].place /\ flow'[f].order = flow[f].order
            /\ \A g \in Flows : g # f => flow'[g] = flow[g]
        BY <1>1, <4>1, FlowSt
      <4> QED  BY <1>4, <3>1, <4>2 DEF ShapeOf, Quiet
    <3>2. CASE Running(f)
      <4>1. flow' = [flow EXCEPT ![f].asked = TRUE]  BY <1>12, <3>2 DEF Running
      <4>2. /\ flow'[f].st = flow[f].st /\ flow'[f].asked
            /\ flow'[f].place = flow[f].place /\ flow'[f].order = flow[f].order
            /\ \A g \in Flows : g # f => flow'[g] = flow[g]
        BY <1>1, <4>1, FlowAsked
      <4> QED  BY <1>3, <1>4, <4>2 DEF ShapeOf, Quiet
    <3>3. CASE flow[f].st # "waiting" /\ ~Running(f)
      <4>1. flow' = flow  BY <1>12, <3>3
      <4>2. flow[f].st \in {"cancelled", "ended"}
        <5>1. flow[f].st \in {"idle", "waiting", "check", "place", "sent", "settling", "ended",
                              "cancelled"}
          BY <1>1, SMT DEF FlowStates
        <5> QED  BY <1>3, <3>3, <5>1 DEF Running
      <4> QED  BY <1>2, <1>3, <1>4, <4>1, <4>2 DEF ShapeOf, Quiet
    <3> QED  BY <3>1, <3>2, <3>3
  <2>2. Shape'  BY <2>1 DEF StopInv, Shape, ShapeOf
  <2>3. Placed'
    BY <1>1, <1>2, <1>3, <1>10, <2>1 DEF StopInv, Placed, Before, Sorting
  <2>4. Clean' => Clean  BY <1>12 DEF Clean
  <2>5. ASSUME Clean', NEW g \in known PROVE Covers(g)'
    <3>1. g \in Flows /\ (Open(g) \/ Quiet(g))
      BY <1>1, <1>2, <2>4, <2>5 DEF StopInv, Covered, Covers, Sorting
    <3>2. Open(g)' \/ Quiet(g)'
      <4>1. CASE g = f  BY <2>1, <4>1
      <4>2. CASE g # f /\ Open(g)  BY <1>3, <1>10, <4>2 DEF Open
      <4>3. CASE g # f /\ Quiet(g)  BY <1>2, <1>12, <2>1, <3>1, <4>3 DEF Quiet
      <4> QED  BY <3>1, <4>1, <4>2, <4>3
    <3> QED  BY <1>10, <3>2 DEF Covers, Before, Sorting, Looking
  <2> QED  BY <1>2, <2>2, <2>3, <2>5 DEF StopInv, Covered
<1> QED  BY <1>5, <1>11, <1>12

(* A failed step that leaves the workflows alone is named. *)
LEMMA Failed ==
    ASSUME StopInv, ~Clean', Placed', UNCHANGED <<kind, flow>>
    PROVE  StopInv'
<1>1. Shape'  BY DEF StopInv, Shape, ShapeOf
<1> QED  BY <1>1 DEF StopInv, Covered

(* What is said of one workflow may rest on what was said of it before. *)
LEMMA Goes ==
    ASSUME StopInv, SumGrows, Placed', UNCHANGED <<kind, flow, known>>,
           ASSUME Clean, Clean', NEW g \in known, Covers(g),
                  Quiet(g) => Quiet(g)', SeenTo(g) => SeenTo(g)'
           PROVE  Covers(g)'
    PROVE  StopInv'
<1>1. /\ Shape'
      /\ \A g : (Quiet(g) => Quiet(g)') /\ (SeenTo(g) => SeenTo(g)')
      /\ Clean' => Clean
  BY Grows DEF StopInv
<1>2. ASSUME Clean', NEW g \in known PROVE Covers(g)'
  <2>1. Clean  BY <1>1, <1>2
  <2>2. Covers(g)  BY <2>1 DEF StopInv, Covered
  <2> QED  BY <1>1, <1>2, <2>1, <2>2
<1>3. Covered'  BY <1>2 DEF Covered
<1> QED  BY <1>1, <1>3 DEF StopInv

LEMMA SortedKeepsStop ==
    ASSUME Inv, StopInv, Classified \/ Panic
    PROVE  StopInv'
<1>1. StopType /\ stop \in StopStates  BY InvFacts
<1>2. stop.pc = "classify" /\ UNCHANGED <<kind, flow, known>>
  BY DEF Classified, Panic, At, flows, summary
<1>3. stop.at = {} /\ ~stop.late  BY <1>2 DEF StopInv, Placed, Sorting
<1>4. CASE Classified
  <2>1. stop.todo = {} /\ Goto("settle") /\ UNCHANGED sum
    BY <1>4 DEF Classified, summary
  <2>2. Has(stop', "settle", stop.todo, stop.at, stop.stopping, stop.late)
    BY <1>1, <2>1, SetPc DEF Goto, Pcs
  <2>3. stop'.pc = "settle" /\ stop'.at = {} /\ ~stop'.late  BY <1>3, <2>2 DEF Has
  <2>4. Placed'  BY <1>2, <2>3 DEF StopInv, Placed, Before, Sorting
  <2>5. SumGrows  BY <2>1 DEF SumGrows
  <2>6. ASSUME NEW g \in known, Covers(g), Quiet(g) => Quiet(g)' PROVE Covers(g)'
    <3>1. ~Open(g)  BY <1>3, <2>1 DEF Open
    <3>2. Quiet(g)'  BY <1>2, <2>6, <3>1 DEF Covers, Sorting
    <3> QED  BY <2>3, <3>2 DEF Covers, Before, Sorting, Looking
  <2> QED  BY <1>2, <2>4, <2>5, <2>6, Goes
<1>5. CASE Panic
  <2> DEFINE x == [stop EXCEPT !.pc = "settle", !.todo = {}]
  <2>1. stop' = [x EXCEPT !.stopping = {}] /\ Fails("workflows")  BY <1>5 DEF Panic
  <2>2. Has(x, "settle", {}, stop.at, stop.stopping, stop.late)
    BY <1>1, SetPcTodo DEF Pcs
  <2> HIDE DEF x
  <2>3. x \in StopStates  BY <2>2 DEF Has
  <2>4. Has(stop', x.pc, x.todo, x.at, {}, x.late)  BY <2>1, <2>3, SetStopping
  <2>5. stop'.pc = "settle" /\ stop'.at = {}  BY <1>3, <2>2, <2>4 DEF Has
  <2>6. Placed'  BY <1>2, <2>5 DEF StopInv, Placed, Before, Sorting
  <2>7. ~Clean'  BY <1>1, <2>1, SumReads
  <2> QED  BY <1>2, <2>6, <2>7, Failed
<1> QED  BY <1>4, <1>5

(* A workflow that has left its step is looked at in the second pass. *)
LEMMA SettleKeepsStop ==
    ASSUME Inv, StopInv, NEW f \in Flows, Settle(f)
    PROVE  StopInv'
<1> DEFINE left == stop.stopping \ {f}
           todo == IF stop.late THEN stop.todo \cup {f} ELSE stop.todo
           x == [stop EXCEPT !.stopping = left]
<1>1. /\ stop \in StopStates /\ left \in SUBSET Flows /\ todo \in SUBSET Flows
  BY InvFacts
<1>2. stop.pc \in {"settle", "wait"} /\ UNCHANGED <<kind, flow, sum, known>>
  BY DEF Settle, flows, summary
<1>3. stop.at = {} /\ (stop.pc = "wait" => stop.late)  BY <1>2 DEF StopInv, Placed
<1>4. Has(x, stop.pc, stop.todo, stop.at, left, stop.late)  BY <1>1, SetStopping
<1>5. x.todo = stop.todo /\ x.late = stop.late /\ x \in StopStates  BY <1>4 DEF Has
<1>6. stop' = [x EXCEPT !.todo = todo]  BY <1>5 DEF Settle
<1> HIDE DEF x
<1>7. todo = IF stop.late THEN stop.todo \cup {f} ELSE stop.todo  OBVIOUS
<1> HIDE DEF todo
<1>8. Has(stop', x.pc, todo, x.at, x.stopping, x.late)  BY <1>1, <1>5, <1>6, SetTodo
<1>9. /\ stop'.pc = stop.pc /\ stop'.todo = todo /\ stop'.at = {} /\ stop'.stopping = left
      /\ stop'.late = stop.late
  BY <1>3, <1>4, <1>8 DEF Has
<1>10. Placed'  BY <1>2, <1>3, <1>9 DEF StopInv, Placed, Before, Sorting
<1>11. SumGrows  BY <1>2 DEF SumGrows
<1>12. ASSUME NEW g \in known, Covers(g),
              Quiet(g) => Quiet(g)', SeenTo(g) => SeenTo(g)'
       PROVE  Covers(g)'
  <2>1. Quiet(g)'  BY <1>2, <1>12 DEF Covers, Before, Sorting
  <2>2. stop.late => Late(g)' \/ SeenTo(g)'
    <3>1. CASE stop.late /\ Late(g)
      <4>1. stop'.todo = stop.todo \cup {f}  BY <1>7, <1>9, <3>1, Zenon
      <4>2. stop'.stopping = stop.stopping \ {f}  BY <1>9
      <4> QED  BY <1>3, <4>1, <4>2, <3>1 DEF Late, Open
    <3>2. CASE stop.late /\ SeenTo(g)  BY <1>12, <3>2
    <3> QED  BY <1>12, <3>1, <3>2 DEF Covers
  <2> QED  BY <1>2, <1>9, <2>1, <2>2 DEF Covers, Before, Sorting, Looking
<1> QED  BY <1>2, <1>10, <1>11, <1>12, Goes

LEMMA SettledKeepsStop ==
    ASSUME Inv, StopInv, Settled
    PROVE  StopInv'
<1>1. stop \in StopStates  BY InvFacts
<1>2. /\ stop.pc \in {"settle", "wait"} /\ Goto("scan") /\ UNCHANGED <<kind, flow, sum, known>>
  BY DEF Settled, flows, summary
<1>3. Has(stop', "scan", stop.todo, stop.at, stop.stopping, stop.late)
  BY <1>1, <1>2, SetPc DEF Goto, Pcs
<1>4. /\ stop'.pc = "scan" /\ stop'.todo = stop.todo /\ stop'.at = stop.at
      /\ stop'.stopping = stop.stopping /\ stop'.late = stop.late
  BY <1>3 DEF Has
<1>5. Placed'  BY <1>2, <1>4 DEF StopInv, Placed, Before, Sorting
<1>6. SumGrows  BY <1>2 DEF SumGrows
<1>7. ASSUME NEW g \in known, Covers(g),
             Quiet(g) => Quiet(g)', SeenTo(g) => SeenTo(g)'
      PROVE  Covers(g)'
  <2>1. Quiet(g)'  BY <1>2, <1>7 DEF Covers, Before, Sorting
  <2>2. Late(g) => Late(g)'  BY <1>4 DEF Late, Open
  <2>3. stop.late => Late(g)' \/ SeenTo(g)'  BY <1>7, <2>2 DEF Covers
  <2> QED  BY <1>4, <2>1, <2>3 DEF Covers, Before, Sorting, Looking
<1> QED  BY <1>2, <1>5, <1>6, <1>7, Goes

(* Every known workflow is looked at, now or when it has left its step. *)
LEMMA ScanKeepsStop ==
    ASSUME Inv, StopInv, Scan
    PROVE  StopInv'
<1>1. /\ stop \in StopStates /\ StopType /\ known \subseteq Flows
  BY InvFacts
<1>2. stop.pc = "scan" /\ UNCHANGED <<kind, flow, known>>  BY DEF Scan, At, flows
<1>3. stop.at = {} /\ \A g \in known : flow[g].st # "idle"
  BY <1>2 DEF StopInv, Placed
<1>4. \/ /\ stop' = [stop EXCEPT !.pc = "examine",
                          !.todo = IF stop.late THEN @
                                   ELSE {f \in Flows : flow[f].st # "idle"} \ stop.stopping]
         /\ UNCHANGED sum
      \/ /\ Fails("orders")
         /\ stop' = [stop EXCEPT !.pc = "examine", !.todo = {}]
  BY DEF Scan
<1>5. CASE /\ stop' = [stop EXCEPT !.pc = "examine",
                          !.todo = IF stop.late THEN @
                                   ELSE {f \in Flows : flow[f].st # "idle"} \ stop.stopping]
           /\ UNCHANGED sum
  <2> DEFINE todo == IF stop.late THEN stop.todo
                     ELSE {f \in Flows : flow[f].st # "idle"} \ stop.stopping
             x == [stop EXCEPT !.pc = "examine"]
  <2>1. todo \in SUBSET Flows  BY InvFacts
  <2>2. Has(x, "examine", stop.todo, stop.at, stop.stopping, stop.late)
    BY <1>1, SetPc DEF Pcs
  <2>3. x \in StopStates /\ x.todo = stop.todo /\ x.late = stop.late  BY <2>2 DEF Has
  <2>4. stop' = [x EXCEPT !.todo = todo]
    <3>1. CASE stop.late  BY <2>3, <1>5, <3>1, Zenon
    <3>2. CASE ~stop.late  BY <1>5, <3>2, Zenon
    <3> QED  BY <3>1, <3>2
  <2> HIDE DEF x
  <2>5. \A g \in known : (stop.late /\ Late(g)) \/ ~stop.late => g \in todo \cup stop.stopping
    BY <1>1, <1>3 DEF Late, Open
  <2> HIDE DEF todo
  <2>6. Has(stop', x.pc, todo, x.at, x.stopping, x.late)  BY <2>1, <2>3, <2>4, SetTodo
  <2>7. /\ stop'.pc = "examine" /\ stop'.todo = todo /\ stop'.at = {}
        /\ stop'.stopping = stop.stopping /\ stop'.late = stop.late
    BY <1>3, <2>2, <2>6 DEF Has
  <2>8. Placed'  BY <1>2, <2>7 DEF StopInv, Placed, Before, Sorting
  <2>9. SumGrows  BY <1>5 DEF SumGrows
  <2>10. ASSUME NEW g \in known, Covers(g),
                Quiet(g) => Quiet(g)', SeenTo(g) => SeenTo(g)'
         PROVE  Covers(g)'
    <3>1. Quiet(g)'  BY <1>2, <2>10 DEF Covers, Before, Sorting
    <3>2. g \in todo \cup stop.stopping => Late(g)'  BY <2>7 DEF Late, Open
    <3>3. stop.late => Late(g) \/ SeenTo(g)'  BY <2>10 DEF Covers
    <3>4. Late(g)' \/ SeenTo(g)'  BY <2>5, <3>2, <3>3
    <3> QED  BY <2>7, <3>1, <3>4 DEF Covers, Before, Sorting, Looking
  <2> QED  BY <1>2, <2>8, <2>9, <2>10, Goes
<1>6. CASE Fails("orders") /\ stop' = [stop EXCEPT !.pc = "examine", !.todo = {}]
  <2>1. Has(stop', "examine", {}, stop.at, stop.stopping, stop.late)
    BY <1>1, <1>6, SetPcTodo DEF Pcs
  <2>2. stop'.pc = "examine" /\ stop'.at = {}  BY <1>3, <2>1 DEF Has
  <2>3. Placed'  BY <1>2, <2>2 DEF StopInv, Placed, Before, Sorting
  <2>4. ~Clean'  BY <1>1, <1>6, SumReads
  <2> QED  BY <1>2, <2>3, <2>4, Failed
<1> QED  BY <1>4, <1>5, <1>6

(* An order that FlowOrders does not describe is none, or cannot be sent. *)
LEMMA Undescribed ==
    ASSUME NEW f \in Flows, ShapeOf(f), Quiet(f), kind[f] \in Kinds, flow[f] \in FlowStates,
           ~Described(f) \/ kind[f] = "exit"
    PROVE  SeenTo(f)
<1>1. CASE kind[f] = "exit"  BY <1>1 DEF SeenTo
<1>2. CASE kind[f] = "hedge"
  <2>1. flow[f].place # "placed"  BY <1>2 DEF Described
  <2> QED  BY <1>2, <2>1 DEF Quiet, SeenTo
<1>3. CASE kind[f] = "plain"
  <2>1. flow[f].place \in {"none", "started", "placed", "unknown", "refused"}
    BY SMT DEF FlowStates
  <2>2. flow[f].place \in {"none", "refused"}  BY <1>3, <2>1 DEF Described
  <2>3. flow[f].order = "none"  BY <2>2 DEF ShapeOf
  <2>4. CASE flow[f].place = "refused"  BY <1>3, <2>3, <2>4 DEF SeenTo
  <2>5. CASE flow[f].place = "none"
    <3>1. flow[f].st # "ended"  BY <2>5 DEF ShapeOf, Done
    <3>2. flow[f].asked \/ flow[f].st = "cancelled"  BY <1>3, <2>5, <3>1 DEF Quiet, Done
    <3> QED  BY <1>3, <2>3, <2>5, <3>2 DEF SeenTo
  <2> QED  BY <2>2, <2>4, <2>5
<1> QED  BY <1>1, <1>2, <1>3 DEF Kinds

(* A step of a pass over the orders that leaves f behind once it is seen to. *)
LEMMA Passes ==
    ASSUME StopInv, NEW f \in Flows, Placed', SumGrows, UNCHANGED <<kind, flow, known>>,
           stop.pc \in Looking, stop'.pc \in Looking,
           stop'.late = stop.late, stop'.stopping = stop.stopping,
           stop.todo \cup stop.at \subseteq {f} \cup stop'.todo \cup stop'.at,
           Quiet(f)' => Open(f)' \/ SeenTo(f)'
    PROVE  StopInv'
<1>1. ASSUME NEW g \in known, Covers(g),
             Quiet(g) => Quiet(g)', SeenTo(g) => SeenTo(g)'
      PROVE  Covers(g)'
  <2>1. Quiet(g)'  BY <1>1 DEF Covers, Before, Sorting, Looking
  <2>2. Late(g) \/ SeenTo(g)  BY <1>1 DEF Covers
  <2>3. Late(g)' \/ SeenTo(g)'
    <3>1. CASE g = f /\ (Open(g)' \/ SeenTo(g)')  BY <3>1 DEF Late
    <3>2. CASE g # f /\ Late(g)  BY <3>2 DEF Late, Open
    <3> QED  BY <1>1, <2>1, <2>2, <3>1, <3>2
  <2> QED  BY <2>1, <2>3 DEF Covers, Before, Sorting, Looking
<1> QED  BY <1>1, Goes

LEMMA ExamineKeepsStop ==
    ASSUME CountAssumption, Inv, StopInv, NEW f \in Flows, Examine(f)
    PROVE  StopInv'
<1> DEFINE left == stop.todo \ {f}
           step == [stop EXCEPT !.todo = left]
           found == [step EXCEPT !.pc = "lookup", !.at = {f}]
           less == stop.budget - 1
           look == [step EXCEPT !.pc = "lookup", !.at = {f}, !.budget = @ - 1]
           ends == [step EXCEPT !.todo = {}]
<1>1. /\ stop \in StopStates /\ StopType /\ left \in SUBSET Flows
      /\ {f} \in SUBSET Flows /\ {} \in SUBSET Flows
      /\ kind[f] \in Kinds /\ flow[f] \in FlowStates
  BY InvFacts
<1>2. stop.pc = "examine" /\ f \in stop.todo /\ UNCHANGED <<kind, flow, known>>
  BY DEF Examine, At, flows
<1>3. stop.at = {} /\ \A g \in known : flow'[g].st # "idle"
  BY <1>2 DEF StopInv, Placed
<1>4. \/ stop' = step /\ (~Described(f) \/ kind[f] = "exit") /\ UNCHANGED sum
      \/ stop' = step /\ MayExist(f)
      \/ ~Spent /\ stop' = look /\ UNCHANGED sum
      \/ (stop' = step \/ stop' = ends) /\ Fails("orders")
  BY DEF Examine, left, step, look, ends
<1>5. Has(step, "examine", left, {}, stop.stopping, stop.late)
  BY <1>1, <1>2, <1>3, SetTodo DEF Has
<1>6. ~Spent => less \in 0..MaxOrders
  BY <1>1, SMT DEF Spent, StopStates, CountAssumption
<1>7. found.budget = stop.budget  BY <1>1, SMT DEF StopStates
<1>8. look = [found EXCEPT !.budget = less]  BY <1>7
<1>9. left = stop.todo \ {f}  OBVIOUS
<1> HIDE DEF left, less, look
<1>10. ends = [step EXCEPT !.todo = {}] /\ found = [step EXCEPT !.pc = "lookup", !.at = {f}]
  OBVIOUS
<1> HIDE DEF step, found, ends
<1>11. step \in StopStates  BY <1>5 DEF Has
<1>12. Has(ends, step.pc, {}, step.at, step.stopping, step.late)
  BY <1>1, <1>10, <1>11, SetTodo
<1>13. Has(found, "lookup", step.todo, {f}, step.stopping, step.late)
  BY <1>1, <1>10, <1>11, SetPcAt DEF Pcs
<1>14. found \in StopStates  BY <1>13 DEF Has
<1>15. ~Spent =>
         Has(look, found.pc, found.todo, found.at, found.stopping, found.late)
  BY <1>6, <1>8, <1>14, SetBudget
<1>16. CASE stop' = step
  <2>1. /\ stop'.pc = "examine" /\ stop'.todo = left /\ stop'.at = {}
        /\ stop'.stopping = stop.stopping /\ stop'.late = stop.late
    BY <1>5, <1>16 DEF Has
  <2>2. Placed'  BY <1>2, <1>3, <2>1 DEF StopInv, Placed, Before, Sorting
  <2>3. CASE Fails("orders")
    <3>1. ~Clean'  BY <1>1, <2>3, SumReads
    <3> QED  BY <1>2, <2>2, <3>1, Failed
  <2>4. CASE MayExist(f)
    <3>1. SumGrows /\ SeenTo(f)'  BY <1>1, <2>4, SumReads DEF SeenTo
    <3>2. stop.todo \cup stop.at \subseteq {f} \cup stop'.todo \cup stop'.at
      BY <1>3, <1>9, <2>1
    <3> QED  BY <1>2, <2>1, <2>2, <3>1, <3>2, Passes DEF Looking
  <2>5. CASE (~Described(f) \/ kind[f] = "exit") /\ UNCHANGED sum
    <3>1. SumGrows  BY <2>5 DEF SumGrows
    <3>2. ShapeOf(f)  BY DEF StopInv, Shape
    <3>3. Quiet(f) => SeenTo(f)  BY <1>1, <2>5, <3>2, Undescribed
    <3>4. Quiet(f)' => SeenTo(f)'  BY <1>2, <2>5, <3>3 DEF Quiet, SeenTo
    <3>5. stop.todo \cup stop.at \subseteq {f} \cup stop'.todo \cup stop'.at
      BY <1>3, <1>9, <2>1
    <3> QED  BY <1>2, <2>1, <2>2, <3>1, <3>4, <3>5, Passes DEF Looking
  <2>6. CASE ~Spent /\ stop' = look
    <3>1. look.pc = "lookup"  BY <1>13, <1>15, <2>6 DEF Has
    <3> QED  BY <2>1, <2>6, <3>1
  <2> QED  BY <1>4, <2>3, <2>4, <2>5, <2>6
<1>17. CASE ~Spent /\ stop' = look /\ UNCHANGED sum
  <2>1. /\ stop'.pc = "lookup" /\ stop'.todo = left /\ stop'.at = {f}
        /\ stop'.stopping = stop.stopping /\ stop'.late = stop.late
    BY <1>5, <1>13, <1>15, <1>17 DEF Has
  <2>2. Placed'  BY <1>2, <1>3, <2>1 DEF StopInv, Placed, Before, Sorting
  <2>3. SumGrows /\ Open(f)'  BY <1>17, <2>1 DEF SumGrows, Open
  <2>4. stop.todo \cup stop.at \subseteq {f} \cup stop'.todo \cup stop'.at
    BY <1>3, <1>9, <2>1
  <2> QED  BY <1>2, <2>1, <2>2, <2>3, <2>4, Passes DEF Looking
<1>18. CASE stop' = ends /\ Fails("orders")
  <2>1. stop'.pc = "examine" /\ stop'.at = {}  BY <1>5, <1>12, <1>18 DEF Has
  <2>2. Placed'  BY <1>2, <1>3, <2>1 DEF StopInv, Placed, Before, Sorting
  <2>3. ~Clean'  BY <1>1, <1>18, SumReads
  <2> QED  BY <1>2, <2>2, <2>3, Failed
<1> QED  BY <1>4, <1>16, <1>17, <1>18

LEMMA LookupKeepsStop ==
    ASSUME Inv, StopInv, NEW f \in Flows, Lookup(f)
    PROVE  StopInv'
<1>1. stop \in StopStates /\ StopType /\ {} \in SUBSET Flows  BY InvFacts
<1>2. stop.pc = "lookup" /\ f \in stop.at /\ UNCHANGED <<kind, flow, known>>
  BY DEF Lookup, At, flows
<1>3. stop.at = {f} /\ \A g \in known : flow'[g].st # "idle"
  BY <1>2 DEF StopInv, Placed
<1>4. CASE Goto("withdraw") /\ UNCHANGED sum
  <2>1. Has(stop', "withdraw", stop.todo, stop.at, stop.stopping, stop.late)
    BY <1>1, <1>4, SetPc DEF Goto, Pcs
  <2>2. /\ stop'.pc = "withdraw" /\ stop'.todo = stop.todo /\ stop'.at = {f}
        /\ stop'.stopping = stop.stopping /\ stop'.late = stop.late
    BY <1>3, <2>1 DEF Has
  <2>3. Placed'  BY <1>2, <1>3, <2>2 DEF StopInv, Placed, Before, Sorting
  <2>4. SumGrows /\ Open(f)'  BY <1>4, <2>2 DEF SumGrows, Open
  <2>5. stop.todo \cup stop.at \subseteq {f} \cup stop'.todo \cup stop'.at
    BY <1>3, <2>2
  <2> QED  BY <1>2, <2>2, <2>3, <2>4, <2>5, Passes DEF Looking
<1>5. CASE /\ stop' = [stop EXCEPT !.pc = "examine", !.at = {}]
           /\ MayExist(f) \/ (UNCHANGED sum /\ flow[f].order \in {"closed", "withdrawn"})
  <2>1. Has(stop', "examine", stop.todo, {}, stop.stopping, stop.late)
    BY <1>1, <1>5, SetPcAt DEF Pcs
  <2>2. /\ stop'.pc = "examine" /\ stop'.todo = stop.todo /\ stop'.at = {}
        /\ stop'.stopping = stop.stopping /\ stop'.late = stop.late
    BY <2>1 DEF Has
  <2>3. Placed'  BY <1>2, <1>3, <2>2 DEF StopInv, Placed, Before, Sorting
  <2>4. SumGrows /\ SeenTo(f)'
    <3>1. CASE MayExist(f)  BY <1>1, <3>1, SumReads DEF SeenTo
    <3>2. CASE UNCHANGED sum /\ flow[f].order \in {"closed", "withdrawn"}
      BY <1>2, <3>2 DEF SumGrows, SeenTo
    <3> QED  BY <1>5, <3>1, <3>2
  <2>5. stop.todo \cup stop.at \subseteq {f} \cup stop'.todo \cup stop'.at
    BY <1>3, <2>2
  <2> QED  BY <1>2, <2>2, <2>3, <2>4, <2>5, Passes DEF Looking
<1> QED  BY <1>4, <1>5 DEF Lookup

LEMMA WithdrawKeepsStop ==
    ASSUME Inv, StopInv, NEW f \in Flows, Withdraw(f)
    PROVE  StopInv'
<1>1. /\ stop \in StopStates /\ StopType /\ {} \in SUBSET Flows /\ known \subseteq Flows
      /\ flow \in [Flows -> FlowStates]
  BY InvFacts
<1>2. /\ stop.pc = "withdraw" /\ f \in stop.at /\ UNCHANGED <<kind, known>>
      /\ stop' = [stop EXCEPT !.pc = "examine", !.at = {}]
  BY DEF Withdraw, At
<1>3. stop.at = {f} /\ \A g \in known : flow[g].st # "idle"
  BY <1>2 DEF StopInv, Placed
<1>4. Has(stop', "examine", stop.todo, {}, stop.stopping, stop.late)
  BY <1>1, <1>2, SetPcAt DEF Pcs
<1>5. /\ stop'.pc = "examine" /\ stop'.todo = stop.todo /\ stop'.at = {}
      /\ stop'.stopping = stop.stopping /\ stop'.late = stop.late
  BY <1>4 DEF Has
<1>6. stop.todo \cup stop.at \subseteq {f} \cup stop'.todo \cup stop'.at
  BY <1>3, <1>5
<1>7. CASE MayExist(f) /\ UNCHANGED flow
  <2>1. Placed'  BY <1>2, <1>3, <1>5, <1>7 DEF StopInv, Placed, Before, Sorting
  <2>2. SumGrows /\ SeenTo(f)'  BY <1>1, <1>7, SumReads DEF SeenTo
  <2> QED  BY <1>2, <1>5, <1>6, <1>7, <2>1, <2>2, Passes DEF Looking
<1>8. CASE /\ flow[f].order = "open" /\ flow' = [flow EXCEPT ![f].order = "withdrawn"]
           /\ UNCHANGED sum
  <2>1. /\ flow'[f].st = flow[f].st /\ flow'[f].asked = flow[f].asked
        /\ flow'[f].place = flow[f].place /\ flow'[f].order = "withdrawn"
        /\ \A g \in Flows : g # f => flow'[g] = flow[g]
    BY <1>1, <1>8, FlowOrder
  <2>2. ShapeOf(f)  BY DEF StopInv, Shape
  <2>3. ShapeOf(f)'
    <3>1. flow[f].place \in {"started", "placed", "unknown"}
      BY <1>8, <2>2 DEF ShapeOf
    <3>2. flow[f].st \notin {"idle", "waiting", "check", "place"}
      BY <1>8, <2>2 DEF ShapeOf
    <3> QED  BY <2>1, <2>2, <3>1, <3>2 DEF ShapeOf
  <2>4. Shape'  BY <2>1, <2>3 DEF StopInv, Shape, ShapeOf
  <2>5. \A g \in known : flow'[g].st # "idle"  BY <1>1, <1>3, <2>1
  <2>6. Placed'  BY <1>2, <1>5, <2>5 DEF StopInv, Placed, Before, Sorting
  <2>7. ASSUME Clean', NEW g \in known PROVE Covers(g)'
    <3>1. Clean /\ Covers(g)  BY <1>8, <2>7 DEF StopInv, Covered, Clean
    <3>2. Quiet(g)  BY <1>2, <3>1 DEF Covers, Before, Sorting
    <3>3. Quiet(g)'
      <4>1. CASE g = f  BY <1>2, <1>8, <2>1, <3>2, <4>1 DEF Quiet
      <4>2. CASE g # f  BY <1>1, <1>2, <1>8, <2>1, <3>2, <4>2 DEF Quiet
      <4> QED  BY <4>1, <4>2
    <3>4. Late(g)' \/ SeenTo(g)'
      <4>1. CASE g = f  BY <2>1, <4>1 DEF SeenTo
      <4>2. CASE g # f /\ Late(g)  BY <1>3, <1>5, <4>2 DEF Late, Open
      <4>3. CASE g # f /\ SeenTo(g)  BY <1>1, <1>2, <1>8, <2>1, <4>3 DEF SeenTo
      <4> QED  BY <1>2, <3>1, <4>1, <4>2, <4>3 DEF Covers, Looking
    <3> QED  BY <1>5, <3>3, <3>4 DEF Covers, Before, Sorting, Looking
  <2> QED  BY <1>2, <2>4, <2>6, <2>7 DEF StopInv, Covered
<1> QED  BY <1>7, <1>8 DEF Withdraw

(* The sequence ends when nothing is left to look at. *)
LEMMA EndsKeepStop ==
    ASSUME Inv, StopInv, Examined \/ Finish \/ Detach
    PROVE  StopInv'
<1>1. stop \in StopStates /\ StopType  BY InvFacts
<1>2. UNCHANGED <<kind, flow, known>>
  BY DEF Examined, Finish, Detach, flows, summary
<1>3. CASE Examined
  <2>1. stop.pc = "examine" /\ stop.todo = {} /\ stop.at = {}
    BY <1>3 DEF Examined, At, StopInv, Placed
  <2>2. CASE stop' = [stop EXCEPT !.pc = "wait", !.late = TRUE] /\ UNCHANGED sum
    <3> DEFINE x == [stop EXCEPT !.pc = "wait"]
    <3>1. Has(x, "wait", stop.todo, stop.at, stop.stopping, stop.late)
      BY <1>1, SetPc DEF Pcs
    <3>2. stop' = [x EXCEPT !.late = TRUE]  BY <2>2
    <3> HIDE DEF x
    <3>3. x \in StopStates  BY <3>1 DEF Has
    <3>4. Has(stop', x.pc, x.todo, x.at, x.stopping, TRUE)  BY <3>2, <3>3, SetLate
    <3>5. /\ stop'.pc = "wait" /\ stop'.todo = stop.todo /\ stop'.at = {}
          /\ stop'.stopping = stop.stopping /\ stop'.late
      BY <2>1, <3>1, <3>4 DEF Has
    <3>6. Placed'  BY <1>2, <3>5 DEF StopInv, Placed, Before, Sorting
    <3>7. SumGrows  BY <2>2 DEF SumGrows
    <3>8. ASSUME NEW g \in known, Covers(g),
                 Quiet(g) => Quiet(g)', SeenTo(g) => SeenTo(g)'
          PROVE  Covers(g)'
      <4>1. Quiet(g)'  BY <2>1, <3>8 DEF Covers, Before, Sorting
      <4>2. Late(g) => Late(g)'  BY <2>1, <3>5 DEF Late, Open
      <4>3. Late(g)' \/ SeenTo(g)'  BY <2>1, <3>8, <4>2 DEF Covers, Looking
      <4> QED  BY <3>5, <4>1, <4>3 DEF Covers, Before, Sorting, Looking
    <3> QED  BY <1>2, <3>6, <3>7, <3>8, Goes
  <2>3. CASE /\ IF stop.stopping # {} THEN Fails("still") ELSE UNCHANGED sum
             /\ Goto("finish")
    <3>1. Has(stop', "finish", stop.todo, stop.at, stop.stopping, stop.late)
      BY <1>1, <2>3, SetPc DEF Goto, Pcs
    <3>2. /\ stop'.pc = "finish" /\ stop'.todo = stop.todo /\ stop'.at = {}
          /\ stop'.stopping = stop.stopping /\ stop'.late = stop.late
      BY <2>1, <3>1 DEF Has
    <3>3. Placed'  BY <1>2, <3>2 DEF StopInv, Placed, Before, Sorting
    <3>4. CASE stop.stopping # {}
      <4>1. ~Clean'  BY <1>1, <2>3, <3>4, SumReads
      <4> QED  BY <1>2, <3>3, <4>1, Failed
    <3>5. CASE stop.stopping = {}
      <4>1. SumGrows  BY <2>3, <3>5 DEF SumGrows
      <4>2. ASSUME NEW g \in known, Covers(g),
                   Quiet(g) => Quiet(g)', SeenTo(g) => SeenTo(g)'
            PROVE  Covers(g)'
        <5>1. ~Late(g)  BY <2>1, <3>5 DEF Late, Open
        <5>2. SeenTo(g)' /\ Quiet(g)'
          BY <2>1, <4>2, <5>1 DEF Covers, Before, Sorting, Looking
        <5> QED  BY <3>2, <5>2 DEF Covers, Before, Sorting, Looking
      <4> QED  BY <1>2, <3>3, <4>1, <4>2, Goes
    <3> QED  BY <3>4, <3>5
  <2> QED  BY <1>3, <2>2, <2>3 DEF Examined
<1>4. CASE Finish
  <2>1. stop.pc = "finish" /\ Goto("over") /\ UNCHANGED sum
    BY <1>4 DEF Finish, At, summary
  <2>2. Has(stop', "over", stop.todo, stop.at, stop.stopping, stop.late)
    BY <1>1, <2>1, SetPc DEF Goto, Pcs
  <2>3. /\ stop'.pc = "over" /\ stop'.todo = stop.todo /\ stop'.at = stop.at
        /\ stop'.stopping = stop.stopping /\ stop'.late = stop.late
    BY <2>2 DEF Has
  <2>4. Placed'  BY <1>2, <2>1, <2>3 DEF StopInv, Placed, Before, Sorting
  <2>5. SumGrows  BY <2>1 DEF SumGrows
  <2>6. ASSUME NEW g \in known, Covers(g),
               Quiet(g) => Quiet(g)', SeenTo(g) => SeenTo(g)'
        PROVE  Covers(g)'
    <3>1. SeenTo(g)' /\ Quiet(g)'  BY <2>1, <2>6 DEF Covers, Before, Sorting
    <3> QED  BY <2>3, <3>1 DEF Covers, Before, Sorting, Looking
  <2> QED  BY <1>2, <2>4, <2>5, <2>6, Goes
<1>5. CASE Detach
  <2>1. stop' = [stop EXCEPT !.detached = Detaches] /\ UNCHANGED sum
    BY <1>5 DEF Detach, summary
  <2>2. Detaches \in BOOLEAN  BY DEF Detaches, At
  <2>3. Has(stop', stop.pc, stop.todo, stop.at, stop.stopping, stop.late)
    BY <1>1, <2>1, <2>2, SetDetached
  <2>4. /\ stop'.pc = stop.pc /\ stop'.todo = stop.todo /\ stop'.at = stop.at
        /\ stop'.stopping = stop.stopping /\ stop'.late = stop.late
    BY <2>3 DEF Has
  <2>5. Placed'  BY <1>2, <2>4 DEF StopInv, Placed
  <2>6. SumGrows  BY <2>1 DEF SumGrows
  <2>7. ASSUME NEW g \in known, Covers(g),
               Quiet(g) => Quiet(g)', SeenTo(g) => SeenTo(g)'
        PROVE  Covers(g)'
    <3>1. (Open(g) => Open(g)') /\ (Late(g) => Late(g)')  BY <2>4 DEF Late, Open
    <3> QED  BY <2>4, <2>7, <3>1 DEF Covers
  <2> QED  BY <1>2, <2>5, <2>6, <2>7, Goes
<1> QED  BY <1>3, <1>4, <1>5

-----------------------------------------------------------------------------
(* The invariant and the theorem. *)

LEMMA InitStop ==
    ASSUME Init
    PROVE  StopInv
<1>1. \A f \in Flows : /\ flow[f].st = "idle" /\ flow[f].place = "none"
                       /\ flow[f].order = "none"
  BY DEF Init, NoFlow
<1>2. Shape  BY <1>1 DEF Shape, ShapeOf
<1>3. /\ stop.pc = "idle" /\ stop.at = {} /\ stop.stopping = {} /\ ~stop.late
      /\ known = {}
  BY DEF Init
<1>4. Placed  BY <1>3 DEF Placed, Before, Sorting
<1>5. Covered  BY <1>3 DEF Covered
<1> QED  BY <1>2, <1>4, <1>5 DEF StopInv

LEMMA NextStop ==
    ASSUME CountAssumption, Inv, StopInv, [Next]_vars
    PROVE  StopInv'
<1>1. CASE \E c \in Callers : Reading(c)
  <2>1. UNCHANGED <<kind, flow, stop, sum, known>>
    BY <1>1 DEF Reading, Write, ReadRow, ReadFails, Store, flows, summary
  <2> QED  BY <2>1, SameKeepsStop
<1>2. CASE \E f \in Flows : AskSwitch(f)
  <2>1. UNCHANGED <<kind, flow, stop, sum, known>>  BY <1>2 DEF AskSwitch, flows, summary
  <2> QED  BY <2>1, SameKeepsStop
<1>3. CASE \E f \in Flows : Works(f) /\ ~AskSwitch(f)
  BY <1>3, WorksKeepStop DEF Works
<1>4. CASE Start \/ Stops
  BY <1>4, FlagKeepsStop, ListKeepsStop, SortedKeepsStop, SettledKeepsStop, ScanKeepsStop,
     EndsKeepStop, ClassifyKeepsStop, CancelKeepsStop, SettleKeepsStop, ExamineKeepsStop,
     LookupKeepsStop, WithdrawKeepsStop
     DEF Stops
<1>5. CASE Detach  BY <1>5, EndsKeepStop
<1>6. CASE Resume \/ Busy \/ BusyAsks \/ OtherProcess \/ Advance \/ UNCHANGED vars
  <2>1. UNCHANGED <<kind, flow, stop, sum, known>>
    BY <1>6 DEF Resume, Busy, BusyAsks, OtherProcess, Advance, vars, flows, summary
  <2> QED  BY <2>1, SameKeepsStop
<1> QED  BY <1>1, <1>2, <1>3, <1>4, <1>5, <1>6 DEF Next

LEMMA StopImplies ==
    ASSUME Inv, StopInv
    PROVE  OrdersAccounted
<1> SUFFICES ASSUME At("over"), NEW f \in known, Looked(f), flow[f].order = "open"
             PROVE  Named(f)
  BY DEF OrdersAccounted
<1>1. CASE ~Clean  BY <1>1 DEF Clean, Named
<1>2. CASE Clean
  <2>1. SeenTo(f)  BY <1>2 DEF StopInv, Covered, Covers, At
  <2> QED  BY <2>1 DEF SeenTo, Looked, Named
<1> QED  BY <1>1, <1>2

(***************************************************************************)
(* For any workflows, however many lookups one /stop may make and whatever *)
(* fails or panics, no order that can still fill is passed over in silence *)
(* (cancelFlows, settle, scanOrders, handleOrder, FlowOrders).             *)
(***************************************************************************)
THEOREM NothingPassedOver == Spec => []OrdersAccounted
<1>1. Init => Inv /\ StopInv
  BY InitInv, InitStop, TimeAssumption, CountAssumption
<1>2. (Inv /\ StopInv) /\ [Next]_vars => (Inv /\ StopInv)'
  BY NextInv, NextStop, TimeAssumption, CountAssumption, FlowAssumption
<1>3. Inv /\ StopInv => OrdersAccounted  BY StopImplies
<1> QED  BY <1>1, <1>2, <1>3, PTL DEF Spec
=============================================================================
