------------------------- MODULE OrderPlacementProofs -------------------------
(***************************************************************************)
(* Proofs about module OrderPlacement: the exchange never holds two orders *)
(* of one idempotency key when either the adapter's reconcile never places *)
(* again, or every attempt begins late enough for the exchange to show     *)
(* what the attempt before it sent.  The argument is about the overtaken   *)
(* attempts: by the time attempt n looks, the requests of attempts 1..n-1  *)
(* have been shown or can no longer become orders, and no such attempt can *)
(* send another, its context having ended.  The last part needs neither:   *)
(* the types, and the retries that outlast the settle delay.               *)
(***************************************************************************)
EXTENDS OrderPlacement, TLAPS

Safe == Patient \/ ~PlacesAgain

\* The journal may be about to begin the next attempt.
Waiting == pc[last] \in {"retry", "interrupted", "dead"} \/ (pc[last] \in Running /\ last \in cut)

\* No attempt before the last one can send, and nothing of it is still undecided.
Overtaken ==
    \A n \in Attempts : n < last => /\ pc[n] \in Running => n \in cut
                                    /\ Patient => ~Pending(n)

Unbegun ==
    \A n \in Attempts :
       /\ n > last => pc[n] = "idle"
       /\ pc[n] \in {"idle", "begun", "half", "clear"} => order[n] = "none"

\* A request has until due to reach the exchange, an order to be shown; measured
\* from the moment the last attempt could send no more, they have the rest of it.
InTime ==
    /\ \A n \in Attempts : order[n] = "wire" => due[n] <= Flight
    /\ Waiting /\ order[last] = "wire" => idle + due[last] <= Flight
    /\ Waiting /\ Pending(last) => idle + due[last] <= Flight + Show

\* An attempt that may place, or did, had no order before it.
Clean ==
    \A n \in Attempts :
       pc[n] = "clear" \/ order[n] # "none" =>
          /\ \A m \in Attempts : m < n => ~AtLarge(m)
          /\ ~PlacesAgain => n = 1

\* Between the two listings: what is still open was seen in the first.
Listed ==
    \A n \in Attempts :
       /\ Tagged => \A o \in listed[n] : o \in Attempts /\ Accepted(o)
       /\ pc[n] = "half" /\ Tagged => \A m \in Attempts : m < n /\ order[m] = "open" /\ Patient => m \in listed[n]

IInv == TypeOK /\ Overtaken /\ Unbegun /\ InTime /\ Clean /\ Listed

------------------------------------------------------------------------------
(* How a run of the step ends, as far as the invariant is concerned. *)

Ends(n) ==
    /\ \E p \in {"over", "retry", "interrupted"} :
          /\ pc' = [pc EXCEPT ![n] = p]
          /\ p = "over" => idle' = idle
          /\ p # "over" => idle' = 0
    /\ failures' \in 0 .. Retries
    /\ outcome' \in [kind : {"open"} \cup Success \cup Failed, order : Orders]
    /\ UNCHANGED <<clock, cut, listed, last, exchangeVars>>

\* Whatever a failed run of the step leads to, it ends the run.
LEMMA FailEnds ==
    ASSUME TypeOK, NEW n \in Attempts, NEW kind \in Failed, Fail(n, kind)
    PROVE  Ends(n)
<1> USE CountAssumption DEF TypeOK
<1>1. [kind |-> kind, order |-> Foreign] \in [kind : {"open"} \cup Success \cup Failed, order : Orders]
  BY DEF Orders
<1>2. CASE Dropped(n)
  BY <1>2 DEF Fail, Dropped, Ends
<1>3. CASE Interrupt(n)
  BY <1>3 DEF Fail, Interrupt, Ends
<1>4. CASE Retry(n, kind)
  <2>1. failures + 1 \in 0 .. Retries
    BY <1>4 DEF Retry, CanRetry
  <2>2. QED
    BY <1>4, <2>1 DEF Fail, Retry, Ends
<1>5. CASE Record(n, kind, Foreign)
  BY <1>1, <1>5 DEF Fail, Record, Ends
<1>6. QED
  BY <1>2, <1>3, <1>4, <1>5 DEF Fail

\* A success ends it too.
LEMMA SucceedEnds ==
    ASSUME TypeOK, NEW n \in Attempts, NEW kind \in Success, NEW o \in Orders,
           Succeed(n, kind, o)
    PROVE  Ends(n)
<1> USE DEF TypeOK
<1>1. [kind |-> kind, order |-> o] \in [kind : {"open"} \cup Success \cup Failed, order : Orders]
  OBVIOUS
<1>2. CASE Dropped(n)
  BY <1>2 DEF Succeed, Dropped, Ends
<1>3. CASE Record(n, kind, o)
  BY <1>1, <1>3 DEF Succeed, Record, Ends
<1>4. QED
  BY <1>2, <1>3 DEF Succeed

LEMMA EndsKeeps ==
    ASSUME IInv, NEW n \in Attempts, pc[n] \in Running, Ends(n)
    PROVE  IInv'
<1> USE TimeAssumption, CountAssumption DEF IInv, exchangeVars
<1>1. PICK p \in {"over", "retry", "interrupted"} :
        /\ pc' = [pc EXCEPT ![n] = p]
        /\ p = "over" => idle' = idle
        /\ p # "over" => idle' = 0
  BY DEF Ends
<1>2. p \notin Running /\ p # "half" /\ p # "clear"
  BY DEF Running, CallErrors
<1>3. \A m \in Attempts : pc'[m] = IF m = n THEN p ELSE pc[m]
  BY <1>1 DEF TypeOK
<1>4. Horizon \in Nat
  BY DEF Horizon, Longer
<1>5. TypeOK'
  BY <1>1, <1>4 DEF TypeOK, Ends, Places
<1>6. Overtaken'
  BY <1>2, <1>3 DEF Overtaken, Ends, Pending, Accepted
<1>7. Unbegun'
  <2>1. n <= last
    BY DEF Unbegun, TypeOK, Attempts, Running, CallErrors
  <2>2. QED
    BY <1>3, <2>1 DEF Unbegun, Ends, TypeOK, Attempts
<1>8. InTime'
  <2>1. CASE n = last /\ p = "over"
    <3>1. ~Waiting'
      BY <1>2, <1>3, <2>1 DEF Waiting, Ends, TypeOK
    <3>2. QED
      BY <3>1 DEF InTime, Ends
  <2>2. CASE n = last /\ p # "over"
    BY <1>1, <2>2 DEF InTime, Ends, TypeOK, Pending, Accepted, Attempts
  <2>3. CASE n # last
    <3>1. Waiting' <=> Waiting
      BY <1>3, <2>3 DEF Waiting, Ends, TypeOK
    <3>2. CASE p = "over"
      BY <1>1, <3>1, <3>2 DEF InTime, Ends, Pending, Accepted
    <3>3. CASE p # "over"
      BY <1>1, <3>1, <3>3 DEF InTime, Ends, Pending, Accepted, TypeOK
    <3>4. QED
      BY <3>2, <3>3
  <2>4. QED
    BY <2>1, <2>2, <2>3
<1>9. Clean'
  BY <1>2, <1>3 DEF Clean, Ends, AtLarge
<1>10. Listed'
  BY <1>2, <1>3 DEF Listed, Ends, Accepted, Tagged
<1>11. QED
  BY <1>5, <1>6, <1>7, <1>8, <1>9, <1>10

------------------------------------------------------------------------------
(* An attempt may place only when no earlier one has an order. *)

\* What every attempt that has begun knows of the ones before it.
LEMMA EarlierAreDecided ==
    ASSUME IInv, NEW n \in Attempts, pc[n] \in Running, NEW m \in Attempts, m < n
    PROVE  Patient => ~Pending(m)
<1>1. n <= last
  BY CountAssumption DEF IInv, Unbegun, TypeOK, Attempts, Running, CallErrors
<1>2. m < last
  BY <1>1, CountAssumption DEF IInv, TypeOK, Attempts
<1>3. QED
  BY <1>2 DEF IInv, Overtaken

LEMMA MayPlaceKeeps ==
    ASSUME IInv, NEW n \in Attempts, pc[n] \in {"begun", "half"}, MayPlace(n),
           \A m \in Attempts : m < n => ~AtLarge(m), ~PlacesAgain => n = 1
    PROVE  IInv'
<1> USE TimeAssumption, CountAssumption DEF IInv, MayPlace, attemptVars, exchangeVars
<1>1. \A m \in Attempts : pc'[m] = IF m = n THEN "clear" ELSE pc[m]
  BY DEF TypeOK
<1>2. pc[n] \in Running /\ "clear" \in Running
  BY DEF Running
<1>3. Horizon \in Nat
  BY DEF Horizon, Longer
<1>4. TypeOK'
  BY <1>2, <1>3 DEF TypeOK, Places
<1>5. Overtaken'
  BY <1>1, <1>2 DEF Overtaken, Pending, Accepted
<1>6. Unbegun'
  <2>1. n <= last
    BY <1>2 DEF Unbegun, TypeOK, Attempts, Running, CallErrors
  <2>2. QED
    BY <1>1, <2>1 DEF Unbegun, TypeOK, Attempts
<1>7. InTime'
  <2>1. Waiting' <=> Waiting
    BY <1>1, <1>2 DEF Waiting, TypeOK
  <2>2. QED
    BY <2>1 DEF InTime, Pending, Accepted
<1>8. Clean'
  BY <1>1 DEF Clean, AtLarge
<1>9. Listed'
  BY <1>1 DEF Listed, Accepted, Tagged
<1>10. QED
  BY <1>4, <1>5, <1>6, <1>7, <1>8, <1>9

LEMMA FirstAttemptKeeps ==
    ASSUME IInv, NEW n \in Attempts, FirstAttempt(n)
    PROVE  IInv'
<1>1. \A m \in Attempts : ~(m < n)
  BY DEF FirstAttempt, Attempts
<1>2. QED
  BY <1>1, MayPlaceKeeps DEF FirstAttempt

LEMMA FetchByClientIDKeeps ==
    ASSUME Safe, IInv, NEW n \in Attempts, FetchByClientID(n)
    PROVE  IInv'
<1>1. pc[n] \in Running /\ TypeOK
  BY DEF FetchByClientID, Running, IInv
<1>2. ASSUME NEW kind \in Failed, Fail(n, kind)
      PROVE  IInv'
  BY <1>1, <1>2, FailEnds, EndsKeeps
<1>3. ASSUME NEW o \in Visible, Succeed(n, "found", o)
      PROVE  IInv'
  <2>1. o \in Orders /\ "found" \in Success
    BY <1>1 DEF Visible, TypeOK, Orders, Success
  <2>2. QED
    BY <1>1, <1>3, <2>1, SucceedEnds, EndsKeeps
<1>4. CASE Visible = {} /\ MayPlace(n)
  <2>1. Patient
    BY <1>1, VenueAssumption DEF Safe, PlacesAgain, FetchByClientID, TypeOK
  <2>2. ASSUME NEW m \in Attempts, m < n PROVE ~AtLarge(m)
    <3>1. ~Pending(m)
      BY <1>1, <2>1, <2>2, EarlierAreDecided
    <3>2. Accepted(m) => m \in Visible
      BY <3>1, <1>1 DEF Pending, Visible, TypeOK
    <3>3. QED
      BY <1>4, <3>1, <3>2 DEF AtLarge, Accepted, Pending
  <2>3. pc[n] \in {"begun", "half"} /\ (~PlacesAgain => n = 1)
    BY <1>1, VenueAssumption DEF FetchByClientID, PlacesAgain, TypeOK
  <2>4. QED
    BY <1>4, <2>2, <2>3, MayPlaceKeeps
<1>5. {"unavailable", "ambiguous", "unsettled"} \subseteq Failed
  BY DEF Failed
<1>6. QED
  BY <1>2, <1>3, <1>4, <1>5 DEF FetchByClientID

LEMMA FetchOpenOrdersKeeps ==
    ASSUME IInv, NEW n \in Attempts, FetchOpenOrders(n)
    PROVE  IInv'
<1> USE TimeAssumption, CountAssumption DEF IInv
<1>1. pc[n] \in Running /\ pc[n] = "begun"
  BY DEF FetchOpenOrders, Running
<1>2. CASE Fail(n, "unavailable")
  BY <1>1, <1>2, FailEnds, EndsKeeps DEF Failed
<1>3. ASSUME NEW other \in SUBSET (IF foreign /\ ~Tagged THEN {Foreign} ELSE {}),
             pc' = [pc EXCEPT ![n] = "half"],
             listed' = [listed EXCEPT ![n] = {o \in Visible : order[o] = "open"} \cup other],
             UNCHANGED <<clock, cut, idle, last, failures, outcome, exchangeVars>>
      PROVE  IInv'
  <2> USE DEF exchangeVars
  <2>1. \A m \in Attempts : pc'[m] = IF m = n THEN "half" ELSE pc[m]
    BY <1>3 DEF TypeOK
  <2>2. "half" \in Running
    BY DEF Running
  <2>3. Horizon \in Nat
    BY DEF Horizon, Longer
  <2>4. {o \in Visible : order[o] = "open"} \cup other \in SUBSET Orders
    BY DEF Visible, Orders, TypeOK
  <2>5. TypeOK'
    BY <1>3, <2>2, <2>3, <2>4 DEF TypeOK, Places
  <2>6. Overtaken'
    BY <1>1, <1>3, <2>1, <2>2 DEF Overtaken, Pending, Accepted
  <2>7. Unbegun'
    <3>1. n <= last
      BY <1>1 DEF Unbegun, TypeOK, Attempts
    <3>2. order[n] = "none"
      BY <1>1 DEF Unbegun
    <3>3. QED
      BY <1>3, <2>1, <3>1, <3>2 DEF Unbegun, TypeOK, Attempts
  <2>8. InTime'
    <3>1. Waiting' <=> Waiting
      BY <1>1, <1>3, <2>1, <2>2 DEF Waiting, TypeOK
    <3>2. QED
      BY <1>3, <3>1 DEF InTime, Pending, Accepted
  <2>9. Clean'
    BY <1>3, <2>1 DEF Clean, AtLarge
  <2>10. Listed'
    <3>1. ASSUME NEW m \in Attempts, Tagged, NEW o \in listed'[m]
          PROVE  o \in Attempts /\ Accepted(o)
      <4>1. CASE m = n
        BY <1>3, <3>1, <4>1 DEF TypeOK, Visible, Accepted
      <4>2. CASE m # n
        BY <1>3, <3>1, <4>2 DEF TypeOK, Listed, Tagged
      <4>3. QED
        BY <4>1, <4>2
    <3>2. ASSUME NEW i \in Attempts, pc'[i] = "half", Tagged, NEW m \in Attempts, m < i,
                 order[m] = "open", Patient
          PROVE  m \in listed'[i]
      <4>1. CASE i = n
        <5>1. ~Pending(m)
          BY <1>1, <3>2, <4>1, EarlierAreDecided
        <5>2. m \in Visible
          BY <3>2, <5>1 DEF Pending, Accepted, Visible, TypeOK
        <5>3. QED
          BY <1>3, <3>2, <4>1, <5>2 DEF TypeOK
      <4>2. CASE i # n
        BY <1>3, <2>1, <3>2, <4>2 DEF TypeOK, Listed, Tagged
      <4>3. QED
        BY <4>1, <4>2
    <3>3. QED
      BY <1>3, <3>1, <3>2 DEF Listed, Accepted, Tagged
  <2>11. QED
    BY <2>5, <2>6, <2>7, <2>8, <2>9, <2>10
<1>4. QED
  BY <1>2, <1>3 DEF FetchOpenOrders

LEMMA FetchClosedOrdersKeeps ==
    ASSUME Safe, IInv, NEW n \in Attempts, FetchClosedOrders(n)
    PROVE  IInv'
<1>1. pc[n] \in Running /\ pc[n] = "half" /\ TypeOK
  BY DEF FetchClosedOrders, Running, IInv
<1>2. ASSUME NEW kind \in Failed, Fail(n, kind)
      PROVE  IInv'
  BY <1>1, <1>2, FailEnds, EndsKeeps
<1>3. ASSUME NEW rows \in SUBSET (Matches(n) \cup {Foreign}), NEW truncated \in BOOLEAN,
             Decide(n, rows, truncated), ~truncated => rows = Matches(n) \/ ~Tagged
      PROVE  IInv'
  <2>1. ASSUME NEW o \in rows, Succeed(n, "found", o)
        PROVE  IInv'
    <3>1. o \in Orders /\ "found" \in Success
      BY <1>1, <2>1 DEF Matches, ClosedOrders, Visible, TypeOK, Orders, Success
    <3>2. QED
      BY <1>1, <2>1, <3>1, SucceedEnds, EndsKeeps
  <2>2. CASE rows = {} /\ venue.market = "spot" /\ Tagged /\ ~truncated /\ MayPlace(n)
    <3>1. venue \in Venues /\ venue.adapter \in {"listing", "by-id"}
      BY <1>1, <2>2, VenueAssumption DEF TypeOK, Tagged
    <3>2. PlacesAgain /\ Patient
      BY <1>1, <2>2, <3>1 DEF PlacesAgain, Safe, TypeOK
    <3>3. listed[n] = {} /\ ClosedOrders = {}
      BY <1>3, <2>2 DEF Matches
    <3>4. ASSUME NEW m \in Attempts, m < n
          PROVE  ~AtLarge(m)
      <4>1. ~Pending(m)
        BY <1>1, <3>2, <3>4, EarlierAreDecided
      <4>2. order[m] # "open"
        BY <1>1, <2>2, <3>2, <3>3, <3>4 DEF IInv, Listed, Tagged
      <4>3. order[m] # "filled"
        BY <1>1, <3>3, <4>1 DEF Pending, Accepted, ClosedOrders, Visible, TypeOK
      <4>4. QED
        BY <4>1, <4>2, <4>3 DEF Pending, AtLarge
    <3>5. QED
      BY <1>1, <2>2, <3>2, <3>4, MayPlaceKeeps
  <2>3. {"unavailable", "ambiguous", "unproven", "unsettled"} \subseteq Failed
    BY DEF Failed
  <2>4. QED
    BY <1>2, <1>3, <2>1, <2>2, <2>3 DEF Decide
<1>4. "unavailable" \in Failed
  BY DEF Failed
<1>5. CASE Tagged /\ Decide(n, Matches(n), FALSE)
  BY <1>3, <1>5
<1>6. ASSUME NEW rows \in SUBSET Matches(n), Decide(n, rows, TRUE)
      PROVE  IInv'
  BY <1>3, <1>6
<1>7. ASSUME ~Tagged, NEW rows \in ShapeMatches(n), Decide(n, rows, FALSE)
      PROVE  IInv'
  <2>1. rows \in SUBSET (Matches(n) \cup {Foreign})
    BY DEF ShapeMatches
  <2>2. QED
    BY <1>3, <1>7, <2>1
<1>8. QED
  BY <1>2, <1>4, <1>5, <1>6, <1>7 DEF FetchClosedOrders

LEMMA ResultsKeep ==
    ASSUME IInv, NEW n \in Attempts, NotSent(n) \/ Placed(n) \/ AfterPlaceError(n)
    PROVE  IInv'
<1>1. pc[n] \in Running /\ TypeOK
  BY DEF NotSent, Placed, AfterPlaceError, Running, IInv
<1>2. ASSUME NEW kind \in Failed, Fail(n, kind)
      PROVE  IInv'
  BY <1>1, <1>2, FailEnds, EndsKeeps
<1>3. ASSUME NEW kind \in Success, NEW o \in Orders, Succeed(n, kind, o)
      PROVE  IInv'
  BY <1>1, <1>3, SucceedEnds, EndsKeeps
<1>4. /\ {"not sent", "unknown", "ambiguous", "rejected"} \subseteq Failed
      /\ Visible \subseteq Orders /\ n \in Orders /\ {"found", "placed"} \subseteq Success
  BY <1>1 DEF Failed, Visible, TypeOK, Orders, Success
<1>5. QED
  BY <1>2, <1>3, <1>4 DEF NotSent, Placed, AfterPlaceError

LEMMA CallFailsKeeps ==
    ASSUME IInv, NEW n \in Attempts, CallFails(n)
    PROVE  IInv'
<1> USE TimeAssumption, CountAssumption DEF IInv, attemptVars, exchangeVars
<1>1. PICK e \in CallErrors : pc' = [pc EXCEPT ![n] = e]
  BY DEF CallFails
<1>2. /\ pc[n] \in Running /\ e \in Running /\ e \notin {"idle", "begun", "clear", "half"}
      /\ e \notin {"retry", "interrupted", "dead"}
      /\ pc[n] # "idle" /\ pc[n] \notin {"retry", "interrupted", "dead"}
  BY DEF CallFails, Running, CallErrors
<1>3. \A m \in Attempts : pc'[m] = IF m = n THEN e ELSE pc[m]
  BY <1>1 DEF TypeOK
<1>4. UNCHANGED <<clock, cut, idle, listed, last, failures, outcome, order, due, shown, foreign, venue>>
  BY DEF CallFails
<1>5. Horizon \in Nat
  BY DEF Horizon, Longer
<1>6. TypeOK'
  BY <1>1, <1>2, <1>4, <1>5 DEF TypeOK, Places
<1>7. Overtaken'
  BY <1>2, <1>3, <1>4 DEF Overtaken, Pending, Accepted
<1>8. Unbegun'
  <2>1. n <= last
    BY <1>2 DEF Unbegun, TypeOK, Attempts
  <2>2. ASSUME NEW m \in Attempts
        PROVE  /\ m > last => pc'[m] = "idle"
               /\ pc'[m] \in {"idle", "begun", "half", "clear"} => order[m] = "none"
    <3>1. CASE m = n
      BY <1>2, <1>3, <2>1, <3>1 DEF TypeOK, Attempts
    <3>2. CASE m # n
      BY <1>3, <3>2 DEF Unbegun
    <3>3. QED
      BY <3>1, <3>2
  <2>3. QED
    BY <1>4, <2>2 DEF Unbegun
<1>9. InTime'
  <2>1. Waiting' <=> Waiting
    BY <1>2, <1>3, <1>4 DEF Waiting, TypeOK
  <2>2. QED
    BY <1>4, <2>1 DEF InTime, Pending, Accepted
<1>10. Clean'
  BY <1>2, <1>3, <1>4 DEF Clean, AtLarge
<1>11. Listed'
  BY <1>2, <1>3, <1>4 DEF Listed, Accepted, Tagged
<1>12. QED
  BY <1>6, <1>7, <1>8, <1>9, <1>10, <1>11

LEMMA SendKeeps ==
    ASSUME IInv, NEW n \in Attempts, Send(n)
    PROVE  IInv'
<1> USE TimeAssumption, CountAssumption DEF IInv, attemptVars
<1>1. /\ UNCHANGED <<clock, cut, idle, listed, last, failures, outcome, shown, foreign, venue>>
      /\ pc[n] = "clear" /\ n \notin cut
      /\ pc' = [pc EXCEPT ![n] = "sent"]
      /\ order' = [order EXCEPT ![n] = "wire"]
      /\ due' = [due EXCEPT ![n] = Flight]
  BY DEF Send
<1>2. \A m \in Attempts : /\ pc'[m] = IF m = n THEN "sent" ELSE pc[m]
                          /\ order'[m] = IF m = n THEN "wire" ELSE order[m]
                          /\ due'[m] = IF m = n THEN Flight ELSE due[m]
  BY <1>1 DEF TypeOK
<1>3. n = last
  BY <1>1 DEF Overtaken, Unbegun, Running, TypeOK, Attempts
<1>4. "sent" \in Running
  BY DEF Running
<1>5. Horizon \in Nat
  BY DEF Horizon, Longer
<1>6. TypeOK'
  BY <1>1, <1>4, <1>5 DEF TypeOK, Places
<1>7. Overtaken'
  BY <1>1, <1>2, <1>3 DEF Overtaken, Pending, Accepted, TypeOK, Attempts
<1>8. Unbegun'
  BY <1>1, <1>2, <1>3 DEF Unbegun, TypeOK, Attempts
<1>9. InTime'
  <2>1. ~Waiting'
    BY <1>1, <1>2, <1>3 DEF Waiting, TypeOK
  <2>2. QED
    BY <1>1, <1>2, <2>1 DEF InTime, Attempts
<1>10. Clean'
  <2>1. ASSUME NEW i \in Attempts, pc'[i] = "clear" \/ order'[i] # "none", NEW m \in Attempts, m < i
        PROVE  ~AtLarge(m)'
    <3>1. i <= n
      BY <1>2, <1>3, <2>1 DEF Unbegun, TypeOK, Attempts
    <3>2. m # n /\ (pc[i] = "clear" \/ order[i] # "none")
      BY <1>1, <1>2, <2>1, <3>1 DEF Attempts
    <3>3. QED
      BY <1>2, <2>1, <3>2 DEF Clean, AtLarge
  <2>2. QED
    BY <1>1, <1>2, <2>1 DEF Clean
<1>11. Listed'
  <2>1. ~Accepted(n)
    BY <1>1 DEF Accepted, Unbegun
  <2>2. \A o \in Attempts : Accepted(o) => o # n
    BY <2>1
  <2>3. \A o \in Attempts : Accepted(o) => Accepted(o)'
    BY <1>2, <2>2 DEF Accepted
  <2>4. \A m \in Attempts : order'[m] = "open" => order[m] = "open"
    BY <1>2
  <2>5. QED
    BY <1>1, <1>2, <2>3, <2>4 DEF Listed, Tagged
<1>12. QED
  BY <1>6, <1>7, <1>8, <1>9, <1>10, <1>11

------------------------------------------------------------------------------
(* The exchange and the passing of time. *)

LEMMA ArriveKeeps ==
    ASSUME IInv, NEW n \in Attempts, Arrive(n)
    PROVE  IInv'
<1> USE TimeAssumption, CountAssumption DEF IInv, attemptVars
<1>1. PICK fate \in {"open", "refused", "lost"} :
        /\ order' = [order EXCEPT ![n] = fate]
        /\ due' = [due EXCEPT ![n] = IF fate = "open" THEN due[n] + Show ELSE 0]
  BY DEF Arrive
<1>2. /\ UNCHANGED <<clock, pc, cut, idle, listed, last, failures, outcome, shown, foreign, venue>>
      /\ order[n] = "wire"
  BY DEF Arrive
<1>3. \A m \in Attempts :
        /\ order'[m] = IF m = n THEN fate ELSE order[m]
        /\ due'[m] = IF m = n THEN IF fate = "open" THEN due[n] + Show ELSE 0 ELSE due[m]
  BY <1>1 DEF TypeOK
<1>4. Horizon \in Nat
  BY DEF Horizon, Longer
<1>5. due[n] \in Nat /\ due[n] <= Flight
  BY <1>2 DEF TypeOK, InTime
<1>6. TypeOK'
  BY <1>1, <1>2, <1>4, <1>5 DEF TypeOK
<1>7. Overtaken'
  BY <1>2, <1>3 DEF Overtaken, Pending, Accepted
<1>8. Unbegun'
  BY <1>2, <1>3 DEF Unbegun
<1>9. InTime'
  <2>1. Waiting' <=> Waiting
    BY <1>2 DEF Waiting
  <2>2. \A m \in Attempts : order'[m] = "wire" => m # n /\ order[m] = "wire" /\ due'[m] = due[m]
    BY <1>3
  <2>3. last \in Attempts /\ idle \in Nat
    BY <1>4 DEF TypeOK
  <2>4. ASSUME Waiting, Pending(last)'
        PROVE  idle + due'[last] <= Flight + Show
    <3>1. CASE last = n
      BY <1>2, <1>3, <1>5, <2>3, <2>4, <3>1 DEF InTime, Pending, Accepted
    <3>2. CASE last # n
      BY <1>2, <1>3, <2>3, <2>4, <3>2 DEF InTime, Pending, Accepted
    <3>3. QED
      BY <3>1, <3>2
  <2>5. QED
    BY <1>2, <2>1, <2>2, <2>3, <2>4 DEF InTime
<1>10. Clean'
  <2>1. ASSUME NEW i \in Attempts, pc[i] = "clear" \/ order'[i] # "none", NEW m \in Attempts, m < i
        PROVE  ~AtLarge(m)'
    <3>1. pc[i] = "clear" \/ order[i] # "none"
      BY <1>2, <1>3, <2>1
    <3>2. ~AtLarge(m)
      BY <2>1, <3>1 DEF Clean
    <3>3. QED
      BY <1>2, <1>3, <3>2 DEF AtLarge
  <2>2. \A i \in Attempts : order'[i] # "none" => order[i] # "none"
    BY <1>2, <1>3
  <2>3. QED
    BY <1>2, <2>1, <2>2 DEF Clean
<1>11. Listed'
  <2>1. \A o \in Attempts : Accepted(o) => Accepted(o)'
    BY <1>2, <1>3 DEF Accepted
  <2>2. ASSUME NEW i \in Attempts, pc[i] = "half", Patient, NEW m \in Attempts, m < i
        PROVE  m # n
    <3>1. ~Pending(m)
      BY <2>2, EarlierAreDecided DEF Running
    <3>2. QED
      BY <1>2, <3>1 DEF Pending
  <2>3. ASSUME NEW i \in Attempts, pc[i] = "half", Tagged, Patient,
               NEW m \in Attempts, m < i, order'[m] = "open"
        PROVE  m \in listed[i]
    BY <1>3, <2>2, <2>3 DEF Listed, Tagged
  <2>4. QED
    BY <1>2, <2>1, <2>3 DEF Listed, Tagged
<1>12. QED
  BY <1>6, <1>7, <1>8, <1>9, <1>10, <1>11

LEMMA AppearKeeps ==
    ASSUME IInv, NEW n \in Attempts, Appear(n)
    PROVE  IInv'
<1> USE TimeAssumption, CountAssumption DEF IInv, attemptVars
<1>1. /\ UNCHANGED <<clock, pc, cut, idle, listed, last, failures, outcome, order, foreign, venue>>
      /\ shown' = shown \cup {n} /\ due' = [due EXCEPT ![n] = 0]
      /\ Accepted(n)
  BY DEF Appear
<1>2. \A m \in Attempts : due'[m] = IF m = n THEN 0 ELSE due[m]
  BY <1>1 DEF TypeOK
<1>3. Horizon \in Nat
  BY DEF Horizon, Longer
<1>4. TypeOK'
  BY <1>1, <1>3 DEF TypeOK
<1>5. Overtaken'
  BY <1>1 DEF Overtaken, Pending, Accepted
<1>6. Unbegun'
  BY <1>1 DEF Unbegun
<1>7. InTime'
  <2>1. Waiting' <=> Waiting
    BY <1>1 DEF Waiting
  <2>2. \A m \in Attempts : Pending(m)' => m # n /\ Pending(m) /\ due'[m] = due[m]
    BY <1>1, <1>2 DEF Pending, Accepted
  <2>3. last \in Attempts
    BY DEF TypeOK
  <2>4. QED
    BY <1>1, <2>1, <2>2, <2>3 DEF InTime, Pending
<1>8. Clean'
  BY <1>1 DEF Clean, AtLarge
<1>9. Listed'
  BY <1>1 DEF Listed, Accepted, Tagged
<1>10. QED
  BY <1>4, <1>5, <1>6, <1>7, <1>8, <1>9

LEMMA FillKeeps ==
    ASSUME IInv, NEW n \in Attempts, Fill(n)
    PROVE  IInv'
<1> USE TimeAssumption, CountAssumption DEF IInv, attemptVars
<1>1. /\ UNCHANGED <<clock, pc, cut, idle, listed, last, failures, outcome, due, shown, foreign, venue>>
      /\ order[n] = "open" /\ order' = [order EXCEPT ![n] = "filled"]
  BY DEF Fill
<1>2. \A m \in Attempts : order'[m] = IF m = n THEN "filled" ELSE order[m]
  BY <1>1 DEF TypeOK
<1>3. Horizon \in Nat
  BY DEF Horizon, Longer
<1>4. TypeOK'
  BY <1>1, <1>3 DEF TypeOK
<1>5. \A m \in Attempts : /\ Pending(m)' <=> Pending(m)
                          /\ AtLarge(m)' <=> AtLarge(m)
                          /\ Accepted(m)' <=> Accepted(m)
                          /\ order'[m] = "none" <=> order[m] = "none"
                          /\ order'[m] = "wire" <=> order[m] = "wire"
                          /\ order'[m] = "open" => order[m] = "open"
  BY <1>1, <1>2 DEF Pending, AtLarge, Accepted
<1>6. Overtaken'
  BY <1>1, <1>5 DEF Overtaken
<1>7. Unbegun'
  BY <1>1, <1>5 DEF Unbegun
<1>8. InTime'
  <2>1. Waiting' <=> Waiting
    BY <1>1 DEF Waiting
  <2>2. last \in Attempts
    BY DEF TypeOK
  <2>3. QED
    BY <1>1, <1>5, <2>1, <2>2 DEF InTime
<1>9. Clean'
  BY <1>1, <1>5 DEF Clean
<1>10. Listed'
  BY <1>1, <1>5 DEF Listed, Tagged
<1>11. QED
  BY <1>4, <1>6, <1>7, <1>8, <1>9, <1>10

LEMMA TickKeeps ==
    ASSUME IInv, Tick
    PROVE  IInv'
<1> USE TimeAssumption, CountAssumption DEF IInv
<1>1. /\ UNCHANGED <<pc, cut, listed, last, failures, outcome, order, shown, foreign, venue>>
      /\ \A n \in Attempts : Pending(n) => due[n] > 0
      /\ clock' = IF clock < Settle THEN clock + 1 ELSE clock
      /\ idle' = IF idle < Horizon THEN idle + 1 ELSE idle
      /\ due' = [n \in Attempts |-> IF Pending(n) THEN due[n] - 1 ELSE due[n]]
  BY DEF Tick
<1>2. \A n \in Attempts : due'[n] = IF Pending(n) THEN due[n] - 1 ELSE due[n]
  BY <1>1
<1>3. Horizon \in Nat
  BY DEF Horizon, Longer
<1>4. TypeOK'
  <2>1. clock' \in 0 .. Settle
    BY <1>1 DEF TypeOK
  <2>2. idle' \in 0 .. Horizon
    BY <1>1, <1>3 DEF TypeOK
  <2>3. \A n \in Attempts : due'[n] \in 0 .. (Flight + Show)
    BY <1>1, <1>2 DEF TypeOK
  <2>4. due' \in [Attempts -> 0 .. (Flight + Show)]
    BY <1>1, <2>3
  <2>5. QED
    BY <1>1, <2>1, <2>2, <2>4 DEF TypeOK
<1>5. Overtaken'
  BY <1>1 DEF Overtaken, Pending, Accepted
<1>6. Unbegun'
  BY <1>1 DEF Unbegun
<1>7. InTime'
  <2>1. Waiting' <=> Waiting
    BY <1>1 DEF Waiting
  <2>2. \A n \in Attempts : Pending(n)' <=> Pending(n)
    BY <1>1 DEF Pending, Accepted
  <2>3. last \in Attempts /\ idle \in Nat /\ due \in [Attempts -> Int]
    BY <1>3 DEF TypeOK
  <2>4. \A n \in Attempts : order[n] = "wire" => Pending(n)
    BY DEF Pending
  <2>5. idle' \in Nat /\ idle' <= idle + 1
    BY <1>1, <1>3, <2>3
  <2>6. ASSUME Waiting, Pending(last)
        PROVE  idle' + due'[last] <= idle + due[last]
    <3>1. due'[last] = due[last] - 1 /\ due[last] \in Int
      BY <1>2, <2>3, <2>6
    <3>2. QED
      BY <2>3, <2>5, <3>1
  <2>7. due'[last] \in Int /\ due[last] \in Int
    BY <1>2, <2>3
  <2>8. \A n \in Attempts : order'[n] = "wire" => due'[n] <= Flight
    BY <1>1, <1>2, <2>3, <2>4 DEF InTime
  <2>9. Waiting' /\ order'[last'] = "wire" => idle' + due'[last'] <= Flight
    BY <1>1, <2>1, <2>3, <2>4, <2>5, <2>6, <2>7 DEF InTime
  <2>10. Waiting' /\ Pending(last)' => idle' + due'[last'] <= Flight + Show
    BY <1>1, <2>1, <2>2, <2>3, <2>5, <2>6, <2>7 DEF InTime
  <2>11. QED
    BY <2>8, <2>9, <2>10 DEF InTime
<1>8. Clean'
  BY <1>1 DEF Clean, AtLarge
<1>9. Listed'
  BY <1>1 DEF Listed, Accepted, Tagged
<1>10. QED
  BY <1>4, <1>5, <1>6, <1>7, <1>8, <1>9

------------------------------------------------------------------------------
(* The journal. *)

\* When the next attempt may begin, the exchange is done with the last one.
LEMMA WaitedOut ==
    ASSUME IInv, WaitOver
    PROVE  Waiting /\ (Patient => ~Pending(last))
<1> USE TimeAssumption, CountAssumption
<1>1. Waiting
  BY DEF WaitOver, Waiting
<1>2. ASSUME Patient, Pending(last)
      PROVE  FALSE
  <2>1. idle \in Nat /\ last \in Attempts /\ due[last] \in Nat
    BY DEF IInv, TypeOK, Horizon, Longer
  <2>2. idle > Flight + Show
    BY <1>2, <2>1 DEF WaitOver, Patient
  <2>3. idle + due[last] <= Flight + Show
    BY <1>1, <1>2 DEF IInv, InTime
  <2>4. QED
    BY <2>1, <2>2, <2>3
<1>3. QED
  BY <1>1, <1>2

LEMMA BeginKeeps ==
    ASSUME IInv, Begin
    PROVE  IInv'
<1> USE TimeAssumption, CountAssumption DEF IInv, exchangeVars
<1>1. /\ UNCHANGED <<clock, cut, listed, failures, outcome, order, due, shown, foreign, venue>>
      /\ last < MaxStepAttempts /\ WaitOver /\ last' = last + 1 /\ idle' = 0
      /\ pc' = [pc EXCEPT ![last + 1] = "begun"]
  BY DEF Begin
<1>2. last \in Attempts /\ last + 1 \in Attempts
  BY <1>1 DEF TypeOK, Attempts
<1>3. \A m \in Attempts : pc'[m] = IF m = last + 1 THEN "begun" ELSE pc[m]
  BY <1>1, <1>2 DEF TypeOK
<1>4. Horizon \in Nat
  BY DEF Horizon, Longer
<1>5. pc[last + 1] = "idle" /\ order[last + 1] = "none"
  BY <1>2 DEF Unbegun, Attempts
<1>6. Waiting /\ (Patient => ~Pending(last))
  BY <1>1, WaitedOut
<1>7. TypeOK'
  BY <1>1, <1>2, <1>4 DEF TypeOK, Places, Running
<1>8. Overtaken'
  <2>1. ASSUME NEW m \in Attempts, m < last + 1
        PROVE  (pc[m] \in Running => m \in cut) /\ (Patient => ~Pending(m))
    <3>1. CASE m = last
      BY <1>6, <3>1 DEF Waiting, Running, CallErrors
    <3>2. CASE m < last
      BY <3>2 DEF Overtaken
    <3>3. QED
      BY <1>2, <2>1, <3>1, <3>2 DEF Attempts
  <2>2. \A m \in Attempts : m < last + 1 => pc'[m] = pc[m]
    BY <1>2, <1>3 DEF Attempts
  <2>3. QED
    BY <1>1, <2>1, <2>2 DEF Overtaken, Pending, Accepted
<1>9. Unbegun'
  <2>1. \A m \in Attempts : m > last + 1 => pc'[m] = "idle"
    BY <1>2, <1>3 DEF Unbegun, Attempts
  <2>2. \A m \in Attempts : pc'[m] \in {"idle", "begun", "half", "clear"} => order[m] = "none"
    BY <1>3, <1>5 DEF Unbegun
  <2>3. QED
    BY <1>1, <2>1, <2>2 DEF Unbegun
<1>10. InTime'
  <2>1. ~Pending(last)' /\ order'[last'] # "wire"
    BY <1>1, <1>5 DEF Pending, Accepted
  <2>2. QED
    BY <1>1, <2>1 DEF InTime
<1>11. Clean'
  BY <1>1, <1>3 DEF Clean, AtLarge
<1>12. Listed'
  BY <1>1, <1>3 DEF Listed, Accepted, Tagged
<1>13. QED
  BY <1>7, <1>8, <1>9, <1>10, <1>11, <1>12

LEMMA GiveUpKeeps ==
    ASSUME IInv, GiveUp
    PROVE  IInv'
<1> USE DEF IInv, exchangeVars
<1>1. [kind |-> "too many attempts", order |-> Foreign]
        \in [kind : {"open"} \cup Success \cup Failed, order : Orders]
  BY DEF Failed, Orders
<1>2. /\ UNCHANGED <<clock, pc, cut, idle, listed, last, failures, order, due, shown, foreign, venue>>
      /\ outcome' = [kind |-> "too many attempts", order |-> Foreign]
  BY DEF GiveUp
<1>3. TypeOK'
  BY <1>1, <1>2 DEF TypeOK
<1>4. QED
  BY <1>2, <1>3 DEF Overtaken, Unbegun, InTime, Clean, Listed, Pending, Accepted, AtLarge, Waiting, Tagged

LEMMA CutKeeps ==
    ASSUME IInv, Cut
    PROVE  IInv'
<1> USE TimeAssumption, CountAssumption DEF IInv, exchangeVars
<1>1. /\ UNCHANGED <<clock, pc, listed, last, failures, outcome, order, due, shown, foreign, venue>>
      /\ cut' = cut \cup {last} /\ idle' = 0
  BY DEF Cut
<1>2. Horizon \in Nat
  BY DEF Horizon, Longer
<1>3. TypeOK'
  BY <1>1, <1>2 DEF TypeOK
<1>4. Overtaken'
  BY <1>1 DEF Overtaken, Pending, Accepted
<1>5. Unbegun'
  BY <1>1 DEF Unbegun
<1>6. InTime'
  BY <1>1 DEF InTime, TypeOK, Pending, Accepted
<1>7. Clean'
  BY <1>1 DEF Clean, AtLarge
<1>8. Listed'
  BY <1>1 DEF Listed, Accepted, Tagged
<1>9. QED
  BY <1>3, <1>4, <1>5, <1>6, <1>7, <1>8

LEMMA CrashKeeps ==
    ASSUME IInv, Crash
    PROVE  IInv'
<1> USE TimeAssumption, CountAssumption DEF IInv, exchangeVars
<1>1. /\ UNCHANGED <<clock, cut, listed, last, failures, outcome, order, due, shown, foreign, venue>>
      /\ pc[last] \in Running
      /\ idle' = IF last \in cut THEN idle ELSE 0
      /\ pc' = [n \in Attempts |-> IF pc[n] \in Running THEN "dead" ELSE pc[n]]
  BY DEF Crash
<1>2. \A n \in Attempts : pc'[n] = IF pc[n] \in Running THEN "dead" ELSE pc[n]
  BY <1>1
<1>3. "dead" \notin Running /\ "clear" \in Running /\ "half" \in Running
  BY DEF Running, CallErrors
<1>4. Horizon \in Nat
  BY DEF Horizon, Longer
<1>5. TypeOK'
  <2>1. \A n \in Attempts : pc'[n] \in Places
    BY <1>2 DEF TypeOK, Places
  <2>2. pc' \in [Attempts -> Places]
    BY <1>1, <2>1
  <2>3. QED
    BY <1>1, <1>4, <2>2 DEF TypeOK
<1>6. Overtaken'
  BY <1>1, <1>2, <1>3 DEF Overtaken, Pending, Accepted
<1>7. Unbegun'
  <2>1. "idle" \notin Running
    BY DEF Running, CallErrors
  <2>2. QED
    BY <1>1, <1>2, <2>1 DEF Unbegun
<1>8. InTime'
  <2>1. CASE last \in cut
    BY <1>1, <2>1 DEF InTime, Waiting, Pending, Accepted
  <2>2. CASE last \notin cut
    BY <1>1, <2>2 DEF InTime, TypeOK, Pending, Accepted
  <2>3. QED
    BY <2>1, <2>2
<1>9. Clean'
  BY <1>1, <1>2, <1>3 DEF Clean, AtLarge
<1>10. Listed'
  BY <1>1, <1>2, <1>3 DEF Listed, Accepted, Tagged
<1>11. QED
  BY <1>5, <1>6, <1>7, <1>8, <1>9, <1>10

------------------------------------------------------------------------------
(* The theorems. *)

LEMMA InitIInv == Init => IInv
<1> SUFFICES ASSUME Init PROVE IInv
  OBVIOUS
<1> USE TimeAssumption, CountAssumption
<1>1. TypeOK
  <2>1. 1 \in Attempts /\ Horizon \in Nat
    BY DEF Attempts, Horizon, Longer
  <2>2. foreign \in BOOLEAN /\ venue \in Venues
    BY DEF Init
  <2>3. outcome \in [kind : {"open"} \cup Success \cup Failed, order : Orders]
    BY DEF Init, Orders
  <2>4. pc \in [Attempts -> Places] /\ listed \in [Attempts -> SUBSET Orders]
    BY DEF Init, Places, Running
  <2>5. clock \in 0 .. Settle /\ idle \in 0 .. Horizon /\ due \in [Attempts -> 0 .. (Flight + Show)]
    BY <2>1 DEF Init
  <2>6. QED
    BY <2>1, <2>2, <2>3, <2>4, <2>5 DEF Init, TypeOK
<1>2. Overtaken /\ Unbegun /\ InTime /\ Clean /\ Listed
  BY DEF Init, Overtaken, Unbegun, InTime, Clean, Listed, Attempts, Pending, Accepted, Waiting, Running, CallErrors, Tagged
<1>3. QED
  BY <1>1, <1>2 DEF IInv

LEMMA NextIInv == Safe /\ IInv /\ [Next]_vars => IInv'
<1> SUFFICES ASSUME Safe, IInv, [Next]_vars PROVE IInv'
  OBVIOUS
<1>1. CASE Begin
  BY <1>1, BeginKeeps
<1>2. CASE GiveUp
  BY <1>2, GiveUpKeeps
<1>3. CASE Cut
  BY <1>3, CutKeeps
<1>4. CASE Crash
  BY <1>4, CrashKeeps
<1>5. CASE Tick
  BY <1>5, TickKeeps
<1>6. ASSUME NEW n \in Attempts, Advance(n)
      PROVE  IInv'
  BY <1>6, FirstAttemptKeeps, FetchByClientIDKeeps, FetchOpenOrdersKeeps, FetchClosedOrdersKeeps,
     ResultsKeep, SendKeeps, CallFailsKeeps DEF Advance
<1>7. ASSUME NEW n \in Attempts, Exchange(n)
      PROVE  IInv'
  BY <1>7, ArriveKeeps, AppearKeeps, FillKeeps DEF Exchange
<1>8. CASE UNCHANGED vars
  BY <1>8 DEF vars, IInv, TypeOK, Overtaken, Unbegun, InTime, Clean, Listed, Pending, Accepted, AtLarge, Waiting, Tagged
<1>9. QED
  BY <1>1, <1>2, <1>3, <1>4, <1>5, <1>6, <1>7, <1>8 DEF Next

\* The inductive invariant holds for every adapter that never places again, and for
\* every other one as long as no attempt begins before the exchange has shown what
\* the one before it sent.
THEOREM Invariant == Safe => (Spec => []IInv)
<1>1. SUFFICES ASSUME Safe PROVE Spec => []IInv
  OBVIOUS
<1>2. Safe /\ IInv /\ [Next]_vars => IInv'
  BY NextIInv
<1>3. IInv /\ [Next]_vars => IInv'
  BY <1>1, <1>2
<1>4. QED
  BY <1>3, InitIInv, PTL DEF Spec

\* PlaceOrderIdempotent and the journal around it place one idempotency key's order
\* at most once, for any number of attempts, crashes, interruptions and takeovers.
THEOREM PlacedAtMostOnce == Safe => (Spec => []AtMostOneOrder)
<1>1. IInv => AtMostOneOrder
  BY DEF IInv, Clean, AtMostOneOrder, Accepted, AtLarge, Attempts
<1>2. QED
  BY <1>1, Invariant, PTL

------------------------------------------------------------------------------
(* What the recorded outcome says of the exchange. *)

Refusals == \A n \in Attempts : pc[n] = "rejected" => order[n] = "refused"

\* Once the step has an outcome, no attempt can send.
Closed == outcome.kind # "open" => pc[last] \notin Running \/ last \in cut

OInv == IInv /\ Refusals /\ Closed /\ NothingPlacedIsTrue /\ NoStrayOrder

\* A step that sends nothing and records nothing keeps what the outcome says.
LEMMA QuietKeeps ==
    ASSUME OInv, IInv', Refusals', Closed', outcome' = outcome, venue' = venue,
           \A m \in Attempts : AtLarge(m)' => AtLarge(m)
    PROVE  OInv'
BY DEF OInv, NothingPlacedIsTrue, NoStrayOrder, Tagged

\* The end of a run records nothing, or the result given for the last attempt.
LEMMA ResultRecorded ==
    ASSUME TypeOK, NEW n \in Attempts, NEW kind, NEW o,
           Succeed(n, kind, o) \/ (o = Foreign /\ Fail(n, kind)), pc[n] \in Running
    PROVE  /\ UNCHANGED <<cut, last, order, shown>>
           /\ \E p \in {"over", "retry", "interrupted"} : pc' = [pc EXCEPT ![n] = p]
           /\ \/ outcome' = outcome
              \/ n = last /\ outcome' = [kind |-> kind, order |-> o]
BY DEF Succeed, Fail, Dropped, Interrupt, Retry, Record, Holds, exchangeVars

LEMMA ResultKeeps ==
    ASSUME OInv, IInv', NEW n \in Attempts, pc[n] \in Running, NEW kind, NEW o,
           Succeed(n, kind, o) \/ (o = Foreign /\ Fail(n, kind)),
           kind = "rejected" => pc[n] = "rejected",
           Tagged /\ kind \in Success => o \in Attempts /\ Accepted(o)
    PROVE  OInv'
<1> USE CountAssumption
<1>1. TypeOK /\ last \in Attempts
  BY DEF OInv, IInv, TypeOK
<1>2. PICK p \in {"over", "retry", "interrupted"} : pc' = [pc EXCEPT ![n] = p]
  BY <1>1, ResultRecorded
<1>3. UNCHANGED <<cut, last, order, shown>>
  BY <1>1, ResultRecorded
<1>0. venue' = venue
  BY DEF Succeed, Fail, exchangeVars
<1>4. \A m \in Attempts : pc'[m] = IF m = n THEN p ELSE pc[m]
  BY <1>1, <1>2 DEF TypeOK
<1>5. p \notin Running /\ p # "rejected"
  BY DEF Running, CallErrors
<1>6. Refusals'
  BY <1>3, <1>4, <1>5 DEF Refusals, OInv
<1>7. \A m \in Attempts : AtLarge(m)' <=> AtLarge(m)
  BY <1>3 DEF AtLarge
<1>8. CASE outcome' = outcome
  <2>1. Closed'
    BY <1>1, <1>3, <1>4, <1>5, <1>8 DEF Closed, OInv
  <2>2. QED
    BY <1>0, <1>6, <1>7, <1>8, <2>1, QuietKeeps
<1>9. CASE n = last /\ outcome' = [kind |-> kind, order |-> o]
  <2>1. outcome'.kind = kind /\ outcome'.order = o
    BY <1>9
  <2>2. Closed'
    BY <1>1, <1>3, <1>4, <1>5, <1>9 DEF Closed
  <2>3. \A m \in Attempts : m > n => ~AtLarge(m)
    BY <1>9 DEF OInv, IInv, Unbegun, AtLarge
  <2>4. NothingPlacedIsTrue'
    <3>1. ASSUME kind = "rejected", NEW m \in Attempts PROVE ~AtLarge(m)
      <4>1. order[n] = "refused"
        BY <3>1 DEF OInv, Refusals
      <4>2. m < n => ~AtLarge(m)
        BY <4>1 DEF OInv, IInv, Clean
      <4>3. m = n => ~AtLarge(m)
        BY <4>1 DEF AtLarge
      <4>4. QED
        BY <2>3, <4>2, <4>3 DEF Attempts
    <3>2. QED
      BY <1>7, <2>1, <3>1 DEF NothingPlacedIsTrue
  <2>5. NoStrayOrder'
    <3>1. ASSUME Tagged, kind \in Success, NEW m \in Attempts, AtLarge(m) PROVE m = o
      <4>1. o \in Attempts /\ order[o] # "none" /\ AtLarge(o)
        BY <3>1 DEF Accepted, AtLarge
      <4>2. order[m] # "none"
        BY <3>1 DEF AtLarge
      <4>3. ~(m < o) /\ ~(o < m)
        BY <3>1, <4>1, <4>2 DEF OInv, IInv, Clean
      <4>4. QED
        BY <4>1, <4>3 DEF Attempts
    <3>2. QED
      BY <1>3, <1>7, <1>0, <2>1, <3>1 DEF NoStrayOrder, Tagged
  <2>6. QED
    BY <1>6, <2>2, <2>4, <2>5 DEF OInv, Tagged
<1>10. QED
  BY <1>1, <1>8, <1>9, ResultRecorded

LEMMA OutcomeInit == Init => OInv
<1> SUFFICES ASSUME Init PROVE OInv
  OBVIOUS
<1>1. Refusals /\ Closed /\ NothingPlacedIsTrue /\ NoStrayOrder
  BY DEF Init, Refusals, Closed, NothingPlacedIsTrue, NoStrayOrder, Success
<1>2. QED
  BY <1>1, InitIInv DEF OInv

\* An attempt that moves on without a result: it looks, may place, or its call failed.
LEMMA MovesOnKeeps ==
    ASSUME OInv, IInv', NEW n \in Attempts, pc[n] \in Running,
           NEW p \in Running, pc' = [pc EXCEPT ![n] = p], p = "rejected" => order[n] = "refused",
           UNCHANGED <<cut, last, outcome, order, venue>>
    PROVE  OInv'
<1>1. \A m \in Attempts : pc'[m] = IF m = n THEN p ELSE pc[m]
  BY DEF OInv, IInv, TypeOK
<1>2. Refusals'
  BY <1>1 DEF Refusals, OInv
<1>3. Closed'
  BY <1>1 DEF Closed, OInv, IInv, TypeOK
<1>4. QED
  BY <1>2, <1>3, QuietKeeps DEF AtLarge

LEMMA FailKeepsOutcome ==
    ASSUME OInv, IInv', NEW n \in Attempts, pc[n] \in Running, NEW kind \in Failed,
           kind = "rejected" => pc[n] = "rejected", Fail(n, kind)
    PROVE  OInv'
<1>1. kind \notin Success
  BY DEF Failed, Success
<1>2. QED
  BY <1>1, ResultKeeps

LEMMA LookupsKeepOutcome ==
    ASSUME OInv, IInv', NEW n \in Attempts,
           FirstAttempt(n) \/ FetchByClientID(n) \/ FetchOpenOrders(n)
    PROVE  OInv'
<1>1. pc[n] = "begun" /\ pc[n] \in Running /\ {"half", "clear"} \subseteq Running
  BY DEF FirstAttempt, FetchByClientID, FetchOpenOrders, Running
<1>2. ASSUME NEW kind \in {"unavailable", "ambiguous", "unsettled"}, Fail(n, kind)
      PROVE  OInv'
  <2>1. kind \in Failed /\ kind # "rejected"
    BY DEF Failed
  <2>2. QED
    BY <1>1, <1>2, <2>1, FailKeepsOutcome
<1>3. ASSUME NEW o \in Visible, Succeed(n, "found", o)
      PROVE  OInv'
  <2>1. o \in Attempts /\ Accepted(o)
    BY DEF Visible, OInv, IInv, TypeOK
  <2>2. QED
    BY <1>1, <1>3, <2>1, ResultKeeps
<1>4. ASSUME MayPlace(n)
      PROVE  OInv'
  BY <1>1, <1>4, MovesOnKeeps DEF MayPlace, attemptVars, exchangeVars
<1>5. ASSUME pc' = [pc EXCEPT ![n] = "half"],
             UNCHANGED <<clock, cut, idle, last, failures, outcome, exchangeVars>>
      PROVE  OInv'
  BY <1>1, <1>5, MovesOnKeeps DEF exchangeVars
<1>6. QED
  BY <1>2, <1>3, <1>4, <1>5 DEF FirstAttempt, FetchByClientID, FetchOpenOrders

LEMMA ClosedListingKeepsOutcome ==
    ASSUME OInv, IInv', NEW n \in Attempts, FetchClosedOrders(n)
    PROVE  OInv'
<1>1. pc[n] \in Running /\ "clear" \in Running
  BY DEF FetchClosedOrders, Running
<1>2. ASSUME NEW kind \in {"unavailable", "ambiguous", "unproven", "unsettled"}, Fail(n, kind)
      PROVE  OInv'
  <2>1. kind \in Failed /\ kind # "rejected"
    BY DEF Failed
  <2>2. QED
    BY <1>1, <1>2, <2>1, FailKeepsOutcome
<1>3. ASSUME NEW rows, Tagged => rows \subseteq Matches(n), NEW truncated, Decide(n, rows, truncated)
      PROVE  OInv'
  <2>1. ASSUME NEW o \in rows, Succeed(n, "found", o)
        PROVE  OInv'
    <3>1. Tagged => o \in Attempts /\ Accepted(o)
      BY <1>3, <2>1 DEF Matches, ClosedOrders, Visible, OInv, IInv, TypeOK, Listed, Tagged
    <3>2. QED
      BY <1>1, <2>1, <3>1, ResultKeeps
  <2>2. ASSUME MayPlace(n)
        PROVE  OInv'
    BY <1>1, <2>2, MovesOnKeeps DEF MayPlace, attemptVars, exchangeVars
  <2>3. QED
    BY <1>2, <1>3, <2>1, <2>2 DEF Decide
<1>4. QED
  BY <1>2, <1>3 DEF FetchClosedOrders

LEMMA CallKeepsOutcome ==
    ASSUME OInv, IInv', NEW n \in Attempts,
           NotSent(n) \/ Send(n) \/ Placed(n) \/ CallFails(n) \/ AfterPlaceError(n)
    PROVE  OInv'
<1> USE CountAssumption
<1>1. pc[n] \in Running /\ CallErrors \subseteq Running
  BY DEF NotSent, Send, Placed, CallFails, AfterPlaceError, Running
<1>2. ASSUME NEW kind \in {"not sent", "unknown", "ambiguous"}, Fail(n, kind)
      PROVE  OInv'
  <2>1. kind \in Failed /\ kind # "rejected"
    BY DEF Failed
  <2>2. QED
    BY <1>1, <1>2, <2>1, FailKeepsOutcome
<1>3. ASSUME pc[n] = "rejected", Fail(n, "rejected")
      PROVE  OInv'
  BY <1>1, <1>3, FailKeepsOutcome DEF Failed
<1>4. ASSUME NEW kind \in Success, NEW o \in Attempts, Accepted(o), Succeed(n, kind, o)
      PROVE  OInv'
  <2>1. kind # "rejected"
    BY DEF Success
  <2>2. QED
    BY <1>1, <1>4, <2>1, ResultKeeps
<1>5. CASE CallFails(n)
  <2>1. PICK e \in CallErrors :
          (e = "rejected" => order[n] = "refused") /\ pc' = [pc EXCEPT ![n] = e]
    BY <1>5 DEF CallFails
  <2>2. UNCHANGED <<cut, last, outcome, order, venue>>
    BY <1>5 DEF CallFails, attemptVars, exchangeVars
  <2>3. QED
    BY <1>1, <2>1, <2>2, MovesOnKeeps
<1>6. CASE Send(n)
  <2>1. n = last /\ n \notin cut /\ pc[n] \in Running
    BY <1>1, <1>6 DEF Send, OInv, IInv, Overtaken, Unbegun, Running, TypeOK, Attempts
  <2>2. outcome.kind = "open"
    BY <2>1 DEF OInv, Closed
  <2>3. outcome' = outcome /\ UNCHANGED <<last, cut>>
    BY <1>6 DEF Send, attemptVars
  <2>4. \A m \in Attempts : /\ pc'[m] = IF m = n THEN "sent" ELSE pc[m]
                            /\ order'[m] = IF m = n THEN "wire" ELSE order[m]
    BY <1>6 DEF Send, OInv, IInv, TypeOK
  <2>5. Refusals' /\ Closed'
    BY <2>2, <2>3, <2>4 DEF Refusals, Closed, OInv
  <2>6. NothingPlacedIsTrue' /\ NoStrayOrder'
    BY <2>2, <2>3 DEF NothingPlacedIsTrue, NoStrayOrder, Success
  <2>7. QED
    BY <2>5, <2>6 DEF OInv
<1>7. Visible \subseteq Attempts /\ \A o \in Visible : Accepted(o)
  BY DEF Visible, OInv, IInv, TypeOK
<1>8. {"found", "placed"} \subseteq Success
  BY DEF Success
<1>9. QED
  BY <1>2, <1>3, <1>4, <1>5, <1>6, <1>7, <1>8 DEF NotSent, Placed, AfterPlaceError

LEMMA OthersKeepOutcome ==
    ASSUME OInv, IInv', Begin \/ GiveUp \/ Cut \/ Crash \/ Tick \/ UNCHANGED vars
    PROVE  OInv'
<1> USE CountAssumption
<1>1. last \in Attempts /\ pc \in [Attempts -> Places]
  BY DEF OInv, IInv, TypeOK
<1>2. order' = order /\ venue' = venue
  BY DEF Begin, GiveUp, Cut, Crash, Tick, vars, exchangeVars
<1>3. \A m \in Attempts : AtLarge(m)' => AtLarge(m)
  BY <1>2 DEF AtLarge
<1>4. CASE Begin
  <2>1. last + 1 \in Attempts
    BY <1>1, <1>4 DEF Begin, Attempts
  <2>2. \A m \in Attempts : pc'[m] = IF m = last + 1 THEN "begun" ELSE pc[m]
    BY <1>1, <1>4 DEF Begin
  <2>3. Refusals' /\ Closed' /\ outcome' = outcome
    BY <1>2, <1>4, <2>1, <2>2 DEF Begin, Refusals, Closed, OInv
  <2>4. QED
    BY <1>2, <1>3, <2>3, QuietKeeps
<1>5. CASE GiveUp
  <2>1. outcome'.kind = "too many attempts" /\ UNCHANGED <<pc, last, cut>>
    BY <1>5 DEF GiveUp
  <2>2. pc[last] \notin Running \/ last \in cut
    BY <1>5 DEF GiveUp, WaitOver, Running, CallErrors
  <2>3. Refusals' /\ Closed'
    BY <1>2, <2>1, <2>2 DEF Refusals, Closed, OInv
  <2>4. NothingPlacedIsTrue' /\ NoStrayOrder'
    BY <2>1 DEF NothingPlacedIsTrue, NoStrayOrder, Success
  <2>5. QED
    BY <2>3, <2>4 DEF OInv
<1>6. CASE Cut
  BY <1>2, <1>3, <1>6, QuietKeeps DEF Cut, Refusals, Closed, OInv
<1>7. CASE Crash
  <2>1. \A m \in Attempts : pc'[m] = "rejected" => pc[m] = "rejected"
    BY <1>7 DEF Crash
  <2>2. pc'[last] \notin Running
    BY <1>1, <1>7 DEF Crash, Running, CallErrors
  <2>3. Refusals' /\ Closed' /\ outcome' = outcome
    BY <1>2, <1>7, <2>1, <2>2 DEF Crash, Refusals, Closed, OInv
  <2>4. QED
    BY <1>2, <1>3, <2>3, QuietKeeps
<1>8. CASE Tick \/ UNCHANGED vars
  BY <1>2, <1>3, <1>8, QuietKeeps DEF Tick, vars, Refusals, Closed, OInv
<1>9. QED
  BY <1>4, <1>5, <1>6, <1>7, <1>8

LEMMA ExchangeKeepsOutcome ==
    ASSUME OInv, IInv', NEW n \in Attempts, Exchange(n)
    PROVE  OInv'
<1>1. UNCHANGED <<pc, cut, last, outcome, venue>>
  BY DEF Exchange, Arrive, Appear, Fill, attemptVars
<1>2. \A m \in Attempts : /\ AtLarge(m)' => AtLarge(m)
                          /\ order[m] = "refused" => order'[m] = "refused"
  BY DEF Exchange, Arrive, Appear, Fill, AtLarge, Accepted, OInv, IInv, TypeOK
<1>3. Refusals' /\ Closed'
  BY <1>1, <1>2 DEF Refusals, Closed, OInv
<1>4. QED
  BY <1>1, <1>2, <1>3, QuietKeeps

LEMMA NextOInv == Safe /\ OInv /\ [Next]_vars => OInv'
<1> SUFFICES ASSUME Safe, OInv, [Next]_vars PROVE OInv'
  OBVIOUS
<1>1. IInv'
  BY NextIInv DEF OInv
<1>2. QED
  BY <1>1, LookupsKeepOutcome, ClosedListingKeepsOutcome, CallKeepsOutcome, OthersKeepOutcome,
     ExchangeKeepsOutcome DEF Next, Advance

\* What the outcome says holds whenever the invariant does.
THEOREM OutcomeInvariant == Safe => (Spec => []OInv)
<1>1. SUFFICES ASSUME Safe PROVE Spec => []OInv
  OBVIOUS
<1>2. OInv /\ [Next]_vars => OInv'
  BY <1>1, NextOInv
<1>3. QED
  BY <1>2, OutcomeInit, PTL DEF Spec

\* stepPlace's "nothing was placed" is true: when the step records the exchange's own
\* refusal, on whatever attempt, no request of any attempt is or will be an order.
THEOREM RefusalIsFinal == Safe => (Spec => []NothingPlacedIsTrue)
<1>1. OInv => NothingPlacedIsTrue
  BY DEF OInv
<1>2. QED
  BY <1>1, OutcomeInvariant, PTL

\* With client order IDs, the order the step records is the only one at large: none
\* is left at the exchange, or on its way there, that no one will look for.
THEOREM NothingIsLeftBehind == Safe => (Spec => []NoStrayOrder)
<1>1. OInv => NoStrayOrder
  BY DEF OInv
<1>2. QED
  BY <1>1, OutcomeInvariant, PTL

------------------------------------------------------------------------------
(* Types, and the retries.  Neither needs Safe: what follows holds for every *)
(* venue and every timing of the exchange.                                   *)

\* A request on the wire has at most Flight left; idle was reset later than clock.
Timed ==
    /\ \A n \in Attempts : order[n] = "wire" => due[n] <= Flight
    /\ idle <= clock \/ Settled

\* The backoff of one counted failure has let the settle delay pass.
SettledFirst == failures > 0 /\ pc[last] # "retry" => Settled

RInv == SettledFirst /\ RetriesOutlastSettle

\* How the step is declared wherever it is used: a retry, after the settle delay.
PatientRetries == Retries > 0 /\ Backoff >= Settle

\* A run of the step ends: a failure is counted only for a retry, and "not yet
\* settled" is recorded only when no retry is left, before the delay has passed.
Returns(n) ==
    /\ Ends(n)
    /\ failures' = failures \/ (n = last /\ pc'[n] = "retry")
    /\ \/ outcome' = outcome
       \/ /\ n = last
          /\ outcome'.kind = "unsettled" => /\ ~Settled
                                            /\ failures >= Retries \/ n = MaxStepAttempts

\* An attempt moves on: it looked something up, may place, or its call failed.
MovesOn(n) ==
    /\ \E p \in Running : pc' = [pc EXCEPT ![n] = p]
    /\ listed' \in [Attempts -> SUBSET Orders]
    /\ UNCHANGED <<clock, cut, idle, last, failures, outcome, exchangeVars>>

LEMMA FailReturns ==
    ASSUME TypeOK, NEW n \in Attempts, NEW kind \in Failed, kind = "unsettled" => ~Settled,
           Fail(n, kind)
    PROVE  Returns(n)
<1> USE CountAssumption
<1>1. Ends(n)
  BY FailEnds
<1>2. pc \in [Attempts -> Places]
  BY DEF TypeOK
<1>3. CASE Dropped(n) \/ Interrupt(n)
  BY <1>1, <1>3 DEF Returns, Dropped, Interrupt
<1>4. CASE Retry(n, kind)
  BY <1>1, <1>2, <1>4 DEF Returns, Retry, Holds
<1>5. CASE ~CanRetry(n, kind) /\ Record(n, kind, Foreign)
  <2>1. n = last /\ outcome'.kind = kind /\ failures' = failures
    BY <1>5 DEF Record, Holds
  <2>2. ASSUME kind = "unsettled" PROVE failures >= Retries \/ n = MaxStepAttempts
    <3>1. ~(failures < Retries) \/ ~(n < MaxStepAttempts)
      BY <1>5, <2>2 DEF CanRetry, Retryable
    <3>2. QED
      BY <3>1 DEF TypeOK, Attempts
  <2>3. QED
    BY <1>1, <2>1, <2>2 DEF Returns
<1>6. QED
  BY <1>3, <1>4, <1>5 DEF Fail

LEMMA SucceedReturns ==
    ASSUME TypeOK, NEW n \in Attempts, NEW kind \in Success, NEW o \in Orders,
           Succeed(n, kind, o)
    PROVE  Returns(n)
<1>1. Ends(n)
  BY SucceedEnds
<1>2. kind # "unsettled"
  BY DEF Success
<1>3. QED
  BY <1>1, <1>2 DEF Returns, Succeed, Dropped, Record, Holds

\* What the attempts' steps come to.
LEMMA AdvanceKinds ==
    ASSUME TypeOK, NEW n \in Attempts, Advance(n)
    PROVE  pc[n] \in Running /\ (Returns(n) \/ MovesOn(n) \/ Send(n))
<1>1. pc[n] \in Running
  BY DEF Advance, FirstAttempt, FetchByClientID, FetchOpenOrders, FetchClosedOrders, NotSent,
         Send, Placed, CallFails, AfterPlaceError, Running
<1>2. ASSUME NEW kind \in Failed \ {"unsettled"}, Fail(n, kind)
      PROVE  Returns(n)
  BY <1>2, FailReturns
<1>3. ASSUME ~Settled, Fail(n, "unsettled")
      PROVE  Returns(n)
  BY <1>3, FailReturns DEF Failed
<1>4. ASSUME NEW o \in Visible \cup listed[n] \cup {n, Foreign}, NEW kind \in Success, Succeed(n, kind, o)
      PROVE  Returns(n)
  <2>1. o \in Orders
    BY DEF Visible, Orders, TypeOK
  <2>2. QED
    BY <1>4, <2>1, SucceedReturns
<1>5. ASSUME MayPlace(n)
      PROVE  MovesOn(n)
  BY <1>5 DEF MayPlace, MovesOn, attemptVars, Running, TypeOK
<1>6. /\ {"unavailable", "ambiguous", "unproven", "unknown", "rejected", "not sent"} \subseteq Failed \ {"unsettled"}
      /\ {"placed", "found"} \subseteq Success
  BY DEF Failed, Success
<1>7. CASE FirstAttempt(n) \/ FetchByClientID(n)
  BY <1>1, <1>2, <1>3, <1>4, <1>5, <1>6, <1>7 DEF FirstAttempt, FetchByClientID
<1>8. CASE FetchOpenOrders(n)
  <2>1. ASSUME NEW other \in SUBSET (IF foreign /\ ~Tagged THEN {Foreign} ELSE {}),
               pc' = [pc EXCEPT ![n] = "half"],
               listed' = [listed EXCEPT ![n] = {o \in Visible : order[o] = "open"} \cup other],
               UNCHANGED <<clock, cut, idle, last, failures, outcome, exchangeVars>>
        PROVE  MovesOn(n)
    <3>1. {o \in Visible : order[o] = "open"} \cup other \in SUBSET Orders
      BY DEF Visible, Orders, TypeOK
    <3>2. QED
      BY <2>1, <3>1 DEF MovesOn, Running, TypeOK
  <2>2. QED
    BY <1>1, <1>2, <1>6, <1>8, <2>1 DEF FetchOpenOrders
<1>9. CASE FetchClosedOrders(n)
  <2>1. ASSUME NEW rows \in SUBSET (Matches(n) \cup {Foreign}), NEW truncated \in BOOLEAN,
               Decide(n, rows, truncated)
        PROVE  Returns(n) \/ MovesOn(n)
    <3>1. rows \subseteq Visible \cup listed[n] \cup {n, Foreign}
      BY DEF Matches, ClosedOrders
    <3>2. QED
      BY <1>2, <1>3, <1>4, <1>5, <1>6, <2>1, <3>1 DEF Decide
  <2>2. ASSUME NEW rows \in ShapeMatches(n), Decide(n, rows, FALSE)
        PROVE  Returns(n) \/ MovesOn(n)
    <3>1. rows \in SUBSET (Matches(n) \cup {Foreign})
      BY DEF ShapeMatches
    <3>2. QED
      BY <2>1, <2>2, <3>1
  <2>3. QED
    BY <1>1, <1>2, <1>6, <1>9, <2>1, <2>2 DEF FetchClosedOrders
<1>10. CASE CallFails(n)
  BY <1>1, <1>10 DEF CallFails, MovesOn, attemptVars, Running, TypeOK
<1>11. CASE NotSent(n) \/ Send(n) \/ Placed(n) \/ AfterPlaceError(n)
  BY <1>1, <1>2, <1>4, <1>6, <1>11 DEF NotSent, Placed, AfterPlaceError
<1>12. QED
  BY <1>7, <1>8, <1>9, <1>10, <1>11 DEF Advance

LEMMA AdvanceTyped ==
    ASSUME TypeOK, Timed, NEW n \in Attempts, Advance(n)
    PROVE  TypeOK' /\ Timed'
<1> USE TimeAssumption, CountAssumption
<1>1. Horizon \in Nat /\ {"over", "retry", "interrupted", "sent"} \subseteq Places
  BY DEF Horizon, Longer, Places, Running
<1>2. CASE Returns(n)
  <2>1. PICK p \in {"over", "retry", "interrupted"} :
          pc' = [pc EXCEPT ![n] = p] /\ (p = "over" => idle' = idle) /\ (p # "over" => idle' = 0)
    BY <1>2 DEF Returns, Ends
  <2>2. idle' = idle \/ idle' = 0
    BY <2>1
  <2>3. UNCHANGED <<clock, cut, listed, last, order, due, shown, foreign, venue>>
    BY <1>2 DEF Returns, Ends, exchangeVars
  <2>4. TypeOK'
    BY <1>1, <1>2, <2>1, <2>2, <2>3 DEF TypeOK, Returns, Ends
  <2>5. Timed'
    BY <2>2, <2>3 DEF Timed, Settled, TypeOK
  <2>6. QED
    BY <2>4, <2>5
<1>3. CASE MovesOn(n)
  BY <1>3 DEF MovesOn, exchangeVars, TypeOK, Timed, Settled, Places
<1>4. CASE Send(n)
  BY <1>1, <1>4 DEF Send, attemptVars, TypeOK, Timed, Settled
<1>5. QED
  BY <1>2, <1>3, <1>4, AdvanceKinds

LEMMA ExchangeTyped ==
    ASSUME TypeOK, Timed, NEW n \in Attempts, Exchange(n)
    PROVE  TypeOK' /\ Timed'
<1> USE TimeAssumption, CountAssumption
<1>1. UNCHANGED <<clock, pc, cut, idle, listed, last, failures, outcome, foreign, venue>>
  BY DEF Exchange, Arrive, Appear, Fill, attemptVars
<1>2. CASE Arrive(n)
  <2>1. PICK fate \in {"open", "refused", "lost"} :
          /\ order' = [order EXCEPT ![n] = fate]
          /\ due' = [due EXCEPT ![n] = IF fate = "open" THEN due[n] + Show ELSE 0]
    BY <1>2 DEF Arrive
  <2>2. due[n] \in Nat /\ due[n] <= Flight /\ shown' = shown
    BY <1>2 DEF Arrive, Timed, TypeOK
  <2>3. (IF fate = "open" THEN due[n] + Show ELSE 0) \in 0 .. (Flight + Show)
    BY <2>2
  <2>4. TypeOK'
    BY <1>1, <2>1, <2>2, <2>3 DEF TypeOK
  <2>5. \A m \in Attempts : order'[m] = "wire" => order[m] = "wire" /\ due'[m] = due[m]
    BY <2>1 DEF TypeOK
  <2>6. QED
    BY <1>1, <2>4, <2>5 DEF Timed, Settled
<1>3. CASE Appear(n) \/ Fill(n)
  <2>1. TypeOK'
    BY <1>1, <1>3 DEF Appear, Fill, TypeOK
  <2>2. \A m \in Attempts : order'[m] = "wire" => order[m] = "wire" /\ (due'[m] = due[m] \/ due'[m] = 0)
    BY <1>3 DEF Appear, Fill, TypeOK
  <2>3. QED
    BY <1>1, <2>1, <2>2 DEF Timed, Settled
<1>4. QED
  BY <1>2, <1>3 DEF Exchange

LEMMA JournalTyped ==
    ASSUME TypeOK, Timed, Begin \/ GiveUp \/ Cut \/ Crash
    PROVE  TypeOK' /\ Timed'
<1> USE TimeAssumption, CountAssumption
<1>1. UNCHANGED <<clock, listed, failures, order, due, shown, foreign, venue>>
  BY DEF Begin, GiveUp, Cut, Crash, exchangeVars
<1>2. Horizon \in Nat /\ {"begun", "dead"} \subseteq Places
  BY DEF Horizon, Longer, Places, Running
<1>3. idle' \in {idle, 0}
  BY DEF Begin, GiveUp, Cut, Crash
<1>4. Timed'
  BY <1>1, <1>3 DEF Timed, Settled, TypeOK
<1>5. cut' \in SUBSET Attempts
  BY DEF Begin, GiveUp, Cut, Crash, TypeOK
<1>6. last' \in Attempts
  <2>1. CASE Begin
    BY <2>1 DEF Begin, TypeOK, Attempts
  <2>2. CASE GiveUp \/ Cut \/ Crash
    BY <2>2 DEF GiveUp, Cut, Crash, TypeOK
  <2>3. QED
    BY <2>1, <2>2
<1>7. outcome' \in [kind : {"open"} \cup Success \cup Failed, order : Orders]
  <2>1. CASE GiveUp
    <3>1. [kind |-> "too many attempts", order |-> Foreign]
            \in [kind : {"open"} \cup Success \cup Failed, order : Orders]
      BY DEF Failed, Orders
    <3>2. QED
      BY <2>1, <3>1 DEF GiveUp
  <2>2. CASE Begin \/ Cut \/ Crash
    BY <2>2 DEF Begin, Cut, Crash, TypeOK
  <2>3. QED
    BY <2>1, <2>2
<1>8. pc' \in [Attempts -> Places]
  BY <1>2 DEF Begin, GiveUp, Cut, Crash, TypeOK
<1>9. TypeOK'
  BY <1>1, <1>2, <1>3, <1>5, <1>6, <1>7, <1>8 DEF TypeOK
<1>10. QED
  BY <1>4, <1>9

LEMMA TickTyped ==
    ASSUME TypeOK, Timed, Tick
    PROVE  TypeOK' /\ Timed'
<1> USE TimeAssumption, CountAssumption
<1>1. /\ UNCHANGED <<pc, cut, listed, last, failures, outcome, order, shown, foreign, venue>>
      /\ clock' = IF clock < Settle THEN clock + 1 ELSE clock
      /\ idle' = IF idle < Horizon THEN idle + 1 ELSE idle
      /\ due' = [n \in Attempts |-> IF Pending(n) THEN due[n] - 1 ELSE due[n]]
  BY DEF Tick
<1>2. Horizon \in Nat /\ clock \in 0 .. Settle /\ idle \in 0 .. Horizon
  BY DEF Horizon, Longer, TypeOK
<1>3. clock' \in 0 .. Settle /\ idle' \in 0 .. Horizon
  BY <1>1, <1>2
<1>4. ASSUME NEW n \in Attempts
      PROVE  due'[n] \in 0 .. (Flight + Show) /\ due'[n] <= due[n]
  <2>1. due[n] \in 0 .. (Flight + Show) /\ (Pending(n) => due[n] > 0)
    BY DEF TypeOK, Tick
  <2>2. QED
    BY <1>1, <2>1
<1>5. due' \in [Attempts -> 0 .. (Flight + Show)]
  BY <1>1, <1>4
<1>6. TypeOK'
  BY <1>1, <1>3, <1>5 DEF TypeOK
<1>7. idle' <= clock' \/ clock' = Settle
  BY <1>1, <1>2 DEF Timed, Settled
<1>8. ASSUME NEW n \in Attempts, order[n] = "wire" PROVE due'[n] <= Flight
  <2>1. due[n] <= Flight /\ due[n] \in Int /\ due'[n] \in Int
    BY <1>4, <1>8 DEF Timed, TypeOK
  <2>2. QED
    BY <1>4, <2>1
<1>9. QED
  BY <1>1, <1>6, <1>7, <1>8 DEF Timed, Settled

LEMMA NextTyped ==
    ASSUME TypeOK, Timed, [Next]_vars
    PROVE  TypeOK' /\ Timed'
<1>1. CASE UNCHANGED vars
  BY <1>1 DEF vars, TypeOK, Timed, Settled
<1>2. QED
  BY <1>1, AdvanceTyped, ExchangeTyped, JournalTyped, TickTyped DEF Next

LEMMA InitTyped == Init => TypeOK /\ Timed
<1>1. Init => TypeOK
  BY InitIInv DEF IInv
<1>2. Init => Timed
  BY DEF Init, Timed
<1>3. QED
  BY <1>1, <1>2

\* The state has the types the code gives it, and time left stays within its bounds,
\* for every venue, whatever the timing of the exchange and of the journal.
THEOREM Typed == Spec => []TypeOK
<1>1. TypeOK /\ Timed /\ [Next]_vars => (TypeOK /\ Timed)'
  BY NextTyped
<1>2. QED
  BY <1>1, InitTyped, PTL DEF Spec

\* The retries' invariant, step by step.
LEMMA RetriesStep ==
    ASSUME PatientRetries, TypeOK, Timed, RInv, Next
    PROVE  RInv'
<1> USE TimeAssumption, CountAssumption
<1>1. last \in Attempts /\ pc \in [Attempts -> Places] /\ clock \in 0 .. Settle /\ idle \in Nat /\ failures \in Nat
  BY DEF TypeOK, Horizon, Longer
<1>2. {"retry", "interrupted", "dead", "over"} \cap Running = {}
  BY DEF Running, CallErrors
<1>3. CASE Begin
  <2>1. last + 1 \in Attempts /\ pc'[last + 1] = "begun" /\ last' = last + 1 /\ WaitOver
        /\ UNCHANGED <<clock, failures, outcome>> /\ outcome.kind = "open"
    BY <1>1, <1>3 DEF Begin, Attempts
  <2>2. ASSUME pc[last] = "retry" PROVE Settled
    <3>1. idle >= Backoff
      BY <1>2, <2>1, <2>2 DEF WaitOver
    <3>2. QED
      BY <1>1, <3>1 DEF Timed, Settled, PatientRetries
  <2>3. QED
    BY <2>1, <2>2 DEF RInv, SettledFirst, RetriesOutlastSettle, Settled
<1>4. CASE GiveUp \/ Cut
  BY <1>4 DEF GiveUp, Cut, RInv, SettledFirst, RetriesOutlastSettle, Settled
<1>5. CASE Crash
  <2>1. pc[last] \in Running /\ UNCHANGED <<clock, last, failures, outcome>>
    BY <1>5 DEF Crash
  <2>2. QED
    BY <1>2, <2>1 DEF RInv, SettledFirst, RetriesOutlastSettle, Settled
<1>6. CASE Tick
  <2>1. Settled => Settled'
    BY <1>6 DEF Tick, Settled
  <2>2. QED
    BY <1>6, <2>1 DEF Tick, RInv, SettledFirst, RetriesOutlastSettle
<1>7. ASSUME NEW n \in Attempts, Exchange(n) PROVE RInv'
  BY <1>7 DEF Exchange, Arrive, Appear, Fill, attemptVars, RInv, SettledFirst, RetriesOutlastSettle, Settled
<1>8. ASSUME NEW n \in Attempts, pc[n] \in Running, Returns(n) PROVE RInv'
  <2>1. PICK p \in {"over", "retry", "interrupted"} : pc' = [pc EXCEPT ![n] = p]
    BY <1>8 DEF Returns, Ends
  <2>2. UNCHANGED <<clock, last>> /\ \A m \in Attempts : pc'[m] = IF m = n THEN p ELSE pc[m]
    BY <1>1, <1>8, <2>1 DEF Returns, Ends
  <2>3. SettledFirst'
    <3>1. ASSUME failures' > 0, pc'[last] # "retry" PROVE Settled
      <4>1. failures' = failures
        BY <1>1, <1>8, <3>1 DEF Returns
      <4>2. pc[last] # "retry"
        BY <1>1, <1>2, <1>8, <2>2, <3>1
      <4>3. QED
        BY <3>1, <4>1, <4>2 DEF RInv, SettledFirst
    <3>2. QED
      BY <2>2, <3>1 DEF SettledFirst, Settled
  <2>4. RetriesOutlastSettle'
    <3>1. CASE outcome' = outcome
      BY <2>2, <3>1 DEF RInv, RetriesOutlastSettle
    <3>2. CASE outcome' # outcome /\ outcome'.kind = "unsettled"
      <4>1. n = last /\ ~Settled /\ (failures >= Retries \/ n = MaxStepAttempts)
        BY <1>8, <3>2 DEF Returns
      <4>2. pc[last] # "retry"
        BY <1>2, <1>8, <4>1
      <4>3. failures = 0
        BY <1>1, <4>1, <4>2 DEF RInv, SettledFirst
      <4>4. QED
        BY <2>2, <4>1, <4>3 DEF PatientRetries, RetriesOutlastSettle
    <3>3. QED
      BY <3>1, <3>2 DEF RetriesOutlastSettle
  <2>5. QED
    BY <2>3, <2>4 DEF RInv
<1>9. ASSUME NEW n \in Attempts, pc[n] \in Running, MovesOn(n) \/ Send(n) PROVE RInv'
  <2>1. PICK p \in Running : pc' = [pc EXCEPT ![n] = p]
    BY <1>9 DEF MovesOn, Send, Running
  <2>2. UNCHANGED <<clock, last, failures, outcome>>
    BY <1>9 DEF MovesOn, Send, attemptVars
  <2>3. pc'[last] = "retry" <=> pc[last] = "retry"
    BY <1>1, <1>2, <1>9, <2>1
  <2>4. QED
    BY <2>2, <2>3 DEF RInv, SettledFirst, RetriesOutlastSettle, Settled
<1>10. ASSUME NEW n \in Attempts, Advance(n) PROVE RInv'
  BY <1>8, <1>9, <1>10, AdvanceKinds
<1>11. QED
  BY <1>3, <1>4, <1>5, <1>6, <1>7, <1>10 DEF Next

\* Retryable's promise: with a retry and a backoff of at least the settle delay, the
\* step fails for good on "not yet settled" only at the cap on all its executions.
THEOREM RetriesSuffice == PatientRetries => (Spec => []RetriesOutlastSettle)
<1>1. SUFFICES ASSUME PatientRetries PROVE Spec => []RetriesOutlastSettle
  OBVIOUS
<1>2. Init => TypeOK /\ Timed /\ RInv
  <2>1. Init => failures = 0 /\ outcome.kind = "open"
    BY DEF Init
  <2>2. QED
    BY <2>1, InitTyped DEF RInv, SettledFirst, RetriesOutlastSettle
<1>3. TypeOK /\ Timed /\ RInv /\ [Next]_vars => (TypeOK /\ Timed /\ RInv)'
  <2>1. ASSUME TypeOK, Timed, RInv, UNCHANGED vars PROVE RInv'
    BY <2>1 DEF vars, RInv, SettledFirst, RetriesOutlastSettle, Settled
  <2>2. QED
    BY <1>1, <2>1, NextTyped, RetriesStep
<1>4. RInv => RetriesOutlastSettle
  BY DEF RInv
<1>5. QED
  BY <1>2, <1>3, <1>4, PTL DEF Spec
=============================================================================
