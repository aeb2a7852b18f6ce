------------------------------ MODULE MCOutbox ------------------------------
(* Instances of Outbox: a margin alert and a funding situation, each decided *)
(* twice.                                                                    *)
EXTENDS Outbox

Margins == {2, 4}
FundingsAndAlerts == <<"funding", "margin", "funding", "margin">>
Severities == <<1, 3, 1, 3>>

OneDelay == <<1>>
=============================================================================
