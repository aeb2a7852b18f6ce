--------------------------- MODULE MCOrderPlacement ---------------------------
(* Instances of OrderPlacement: the venues an order may go to. *)
EXTENDS OrderPlacement

AllVenues == [adapter : {"by-id", "listing", "shape"}, market : {"spot", "futures"}]
SpotById == [adapter : {"by-id"}, market : {"spot"}]
=============================================================================
