--------------------------- MODULE MCFlowAggregator ---------------------------
(* Two seconds a minute: a large sell, then a large buy or silence. *)
EXTENDS FlowAggregator

MCOffsets == <<0, 50>>
Sell == [move |-> -2, dip |-> 1, volume |-> 12, trade |-> "sell"]
Buy == [move |-> 2, dip |-> 0, volume |-> 10, trade |-> "buy"]
Quiet == [move |-> 0, dip |-> 0, volume |-> 1, trade |-> "none"]
MCShapes == [o \in {0, 50} |-> IF o = 0 THEN {Sell} ELSE {Buy, Quiet}]
=============================================================================
