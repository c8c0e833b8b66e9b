-------------------------- MODULE MCPositionMonitor --------------------------
(* One symbol that trades, a long and a short setup; another with outputs only. *)
EXTENDS PositionMonitor, TLC

MCSymbols == {"MNQ-09", "MES-09"}
MCKeys == {"MNQ-09", "MES-09", "MNQ", "MES"}
MCRoot == ("MNQ-09" :> "MNQ") @@ ("MES-09" :> "MES")
MCClientKey == [c \in Clients |-> "MNQ"]
Long == [id |-> 1, buy |-> TRUE, grade |-> 2, entry |-> 3, stop |-> 2, target |-> 6]
Short == [id |-> 2, buy |-> FALSE, grade |-> 1, entry |-> 4, stop |-> 6, target |-> 2]
Poor == [id |-> 3, buy |-> TRUE, grade |-> 4, entry |-> 3, stop |-> 2, target |-> 5]
MCSetups == ("MNQ-09" :> {Long, Short, Poor}) @@ ("MES-09" :> {})
MCTheses == {"reversal", "continuation"}
Of(kind, sym, value) == [kind |-> kind, sym |-> sym, value |-> value]
Output == Of("output", "MNQ-09", {Long, Short, Poor})
MCScript ==
    <<{Output},
      {Of("thesis", "MNQ-09", "reversal"), Of("quote", "MNQ-09", -1), Output},
      {Of("thesis", "MNQ-09", "continuation"), Of("output", "MES-09", {}),
       Of("quality", "MNQ-09", "change")}>>
Up == [close |-> 4, dip |-> 0, side |-> "buy"]
Down == [close |-> 3, dip |-> 0, side |-> "sell"]
Stop == [close |-> 2, dip |-> 0, side |-> "none"]
Wick == [close |-> 5, dip |-> 4, side |-> "buy"]
MCShapes == <<{Up}, {Up}, {Stop, Wick}, {Wick}>>
MCSecond == [i \in 0 .. 3 |-> MCShapes[i + 1]]
MCSeconds == ("MNQ-09" :> 4) @@ ("MES-09" :> 0)
=============================================================================
