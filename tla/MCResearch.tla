----------------------------- MODULE MCResearch -----------------------------
(* A session of four minutes and the first minute of the next; levels and bars in half  *)
(* ticks.  One bar is on rth_vwap and orh and above vwap, one on vwap, one below it; the *)
(* ATR shrinks, so that a bar that was near a level is later beyond it.                  *)
EXTENDS Research

BarAt(op, lo, hi, cl) == [open |-> op, low |-> lo, high |-> hi, close |-> cl]
MCLevels == <<"vwap", "rth_vwap", "orh">>
MCLevelValue == [l \in {"vwap", "rth_vwap", "orh"} |->
                   CASE l = "vwap" -> 0 [] l = "rth_vwap" -> 9 [] OTHER -> 10]
Upper == BarAt(8, 8, 10, 10)
Lower == BarAt(-8, -10, -6, -8)
OnVwap == BarAt(0, 0, 2, 0)
MCBars == [t \in 0..4 |-> CASE t = 0 -> {Upper} [] t = 1 -> {Upper, Quiet}
                             [] t = 2 -> {Upper, OnVwap, Lower} [] t = 3 -> {Upper, Lower}
                             [] OTHER -> {OnVwap}]
MCAtr == [t \in 0..5 |-> CASE t = 0 -> 40 [] t = 4 -> 0 [] OTHER -> 10]
MCFallback == [prox |-> 2, sep |-> 3]
=============================================================================
