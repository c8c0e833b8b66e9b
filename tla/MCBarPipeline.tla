---------------------------- MODULE MCBarPipeline ----------------------------
(***************************************************************************)
(* A small instance of the pipeline: scaled sessions and a handful of bar  *)
(* shapes around a price of 100.00.                                        *)
(***************************************************************************)
EXTENDS Backtest

Flow(delta, genuine, reversal) ==
    [known |-> TRUE, delta |-> delta, has_trades |-> TRUE, large_sells |-> IF delta < 0 THEN 2 ELSE 0,
     absorption |-> FALSE, v_reversal |-> reversal, genuine |-> genuine]

Shape(up, down, move, volume, flow, tick) ==
    [up |-> up, down |-> down, move |-> move, volume |-> volume, flow |-> flow, tick |-> tick]

Rally == Shape(22, 2, 20, 16, Flow(1, TRUE, FALSE), NoTick)
Slide == Shape(2, 22, -20, 12, Flow(-1, FALSE, TRUE), NoTick)
Sweep == Shape(4, 9, 3, 16, NoFlow, [NoTick EXCEPT !.sell_ratio = 20, !.bar_delta = 10])
Drift == Shape(4, 5, -4, 8, NoFlow, [NoTick EXCEPT !.buy_ratio = 20, !.bar_delta = -60])

MCShapes == {Rally, Slide, Sweep, Drift}
\* The longer opening leads to a confirmed short, so that its trade can end.
MCOpenings ==
    {[bars |-> <<Sweep, Rally, Slide, Drift>>, free |-> 6],
     [bars |-> <<Sweep, Rally, Slide, Drift, Drift, Slide, Drift, Rally>>, free |-> 4]}
MCForming == [t \in TimedTypes |-> 3]

\* A rising history: eight hourly bars and six five-minute bars.
Rising(tf, n) == [i \in 1 .. n |->
    [tf |-> tf, bar |-> [open |-> 9900 + 10 * i, high |-> 9915 + 10 * i, low |-> 9895 + 10 * i,
                         close |-> 9910 + 10 * i, volume |-> 10, session |-> 0, minute |-> i]]]
MCHistories == {<< >>, Rising("H1", 8) \o Rising("M5", 6)}
=============================================================================
