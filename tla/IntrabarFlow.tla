---------------------------- MODULE IntrabarFlow ----------------------------
(***************************************************************************)
(* The intrabar flow engine of one symbol (engines/flow/intrabar.py) as a  *)
(* record e = [state, window, prior_low] and its handlers as operators on  *)
(* it.  Time counts one-second bars; a minute has MinuteSeconds of them.   *)
(***************************************************************************)
EXTENDS Integers, Sequences, FiniteSets

CONSTANTS
    MinuteSeconds,      \* one-second bars of a minute, 60 in the code
    LargeTrade,         \* large_trade_threshold
    AbsorptionEvery,    \* seconds of recovery between two absorption checks, 5 in the code
    HoldSeconds         \* seconds of recovery that give the full hold score, 15 in the code

ASSUME IntrabarAssumption ==
    /\ MinuteSeconds \in Nat \ {0} /\ AbsorptionEvery \in Nat \ {0} /\ HoldSeconds \in Nat \ {0}
    /\ LargeTrade \in Nat

None == -1

\* Field defaults of IntrabarState; open is the minute it belongs to.
IntrabarState(open) ==
    [open |-> open, buy |-> 0, sell |-> 0, trades |-> 0, high |-> None, low |-> None,
     swept |-> FALSE, sweep_at |-> None, sweep_delta |-> 0, recovery_delta |-> 0,
     recovery_seconds |-> 0, absorption |-> FALSE, elapsed |-> 0]

NewEngine == [state |-> IntrabarState(None), window |-> None, prior_low |-> None]

delta(s) == s.buy - s.sell

MinuteOf(at) == at \div MinuteSeconds

Abs(x) == IF x < 0 THEN -x ELSE x

\* _on_trade: the volumes, and the phase of the sweep the trade falls in.
intrabar_on_trade(e, t) ==
    LET s     == e.state
        phase == IF t.side = "buy" THEN t.size ELSE -t.size
    IN  [e EXCEPT !.state =
            [s EXCEPT !.buy = IF t.side = "buy" THEN @ + t.size ELSE @,
                      !.sell = IF t.side = "sell" THEN @ + t.size ELSE @,
                      !.trades = @ + 1,
                      !.recovery_delta = IF s.swept THEN @ + phase ELSE @,
                      !.sweep_delta = IF s.swept THEN @ ELSE @ + phase]]

\* _update_absorption_signal, confidence in hundredths
update_absorption_signal(s) ==
    LET ratio == (60 * Abs(s.recovery_delta)) \div Abs(s.sweep_delta)
        hold  == IF s.recovery_seconds >= HoldSeconds THEN 40
                 ELSE (40 * s.recovery_seconds) \div HoldSeconds
    IN  IF s.sweep_delta = 0 THEN s
        ELSE [s EXCEPT !.absorption = ratio + hold >= 50 /\ s.sell >= LargeTrade]

\* The updates of _process_s1_bar to a state: extremes, sweep, clock, recovery.
advance(s, bar, prior_low) ==
    LET lower  == s.low = None \/ bar.low < s.low
        sweeps == lower /\ prior_low # None /\ bar.low < prior_low /\ ~s.swept
        since  == IF sweeps THEN bar.at ELSE s.sweep_at
        next   == [s EXCEPT !.high = IF @ = None \/ bar.high > @ THEN bar.high ELSE @,
                            !.low = IF lower THEN bar.low ELSE @,
                            !.swept = @ \/ sweeps,
                            !.sweep_at = since,
                            !.elapsed = @ + 1,
                            !.recovery_seconds =
                                IF (s.swept \/ sweeps) /\ bar.at > since THEN @ + 1 ELSE @]
    IN  IF next.swept /\ next.recovery_seconds > 0
           /\ next.recovery_seconds % AbsorptionEvery = 0
        THEN update_absorption_signal(next)
        ELSE next

\* Mutant: the window is only replaced once the minute has gone by twice.
opens_window_late(e, bar) == e.window = None \/ MinuteOf(bar.at) > e.window + 1

opens_window(e, bar) == e.window # MinuteOf(bar.at)

\* _process_s1_bar: the first bar of a minute replaces the state, and its own
\* updates go to the state that was replaced.
process_s1_bar(e, bar) ==
    IF opens_window(e, bar)
    THEN [e EXCEPT !.window = MinuteOf(bar.at), !.state = IntrabarState(MinuteOf(bar.at))]
    ELSE [e EXCEPT !.state = advance(@, bar, e.prior_low)]

\* _on_bar for a one-minute bar
set_prior_bar_low(e, bar) == [e EXCEPT !.prior_low = bar.low]

intrabar_on_bar(e, bar) ==
    IF bar.kind = "S1" THEN process_s1_bar(e, bar) ELSE set_prior_bar_low(e, bar)
=============================================================================
