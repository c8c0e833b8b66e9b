------------------------------ MODULE TickFlow ------------------------------
(***************************************************************************)
(* The thesis engine's flow metrics (engines/thesis/engine.py,             *)
(* _compute_tick_flow) over its rolling window of trades [at, size, side], *)
(* at in seconds.  Ratios are in hundredths; None is a missing one.        *)
(***************************************************************************)
EXTENDS Integers, Sequences, Functions, FiniteSets

None == -1
NoDeviation == -1000000

Volume(trades) == FoldFunction(LAMBDA t, acc : t.size + acc, 0, trades)

Side(trades, side) == SelectSeq(trades, LAMBDA t : t.side = side)

\* Mutant: trades before the bar opened are trimmed.
trim_window_at_open(window, as_of) == SelectSeq(window, LAMBDA t : t.at >= as_of)

\* Only the head of the window is trimmed.
trim_window(window, as_of) ==
    LET old == {i \in 1 .. Len(window) : \A j \in 1 .. i : window[j].at < as_of - 30}
    IN  SubSeq(window, Cardinality(old) + 1, Len(window))

NoTick == [sell_ratio |-> None, buy_ratio |-> None, accel |-> 100, bar_delta |-> 0,
           absorption |-> FALSE, book_imbalance |-> NoDeviation]

\* avg is the session's trades per 100 seconds, imbalance that of the last quote.
compute_tick_flow(window, as_of, avg, imbalance) ==
    LET recent == trim_window(window, as_of)
        last10 == SelectSeq(recent, LAMBDA t : t.at >= as_of - 10)
        ratio(side) == LET n == Len(Side(last10, side))
                       IN  IF n = 0 \/ avg = 0 THEN None ELSE (1000 * n) \div avg
        accel  == IF Volume(recent) = 0 THEN 100 ELSE (300 * Volume(last10)) \div Volume(recent)
        delta  == Volume(Side(recent, "buy")) - Volume(Side(recent, "sell"))
    IN  IF window = << >> THEN NoTick
        ELSE [sell_ratio |-> ratio("sell"), buy_ratio |-> ratio("buy"), accel |-> accel,
              bar_delta |-> delta, absorption |-> delta > 0 /\ accel < 80,
              book_imbalance |-> imbalance]
=============================================================================
