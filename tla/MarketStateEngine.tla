-------------------------- MODULE MarketStateEngine --------------------------
(***************************************************************************)
(* The market-state engine (engines/market_state/engine.py) for one        *)
(* symbol: trend, VWAP regime, the day type that locks after enough equal  *)
(* candidates, and the trade permission derived from it.  Its sessions are *)
(* calendar dates in UTC (bar.date), not the sessions of the calendar the  *)
(* other engines use (bar.session).  Confidence is in hundredths.          *)
(***************************************************************************)
EXTENDS FeatureEngine, FiniteSets

CONSTANTS
    DayTypeMinBars,         \* _DAY_TYPE_MIN_BARS
    ConfirmationWidth       \* _DAY_TYPE_CONFIRMATION_WIDTH

ASSUME MarketStateAssumption ==
    /\ DayTypeMinBars \in Nat
    /\ ConfirmationWidth \in Nat \ {0}

VARIABLE market             \* the engine's memory of the symbol

NoMarket == [day_type |-> "UNKNOWN", locked_in |-> None, date |-> None, candidates |-> << >>,
             last_trend |-> "none", trend_bars |-> 0]

-----------------------------------------------------------------------------
classify_trend(sn) ==
    CASE sn.ema_9 = None \/ sn.ema_21 = None                  -> "UNKNOWN"
      [] sn.ema_9 > sn.ema_21 /\ sn.bar.close > sn.ema_9      -> "TRENDING_UP"
      [] sn.ema_9 < sn.ema_21 /\ sn.bar.close < sn.ema_9      -> "TRENDING_DOWN"
      [] OTHER                                                -> "CHOPPY"

classify_vwap(sn) ==
    CASE sn.vwap_cross_up          -> "RECLAIMING"
      [] sn.vwap_cross_down        -> "REJECTING"
      [] sn.bar.close > sn.vwap    -> "ABOVE"
      [] OTHER                     -> "BELOW"

AboveVwap(v) == v \in {"ABOVE", "RECLAIMING"}

classify_live_bias(trend, v) ==
    CASE trend = "UNKNOWN"                          -> "UNKNOWN"
      [] trend = "TRENDING_UP" /\ AboveVwap(v)      -> "BULLISH"
      [] trend = "TRENDING_DOWN" /\ ~AboveVwap(v)   -> "BEARISH"
      [] trend = "TRENDING_DOWN" /\ AboveVwap(v)    -> "TRANSITIONING_BEARISH"
      [] trend = "TRENDING_UP" /\ ~AboveVwap(v)     -> "TRANSITIONING_BULLISH"
      [] OTHER                                      -> "NEUTRAL"

Bearish == {"BEARISH", "TRANSITIONING_BEARISH"}
Bullish == {"BULLISH", "TRANSITIONING_BULLISH"}

\* A new date forgets the trend run and the day type.
roll_date(m, date) ==
    IF m.date = date THEN m ELSE [NoMarket EXCEPT !.date = date]

track_trend_bars(m, trend) ==
    [m EXCEPT !.trend_bars = IF m.last_trend = trend THEN @ + 1 ELSE 1,
              !.last_trend = trend]

day_type_candidate(sn, trend, v) ==
    CASE sn.or_position = "ABOVE" /\ AboveVwap(v) /\ trend = "TRENDING_UP"     -> "TREND_UP"
      [] sn.or_position = "BELOW" /\ ~AboveVwap(v) /\ trend = "TRENDING_DOWN"  -> "TREND_DOWN"
      [] sn.or_position = "INSIDE"                                             -> "RANGE"
      [] OTHER                                                                 -> "BALANCED"

\* Candidates slide through a window; the day type locks when they agree.
classify_day_type(m, sn, trend, v) ==
    LET window == PushBounded(m.candidates, day_type_candidate(sn, trend, v), ConfirmationWidth)
        agreed == Len(window) = ConfirmationWidth /\ Cardinality(Range(window)) = 1
    IN  CASE m.day_type # "UNKNOWN" -> m
          [] m.day_type = "UNKNOWN"
             /\ (~sn.or_established \/ sn.bars_since_open < DayTypeMinBars) -> m
          [] OTHER ->
                IF agreed THEN [m EXCEPT !.day_type = window[1], !.candidates = << >>,
                                         !.locked_in = sn.bar.session]
                ELSE [m EXCEPT !.candidates = window]

compute_day_type_confidence(dt, sn, trend, v) ==
    LET dev == AbsDiff(sn.vwap_deviation_pct, 0)
        with(t) == IF trend = t THEN 40 ELSE Points(trend = "CHOPPY", 10)
    IN  CASE dt = "UNKNOWN" -> CASE sn.bars_since_open < 5               -> 20
                                 [] sn.bars_since_open \in 5 .. 14       -> 35
                                 [] sn.bars_since_open >= 15
                                    /\ sn.bars_since_open < DayTypeMinBars -> 50
                                 [] OTHER                                -> 60
          [] dt = "TREND_UP" -> with("TRENDING_UP") + Points(AboveVwap(v), 25)
                                + Points(sn.is_higher_high, 20) + Points(~sn.is_new_lod, 15)
          [] dt = "TREND_DOWN" -> with("TRENDING_DOWN") + Points(~AboveVwap(v), 25)
                                + Points(sn.is_new_lod, 20) + Points(~sn.is_higher_high, 15)
          [] dt = "RANGE" -> Points(trend = "CHOPPY", 40) + Points(sn.or_position = "INSIDE", 35)
                             + Points(dev < 300, (25 * (300 - dev)) \div 300)
          [] dt = "BALANCED" -> 40 + Points(trend = "CHOPPY", 20)

compute_day_type_status(dt, confidence) ==
    CASE dt = "UNKNOWN"      -> "FORMING"
      [] dt # "UNKNOWN" /\ confidence >= 55 -> "LOCKED_HEALTHY"
      [] dt # "UNKNOWN" /\ confidence >= 30 /\ confidence < 55 -> "STRESSED"
      [] OTHER               -> "INVALIDATED"

\* Sides the day type forbids.
blocked_sides(dt, status, bias) ==
    LET against(side, bad) ==
            \* a trend day blocks the other side while healthy, or stressed with
            \* the bias; invalidated against the bias, it blocks its own side
            LET other == IF side = "long" THEN "short" ELSE "long"
                good  == IF side = "long" THEN Bullish ELSE Bearish
            IN  CASE status = "LOCKED_HEALTHY"                  -> {other}
                  [] status = "INVALIDATED" /\ bias \in bad     -> {side}
                  [] status = "STRESSED" /\ bias \in good       -> {other}
                  [] OTHER                                      -> {}
    IN  CASE dt = "UNKNOWN"     -> {}
          [] dt = "TREND_UP"    -> against("long", Bearish)
          [] dt = "TREND_DOWN"  -> against("short", Bullish)
          [] dt \in {"RANGE", "BALANCED"} /\ status = "INVALIDATED" /\ bias \in Bearish -> {"long"}
          [] dt \in {"RANGE", "BALANCED"} /\ status = "INVALIDATED" /\ bias \in Bullish -> {"short"}
          [] OTHER              -> {}

\* _classify: the engine's next memory for a snapshot
classify(m, sn) ==
    LET trend == classify_trend(sn)
    IN  classify_day_type(track_trend_bars(roll_date(m, sn.bar.date), trend), sn, trend,
                          classify_vwap(sn))

\* The MarketState built from a snapshot and the memory it left.
market_state(m, sn) ==
    LET trend  == classify_trend(sn)
        v      == classify_vwap(sn)
        conf   == compute_day_type_confidence(m.day_type, sn, trend, v)
        status == compute_day_type_status(m.day_type, conf)
        bias   == classify_live_bias(trend, v)
    IN  [trend |-> trend, trend_bars |-> m.trend_bars, vwap_state |-> v,
         day_type |-> m.day_type, day_type_status |-> status, live_bias |-> bias,
         blocked |-> blocked_sides(m.day_type, status, bias)]
=============================================================================
