---------------------------- MODULE FeatureEngine ----------------------------
(***************************************************************************)
(* The feature engine (engines/feature/engine.py) for one symbol: the      *)
(* state one bar leaves for the next, and the snapshot built from it.      *)
(* Prices are integers (hundredths of a point); None stands for a missing  *)
(* price or ratio.  Percentages are integers in hundredths of a percent,   *)
(* ratios in hundredths, both rounded down.  Volume profiles and the       *)
(* purely descriptive fields of the snapshot are left out; a bar is        *)
(* [open, high, low, close, volume, session, minute].                      *)
(***************************************************************************)
EXTENDS Integers, Sequences, SequencesExt, TickFlow

CONSTANTS
    RegOpen, OrbEnd, EarlyEnd, MidEnd, CloseStart, RegClose, MaintClose,
                        \* minutes of a session at which its phases change
    IsFutures           \* asset class: futures are active outside cash hours

ASSUME CalendarAssumption ==
    /\ {RegOpen, OrbEnd, EarlyEnd, MidEnd, CloseStart, RegClose, MaintClose} \subseteq Nat
    /\ RegOpen < OrbEnd /\ OrbEnd <= EarlyEnd /\ EarlyEnd <= MidEnd /\ MidEnd <= CloseStart
    /\ CloseStart <= RegClose /\ RegClose <= MaintClose
    /\ IsFutures \in BOOLEAN

VARIABLES
    feat,           \* SymbolFeatureState of the symbol
    htf             \* its higher timeframes: m5, h1, and the M5 bars still pending


-----------------------------------------------------------------------------
(* Calendar *)

\* Phase of a minute of the session (boundaries of the calendar).
session_phase(m) ==
    CASE m < RegOpen     -> "PRE_MARKET"
      [] m < OrbEnd      -> "OPENING_RANGE"
      [] m < EarlyEnd    -> "EARLY"
      [] m < MidEnd      -> "MID"
      [] m < CloseStart  -> "POWER_HOUR"
      [] m < RegClose    -> "CLOSING"
      [] m < MaintClose  -> "AFTER_HOURS"
      [] OTHER           -> "CLOSED"

RthPhases == {"OPENING_RANGE", "EARLY", "MID", "POWER_HOUR", "CLOSING"}

-----------------------------------------------------------------------------
(* Helpers *)

\* deque(maxlen=n).append(x)
PushBounded(s, x, n) == Append(IF Len(s) < n THEN s ELSE Tail(s), x)

Mean(s) == FoldFunction(+, 0, s) \div Len(s)

AbsDiff(a, b) == IF a > b THEN a - b ELSE b - a

Highest(a, b) == IF a > b THEN a ELSE b

Points(b, n) == IF b THEN n ELSE 0

\* EMA step; p and prev are prices in hundredths
ema(p, prev, period) ==
    IF prev = None THEN p ELSE (2 * p + (period - 1) * prev) \div (period + 1)

\* Value of the volume-weighted average so far, 0 before any volume.
vwap(s) ==
    IF s.cumulative_volume = 0 THEN 0
    ELSE s.cumulative_vwap_num \div (3 * s.cumulative_volume)

-----------------------------------------------------------------------------
(* Session state *)

\* What every session starts with; the moving averages, the buffers of true
\* ranges and volumes and the last quote survive the change of session.
reset_session(s, key) ==
    [s EXCEPT
        !.session = key, !.bars_since_open = 0,
        !.cumulative_volume = 0, !.cumulative_vwap_num = 0,
        !.orb_high = None, !.orb_low = None, !.orb_established = FALSE,
        !.bars_above_vwap = 0, !.bars_below_vwap = 0,
        !.bars_below_vwap_at_cross = 0, !.bars_above_vwap_at_cross = 0,
        !.prev_side = "none", !.prev_dev = NoDeviation,
        !.vwap_deviation_shrinking = FALSE, !.vwap_cross_up = FALSE, !.vwap_cross_down = FALSE,
        !.intraday_high = None, !.intraday_low = None,
        !.is_new_hod = FALSE, !.is_new_lod = FALSE,
        !.is_higher_high = FALSE, !.is_lower_low = FALSE, !.is_lower_high = FALSE,
        !.prev_bar_high = None, !.prev_bar_low = None, !.prev_vwap = None,
        !.bars_since_last_lower_low = 999,
        !.vwap_touch_count = 0, !.last_vwap_outcome = "none", !.bars_since_last_vwap_touch = 0,
        !.last_cross_direction = "none", !.bars_since_cross = 0, !.touch_cooldown = 0,
        !.session_sweep_low = None, !.rth_intraday_low = None, !.is_new_rth_lod = FALSE,
        !.ema9_history = << >>, !.ema21_history = << >>, !.atr_30_buffer = << >>]

FreshState ==
    reset_session(
        [f \in {"session", "bars_since_open", "cumulative_volume", "cumulative_vwap_num",
                "orb_high", "orb_low", "orb_established", "bars_above_vwap", "bars_below_vwap",
                "bars_below_vwap_at_cross", "bars_above_vwap_at_cross", "prev_side", "prev_dev",
                "vwap_deviation_shrinking", "vwap_cross_up", "vwap_cross_down",
                "intraday_high", "intraday_low", "is_new_hod", "is_new_lod", "is_higher_high",
                "is_lower_low", "is_lower_high", "prev_bar_high", "prev_bar_low", "prev_vwap",
                "bars_since_last_lower_low", "vwap_touch_count", "last_vwap_outcome",
                "bars_since_last_vwap_touch", "last_cross_direction", "bars_since_cross",
                "touch_cooldown", "session_sweep_low", "rth_intraday_low", "is_new_rth_lod",
                "ema9_history", "ema21_history", "atr_30_buffer", "ema_9", "ema_21", "prev_close",
                "relative_volume", "latest_bid", "latest_ask", "atr_buffer", "volume_buffer"} |->
            IF f \in {"atr_buffer", "volume_buffer"} THEN << >> ELSE None],
        None)

-----------------------------------------------------------------------------
(* _update_state, in the order of the code *)

\* Cumulative volume and, in cash hours, opening range and session low.
accumulate(s, bar, phase) ==
    LET rth     == phase \in RthPhases
        inOrb   == rth /\ ~s.orb_established /\ bar.minute < OrbEnd
        rthLow  == rth /\ (s.rth_intraday_low = None \/ bar.low < s.rth_intraday_low)
    IN  [s EXCEPT
            !.prev_vwap = IF s.cumulative_volume > 0 THEN vwap(s) ELSE None,
            !.cumulative_volume = @ + bar.volume,
            !.cumulative_vwap_num = @ + (bar.high + bar.low + bar.close) * bar.volume,
            !.bars_since_open = IF rth THEN @ + 1 ELSE @,
            !.orb_high = IF inOrb THEN Highest(@, bar.high) ELSE @,
            !.orb_low = IF inOrb /\ (@ = None \/ bar.low < @) THEN bar.low ELSE @,
            !.orb_established = @ \/ (rth /\ bar.minute >= OrbEnd),
            !.is_new_rth_lod = IF rth THEN rthLow ELSE @,
            !.rth_intraday_low = IF rthLow THEN bar.low ELSE @]

\* Side of VWAP, length of the run on that side and crossings.
vwap_side(s, bar) ==
    LET v     == vwap(s)
        above == bar.close >= v
        dev   == ((bar.close - v) * 10000) \div v
        up    == s.prev_side = "below" /\ above
        down  == s.prev_side = "above" /\ ~above
    IN  [s EXCEPT
            !.bars_above_vwap = IF above THEN @ + 1 ELSE 0,
            !.bars_below_vwap = IF above THEN 0 ELSE @ + 1,
            !.vwap_cross_up = up, !.vwap_cross_down = down,
            !.bars_below_vwap_at_cross = IF up THEN s.bars_below_vwap ELSE @,
            !.bars_above_vwap_at_cross = IF down THEN s.bars_above_vwap ELSE @,
            !.prev_side = IF above THEN "above" ELSE "below",
            !.vwap_deviation_shrinking = s.prev_dev > 0 /\ dev < s.prev_dev /\ dev > 0,
            !.prev_dev = dev]

\* ATR-30 is a mean of at least two true ranges.
atr_30(s) == IF Len(s.atr_30_buffer) >= 2 THEN Mean(s.atr_30_buffer) ELSE None

\* Memory of the last touch of VWAP; a touch is not counted within the
\* cooldown of the one before.
vwap_touch(s, bar) ==
    LET v       == vwap(s)
        swept   == /\ bar.low < v /\ v <= bar.close
                   /\ atr_30(s) # None => 10 * bar.low < 10 * v - atr_30(s)
        open    == s.touch_cooldown = 0
        crossed == s.vwap_cross_up \/ s.vwap_cross_down
        touched == open /\ (crossed \/ swept)
        outcome == CASE s.vwap_cross_up -> "reclaimed"
                     [] s.vwap_cross_down ->
                            IF s.last_cross_direction = "up" /\ s.bars_since_cross <= 3
                            THEN "rejected" ELSE "broken"
                     [] OTHER -> "swept"
    IN  [s EXCEPT
            !.vwap_touch_count = IF touched THEN @ + 1 ELSE @,
            !.last_vwap_outcome = IF touched THEN outcome ELSE @,
            !.bars_since_last_vwap_touch =
                IF touched THEN 0 ELSE IF s.last_vwap_outcome # "none" THEN @ + 1 ELSE @,
            !.last_cross_direction =
                IF touched /\ crossed THEN IF s.vwap_cross_up THEN "up" ELSE "down" ELSE @,
            !.bars_since_cross =
                CASE touched /\ crossed -> 0
                  [] ~touched /\ s.last_cross_direction # "none" -> @ + 1
                  [] OTHER -> @,
            !.touch_cooldown = IF touched THEN 2 ELSE IF @ > 0 THEN @ - 1 ELSE 0,
            !.session_sweep_low =
                IF bar.low < v /\ (@ = None \/ bar.low < @) THEN bar.low ELSE @]

\* Flags of a bar whose VWAP is not yet positive.
no_vwap_flags(s) ==
    [s EXCEPT !.vwap_cross_up = FALSE, !.vwap_cross_down = FALSE,
              !.vwap_deviation_shrinking = FALSE]

\* Session extremes and comparison with the previous bar.
extremes(s, bar) ==
    LET hod == s.intraday_high = None \/ bar.high > s.intraday_high
        lod == s.intraday_low = None \/ bar.low < s.intraday_low
        ll  == s.prev_bar_low # None /\ bar.low < s.prev_bar_low
    IN  [s EXCEPT
            !.is_new_hod = hod, !.is_new_lod = lod,
            !.intraday_high = IF hod THEN bar.high ELSE @,
            !.intraday_low = IF lod THEN bar.low ELSE @,
            !.is_higher_high = s.prev_bar_high # None /\ bar.high > s.prev_bar_high,
            !.is_lower_low = ll,
            !.is_lower_high = s.prev_bar_high # None /\ bar.high < s.prev_bar_high,
            !.prev_bar_high = bar.high, !.prev_bar_low = bar.low,
            !.bars_since_last_lower_low =
                IF ll THEN 0 ELSE IF @ < 999 THEN @ + 1 ELSE @]

\* A bar outside the active session only clears the flags.
clear_flags(s) ==
    [no_vwap_flags(s) EXCEPT
        !.is_new_hod = FALSE, !.is_new_lod = FALSE, !.is_new_rth_lod = FALSE,
        !.is_higher_high = FALSE, !.is_lower_low = FALSE, !.is_lower_high = FALSE]

\* Moving averages, true range and relative volume, on every bar.
averages(s, bar) ==
    LET e9  == ema(bar.close, s.ema_9, 9)
        e21 == ema(bar.close, s.ema_21, 21)
        tr  == Highest(bar.high - bar.low,
                       Highest(AbsDiff(bar.high, s.prev_close), AbsDiff(bar.low, s.prev_close)))
        avg == Mean(s.volume_buffer)
    IN  [s EXCEPT
            !.ema_9 = e9, !.ema_21 = e21,
            !.ema9_history = PushBounded(@, e9, 4), !.ema21_history = PushBounded(@, e21, 4),
            !.atr_buffer = IF s.prev_close = None THEN @ ELSE PushBounded(@, tr, 14),
            !.atr_30_buffer = IF s.prev_close = None THEN @ ELSE PushBounded(@, tr, 30),
            !.prev_close = bar.close,
            !.relative_volume = IF s.volume_buffer = << >> \/ avg = 0 THEN None
                                ELSE (100 * bar.volume) \div avg,
            !.volume_buffer = PushBounded(@, bar.volume, 20)]

update_state(s, bar) ==
    LET phase  == session_phase(bar.minute)
        rolled == IF s.session # bar.session THEN reset_session(s, bar.session) ELSE s
        active == phase \in RthPhases \/ (IsFutures /\ phase # "CLOSED")
        acc    == accumulate(rolled, bar, phase)
        sided  == IF vwap(acc) > 0 THEN vwap_touch(vwap_side(acc, bar), bar)
                                   ELSE no_vwap_flags(acc)
    IN  averages(IF active THEN extremes(sided, bar) ELSE clear_flags(rolled), bar)

-----------------------------------------------------------------------------
(* Higher timeframes *)

\* Direction of the normalised slope (h[4] - h[1]) / (3 * atr) against the flat
\* threshold of the timeframe, in hundredths.
slope_direction(h, atr, flat) ==
    CASE Len(h) < 4 \/ atr = None \/ atr <= 0       -> "none"
      [] 100 * (h[4] - h[1]) > 3 * flat * atr       -> "up"
      [] 100 * (h[4] - h[1]) < -(3 * flat * atr)    -> "down"
      [] OTHER                                      -> "flat"

Flat1m == 5
Flat5m == 3
Flat1h == 2
MinSamples5m == 5   \* true ranges before a timeframe's ATR counts
MinSamples1h == 3

NoRibbon == [low |-> None, high |-> None, center |-> None, width |-> None,
             stack |-> "none", alignment |-> "none", location |-> "none",
             percentile |-> None, slope_3h |-> None]

\* _HTFEMAState of a timeframe that has seen no bar.
NoFrame == [ema_9 |-> None, ema_21 |-> None, ema_50 |-> None,
            ema9_history |-> << >>, ema21_history |-> << >>, ema50_history |-> << >>,
            prev_close |-> None, atr30_buffer |-> << >>, samples |-> 0, atr30 |-> None,
            last_sealed_ts |-> None, widths |-> << >>, ribbon |-> NoRibbon]

NoHtf == [m5 |-> NoFrame, h1 |-> NoFrame, pending |-> << >>]

\* Moving averages and true range of one sealed bar of the timeframe.
update_htf_ema(f, bar, min) ==
    LET e9      == ema(bar.close, f.ema_9, 9)
        e21     == ema(bar.close, f.ema_21, 21)
        e50     == ema(bar.close, f.ema_50, 50)
        first   == f.prev_close = None
        tr      == Highest(bar.high - bar.low,
                       Highest(AbsDiff(bar.high, f.prev_close), AbsDiff(bar.low, f.prev_close)))
        ranges  == IF first THEN f.atr30_buffer ELSE PushBounded(f.atr30_buffer, tr, 30)
        samples == IF first THEN f.samples ELSE f.samples + 1
    IN  [f EXCEPT
            !.ema_9 = e9, !.ema_21 = e21, !.ema_50 = e50,
            !.ema9_history = PushBounded(@, e9, 4), !.ema21_history = PushBounded(@, e21, 4),
            !.ema50_history = PushBounded(@, e50, 4),
            !.last_sealed_ts = bar.minute, !.prev_close = bar.close,
            !.atr30_buffer = ranges, !.samples = samples,
            !.atr30 = IF ~first /\ samples >= min THEN Mean(ranges) ELSE @]

\* Where a close lies: beyond an edge of the ribbon or inside it.
location(close, low, high) ==
    CASE close > high -> "above" [] close < low -> "below" [] OTHER -> "inside"

\* The ribbon of the hourly averages, once its ATR is warm; until then, and again
\* whenever the ATR is 0, the ribbon is carried forward.  The width is ranked among
\* the widths before it and only then joins them.
update_ribbon(f, bar) ==
    LET emas  == {f.ema_9, f.ema_21, f.ema_50}
        low   == CHOOSE x \in emas : \A y \in emas : x <= y
        high  == CHOOSE x \in emas : \A y \in emas : x >= y
        width == (100 * (high - low)) \div f.atr30
        dirs  == {slope_direction(h, f.atr30, Flat1h) :
                    h \in {f.ema9_history, f.ema21_history, f.ema50_history}}
        past  == f.widths
        last  == SubSeq(past, Highest(1, Len(past) - 59), Len(past))
    IN  IF f.atr30 = None \/ f.atr30 <= 0 THEN f
        ELSE [f EXCEPT
            !.widths = PushBounded(@, width, 120),
            !.ribbon = [low |-> low, high |-> high,
                        center |-> (f.ema_9 + f.ema_21 + f.ema_50) \div 3, width |-> width,
                        stack |-> CASE f.ema_9 > f.ema_21 /\ f.ema_21 > f.ema_50 -> "bullish"
                                    [] f.ema_9 < f.ema_21 /\ f.ema_21 < f.ema_50 -> "bearish"
                                    [] OTHER -> "mixed",
                        alignment |-> CASE dirs = {"up"}   -> "bullish"
                                        [] dirs = {"down"} -> "bearish"
                                        [] dirs = {"flat"} -> "flat"
                                        [] OTHER           -> "mixed",
                        location |-> location(bar.close, low, high),
                        percentile |-> IF last = << >> THEN None
                            ELSE (100 * Cardinality({i \in DOMAIN last : last[i] <= width}))
                                 \div Len(last),
                        slope_3h |-> IF Len(past) < 3 THEN None
                                     ELSE (width - past[Len(past) - 2]) \div 3]]

\* Where the close of a one-minute bar lies against the hourly ribbon carried forward.
m1_ribbon_location(close, h1) ==
    IF h1.ribbon.low = None \/ h1.atr30 = None \/ h1.atr30 <= 0 THEN "none"
    ELSE location(close, h1.ribbon.low, h1.ribbon.high)

\* _handle_bar in pipeline mode: an hourly bar is used at once, a five-minute bar
\* waits for the next one-minute bar.
handle_bar(h, tf, bar) ==
    IF tf = "H1" THEN [h EXCEPT !.h1 = update_ribbon(update_htf_ema(@, bar, MinSamples1h), bar)]
    ELSE [h EXCEPT !.pending = Append(@, bar)]

\* process_bar begins by taking the pending five-minute bars, in order.
flush_pending(h) ==
    [h EXCEPT !.m5 = FoldLeft(LAMBDA f, bar : update_htf_ema(f, bar, MinSamples5m), @, h.pending),
              !.pending = << >>]

-----------------------------------------------------------------------------
(* Snapshot *)

\* Direction of the VWAP against 0.002 percent.
vwap_slope_direction(s) ==
    LET d == vwap(s) - s.prev_vwap
    IN  CASE s.prev_vwap = None \/ s.prev_vwap <= 0 -> "none"
          [] 50000 * d > s.prev_vwap  -> "up"
          [] -50000 * d > s.prev_vwap -> "down"
          [] OTHER                    -> "flat"

or_position(s, bar) ==
    CASE ~s.orb_established \/ s.orb_high = None \/ s.orb_low = None -> "none"
      [] bar.close > s.orb_high -> "ABOVE"
      [] bar.close < s.orb_low  -> "BELOW"
      [] OTHER                  -> "INSIDE"

\* Where the bar lies against VWAP, the opening range and its own extent.
bar_geometry(s, bar) ==
    LET v == vwap(s) IN
    [vwap_deviation_pct |-> IF v = 0 THEN 0 ELSE ((bar.close - v) * 10000) \div v,
     or_mid |-> IF s.orb_high # None /\ s.orb_low # None
                THEN (s.orb_high + s.orb_low) \div 2 ELSE None,
     atr_14 |-> IF s.atr_buffer = << >> THEN None ELSE Mean(s.atr_buffer),
     close_position |-> IF bar.high = bar.low THEN None
                        ELSE (100 * (bar.close - bar.low)) \div (bar.high - bar.low),
     recent_lower_low |-> s.bars_since_last_lower_low <= 10,
     swept_below_vwap |-> v > 0 /\ bar.low < v /\ bar.close >= v,
     swept_or_low |-> s.orb_low # None /\ bar.low < s.orb_low]

\* The snapshot downstream engines read.  The fields for the crossing of the
\* opening range exist with their defaults; nothing ever sets them.
build_snapshot(s, h, bar) ==
    LET v == vwap(s)
        g == bar_geometry(s, bar) IN
    [bar |-> bar, vwap |-> v, session_phase |-> session_phase(bar.minute),
     vwap_deviation_pct |-> g.vwap_deviation_pct,
     relative_volume |-> s.relative_volume,
     or_high |-> s.orb_high, or_low |-> s.orb_low,
     or_mid |-> g.or_mid,
     or_established |-> or_position(s, bar) # "none", or_position |-> or_position(s, bar),
     or_cross_down |-> FALSE, or_cross_up |-> FALSE,
     ema_9 |-> s.ema_9, ema_21 |-> s.ema_21,
     ema9_slope |-> slope_direction(s.ema9_history, atr_30(s), Flat1m),
     ema21_slope |-> slope_direction(s.ema21_history, atr_30(s), Flat1m),
     ema9_5m |-> h.m5.ema_9, ema21_5m |-> h.m5.ema_21,
     ema9_5m_slope |-> slope_direction(h.m5.ema9_history, h.m5.atr30, Flat5m),
     ema21_5m_slope |-> slope_direction(h.m5.ema21_history, h.m5.atr30, Flat5m),
     htf_5m_watermark |-> h.m5.last_sealed_ts, htf_1h_watermark |-> h.h1.last_sealed_ts,
     ribbon_1h |-> h.h1.ribbon, m1_ribbon_1h |-> m1_ribbon_location(bar.close, h.h1),
     vwap_slope |-> vwap_slope_direction(s),
     atr_14 |-> g.atr_14,
     atr_30 |-> atr_30(s),
     is_above_vwap |-> bar.close >= v,
     bars_above_vwap |-> s.bars_above_vwap, bars_below_vwap |-> s.bars_below_vwap,
     vwap_cross_up |-> s.vwap_cross_up, vwap_cross_up_after_bars |-> s.bars_below_vwap_at_cross,
     vwap_cross_down |-> s.vwap_cross_down,
     vwap_cross_down_after_bars |-> s.bars_above_vwap_at_cross,
     vwap_deviation_shrinking |-> s.vwap_deviation_shrinking,
     close_position |-> g.close_position,
     intraday_high |-> s.intraday_high, intraday_low |-> s.intraday_low,
     is_new_hod |-> s.is_new_hod, is_new_lod |-> s.is_new_lod,
     is_new_rth_lod |-> s.is_new_rth_lod,
     is_higher_high |-> s.is_higher_high, is_lower_low |-> s.is_lower_low,
     is_lower_high |-> s.is_lower_high,
     recent_lower_low |-> g.recent_lower_low,
     swept_below_vwap |-> g.swept_below_vwap, swept_or_low |-> g.swept_or_low,
     bars_since_open |-> s.bars_since_open]

-----------------------------------------------------------------------------
(* Trades and quotes between bars *)

\* Mutant: no guard against off-market prints.
record_trade_unguarded(s, price) ==
    [s EXCEPT !.intraday_high = Highest(@, price),
              !.intraday_low = IF @ = None \/ price < @ THEN price ELSE @]

\* record_trade: every trade tick moves the session extremes at once, unless
\* it is too far from the quote.
record_trade(s, price) ==
    LET twice  == s.latest_bid + s.latest_ask
        spread == s.latest_ask - s.latest_bid
        band   == Highest(twice, 60000 * spread)
        off    == /\ s.latest_bid # None /\ s.latest_ask # None /\ band > 0
                  /\ 1000 * AbsDiff(2 * price, twice) > band
    IN  IF off THEN s
        ELSE [s EXCEPT !.intraday_high = Highest(@, price),
                       !.intraday_low = IF @ = None \/ price < @ THEN price ELSE @]

\* _handle_quote
handle_quote(s, bid, ask) == [s EXCEPT !.latest_bid = bid, !.latest_ask = ask]
=============================================================================
