----------------------------- MODULE SetupEngine -----------------------------
(***************************************************************************)
(* The setup engine (engines/setup/engine.py) for one symbol: detection,    *)
(* the lifecycle                                                           *)
(* FORMING -> CONFIRMED -> TRIGGERED or FAILED / INVALIDATED / EXPIRED,    *)
(* the cooldown and the session history.                                    *)
(*                                                                         *)
(* Levels (entry, stop, target) are prices times 10000, so that stops such *)
(* as low * 0.9995 are exact.  A setup is identified by its type and the   *)
(* bar that opened it, as its uuid5 is.                                    *)
(***************************************************************************)
EXTENDS FeatureEngine, FiniteSets

CONSTANTS
    CooldownBars,       \* _COOLDOWN_BARS
    FormingLimit        \* type -> bars a setup may stay FORMING

VARIABLE setups         \* the engine's memory of the symbol: a record of
                        \*   active      _active: setup id -> setup
                        \*   last_close  _last_close_bar: type -> bar count, or None
                        \*   bar_count   _bar_counts
                        \*   session     _session_keys
                        \*   history     setups of the session context: id -> entry
                        \*   previous    setups of the previous session's context
                        \*   triggered   _setups_triggered

LongTypes == {"VWAP_UNDERCUT_RECLAIM", "SWEEP_RECLAIM", "FAKE_BREAKDOWN",
              "DEEP_EXHAUSTION_RECLAIM", "HOD_BREAKOUT", "TREND_PULLBACK",
              "VWAP_RECLAIM", "ORB_BREAKOUT"}
ShortTypes == {"VWAP_REJECTION", "VWAP_FAILED_RECLAIM_SHORT", "TREND_PULLBACK_SHORT",
               "ORB_BREAKDOWN"}
\* These two wait for a state that only their detectors set, and the scan
\* never calls a detector.
TrackedTypes == {"ONL_SWEEP_RECLAIM_LONG", "DOUBLE_BOTTOM_RECLAIM_LONG"}
SetupTypes == LongTypes \cup ShortTypes \cup TrackedTypes
TimedTypes == {"VWAP_UNDERCUT_RECLAIM", "SWEEP_RECLAIM", "FAKE_BREAKDOWN",
               "DEEP_EXHAUSTION_RECLAIM", "VWAP_FAILED_RECLAIM_SHORT", "TREND_PULLBACK_SHORT"}

ASSUME SetupAssumption ==
    /\ CooldownBars \in Nat
    /\ FormingLimit \in [TimedTypes -> Nat]

Terminal == {"TRIGGERED", "FAILED", "INVALIDATED", "EXPIRED"}

\* A price is more than bps hundredths of a percent below another.
Below(p, q, bps) == p * 10000 < q * (10000 - bps)
Level(p) == p * 10000

AtLeast(x, bound) == x = None \/ x >= bound     \* an optional ratio, when present

-----------------------------------------------------------------------------
(* Detection: each holds when _reason_<type> returns None *)

reason_vwap_undercut_reclaim(sn) ==
    /\ sn.bars_below_vwap \in 1 .. 5
    /\ ~Below(sn.bar.low, sn.vwap, 15)
    /\ AtLeast(sn.close_position, 45)
    /\ sn.ema_9 # None => ~Below(sn.bar.close, sn.ema_9, 30)

reason_sweep_reclaim(sn) ==
    /\ sn.swept_or_low
    /\ sn.bar.close > sn.or_low
    /\ AtLeast(sn.close_position, 50)
    /\ AtLeast(sn.relative_volume, 110)
    /\ ~ /\ sn.ema_9 # None /\ sn.ema_21 # None
         /\ sn.bar.close < sn.ema_9 /\ sn.bar.close < sn.ema_21 /\ sn.ema_9 < sn.ema_21

reason_fake_breakdown(sn) ==
    /\ sn.bars_below_vwap >= 1
    /\ sn.swept_or_low
    /\ sn.bar.close > sn.or_low
    /\ ~Below(sn.bar.low, sn.or_low, 30)
    /\ AtLeast(sn.close_position, 55)
    /\ AtLeast(sn.relative_volume, 120)

reason_deep_exhaustion_reclaim(sn) ==
    /\ sn.bar.low * 10000 <= sn.vwap * 9965
    /\ sn.is_new_lod
    /\ AtLeast(sn.relative_volume, 150)
    /\ AtLeast(sn.close_position, 35)

reason_hod_breakout(sn) ==
    /\ sn.or_established /\ sn.or_high # None /\ sn.intraday_high # None
    /\ sn.intraday_high > sn.or_high
    /\ sn.is_above_vwap
    /\ sn.is_higher_high
    /\ (sn.intraday_high - sn.bar.close) * 1000 <= sn.intraday_high * 2

reason_trend_pullback(sn) ==
    /\ sn.bars_above_vwap >= 5
    /\ sn.vwap_deviation_shrinking
    /\ sn.vwap_deviation_pct > 0 /\ sn.vwap_deviation_pct <= 50

reason_vwap_failed_reclaim_short(sn) ==
    /\ sn.bars_below_vwap >= 3
    /\ ~Below(sn.bar.high, sn.vwap, 5)
    /\ ~sn.is_above_vwap
    /\ sn.close_position # None => sn.close_position <= 50
    /\ ~(sn.ema_9 # None /\ sn.ema_21 # None /\ sn.ema_9 > sn.ema_21)
    /\ sn.vwap_slope # "up"
    /\ ~(sn.ema9_slope = "up" /\ sn.ema_9 # None /\ sn.bar.close >= sn.ema_9)

reason_trend_pullback_short(sn) ==
    /\ sn.bars_below_vwap >= 5
    /\ sn.ema_9 # None /\ sn.ema_21 # None
    /\ sn.ema_9 < sn.ema_21
    /\ sn.ema9_slope # "up" /\ sn.ema21_5m_slope # "up"
    /\ sn.recent_lower_low
    /\ ~sn.is_new_lod
    /\ ~Below(sn.bar.high, sn.ema_9, 30)
    /\ sn.bar.close < sn.ema_9

reason_vwap_reclaim(sn) ==
    /\ sn.vwap_cross_up
    /\ sn.vwap_cross_up_after_bars >= 2
    /\ sn.vwap_deviation_pct >= 5
    /\ AtLeast(sn.close_position, 50)

vwap_rejection_alignment(sn) ==
    /\ sn.ema_9 # None => sn.bar.close < sn.ema_9
    /\ sn.ema_21 # None => sn.bar.close < sn.ema_21
    /\ sn.ema9_slope \in {"none", "down"}
    /\ sn.ema9_5m # None => sn.ema9_5m <= sn.ema21_5m
    /\ sn.ema9_5m_slope # "up" /\ sn.ema21_5m_slope # "up"

reason_vwap_rejection(sn) ==
    /\ sn.vwap_cross_down
    /\ sn.vwap_cross_down_after_bars >= 2
    /\ sn.vwap_deviation_pct <= -5
    /\ sn.close_position # None => sn.close_position <= 50
    /\ vwap_rejection_alignment(sn)

reason_orb_breakout(sn) ==
    /\ sn.or_high # None
    /\ sn.or_position = "ABOVE"
    /\ sn.is_above_vwap
    /\ sn.bar.close > sn.or_high
    /\ ~(sn.bar.open > sn.or_high /\ sn.bar.low > sn.or_high)

reason_orb_breakdown(sn) ==
    /\ sn.or_low # None
    /\ sn.or_cross_down
    /\ ~sn.is_above_vwap
    /\ sn.bar.close < sn.or_low

detector_reason(t, sn) ==
    CASE t = "VWAP_UNDERCUT_RECLAIM"     -> reason_vwap_undercut_reclaim(sn)
      [] t = "SWEEP_RECLAIM"             -> reason_sweep_reclaim(sn)
      [] t = "FAKE_BREAKDOWN"            -> reason_fake_breakdown(sn)
      [] t = "DEEP_EXHAUSTION_RECLAIM"   -> reason_deep_exhaustion_reclaim(sn)
      [] t = "HOD_BREAKOUT"              -> reason_hod_breakout(sn)
      [] t = "TREND_PULLBACK"            -> reason_trend_pullback(sn)
      [] t = "VWAP_RECLAIM"              -> reason_vwap_reclaim(sn)
      [] t = "VWAP_REJECTION"            -> reason_vwap_rejection(sn)
      [] t = "VWAP_FAILED_RECLAIM_SHORT" -> reason_vwap_failed_reclaim_short(sn)
      [] t = "TREND_PULLBACK_SHORT"      -> reason_trend_pullback_short(sn)
      [] t = "ORB_BREAKOUT"              -> reason_orb_breakout(sn)
      [] t = "ORB_BREAKDOWN"             -> reason_orb_breakdown(sn)
      [] t \in TrackedTypes              -> FALSE

-----------------------------------------------------------------------------
(* Levels *)

\* R multiple of the target, doubled (1.5 is the only fraction).
target_mult(side, ms) ==
    LET bullish == ms.live_bias \in {"BULLISH", "TRANSITIONING_BULLISH"}
        bearish == ms.live_bias \in {"BEARISH", "TRANSITIONING_BEARISH"}
        with    == IF side = "buy" THEN "TREND_UP" ELSE "TREND_DOWN"
        against == IF side = "buy" THEN "TREND_DOWN" ELSE "TREND_UP"
    IN  CASE (side = "buy" /\ bullish) \/ (side = "sell" /\ bearish) -> 8
          [] (side = "buy" /\ bearish) \/ (side = "sell" /\ bullish) -> 4
          [] ms.day_type = with      -> 8
          [] ms.day_type = against   -> 4
          [] ms.day_type = "RANGE"   -> 3
          [] OTHER                   -> 6

\* The risk is wider than 1.5 ATR, or 0.5 percent of the entry without ATR.
risk_width_rejection(entry, stop, sn) ==
    LET risk == AbsDiff(entry, stop)
    IN  IF sn.atr_14 # None THEN 2 * risk > 3 * Level(sn.atr_14)
                            ELSE 200 * risk > entry

\* A multiple of the distance from the stop, on the other side of the entry.
By_R(side, entry, stop, ms) == entry + ((entry - stop) * target_mult(side, ms)) \div 2

-----------------------------------------------------------------------------
(* Lifecycle: the two halves every _advance_<type> is made of *)

Move(s, state) == [s EXCEPT !.state = state]

\* FORMING: count the bar, invalidate, or confirm with levels that pass the
\* risk width (gate FALSE: no such check).
Forming(s, sn, invalid, confirm, entry, stop, target, gate) ==
    LET counted == [s EXCEPT !.bars = @ + 1]
    IN  CASE invalid -> Move(counted, "INVALIDATED")
          [] ~invalid /\ confirm /\ gate /\ risk_width_rejection(entry, stop, sn) ->
                Move(counted, "INVALIDATED")
          [] ~invalid /\ confirm /\ ~(gate /\ risk_width_rejection(entry, stop, sn)) ->
                [counted EXCEPT !.state = "CONFIRMED", !.entry = entry, !.stop = stop,
                                !.target = target]
          [] OTHER -> counted

\* CONFIRMED: invalidate, then trigger, then stop.
Confirmed(s, sn, side, invalid) ==
    LET trig == IF side = "buy" THEN Level(sn.bar.high) >= s.entry ELSE Level(sn.bar.low) <= s.entry
        hit  == IF side = "buy" THEN Level(sn.bar.low) <= s.stop ELSE Level(sn.bar.high) >= s.stop
    IN  CASE invalid              -> Move(s, "INVALIDATED")
          [] ~invalid /\ trig     -> Move(s, "TRIGGERED")
          [] ~invalid /\ ~trig /\ hit -> Move(s, "FAILED")
          [] OTHER                -> s

\* A bar of the setup: one half or the other.
Advance(s, sn, side, broken, invalid, confirm, entry, stop, target, gate) ==
    IF s.state = "CONFIRMED" THEN Confirmed(s, sn, side, broken)
    ELSE Forming(s, sn, invalid, confirm, entry, stop, target, gate)

Late(s) == s.bars + 1 > FormingLimit[s.type]

\* Stops a little under the bar of the detection and under the opening range.
UnderLow(s) == s.snap.bar.low * 9995
UnderRange(sn) == sn.or_high * 9990

advance_vwap_undercut_reclaim(s, sn, ms) ==
    LET entry == Level(sn.vwap)
    IN  Advance(s, sn, "buy", FALSE,
            Below(sn.bar.low, sn.vwap, 15) \/ sn.bars_below_vwap > 6 \/ Late(s),
            /\ sn.vwap_cross_up /\ AtLeast(sn.relative_volume, 100)
            /\ AtLeast(sn.close_position, 50) /\ ~sn.is_lower_low,
            entry, UnderLow(s), By_R("buy", entry, UnderLow(s), ms), TRUE)

advance_sweep_reclaim(s, sn, ms) ==
    LET entry == Level(sn.bar.high)
    IN  Advance(s, sn, "buy", FALSE,
            sn.bar.low < s.snap.bar.low \/ Late(s),
            /\ sn.or_low # None /\ sn.bar.close > sn.or_low /\ ~sn.is_lower_low
            /\ (sn.vwap_deviation_shrinking \/ sn.is_above_vwap)
            /\ AtLeast(sn.relative_volume, 80),
            entry, UnderLow(s), By_R("buy", entry, UnderLow(s), ms), TRUE)

advance_fake_breakdown(s, sn, ms) ==
    LET entry == Level(sn.bar.close)
    IN  Advance(s, sn, "buy", sn.vwap_cross_down,
            \/ sn.bar.close < s.snap.bar.low \/ Below(sn.bar.low, s.snap.bar.low, 5)
            \/ sn.bars_below_vwap > 8 \/ Late(s),
            /\ sn.vwap_cross_up /\ sn.is_above_vwap /\ AtLeast(sn.relative_volume, 120)
            /\ AtLeast(sn.close_position, 50)
            /\ (sn.or_mid # None => sn.bar.close > sn.or_mid)
            /\ (sn.ema_9 # None => sn.bar.close >= sn.ema_9) /\ ~sn.is_lower_low,
            entry, UnderLow(s), By_R("buy", entry, UnderLow(s), ms), TRUE)

advance_deep_exhaustion_reclaim(s, sn, ms) ==
    LET newLow == sn.is_new_lod /\ sn.bar.low < s.snap.bar.low
        entry  == Level(sn.bar.high)
    IN  Advance(s, sn, "buy", newLow,
            newLow \/ sn.vwap_deviation_pct < -70 \/ Late(s),
            /\ s.bars + 1 >= 3 /\ (sn.ema_9 # None => sn.bar.close >= sn.ema_9)
            /\ sn.vwap_deviation_shrinking,
            entry, UnderLow(s), By_R("buy", entry, UnderLow(s), ms), TRUE)

advance_hod_breakout(s, sn, ms) ==
    LET entry == Level(sn.intraday_high)
        stop  == Level(sn.bar.low)
    IN  Advance(s, sn, "buy", FALSE, FALSE,
            sn.is_new_hod /\ sn.intraday_high # None /\ AtLeast(sn.relative_volume, 120),
            entry, stop, By_R("buy", entry, stop, ms), TRUE)

\* Target by the height of the opening range.
ByRange(entry, sn, ms) ==
    LET range == Level(sn.or_high - sn.or_low)
    IN  IF range > 0 THEN entry + (range * target_mult("buy", ms)) \div 2
                     ELSE By_R("buy", entry, UnderRange(sn), ms)

advance_orb_breakout(s, sn, ms) ==
    LET back  == sn.or_high # None /\ sn.bar.close < sn.or_high
        entry == Level(s.snap.bar.close)
    IN  Advance(s, sn, "buy", back,
            back \/ ~sn.is_above_vwap,
            /\ sn.or_high # None /\ sn.bar.close > sn.or_high
            /\ AtLeast(sn.relative_volume, 100),
            entry, UnderRange(sn), ByRange(entry, sn, ms), TRUE)

\* Target at the session high when it is beyond the entry.
HighOr(sn, entry, stop, ms) ==
    IF sn.intraday_high # None /\ Level(sn.intraday_high) > entry
    THEN Level(sn.intraday_high) ELSE By_R("buy", entry, stop, ms)

LowOr(sn, entry, stop, ms) ==
    IF sn.intraday_low # None /\ Level(sn.intraday_low) < entry
    THEN Level(sn.intraday_low) ELSE By_R("sell", entry, stop, ms)

advance_trend_pullback(s, sn, ms) ==
    LET entry == Level(sn.vwap)
        stop  == Level(sn.bar.low)
    IN  Advance(s, sn, "buy", sn.vwap_cross_down, sn.vwap_cross_down,
            /\ sn.is_above_vwap /\ sn.vwap_deviation_pct > 0 /\ sn.vwap_deviation_pct <= 25
            /\ AtLeast(sn.relative_volume, 80) /\ ~sn.is_lower_low,
            entry, stop, HighOr(sn, entry, stop, ms), TRUE)

advance_vwap_reclaim(s, sn, ms) ==
    LET entry == Level(s.snap.bar.high)
        stop  == Level(s.snap.bar.low)
    IN  Advance(s, sn, "buy", sn.vwap_cross_down, sn.vwap_cross_down,
            sn.is_above_vwap /\ AtLeast(sn.relative_volume, 100) /\ ~sn.is_lower_low,
            entry, stop, HighOr(sn, entry, stop, ms), TRUE)

\* The one type whose risk width is not checked.
advance_vwap_rejection(s, sn, ms) ==
    LET entry == Level(s.snap.bar.low)
        stop  == Level(s.snap.bar.high)
    IN  Advance(s, sn, "sell", sn.vwap_cross_up, sn.vwap_cross_up,
            ~sn.is_above_vwap /\ AtLeast(sn.relative_volume, 100) /\ ~sn.is_higher_high,
            entry, stop, LowOr(sn, entry, stop, ms), FALSE)

advance_vwap_failed_reclaim_short(s, sn, ms) ==
    LET entry == Level(s.snap.bar.low)
        stop  == Level(s.snap.bar.high)
    IN  Advance(s, sn, "sell", sn.vwap_cross_up, sn.vwap_cross_up \/ Late(s),
            /\ ~sn.is_above_vwap /\ AtLeast(sn.relative_volume, 80)
            /\ sn.bar.high <= s.snap.bar.high /\ sn.bar.low < s.snap.bar.low,
            entry, stop, LowOr(sn, entry, stop, ms), TRUE)

advance_trend_pullback_short(s, sn, ms) ==
    LET entry == Level(s.snap.bar.low)
        stop  == Level(s.snap.bar.high)
    IN  Advance(s, sn, "sell", sn.vwap_cross_up,
            sn.vwap_cross_up \/ (sn.ema_21 # None /\ sn.bar.close >= sn.ema_21) \/ Late(s),
            /\ sn.bar.high < s.snap.bar.high /\ sn.bar.low < s.snap.bar.low
            /\ ~sn.is_above_vwap /\ (sn.ema_9 # None => sn.bar.close < sn.ema_9)
            /\ AtLeast(sn.relative_volume, 80),
            entry, stop, LowOr(sn, entry, stop, ms), TRUE)

advance_state(s, sn, ms) ==
    CASE s.type = "VWAP_UNDERCUT_RECLAIM"     -> advance_vwap_undercut_reclaim(s, sn, ms)
      [] s.type = "SWEEP_RECLAIM"             -> advance_sweep_reclaim(s, sn, ms)
      [] s.type = "FAKE_BREAKDOWN"            -> advance_fake_breakdown(s, sn, ms)
      [] s.type = "DEEP_EXHAUSTION_RECLAIM"   -> advance_deep_exhaustion_reclaim(s, sn, ms)
      [] s.type = "HOD_BREAKOUT"              -> advance_hod_breakout(s, sn, ms)
      [] s.type = "TREND_PULLBACK"            -> advance_trend_pullback(s, sn, ms)
      [] s.type = "VWAP_RECLAIM"              -> advance_vwap_reclaim(s, sn, ms)
      [] s.type = "VWAP_REJECTION"            -> advance_vwap_rejection(s, sn, ms)
      [] s.type = "VWAP_FAILED_RECLAIM_SHORT" -> advance_vwap_failed_reclaim_short(s, sn, ms)
      [] s.type = "TREND_PULLBACK_SHORT"      -> advance_trend_pullback_short(s, sn, ms)
      [] s.type = "ORB_BREAKOUT"              -> advance_orb_breakout(s, sn, ms)

-----------------------------------------------------------------------------
(* The engine's memory.  Operators take the memory e and give the next one. *)

NoSetups == [active |-> << >>, last_close |-> [t \in SetupTypes |-> None], bar_count |-> 0,
             session |-> None, history |-> << >>, previous |-> << >>, triggered |-> 0]

\* f with the entries of g, which win.
Overwrite(f, g) == [x \in DOMAIN f \cup DOMAIN g |-> IF x \in DOMAIN g THEN g[x] ELSE f[x]]

history_entry(s) ==
    [type |-> s.type, state |-> s.state, entry |-> s.entry, stop |-> s.stop,
     target |-> s.target, grade |-> s.grade]

\* _record_setup for every setup of a function id -> setup
record_setups(e, changed) ==
    [e EXCEPT !.history = Overwrite(@, [id \in DOMAIN changed |-> history_entry(changed[id])])]

\* A new session expires what is open, in the old context, and starts afresh.
roll_session_if_needed(e, key) ==
    LET expired == record_setups(e, [id \in DOMAIN e.active |-> Move(e.active[id], "EXPIRED")])
    IN  IF e.session = key THEN e
        ELSE [NoSetups EXCEPT !.session = key, !.triggered = e.triggered,
                 !.previous = IF e.session = None THEN e.previous ELSE expired.history]

has_active(e, t) == \E id \in DOMAIN e.active : e.active[id].type = t

cooled_down(e, t) ==
    e.last_close[t] = None \/ e.bar_count - e.last_close[t] >= CooldownBars

\* A setup's id is made of its type and the time of its bar.
open_setup(t, sn, ms) ==
    [type |-> t, state |-> "FORMING", bars |-> 0, snap |-> sn, ms |-> ms,
     entry |-> None, stop |-> None, target |-> None, grade |-> "none"]

scan_for_setups(e, sn, ms) ==
    LET new == {t \in SetupTypes :
                  /\ ~has_active(e, t) /\ cooled_down(e, t)
                  /\ sn.session_phase \in RthPhases
                  /\ detector_reason(t, sn)}
        opened == [id \in {<<t, sn.bar.session, sn.bar.minute>> : t \in new} |->
                      open_setup(id[1], sn, ms)]
    IN  record_setups([e EXCEPT !.active = Overwrite(@, opened)], opened)

\* Every active setup moves, those opened on this bar included; the ones that
\* ended leave and start their type's cooldown.
update_active_setups(e, sn, ms) ==
    LET upd     == [id \in DOMAIN e.active |-> advance_state(e.active[id], sn, ms)]
        changed == {id \in DOMAIN upd : upd[id].state # e.active[id].state}
        ended   == {id \in DOMAIN upd : upd[id].state \in Terminal}
        fired   == {id \in changed : upd[id].state = "TRIGGERED"}
    IN  [record_setups(e, Restrict(upd, changed)) EXCEPT
            !.active = Restrict(upd, DOMAIN upd \ ended),
            !.triggered = @ + Cardinality(fired),
            !.last_close = [t \in SetupTypes |->
                IF \E id \in ended : upd[id].type = t THEN e.bar_count ELSE @[t]]]

\* Stage 4 of the pipeline.
setup_process_bar(e, sn, ms) ==
    LET rolled  == roll_session_if_needed(e, sn.bar.session)
        counted == [rolled EXCEPT !.bar_count = @ + 1]
    IN  update_active_setups(scan_for_setups(counted, sn, ms), sn, ms)

\* patch_setup_score for a function id -> grade: only a setup that is still
\* active is graded.
patch_setup_scores(e, grades) ==
    LET patched == [id \in DOMAIN grades \cap DOMAIN e.active |->
                      [e.active[id] EXCEPT !.grade = grades[id]]]
    IN  record_setups([e EXCEPT !.active = Overwrite(@, patched)], patched)
=============================================================================
