---------------------------- MODULE ThesisEngine ----------------------------
(***************************************************************************)
(* The thesis engine (engines/thesis/engine.py) for one symbol: a dominant *)
(* thesis whose confidence evidence moves bar by bar, and the opposite     *)
(* one it flips to when it is invalidated.  Confidence and ratios are in   *)
(* hundredths; entry, stop and target are prices times 20, in which a      *)
(* tenth of the ATR and 2.5 times a risk are exact.                        *)
(***************************************************************************)
EXTENDS MarketStateEngine

CONSTANTS
    MaxBarsWatching,        \* _MAX_BARS_WATCHING
    MaxBarsBuilding         \* _MAX_BARS_BUILDING

ASSUME ThesisAssumption == MaxBarsWatching \in Nat /\ MaxBarsBuilding \in Nat

VARIABLE thesis             \* _active: [dominant, flip], or NoThesis

NoThesis == [dominant |-> [state |-> "NONE"], flip |-> [state |-> "NONE"]]
NoFlip == [state |-> "NONE"]

LongThesis == "FAKE_BREAKDOWN_RECLAIM_LONG"
ShortThesis == "VWAP_FAILED_RECLAIM_SHORT"
Opposite(t) == IF t = LongThesis THEN ShortThesis ELSE LongThesis

Candidate(type, conf, low, high, pre) ==
    [type |-> type, state |-> "WATCHING", confidence |-> conf, bars_alive |-> 0,
     sweep_low |-> low, rejection_high |-> high, pre_vwap_break |-> pre,
     entry |-> None, stop |-> None, target |-> None]

-----------------------------------------------------------------------------
(* Detection *)

PreBreakdown(sn) ==
    /\ sn.is_above_vwap /\ sn.bars_above_vwap >= 2 /\ sn.is_lower_high
    /\ sn.close_position # None /\ sn.close_position < 40
    /\ sn.vwap > 0 /\ sn.vwap_deviation_pct <= 80

\* lv is the level memory get_level_memory reads.
detect_thesis(sn, lv) ==
    CASE PreBreakdown(sn) ->
            Candidate(ShortThesis, 10, None, sn.bar.high, TRUE)
      [] ~PreBreakdown(sn) /\ (sn.vwap_cross_down \/ sn.swept_below_vwap) ->
            Candidate(LongThesis, 10, sn.bar.low, None, FALSE)
      [] /\ ~PreBreakdown(sn) /\ ~(sn.vwap_cross_down \/ sn.swept_below_vwap)
         /\ ~sn.is_above_vwap /\ sn.bars_below_vwap >= 2
         /\ lv.last_vwap_outcome \in {"rejected", "broken"}
         /\ lv.bars_since_last_vwap_touch <= 5 ->
            Candidate(ShortThesis, 15, None, sn.bar.high, FALSE)
      [] OTHER -> NoFlip

build_flip_candidate(th) == Candidate(Opposite(th.type), 5, None, None, FALSE)

-----------------------------------------------------------------------------
(* Evidence *)

Clamp(c) == IF c < 0 THEN 0 ELSE IF c > 100 THEN 100 ELSE c

\* Points for a ratio that is low, or high.
Faded(ratio) == IF ratio = None THEN 0 ELSE Points(ratio < 40, 10) - Points(ratio > 140, 8)

\* Points for the distance of the stop in ATR.
StopDistance(risk, sn) ==
    IF sn.atr_14 = None \/ sn.atr_14 <= 0 THEN 0
    ELSE Points(10 * risk <= 7 * sn.atr_14, 5) - Points(10 * risk > 15 * sn.atr_14, 10)

\* The range of the bar against its ATR, one point without ATR.
WideBar(sn, tenths) ==
    10 * (sn.bar.high - sn.bar.low)
        > tenths * (IF sn.atr_14 = None \/ sn.atr_14 = 0 THEN 100 ELSE sn.atr_14)

invalid_fake_breakdown_long(th, sn) ==
    \/ sn.bars_below_vwap >= 3 /\ ~sn.vwap_cross_up /\ ~sn.swept_below_vwap
    \/ sn.is_lower_low /\ ~sn.is_above_vwap /\ th.bars_alive > 2
    \/ /\ sn.close_position # None /\ sn.close_position < 25
       /\ ~sn.is_above_vwap /\ WideBar(sn, 12)

update_fake_breakdown_long(th, sn, lv, tick) ==
    LET low   == IF sn.bar.low < sn.vwap /\ (th.sweep_low = None \/ sn.bar.low < th.sweep_low)
                 THEN sn.bar.low ELSE th.sweep_low
        core  == CASE sn.vwap_cross_up -> 22
                   [] ~sn.vwap_cross_up /\ sn.swept_below_vwap -> 12
                   [] ~sn.vwap_cross_up /\ ~sn.swept_below_vwap
                      /\ sn.is_above_vwap /\ sn.bars_above_vwap >= 2 -> 6
                   [] OTHER -> 0
        cp    == sn.close_position
        close == IF cp = None THEN 0
                 ELSE Points(cp > 65, 10) - Points(cp < 35 /\ sn.is_above_vwap, 8)
        volume == Points(tick.accel > 0 /\ tick.accel < 65 /\ ~sn.is_above_vwap, 5)
                  + Points(tick.accel > 150 /\ sn.vwap_cross_up, 5)
        memory == Points(lv.last_vwap_outcome \in {"swept", "reclaimed"}, 5)
                  - Points(lv.last_vwap_outcome = "broken" /\ lv.bars_since_last_vwap_touch < 5, 5)
        stop  == IF low = None THEN 0 ELSE StopDistance(sn.bar.close - low, sn)
        swept == [th EXCEPT !.sweep_low = low]
    IN  IF invalid_fake_breakdown_long(th, sn) THEN [swept EXCEPT !.state = "INVALIDATED"]
        ELSE [swept EXCEPT !.confidence =
                 Clamp(@ + core + close + Faded(tick.sell_ratio) + volume + memory + stop)]

invalid_vwap_failed_reclaim_short(th, sn) ==
    \/ /\ th.pre_vwap_break
       /\ (sn.is_new_hod \/ sn.vwap_deviation_pct > 120)
    \/ ~th.pre_vwap_break /\ sn.bars_above_vwap >= 2
    \/ /\ ~th.pre_vwap_break \/ sn.vwap_cross_down
       /\ \/ sn.is_higher_high /\ sn.is_above_vwap
          \/ /\ sn.close_position # None /\ sn.close_position > 75
             /\ sn.is_above_vwap /\ WideBar(sn, 10)

short_evidence(high, sn, lv, tick) ==
    LET cp == sn.close_position
    IN  (IF sn.vwap_cross_down THEN 20
         ELSE Points(~sn.is_above_vwap /\ sn.bars_below_vwap >= 2, 6))
        + (IF cp = None THEN 0
           ELSE Points(cp < 35, 10) - Points(cp > 65 /\ ~sn.is_above_vwap, 8))
        + Faded(tick.buy_ratio)
        + Points(tick.accel > 130 /\ ~sn.is_above_vwap, 5)
        + Points(lv.last_vwap_outcome = "rejected", 6)
        - Points(lv.last_vwap_outcome \in {"reclaimed", "swept"}, 5)
        + Points(sn.is_lower_high /\ ~sn.is_above_vwap, 6)
        + (IF high = None THEN 0 ELSE StopDistance(high - sn.bar.close, sn))
        + (IF tick.absorption THEN 10 ELSE Points(tick.bar_delta < -50, 6))
        + (IF tick.book_imbalance = NoDeviation THEN 0
           ELSE Points(tick.book_imbalance < -30, 8) - Points(tick.book_imbalance > 30, 6))

\* Before price has crossed VWAP only the structure counts.
update_vwap_failed_reclaim_short(th, sn, lv, tick) ==
    LET high   == IF sn.bar.high > sn.vwap
                     /\ (th.rejection_high = None \/ sn.bar.high > th.rejection_high)
                  THEN sn.bar.high ELSE th.rejection_high
        before == th.pre_vwap_break /\ ~sn.vwap_cross_down
        early  == Points(sn.is_lower_high, 7)
                  + Points(sn.close_position # None /\ sn.close_position < 35, 5)
        tested == [th EXCEPT !.rejection_high = high, !.pre_vwap_break = before]
    IN  CASE invalid_vwap_failed_reclaim_short(th, sn) ->
                [tested EXCEPT !.state = "INVALIDATED"]
          [] ~invalid_vwap_failed_reclaim_short(th, sn) /\ before ->
                [tested EXCEPT !.confidence = Clamp(@ + early)]
          [] OTHER ->
                [tested EXCEPT !.confidence =
                    Clamp(@ + Points(th.pre_vwap_break, 25) + short_evidence(high, sn, lv, tick))]

-----------------------------------------------------------------------------
(* Lifecycle *)

necessary_conditions_met(th, sn) ==
    IF th.type = LongThesis
    THEN /\ sn.is_above_vwap /\ sn.bars_above_vwap >= 1 /\ th.sweep_low # None
         /\ sn.atr_14 # None /\ sn.atr_14 > 0 =>
                2 * (sn.bar.close - th.sweep_low) <= 3 * sn.atr_14
    ELSE /\ ~sn.is_above_vwap /\ sn.bars_below_vwap >= 1 /\ th.rejection_high # None
         /\ sn.vwap > 0 => 200 * (th.rejection_high - sn.vwap) <= sn.vwap

compute_entry_plan(th, sn) ==
    LET atr   == IF sn.atr_14 = None \/ sn.atr_14 = 0 THEN 1000 ELSE sn.atr_14
        sign  == IF th.type = LongThesis THEN 1 ELSE -1
        bound == IF th.type = LongThesis THEN th.sweep_low ELSE th.rejection_high
        entry == 20 * sn.vwap + sign * 2 * atr
        stop  == 20 * bound - sign * 2 * atr
    IN  [th EXCEPT !.entry = entry, !.stop = stop,
                   !.target = entry + (5 * (entry - stop)) \div 2]

thesis_advance_state(th, sn) ==
    CASE th.state = "WATCHING" /\ th.confidence >= 30 -> [th EXCEPT !.state = "BUILDING"]
      [] th.state = "WATCHING" /\ th.confidence < 30 /\ th.bars_alive > MaxBarsWatching ->
            [th EXCEPT !.state = "EXPIRED"]
      [] th.state = "BUILDING" /\ th.confidence >= 65 /\ necessary_conditions_met(th, sn) ->
            compute_entry_plan([th EXCEPT !.state = "READY"], sn)
      [] /\ th.state = "BUILDING" /\ th.bars_alive > MaxBarsBuilding
         /\ ~(th.confidence >= 65 /\ necessary_conditions_met(th, sn)) ->
            [th EXCEPT !.state = "EXPIRED"]
      [] OTHER -> th

update_thesis(th, sn, lv, tick) ==
    LET older == [th EXCEPT !.bars_alive = @ + 1]
    IN  thesis_advance_state(IF th.type = LongThesis
                             THEN update_fake_breakdown_long(older, sn, lv, tick)
                             ELSE update_vwap_failed_reclaim_short(older, sn, lv, tick), sn)

\* Stage 3 of the pipeline: detect when nothing is alive, else update, and
\* flip (once) or forget what was invalidated.
thesis_process_bar(a, sn, lv, tick) ==
    LET found == detect_thesis(sn, lv)
        next  == update_thesis(a.dominant, sn, lv, tick)
    IN  IF a.dominant.state \in {"NONE", "TRIGGERED", "EXPIRED"}
        THEN IF found = NoFlip THEN a
             ELSE [dominant |-> found, flip |-> build_flip_candidate(found)]
        ELSE IF next.state # "INVALIDATED" THEN [a EXCEPT !.dominant = next]
        ELSE IF a.flip = NoFlip THEN NoThesis
        ELSE [dominant |-> [a.flip EXCEPT !.state = "WATCHING"], flip |-> NoFlip]
=============================================================================
