---------------------------- MODULE ScoringEngine ----------------------------
(***************************************************************************)
(* The scoring engine (engines/scoring/engine.py): the rubric that grades  *)
(* a setup once it is confirmed.  sn is the snapshot of the confirmation   *)
(* bar; the setup carries the snapshot and market state of its detection.  *)
(* flow is NoFlow, or what the rubric reads of the bar's flow context.     *)
(***************************************************************************)
EXTENDS SetupEngine, MarketStateEngine

Grades == <<"C", "B", "A", "A_PLUS", "SSS">>
NoFlow == [known |-> FALSE]

grade_index(g) == CHOOSE i \in DOMAIN Grades : Grades[i] = g

grade_from_score(score) ==
    CASE score >= 7       -> "SSS"
      [] score \in 5 .. 6 -> "A_PLUS"
      [] score \in 3 .. 4 -> "A"
      [] score \in 1 .. 2 -> "B"
      [] OTHER            -> "C"

apply_cap(g, cap) == IF grade_index(g) > grade_index(cap) THEN cap ELSE g

short_base(t) ==
    CASE t = "VWAP_REJECTION" -> 1
      [] t \in {"VWAP_FAILED_RECLAIM_SHORT", "TREND_PULLBACK_SHORT"} -> 3
      [] t = "ORB_BREAKDOWN"  -> 2

is_tight_risk(s, sn) ==
    s.entry # None /\ s.stop # None /\ sn.atr_14 # None
    /\ AbsDiff(s.entry, s.stop) <= Level(sn.atr_14)

\* Relative volume of the confirmation bar, or of the detection bar.
rvol(s, sn) == IF sn.relative_volume # None THEN sn.relative_volume ELSE s.snap.relative_volume

\* Base score of a short, add-ons and penalties.
score_short(s, sn, flow) ==
    LET d     == s.snap
        bias  == s.ms.live_bias
        vol   == rvol(s, sn)
    IN  short_base(s.type)
        + Points(d.vwap_slope = "down", 1) + Points(d.ema9_slope = "down", 1)
        + Points(d.ema21_5m_slope = "down", 1) - Points(d.ema21_5m_slope = "up", 1)
        + Points(d.recent_lower_low, 1) + Points(bias \in Bearish, 1)
        + Points(s.ms.trend = "TRENDING_DOWN", 1)
        + Points(sn.close_position # None /\ sn.close_position <= 40, 1)
        + Points(vol >= 100, 1) + Points(vol >= 130, 1) + Points(is_tight_risk(s, sn), 1)
        + (IF flow.known THEN Points(flow.delta < 0 /\ flow.has_trades, 1)
                              + Points(flow.large_sells >= 2, 1)
                              - Points(flow.absorption, 1) - Points(flow.v_reversal, 1)
           ELSE 0)
        - Points(d.vwap_slope = "up", 1) - Points(bias = "BULLISH", 2)
        - Points(d.vwap_deviation_pct < -50, 1) - Points(bias \notin Bearish, 1)

score_long(s, sn, flow) ==
    LET d    == s.snap
        bias == s.ms.live_bias
        vol  == rvol(s, sn)
    IN  3 + Points(s.ms.trend = "TRENDING_UP" /\ d.is_above_vwap, 1)
        + Points(d.is_above_vwap, 1)
        + Points(d.ema_21 # None /\ d.bar.close >= d.ema_21, 1)
        + Points(bias \in Bullish, 1)
        + Points(vol >= 100, 1) + Points(vol >= 150, 1) + Points(is_tight_risk(s, sn), 1)
        + (IF flow.known THEN Points(flow.absorption, 1) + Points(flow.genuine, 2)
                              - Points(flow.v_reversal, 2)
           ELSE 0)
        - Points(bias = "BEARISH", 2) - Points(s.ms.trend = "TRENDING_DOWN", 1)
        - Points(d.vwap_deviation_pct > 50, 1) - Points(bias \notin Bullish, 1)

\* Caps: a first cross-down is an A at most, a trade against the bias too, a
\* long on a V-reversal a B at most.
compute(s, sn, flow) ==
    LET short == s.type \in ShortTypes
        g     == grade_from_score(IF short THEN score_short(s, sn, flow)
                                           ELSE score_long(s, sn, flow))
        typed == IF s.type = "VWAP_REJECTION" THEN apply_cap(g, "A") ELSE g
        bias  == IF s.ms.live_bias = (IF short THEN "BULLISH" ELSE "BEARISH")
                 THEN apply_cap(typed, "A") ELSE typed
    IN  IF ~short /\ flow.known /\ flow.v_reversal THEN apply_cap(bias, "B") ELSE bias

\* Mutant: a bar without flow is not scored.
scoring_process_bar_needs_flow(e, sn, flow) ==
    LET due == {id \in DOMAIN e.active : flow.known /\ e.active[id].state = "CONFIRMED"
                                         /\ e.active[id].grade = "none"}
    IN  patch_setup_scores(e, [id \in due |-> compute(e.active[id], sn, flow)])

\* Mutant: confirmed setups are scored on every bar.
scoring_process_bar_again(e, sn, flow) ==
    LET due == {id \in DOMAIN e.active : e.active[id].state = "CONFIRMED"}
    IN  patch_setup_scores(e, [id \in due |-> compute(e.active[id], sn, flow)])

\* Stage 5 of the pipeline: confirmed setups without a grade are graded.
scoring_process_bar(e, sn, flow) ==
    LET due == {id \in DOMAIN e.active :
                  e.active[id].state = "CONFIRMED" /\ e.active[id].grade = "none"}
    IN  patch_setup_scores(e, [id \in due |-> compute(e.active[id], sn, flow)])
=============================================================================
