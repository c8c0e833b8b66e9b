---------------------------- MODULE LevelEpisodes ----------------------------
(***************************************************************************)
(* The pure part of the research pipeline: the geometry of a bar and a      *)
(* level (research/interaction/geometry.py), the thresholds (config.py) and *)
(* InteractionEpisodeManager (episode.py) as functions on a record of its   *)
(* dictionaries.  One symbol; a bar is known by its minute.  Prices are      *)
(* counted in half ticks, so that a VWAP may lie between two ticks.          *)
(***************************************************************************)
EXTENDS Integers, FiniteSets, FiniteSetsExt, Sequences, SequencesExt

CONSTANTS
    Levels,        \* the levels, in the order _resolve_levels lists them
    LevelValue,    \* level -> its value
    Vwaps,         \* the levels whose type is vwap
    MinSep,        \* min_separation_bars
    MaxBars,       \* max_episode_bars
    Fallback       \* fallback_proximity_ticks and fallback_separation_ticks

ASSUME EpisodeAssumption ==
    /\ LevelValue \in [Range(Levels) -> Int] /\ Vwaps \subseteq Range(Levels)
    /\ {MinSep, MaxBars, Fallback.prox, Fallback.sep} \subseteq Nat \ {0}
    /\ Fallback.prox <= Fallback.sep

Tick == 2
None == "none"
NoEpisode == [start |-> -1]

Away(x, abs) == IF x >= 0 THEN abs ELSE -abs
\* _tick_distance: ROUND_HALF_UP (halves away from zero) for a VWAP, int() for the rest.
tick_distance(price, l) ==
    LET x == price - LevelValue[l]
    IN  Away(x, IF l \in Vwaps THEN (2 * Away(x, x) + Tick) \div (2 * Tick)
                ELSE Away(x, x) \div Tick)

side(d) == CASE d > 0 -> "above" [] d < 0 -> "below" [] OTHER -> "on"

\* A fraction of ATR-14 in ticks, cut to an integer and at least one.
ticks_of(atr, percent, fallback) ==
    IF atr = 0 THEN fallback ELSE Max({1, (atr * percent) \div (100 * Tick)})
proximity_ticks(atr)  == ticks_of(atr, 20, Fallback.prox)
separation_ticks(atr) == ticks_of(atr, 50, Fallback.sep)

\* compute_geometry and the thresholds of the bar, as far as an episode tells them
\* apart: an EpisodeBarRecord without the distances themselves.
compute_geometry(t, bar, atr, l) ==
    LET low  == tick_distance(bar.low, l)
        high == tick_distance(bar.high, l)
        sep  == separation_ticks(atr)
        prox == proximity_ticks(atr)
    IN  [ts   |-> t,
         open |-> side(tick_distance(bar.open, l)),
         side |-> side(tick_distance(bar.close, l)),
         span |-> low <= 0 /\ 0 <= high,
         near |-> low <= prox /\ high >= -prox,
         away |-> IF low > sep THEN "above" ELSE IF high < -sep THEN "below" ELSE None,
         atr  |-> atr # 0]

infer_approach_side(pre, open) ==
    IF pre \in {"above", "below"} THEN pre
    ELSE IF open \in {"above", "below"} THEN open ELSE "unknown"

\* _derive_close_sequence: flips between two neighbouring closes off the level, and the
\* longest runs of closes on one side.
derive_close_sequence(bars) ==
    LET step(c, b) ==
            LET above == IF b.side = "above" THEN c.above + 1 ELSE 0
                below == IF b.side = "below" THEN c.below + 1 ELSE 0
            IN  [prev |-> b.side, above |-> above, below |-> below,
                 flips |-> c.flips + IF {c.prev, b.side} = {"above", "below"} THEN 1 ELSE 0,
                 max_above |-> Max({c.max_above, above}),
                 max_below |-> Max({c.max_below, below})]
        end == FoldLeft(step, [prev |-> None, above |-> 0, below |-> 0, flips |-> 0,
                               max_above |-> 0, max_below |-> 0], bars)
    IN  [flips |-> end.flips, max_above |-> end.max_above, max_below |-> end.max_below]
----------------------------------------------------------------------------
(* The manager: active, last_geo, last_id and index are its dictionaries for *)
(* the session it is in, done the episodes it has handed to the callback.    *)

NoManager == [active   |-> [l \in Range(Levels) |-> NoEpisode],
              last_geo |-> [l \in Range(Levels) |-> None],
              last_id  |-> [l \in Range(Levels) |-> 0],
              index    |-> [l \in Range(Levels) |-> 0],
              done     |-> <<>>]

Active(m) == {l \in Range(Levels) : m.active[l] # NoEpisode}

\* _open_episode.
open_episode(m, session, l, g) ==
    [m EXCEPT !.index[l] = @ + 1,
              !.active[l] = [level |-> l, session |-> session, start |-> g.ts,
                             index |-> m.index[l] + 1, prior |-> m.last_id[l],
                             approach |-> infer_approach_side(m.last_geo[l], g.open),
                             bars |-> <<g>>, held |-> 0, dir |-> None, valid |-> g.atr]]

\* _close: the summary is completed and handed over.
close(m, l, ended, reason) ==
    IF m.active[l] = NoEpisode THEN m
    ELSE LET ep  == m.active[l]
             row == [level |-> l, session |-> ep.session, start |-> ep.start, ended |-> ended,
                     index |-> ep.index, prior |-> ep.prior, approach |-> ep.approach,
                     bars |-> ep.bars, reason |-> reason,
                     closes |-> derive_close_sequence(ep.bars),
                     valid |-> ep.valid /\ reason \notin {"gap_detected", "processing_error"}]
         IN  [m EXCEPT !.active[l] = NoEpisode, !.last_id[l] = ep.index,
                       !.done = Append(@, row)]

close_all(m, ended, reason) ==
    FoldLeft(LAMBDA n, l : close(n, l, ended, reason), m, Levels)

\* Separation: neighbouring bars must lie wholly beyond the threshold on one side.
separate(ep, g) ==
    [ep EXCEPT !.held = CASE g.away = None   -> 0
                          [] g.away = ep.dir -> @ + 1
                          [] OTHER           -> 1,
               !.dir = g.away]

\* _handle_outside.
handle_outside(m, session, l, g) ==
    [(IF g.near THEN open_episode(m, session, l, g) ELSE m) EXCEPT !.last_geo[l] = g.side]

\* _handle_active: the timeout is looked at before the separation.
handle_active(m, l, g) ==
    LET ep   == [m.active[l] EXCEPT !.bars = Append(@, g)]
        next == [m EXCEPT !.last_geo[l] = g.side, !.active[l] = separate(ep, g)]
    IN  IF Len(ep.bars) >= MaxBars THEN close(next, l, g.ts, "timeout")
        ELSE IF next.active[l].held >= MinSep THEN close(next, l, g.ts, "separation")
        ELSE next

\* process, for the levels of the frame in the order given.
process(m, session, frame_levels, t, bar, atr) ==
    FoldLeft(LAMBDA n, l :
               LET g == compute_geometry(t, bar, atr, l)
               IN  IF n.active[l] = NoEpisode THEN handle_outside(n, session, l, g)
                   ELSE handle_active(n, l, g),
             m, frame_levels)

\* on_session_end: what belongs to the session is forgotten.
on_session_end(m, t) ==
    [NoManager EXCEPT !.done = close_all(m, t, "session_ended").done]

on_gap(m, t)              == close_all(m, t, "gap_detected")
on_processing_error(m, t) == close_all(m, t, "processing_error")

\* flush, at shutdown: an episode ends with its last bar.
flush_manager(m) ==
    FoldLeft(LAMBDA n, l :
               IF n.active[l] = NoEpisode THEN n
               ELSE close(n, l, Last(n.active[l].bars).ts, "replay_completed"),
             m, Levels)
============================================================================
