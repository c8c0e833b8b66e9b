------------------------------ MODULE Backtest ------------------------------
(***************************************************************************)
(* The backtester (scripts/backtest.py): a session's bars go through the    *)
(* running engines, and a SignalTracker trades the scored setups of each    *)
(* pipeline output on the bars after it.  The tracker looks at a bar before *)
(* the engines do; each session has a tracker of its own.  A price unit is  *)
(* a hundredth of a point.                                                  *)
(***************************************************************************)
EXTENDS BarPipeline

CONSTANTS
    MinGrade,       \* min_grade
    MaxHoldBars     \* max_hold_bars

ASSUME BacktestAssumption ==
    MinGrade \in Range(Grades) /\ MaxHoldBars \in Nat

VARIABLES
    position,       \* _open: the position, or NoPosition
    pending,        \* _pending_setups
    signals,        \* signals of the session's tracker
    unfinished      \* signals the end of the last session closed, at most one

tracker == <<position, pending, signals, unfinished>>

NoPosition == [held |-> 0]

-----------------------------------------------------------------------------
(* SignalTracker *)

\* Mutant: a type is missing among the shorts.
long_misses(type) == type \notin ShortTypes \ {"VWAP_FAILED_RECLAIM_SHORT"}

\* _direction
long(type) == type \notin ShortTypes

\* Setups whose trigger the bar touches.
touched(bar) ==
    {s \in pending : IF long(s.type) THEN Level(bar.high) >= s.entry ELSE Level(bar.low) <= s.entry}

\* The best grade comes first; the order of the ids decides between equals.
foremost(S) == {s \in S : \A r \in S : grade_index(r.grade) <= grade_index(s.grade)}

\* _simulate_exit: through the stop at the open, the stop, the target, the time.
simulate_exit(pos, bar) ==
    LET lost(p) == IF long(pos.type) THEN Level(p) <= pos.stop ELSE Level(p) >= pos.stop
        worst   == IF long(pos.type) THEN bar.low ELSE bar.high
        made    == IF long(pos.type) THEN Level(bar.high) >= pos.target
                                     ELSE Level(bar.low) <= pos.target
    IN  IF lost(bar.open) THEN [price |-> Level(bar.open), reason |-> "stop_hit_gap"]
        ELSE IF lost(worst) THEN [price |-> pos.stop, reason |-> "stop_hit"]
        ELSE IF made THEN [price |-> pos.target, reason |-> "target_hit"]
        ELSE IF pos.held >= MaxHoldBars THEN [price |-> Level(bar.close), reason |-> "timeout"]
        ELSE [price |-> None, reason |-> "none"]

\* _close: the signal record of a position that exits on a bar.
signal(pos, bar, exit) ==
    LET pnl == IF long(pos.type) THEN exit.price - pos.entry ELSE pos.entry - exit.price
    IN  [setup |-> pos.id, type |-> pos.type, entered |-> pos.at, exited |-> bar.minute,
         held |-> pos.held, reason |-> exit.reason,
         outcome |-> CASE exit.reason = "session_end" -> "incomplete"
                       [] exit.reason # "session_end" /\ pnl > Level(1) -> "win"
                       [] exit.reason # "session_end" /\ pnl < -Level(1) -> "loss"
                       [] OTHER -> "breakeven"]

\* Before the engines see a bar: exit, or enter when flat.
pre_bar(bar) ==
    \/ /\ position # NoPosition
       /\ LET pos  == [position EXCEPT !.held = @ + 1]
              exit == simulate_exit(pos, bar)
          IN  IF exit.reason = "none"
              THEN position' = pos /\ UNCHANGED signals
              ELSE position' = NoPosition /\ signals' = Append(signals, signal(pos, bar, exit))
    \/ /\ position = NoPosition /\ touched(bar) # {}
       /\ \E s \in foremost(touched(bar)) :
            position' = [id |-> s.id, type |-> s.type, entry |-> s.entry, stop |-> s.stop,
                         target |-> s.target, at |-> bar.minute, held |-> 0]
       /\ UNCHANGED signals
    \/ position = NoPosition /\ touched(bar) = {} /\ UNCHANGED <<position, signals>>

\* The setups of an output that qualify: graded well enough, with all their levels.
qualifying(ids, active) ==
    {[id |-> id, type |-> active[id].type, grade |-> active[id].grade, entry |-> active[id].entry,
      stop |-> active[id].stop, target |-> active[id].target] :
        id \in {i \in ids : /\ grade_index(active[i].grade) >= grade_index(MinGrade)
                            /\ None \notin {active[i].entry, active[i].stop, active[i].target}}}

\* Mutant: setups of earlier outputs stay pending.
on_pipeline_output_kept == pending' = pending \cup qualifying(output'.scored, setups'.active)

\* on_pipeline_output, after the engines have seen the bar: the list is replaced.
on_pipeline_output == pending' = qualifying(output'.scored, setups'.active)

-----------------------------------------------------------------------------
(* _feed_session_day *)

BacktestBar(shape) ==
    /\ Bar(shape)
    /\ pre_bar(tape'[Len(tape')])
    /\ on_pipeline_output
    /\ UNCHANGED unfinished

close_remaining(bar) ==
    unfinished' = IF position = NoPosition THEN << >>
                  ELSE <<signal(position, bar, [price |-> Level(bar.close), reason |-> "session_end"])>>

\* The session ends: what is open is closed on its last bar.  The next one starts with
\* a new tracker, which has nothing to trade on its first bar.
NextSession ==
    /\ Roll
    /\ close_remaining(tape[Len(tape)])
    /\ position' = NoPosition /\ signals' = << >>
    /\ on_pipeline_output

BacktestInit ==
    /\ Init
    /\ position = NoPosition /\ pending = {} /\ signals = << >> /\ unfinished = << >>

BacktestNext ==
    \/ \E shape \in Shapes : BacktestBar(shape)
    \/ NextSession
    \/ HtfBar /\ UNCHANGED tracker
    \/ \E shape \in Shapes : Trades(shape) /\ UNCHANGED tracker
    \/ \E p \in {2 * FirstPrice, FirstPrice \div 2} : BadPrint(p) /\ UNCHANGED tracker

BacktestSpec == BacktestInit /\ [][BacktestNext]_<<vars, tracker>>

-----------------------------------------------------------------------------
(* Properties *)

\* The tracker enters a setup on no other bar than the engine's own trigger: the
\* setup was confirmed and graded before the bar, so nothing of the bar itself
\* decided on it, and the bar ends it in the engine, as TRIGGERED or, when the
\* same bar invalidates it, INVALIDATED.
EntersWithTheEngine ==
    [][position = NoPosition /\ position' # NoPosition =>
        LET id == position'.id IN
        /\ id \in DOMAIN setups.active
        /\ setups.active[id].state = "CONFIRMED" /\ setups.active[id].grade # "none"
        /\ id \notin DOMAIN setups'.active
        /\ setups'.history[id].state \in {"TRIGGERED", "INVALIDATED"}]_<<vars, tracker>>

Closed == Range(signals) \cup Range(unfinished)

\* The trades of a session follow one another, no setup is traded twice, and each is
\* closed within the holding time, on as many bars after its entry as it was held.
TradesFollow ==
    /\ \A i \in 1 .. Len(signals) - 1 : signals[i].exited < signals[i + 1].entered
    /\ \A i, j \in DOMAIN signals : i # j => signals[i].setup # signals[j].setup
    /\ \A g \in Closed : g.held <= MaxHoldBars /\ g.exited = g.entered + g.held

\* The exit agrees with the result: a stop loses and a target wins.  TREND_PULLBACK is
\* excepted, whose stop may lie above its entry.
ExitsAgree ==
    \A g \in Closed :
        g.type # "TREND_PULLBACK" =>
            /\ g.reason \in {"stop_hit", "stop_hit_gap"} => g.outcome # "win"
            /\ g.reason = "target_hit" => g.outcome # "loss"

\* The levels a trade is made of are the right way round, the trades are those of one
\* position at a time, and their results are what their exits say.
TradesAddUp == LevelsOrdered /\ TradesFollow /\ ExitsAgree
=============================================================================
