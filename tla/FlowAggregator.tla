--------------------------- MODULE FlowAggregator ---------------------------
(***************************************************************************)
(* The bar-flow aggregator (engines/flow/aggregator.py) and the thesis     *)
(* engine's trade window (engines/thesis/engine.py) behind the event bus.  *)
(* Trades and bars of one symbol reach the aggregator through two queues   *)
(* with a task each, so a trade may be handled before the bar of the       *)
(* minute before it, or after the bar of its own.  A one-minute bar seals  *)
(* the open window into a bundle, which the pipeline consumes.             *)
(*                                                                         *)
(* Time is in seconds; a bar carries the time it opened.  The window's     *)
(* counters are sums over the trades and one-second bars it was given, so  *)
(* the window keeps those.  Quotes are left out.                           *)
(***************************************************************************)
EXTENDS TickFlow

CONSTANTS
    Offsets,            \* seconds of a minute that have trades and one-second bars, in order
    Shapes,             \* per offset, set of [move, dip, volume, trade]: a second; trade is
                        \* a side or "none"
    LargeTrade,         \* large_trade_threshold
    VolHistorySize,     \* _vol_history_size
    MaxMinutes,         \* number of minutes of a behaviour
    MaxLost,            \* one-minute bars the feed may lose
    QueueSize           \* bound on the queues

ASSUME FlowAssumption ==
    /\ Offsets \in Seq(0 .. 59) /\ Offsets # << >>
    /\ {LargeTrade, VolHistorySize, MaxMinutes, MaxLost, QueueSize} \subseteq Nat
    /\ VolHistorySize > 0

VARIABLES
    second,             \* number of seconds published so far
    price,              \* last price
    seconds,            \* one-second bars of the minute under way
    lost,               \* minutes whose bar was lost
    aggTrades, aggBars, thesisTrades, bundles,  \* queues
    window,             \* _window: [open, trades, s1], open = None when there is none
    vol_history,        \* _vol_history
    emitted,            \* history: bundles published
    inTime,             \* history: trades handled while their minute's window was open
    ticks,              \* _trade_windows of the thesis engine
    ticked,             \* history: trades the thesis engine has handled
    processed           \* minutes the pipeline has processed, with their tick flow

flowVars == <<second, price, seconds, lost, aggTrades, aggBars, thesisTrades, bundles,
              window, vol_history, emitted, inTime, ticks, ticked, processed>>

NoWindow == [open |-> None, trades |-> << >>, s1 |-> << >>]

MinuteOf(t) == (t \div 60) * 60

-----------------------------------------------------------------------------
(* The feed *)

\* Seconds since the start of the n-th second published.
TimeOf(n) == (n \div Len(Offsets)) * 60 + Offsets[(n % Len(Offsets)) + 1]

S1Bar(shape) ==
    LET close == price + shape.move
    IN  [kind |-> "S1", at |-> TimeOf(second), open |-> price, close |-> close,
         high |-> IF shape.move > 0 THEN close ELSE price,
         low |-> (IF shape.move > 0 THEN price ELSE close) - shape.dip, volume |-> shape.volume]

LowestOf(S) == CHOOSE x \in S : \A y \in S : x <= y
HighestOf(S) == CHOOSE x \in S : \A y \in S : x >= y

VolumeOf(s) == FoldFunction(LAMBDA b, acc : b.volume + acc, 0, s)

M1Bar(s) ==
    [kind |-> "M1", at |-> MinuteOf(s[1].at), open |-> s[1].open, close |-> s[Len(s)].close,
     high |-> HighestOf({s[i].high : i \in DOMAIN s}), low |-> LowestOf({s[i].low : i \in DOMAIN s}),
     volume |-> VolumeOf(s)]

\* A second: its trade, its bar and, at the end of a minute, the minute's bar
\* unless the feed loses it.
Publish(shape, lose) ==
    LET bar   == S1Bar(shape)
        trade == [at |-> bar.at, size |-> shape.volume, side |-> shape.trade]
        new   == IF shape.trade = "none" THEN << >> ELSE <<trade>>
        all   == Append(seconds, bar)
        last  == (second + 1) % Len(Offsets) = 0
    IN  /\ second < MaxMinutes * Len(Offsets)
        /\ Len(aggTrades) < QueueSize /\ Len(aggBars) < QueueSize /\ Len(thesisTrades) < QueueSize
        /\ lose => last /\ Cardinality(lost) < MaxLost
        /\ second' = second + 1 /\ price' = bar.close
        /\ aggTrades' = aggTrades \o new /\ thesisTrades' = thesisTrades \o new
        /\ aggBars' = aggBars \o <<bar>> \o (IF last /\ ~lose THEN <<M1Bar(all)>> ELSE << >>)
        /\ seconds' = IF last THEN << >> ELSE all
        /\ lost' = IF lose THEN lost \cup {MinuteOf(bar.at)} ELSE lost
        /\ UNCHANGED <<bundles, window, vol_history, emitted, inTime, ticks, ticked, processed>>

-----------------------------------------------------------------------------
(* The aggregator *)

\* Mutant: a trade on the minute itself is outside.
in_window_strict(at) == window.open # None /\ window.open < at /\ at < window.open + 60

\* _window_for
in_window(at) == window.open # None /\ window.open <= at /\ at < window.open + 60

\* _on_trade
on_trade ==
    LET t == Head(aggTrades)
        in == in_window(t.at)
    IN  /\ aggTrades # << >>
        /\ aggTrades' = Tail(aggTrades)
        /\ window' = IF in THEN [window EXCEPT !.trades = Append(@, t)] ELSE window
        /\ inTime' = IF window.open = MinuteOf(t.at) THEN inTime \cup {t} ELSE inTime
        /\ UNCHANGED <<second, price, seconds, lost, aggBars, thesisTrades, bundles,
                       vol_history, emitted, ticks, ticked, processed>>

\* One-second bars approximate the side of their volume by their direction.
S1Delta(b) == IF b.close >= b.open THEN b.volume ELSE -b.volume

SumOf(f(_), s) == FoldFunction(LAMBDA b, acc : f(b) + acc, 0, s)
Magnitude(x) == IF x < 0 THEN -x ELSE x

\* Time of the first one-second bar that made the window's low.
low_ts(w) ==
    LET low == LowestOf({w.s1[i].low : i \in DOMAIN w.s1})
    IN  LowestOf({w.s1[i].at : i \in {j \in DOMAIN w.s1 : w.s1[j].low = low}})

Sweep(w) == SelectSeq(w.s1, LAMBDA b : b.at <= low_ts(w))
Recovery(w) == SelectSeq(w.s1, LAMBDA b : b.at > low_ts(w))

\* _compute_split_delta: present when the bar wicked a fifth of its range
\* below its open.
split_delta(w, bar) ==
    IF w.s1 = << >> \/ bar.high = bar.low \/ 5 * (bar.open - bar.low) < bar.high - bar.low
    THEN [known |-> FALSE]
    ELSE [known |-> SumOf(S1Delta, Sweep(w)) # 0,
          sweep |-> Magnitude(SumOf(S1Delta, Sweep(w))),
          recovery |-> Magnitude(SumOf(S1Delta, Recovery(w))),
          seconds |-> Len(Recovery(w))]

\* _compute_absorption: sells up to the low, answered by buys after it.
absorption_detected(w) ==
    LET sold   == SumOf(LAMBDA b : IF S1Delta(b) < 0 THEN b.volume ELSE 0, Sweep(w))
        bought == SumOf(LAMBDA b : IF S1Delta(b) > 0 THEN b.volume ELSE 0, Recovery(w))
        held   == IF Len(Recovery(w)) > 10 THEN 10 ELSE Len(Recovery(w))
    IN  /\ w.s1 # << >> /\ Volume(Side(w.trades, "sell")) # 0
        /\ sold >= LargeTrade /\ sold > 0
        /\ 60 * bought + 4 * held * sold >= 50 * sold

large_count(w, side) == Len(SelectSeq(Side(w.trades, side), LAMBDA t : t.size >= LargeTrade))

\* _avg_bar_volume, the mean volume of the bars before this one.
avg_bar_volume ==
    IF vol_history = << >> THEN 0 ELSE SumOf(LAMBDA v : v, vol_history) \div Len(vol_history)

\* _build_flow_context
build_flow_context(w, bar) ==
    LET split    == split_delta(w, bar)
        absorbed == absorption_detected(w)
        buy      == Volume(Side(w.trades, "buy"))
        sell     == Volume(Side(w.trades, "sell"))
    IN  IF w.open = None THEN [known |-> FALSE, from |-> << >>]
        ELSE [known |-> TRUE, from |-> w.trades, delta |-> buy - sell,
              has_trades |-> w.trades # << >>, large_sells |-> large_count(w, "sell"),
              absorption |-> absorbed,
              v_reversal |-> /\ split.known /\ ~absorbed /\ split.seconds <= 5
                             /\ 10 * split.recovery < 3 * split.sweep,
              genuine |-> /\ split.known /\ absorbed /\ 2 * split.recovery > split.sweep
                          /\ 10 * (buy + sell) > 12 * avg_bar_volume /\ large_count(w, "buy") >= 2]

\* _update_vol_history
update_vol_history(v) ==
    Append(IF Len(vol_history) < VolHistorySize THEN vol_history ELSE Tail(vol_history), v)

\* The window a bar leaves open is the minute after it.
next_open(bar) == bar.at + 60

\* _on_bar for a one-second bar
on_s1_bar ==
    LET b == Head(aggBars)
    IN  /\ aggBars # << >> /\ b.kind = "S1"
        /\ aggBars' = Tail(aggBars)
        /\ window' = IF in_window(b.at) THEN [window EXCEPT !.s1 = Append(@, b)] ELSE window
        /\ UNCHANGED <<second, price, seconds, lost, aggTrades, thesisTrades, bundles,
                       vol_history, emitted, inTime, ticks, ticked, processed>>

publish_bundle(b) == Append(bundles, b)

\* _seal_and_emit: whatever window is open goes with the bar.
seal_and_emit ==
    LET bar    == Head(aggBars)
        bundle == [at |-> bar.at, flow |-> build_flow_context(window, bar)]
    IN  /\ aggBars # << >> /\ bar.kind = "M1"
        /\ aggBars' = Tail(aggBars)
        /\ vol_history' = update_vol_history(bar.volume)
        /\ window' = [NoWindow EXCEPT !.open = next_open(bar)]
        /\ bundles' = publish_bundle(bundle)
        /\ emitted' = Append(emitted, bundle)
        /\ UNCHANGED <<second, price, seconds, lost, aggTrades, thesisTrades, inTime,
                       ticks, ticked, processed>>

-----------------------------------------------------------------------------
(* The thesis engine's window, and the pipeline *)

\* _handle_trade
thesis_handle_trade ==
    /\ thesisTrades # << >>
    /\ ticks' = Append(ticks, Head(thesisTrades))
    /\ ticked' = Append(ticked, Head(thesisTrades))
    /\ thesisTrades' = Tail(thesisTrades)
    /\ UNCHANGED <<second, price, seconds, lost, aggTrades, aggBars, bundles, window,
                   vol_history, emitted, inTime, processed>>

\* BarPipeline._process, of which the trade window is the part modelled here.
\* The flow is computed as of the bar's timestamp, the second it opened.
process_bundle ==
    LET b == Head(bundles)
    IN  /\ bundles # << >>
        /\ bundles' = Tail(bundles)
        /\ ticks' = trim_window(ticks, b.at)
        /\ processed' = Append(processed,
                [at |-> b.at, used |-> trim_window(ticks, b.at),
                 tick |-> compute_tick_flow(ticks, b.at, Len(ticked), NoDeviation)])
        /\ UNCHANGED <<second, price, seconds, lost, aggTrades, aggBars, thesisTrades,
                       window, vol_history, emitted, inTime, ticked>>

-----------------------------------------------------------------------------
FlowInit ==
    /\ second = 0 /\ price = 100 /\ seconds = << >> /\ lost = {}
    /\ aggTrades = << >> /\ aggBars = << >> /\ thesisTrades = << >> /\ bundles = << >>
    /\ window = NoWindow /\ vol_history = << >> /\ emitted = << >> /\ inTime = {}
    /\ ticks = << >> /\ ticked = << >> /\ processed = << >>

FlowNext ==
    \/ \E shape \in Shapes[TimeOf(second) % 60], lose \in BOOLEAN : Publish(shape, lose)
    \/ on_trade \/ on_s1_bar \/ seal_and_emit \/ thesis_handle_trade \/ process_bundle

\* Every queue has a task that keeps taking from it.
FlowFairness ==
    WF_flowVars(on_trade) /\ WF_flowVars(on_s1_bar \/ seal_and_emit)
    /\ WF_flowVars(thesis_handle_trade) /\ WF_flowVars(process_bundle)

FlowSpec == FlowInit /\ [][FlowNext]_flowVars /\ FlowFairness

-----------------------------------------------------------------------------
(* Properties *)

\* The type invariant.
FlowTypeOK ==
    /\ second \in 0 .. MaxMinutes * Len(Offsets)
    /\ window.open = None \/ window.open % 60 = 0
    /\ Len(vol_history) <= VolHistorySize
    /\ \A q \in {aggTrades, thesisTrades} : Len(q) <= QueueSize
    /\ \A i \in DOMAIN emitted : emitted[i].flow.known \in BOOLEAN

\* No look-ahead: however trades and bars interleave, the flow of a bundle
\* has no trade later than its bar, and a trade of another minute only when
\* the bar before it was lost, so that a stale window was sealed with it.
FlowIsNotAhead ==
    \A i \in DOMAIN emitted :
        LET b == emitted[i] IN
        \A j \in DOMAIN b.flow.from :
            LET m == MinuteOf(b.flow.from[j].at) IN
            m <= b.at /\ (m # b.at => (b.at - 60) \in lost)

\* A trade handled while its minute's window is open is in the window, or in
\* the one bundle that window was sealed into: never lost, never twice.
TradesCountedOnce ==
    \A t \in inTime :
        LET sealed == {i \in DOMAIN emitted : t \in Range(emitted[i].flow.from)} IN
        /\ Cardinality(sealed) <= 1
        /\ (sealed = {}) <=> (t \in Range(window.trades))

\* When the pipeline computes the tick flow of a bar, the trimmed window holds
\* exactly the trades handled so far from thirty seconds before the bar on:
\* earlier trims never took one that is still due.
TickWindowExact ==
    [][Len(processed') > Len(processed) =>
        LET p == processed'[Len(processed')] IN
        p.used = SelectSeq(ticked, LAMBDA t : t.at >= p.at - 30)]_flowVars

\* Every one-minute bar the feed delivers reaches the pipeline as a bundle, the
\* first one, which has no window, included.
BarsReachPipeline ==
    \A m \in 0 .. MaxMinutes - 1 :
        (second = (m + 1) * Len(Offsets) /\ 60 * m \notin lost)
            ~> (\E i \in DOMAIN processed : processed[i].at = 60 * m)

-----------------------------------------------------------------------------
(* The properties together, as a run checks them *)

\* The flow of a bundle is made of its minute's trades: each of them once, and
\* none from after the bar.
FlowIsOfItsMinute == FlowTypeOK /\ FlowIsNotAhead /\ TradesCountedOnce

\* Every bar that is delivered is processed, and with exactly the trades its
\* tick window asks for.
BarsArriveWithTheirTrades == TickWindowExact /\ BarsReachPipeline
=============================================================================
