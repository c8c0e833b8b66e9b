----------------------------- MODULE BarPipeline -----------------------------
(***************************************************************************)
(* The sequential pipeline (engines/flow/pipeline.py): every one-minute    *)
(* bundle runs through the feature, market-state, thesis, setup and        *)
(* scoring engines, and the result is published.  Bars follow each other   *)
(* minute by minute from the last close; with a tick feed the trades of a  *)
(* minute reach the feature engine before its bar does.                    *)
(***************************************************************************)
EXTENDS ScoringEngine, ThesisEngine

CONSTANTS
    Shapes,         \* set of [up, down, move, volume, flow, tick]: a bar relative to its open
    Openings,       \* set of [bars, free]: shapes of the first bars of a session, and
                    \* the bound on the bars that follow in a behaviour
    FirstPrice,     \* price of the first open
    Gap,            \* move of the price between two sessions
    DateRoll,       \* minute of a session at which the date in UTC changes
    Histories,      \* set of histories the warm-up may emit: sequences of [tf, bar]
    MaxOvertaking,  \* bound: bars the pipeline processes before it has all of the history
    MaxSessions     \* bound on its sessions

ASSUME PipelineAssumption ==
    /\ \A o \in Openings : Range(o.bars) \subseteq Shapes /\ Len(o.bars) > 0 /\ o.free \in Nat
    /\ FirstPrice > 0 /\ {MaxSessions, MaxOvertaking} \subseteq Nat
    \* a futures session starts in the evening: midnight UTC comes before its cash open
    /\ DateRoll \in Nat /\ (IsFutures => DateRoll <= RegOpen)

VARIABLES
    opening,        \* the opening of the behaviour's sessions
    feed,           \* "bars", or "ticks" when trades reach record_trade too
    forming,        \* shape of the minute whose trades were seen, or NoShape
    price,          \* last close
    tape,           \* bars of the session so far
    total,          \* bars so far
    history,        \* higher-timeframe bars of the warm-up, in the order they are emitted
    handled,        \* how many of them the feature engine has handled
    output          \* last PipelineOutputEvent, and what was handled before it: [snap, scored, handled]

vars == <<feat, htf, market, thesis, setups, history, handled, opening, feed, forming, price,
          tape, total, output>>

NoShape == [volume |-> 0]

\* session and minute of the next bar, one minute after the last one
NextMinute == IF tape = << >> THEN 0 ELSE tape[Len(tape)].minute + 1
Session == IF feat.session = None THEN 1 ELSE feat.session

MakeBar(shape, open, session, minute) ==
    [open |-> open, high |-> open + shape.up, low |-> open - shape.down,
     close |-> open + shape.move, volume |-> shape.volume,
     session |-> session, minute |-> minute,
     date |-> IF minute < DateRoll THEN session - 1 ELSE session]

\* Shapes of the next bar: prescribed for the opening, then any.
Allowed(minute) == IF minute < Len(opening.bars) THEN {opening.bars[minute + 1]} ELSE Shapes

MaxBars == Len(opening.bars) + opening.free

Init ==
    /\ htf = NoHtf /\ history \in Histories /\ handled = 0
    /\ feat = FreshState /\ market = NoMarket /\ thesis = NoThesis /\ setups = NoSetups
    /\ opening \in Openings /\ feed \in {"bars", "ticks"}
    /\ forming = NoShape /\ price = FirstPrice /\ tape = << >> /\ total = 0
    /\ output = [snap |-> None, scored |-> {}, handled |-> 0]

\* The five stages on one bundle, and the event they end with.  The setups
\* of the event are the list stage 4 returned: grades given by stage 5 are in
\* the engine's copies, not in the list.
process(bar, flow, tick) ==
    LET f   == update_state(feat, bar)
        h   == flush_pending(htf)
        sn  == build_snapshot(f, h, bar)
        m   == classify(market, sn)
        ms  == market_state(m, sn)
        e   == setup_process_bar(setups, sn, ms)
    IN  /\ feat' = f
        /\ htf' = h /\ UNCHANGED <<history, handled>>
        /\ total >= MaxOvertaking => handled = Len(history)
        /\ market' = m
        /\ thesis' = thesis_process_bar(thesis, sn, f, tick)
        /\ setups' = scoring_process_bar(e, sn, flow)
        /\ output' = [snap |-> sn, handled |-> handled,
                      scored |-> {id \in DOMAIN e.active : e.active[id].grade # "none"}]

\* The catch-up emits the hourly and the five-minute bars of its window before the
\* first one-minute bar, and nothing emits them later.  They reach the feature engine
\* through a queue of their own, so that one-minute bars may overtake them.
HtfBar ==
    /\ handled < Len(history)
    /\ LET next == history[handled + 1] IN htf' = handle_bar(htf, next.tf, next.bar)
    /\ handled' = handled + 1
    /\ UNCHANGED <<history, feat, market, thesis, setups, opening, feed, forming, price, tape,
                   total, output>>

\* The next one-minute bar of the session.
Bar(shape) ==
    LET bar == MakeBar(shape, price, Session, NextMinute)
    IN  /\ total < MaxBars
        /\ feed = "ticks" => forming = shape
        /\ shape \in Allowed(NextMinute)
        /\ process(bar, shape.flow, shape.tick)
        /\ price' = bar.close /\ tape' = Append(tape, bar) /\ total' = total + 1
        /\ forming' = NoShape /\ UNCHANGED <<opening, feed>>

\* The first bar of the next session.
Roll ==
    LET first == opening.bars[1]
        bar   == MakeBar(first, price + Gap, Session + 1, 0)
    IN  /\ total < MaxBars /\ Session < MaxSessions /\ Len(tape) > Len(opening.bars)
        /\ forming = NoShape
        /\ process(bar, first.flow, first.tick)
        /\ price' = bar.close /\ tape' = <<bar>> /\ total' = total + 1
        /\ UNCHANGED <<opening, feed, forming>>

\* The quotes and trades of a minute's two extremes, before its bar.
Trades(shape) ==
    LET at(s, p) == record_trade(handle_quote(s, p - 1, p + 1), p)
    IN  /\ feed = "ticks" /\ forming = NoShape /\ total < MaxBars
        /\ shape \in Allowed(NextMinute)
        /\ feat' = at(at(feat, price + shape.up), price - shape.down)
        /\ forming' = shape
        /\ UNCHANGED <<htf, history, handled, market, thesis, setups, opening, feed, price, tape,
                       total, output>>

\* A print far from the quote.
BadPrint(p) ==
    /\ feed = "ticks" /\ forming # NoShape
    /\ feat' = record_trade(feat, p)
    /\ UNCHANGED <<htf, history, handled, market, thesis, setups, opening, feed, forming, price,
                       tape, total, output>>

Next ==
    \/ \E shape \in Shapes : Bar(shape) \/ Trades(shape)
    \/ Roll \/ HtfBar
    \/ \E p \in {2 * FirstPrice, FirstPrice \div 2} : BadPrint(p)

Spec == Init /\ [][Next]_vars

-----------------------------------------------------------------------------
(* The session recomputed from its bars *)

Bars == 1 .. Len(tape)

HighestOf(S) == CHOOSE x \in S : \A y \in S : y <= x
LowestOf(S) == CHOOSE x \in S : \A y \in S : y >= x

\* VWAP after the first n bars.
VwapAt(n) ==
    LET first == SubSeq(tape, 1, n)
    IN  FoldFunction(LAMBDA b, acc : (b.high + b.low + b.close) * b.volume + acc, 0, first)
        \div (3 * FoldFunction(LAMBDA b, acc : b.volume + acc, 0, first))

AboveAt(n) == tape[n].close >= VwapAt(n)

\* Length of the run of bars on the last bar's side of VWAP.
RunLength ==
    Cardinality({i \in Bars : \A j \in i .. Len(tape) : AboveAt(j) = AboveAt(Len(tape))})

OpeningRange == {i \in Bars : tape[i].minute >= RegOpen /\ tape[i].minute < OrbEnd}

\* The type invariant: the shape of every engine's memory.
PipelineTypeOK ==
    /\ feed \in {"bars", "ticks"} /\ forming \in Shapes \cup {NoShape}
    /\ total \in 0 .. MaxBars /\ price \in Nat
    /\ feat.session \in {None} \cup 1 .. MaxSessions
    /\ feat.prev_side \in {"none", "above", "below"}
    /\ feat.last_vwap_outcome \in {"none", "reclaimed", "rejected", "broken", "swept"}
    /\ market.day_type \in {"UNKNOWN", "TREND_UP", "TREND_DOWN", "RANGE", "BALANCED"}
    /\ thesis.dominant.state \in {"NONE", "WATCHING", "BUILDING", "READY", "EXPIRED"}
    /\ thesis.flip.state \in {"NONE", "WATCHING"}
    /\ \A id \in DOMAIN setups.active :
         /\ id[1] = setups.active[id].type /\ id[1] \in SetupTypes
         /\ setups.active[id].state \in {"FORMING", "CONFIRMED"}

\* The bars of one timeframe among the first n of the history.
OfFrame(tf, n) == LET bars == SelectSeq(SubSeq(history, 1, n), LAMBDA e : e.tf = tf)
                  IN  [i \in DOMAIN bars |-> bars[i].bar]
NewestOf(bars) == IF bars = << >> THEN None ELSE Last(bars).minute

\* Every snapshot reflects all the higher-timeframe bars that the feature engine was
\* given before its one-minute bar, and no other: a five-minute bar stays pending until
\* the next one-minute bar and no longer, and the hourly close is placed against the
\* ribbon it made.
HigherFramesCurrent ==
    LET sn     == output.snap
        hourly == OfFrame("H1", output.handled)
        five   == OfFrame("M5", output.handled) IN
    total > 0 =>
        /\ five \o htf.pending = OfFrame("M5", handled)
        /\ sn.htf_5m_watermark = NewestOf(five)
        /\ sn.htf_1h_watermark = NewestOf(hourly)
        /\ sn.ribbon_1h # NoRibbon =>
             sn.ribbon_1h.location = location(Last(hourly).close, sn.ribbon_1h.low, sn.ribbon_1h.high)

\* The session extremes kept by record_trade and by the bars are those of the
\* bars seen and of the minute whose trades were seen: no off-market print
\* moves them, no session leaks into the next.
ExtremesMatchTape ==
    tape # << >> =>
        /\ feat.intraday_high = HighestOf({tape[i].high : i \in Bars} \cup
                IF forming = NoShape THEN {} ELSE {price + forming.up})
        /\ feat.intraday_low = LowestOf({tape[i].low : i \in Bars} \cup
                IF forming = NoShape THEN {} ELSE {price - forming.down})

\* VWAP, the runs above and below it and the opening range, which
\* _update_state keeps bar by bar, are what the session's bars give when
\* recomputed from scratch.
RunsMatchTape ==
    tape # << >> =>
        LET last == Len(tape) IN
        /\ vwap(feat) = VwapAt(last)
        /\ feat.bars_above_vwap = IF AboveAt(last) THEN RunLength ELSE 0
        /\ feat.bars_below_vwap = IF AboveAt(last) THEN 0 ELSE RunLength
        /\ feat.vwap_cross_up = (last > 1 /\ AboveAt(last) /\ ~AboveAt(last - 1))
        /\ OpeningRange # {} => /\ feat.orb_high = HighestOf({tape[i].high : i \in OpeningRange})
                             /\ feat.orb_low = LowestOf({tape[i].low : i \in OpeningRange})

\* The session context and the engine's active setups tell one story: what is
\* active is recorded as it is, levels and grade included, what is recorded as
\* open is active, one per type, and the last session left nothing open.
HistoryTracksActive ==
    /\ \A id \in DOMAIN setups.active :
         id \in DOMAIN setups.history /\ setups.history[id] = history_entry(setups.active[id])
    /\ \A id \in DOMAIN setups.history \ DOMAIN setups.active : setups.history[id].state \in Terminal
    /\ \A id, jd \in DOMAIN setups.active : id[1] = jd[1] => id = jd
    /\ \A id \in DOMAIN setups.previous : setups.previous[id].state \in Terminal

\* A confirmed setup risks something and aims beyond its entry.  The stop of
\* a TREND_PULLBACK is the low of the bar, which may lie above its entry.
LevelsOrdered ==
    \A id \in DOMAIN setups.history :
        LET h == setups.history[id] IN
        h.entry # None /\ h.type # "TREND_PULLBACK" =>
            IF h.type \in LongTypes THEN h.stop < h.entry /\ h.entry < h.target
                                    ELSE h.stop > h.entry /\ h.entry > h.target

\* Two setups of one type in a session are at least the cooldown apart, even
\* when the first one ended on the bar that opened it.
CooldownSpacing ==
    \A id, jd \in DOMAIN setups.history :
        id # jd /\ id[1] = jd[1] => AbsDiff(id[3], jd[3]) >= CooldownBars

\* No setup is traded ungraded: one that triggered or was stopped out had
\* been graded on an earlier bar.
EveryTriggerIsGraded ==
    \A id \in DOMAIN setups.history :
        setups.history[id].state \in {"TRIGGERED", "FAILED"} => setups.history[id].grade # "none"

Rank(state) == CASE state = "FORMING" -> 1 [] state = "CONFIRMED" -> 2 [] OTHER -> 3

\* Within a session no setup disappears from the context, goes back, leaves a
\* terminal state, or changes its levels or grade once it has them.
LifecycleForward ==
    [][setups'.session = setups.session =>
        \A id \in DOMAIN setups.history :
            LET h == setups.history[id]
                k == setups'.history[id] IN
            /\ id \in DOMAIN setups'.history
            /\ Rank(h.state) <= Rank(k.state)
            /\ h.state \in Terminal => k = h
            /\ h.entry # None => <<k.entry, k.stop, k.target>> = <<h.entry, h.stop, h.target>>
            /\ h.grade # "none" => k.grade = h.grade]_vars

\* The level a thesis puts its stop beyond covers every test of VWAP in its
\* life: no bar since it began dipped below VWAP under the sweep low of a
\* long, or rose above VWAP over the rejection high of a short.
ThesisCoversTests ==
    LET th == thesis.dominant
        alive == {i \in Bars : i > Len(tape) - th.bars_alive} IN
    th.state \in {"WATCHING", "BUILDING", "READY"} =>
        \A i \in alive :
            IF th.type = LongThesis
            THEN tape[i].low < VwapAt(i) => th.sweep_low # None /\ th.sweep_low <= tape[i].low
            ELSE tape[i].high > VwapAt(i) =>
                    th.rejection_high # None /\ th.rejection_high >= tape[i].high

-----------------------------------------------------------------------------
(* The properties together, as a run checks them *)

\* What the engines keep bar by bar and trade by trade is what the bars of the
\* session, recomputed from scratch, give: the higher timeframes, the extremes,
\* VWAP with its runs and crosses, the opening range, and a thesis' stop.
FeaturesMatchTape ==
    PipelineTypeOK /\ HigherFramesCurrent /\ ExtremesMatchTape /\ RunsMatchTape /\ ThesisCoversTests

\* The setups are consistent over the session: the context shows what is active, no
\* two of a type at once or within the cooldown, and no trigger that was not graded.
SetupsAreConsistent == HistoryTracksActive /\ CooldownSpacing /\ EveryTriggerIsGraded
=============================================================================
