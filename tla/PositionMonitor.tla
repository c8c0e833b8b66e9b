--------------------------- MODULE PositionMonitor ---------------------------
(***************************************************************************)
(* The shadow position monitor (engines/position/engine.py) between the    *)
(* intrabar flow engines that confirm its entries and the WebSocket        *)
(* clients its signals go to (api/connection_manager.py).                  *)
(*                                                                         *)
(* The monitor handles one-second bars one at a time, in a task that       *)
(* suspends when it publishes a signal and again while it broadcasts the   *)
(* intrabar state to every client, each send bounded by a timeout.  In     *)
(* between, the tasks of pipeline outputs, theses and quotes change the    *)
(* same dictionaries.  Outputs, theses and quotes may be handled at any    *)
(* time, so they have no queues here.                                      *)
(***************************************************************************)
EXTENDS IntrabarFlow

CONSTANTS
    Symbols, Clients,
    Keys,               \* keys of _connections: symbols and their roots
    Root,               \* [Symbols -> Keys]
    ClientKey,          \* [Clients -> Keys]: what a client connects for
    Setups,             \* [symbol -> set of scored setups [id, buy, grade, entry, stop, target]]
    MinGrade,           \* _min_grade as an index of _GRADE_ORDER
    Theses,             \* thesis types
    Script,             \* sequence of the sets of outputs, theses, quotes and quality changes
                        \* [kind, sym, value] one of which may come next
    Shapes,             \* per second, set of [close, dip, side]: what the feed may bring
    TimeoutBars,        \* _timeout_bars
    Seconds,            \* [symbol -> number of one-second bars of a behaviour]
    QueueSize           \* bound on the queues

ASSUME MonitorAssumption ==
    /\ Root \in [Symbols -> Keys] /\ ClientKey \in [Clients -> Keys]
    /\ TimeoutBars \in Nat \ {0} /\ Seconds \in [Symbols -> Nat]
    /\ {QueueSize, MinGrade} \subseteq Nat
    /\ \A sym \in Symbols :
        /\ \A s \in Setups[sym] :
            /\ s.buy \in BOOLEAN /\ {s.id, s.grade} \subseteq Nat
            /\ {s.entry, s.stop, s.target} \subseteq Int
        /\ \A at \in 0 .. Seconds[sym] - 1 : \A shape \in Shapes[at] :
            shape.close \in Nat /\ shape.dip \in 0 .. shape.close /\ shape.side \in {"buy", "sell", "none"}

VARIABLES
    second,             \* per symbol, one-second bars published
    minuteLow,          \* per symbol, low of the minute under way
    intraBars, intraTrades,     \* per symbol, queues of the intrabar engine
    s1Bars,             \* the monitor's queue of bars
    engine,             \* per symbol, the intrabar flow engine
    window,             \* history: per symbol, one-second bars its state has counted
    pending_setups,     \* _pending_setups
    positions,          \* _shadow_positions
    thesis,             \* _latest_thesis_type
    imbalance,          \* sign of the last quote's bid size over one half: -1, 0, 1, or 2 for none
    clean,              \* per symbol, is_signal_allowed of the ingestion monitor
    recently_exited,    \* _recently_exited
    task,               \* the bar under way: [phase, sym, exit]
    signals,            \* published POSITION_SIGNAL events
    outputs,            \* history: number of pipeline outputs handled
    events,             \* number of events of the script that have come
    delivered,          \* signals whose broadcast has begun
    client,             \* per client: "new", "open" or "closed"
    missed,             \* history: clients a signal of their symbol was not delivered to
    cast                \* per broadcaster, [todo, dead, closing] while it sends and closes

monitorVars == <<pending_setups, positions, thesis, imbalance, clean, recently_exited, task,
                 signals, outputs, events>>
feedVars == <<second, minuteLow, intraBars, intraTrades, s1Bars, engine, window>>
clientVars == <<delivered, client, missed, cast>>
vars == <<feedVars, monitorVars, clientVars>>

NoPosition == [setup |-> None]
Idle == [phase |-> "idle", sym |-> "none", exit |-> FALSE]
NoCast == [todo |-> {}, dead |-> {}, closing |-> FALSE]

-----------------------------------------------------------------------------
(* The feed and the intrabar engines *)

\* One second of a symbol: its trade, its bar and, at the end of a minute, the
\* minute's bar.
Publish(sym, shape) ==
    LET at   == second[sym]
        bar  == [kind |-> "S1", sym |-> sym, at |-> at, high |-> shape.close,
                 low |-> shape.close - shape.dip, close |-> shape.close]
        low  == IF at % MinuteSeconds = 0 \/ bar.low < minuteLow[sym] THEN bar.low ELSE minuteLow[sym]
        m1   == IF (at + 1) % MinuteSeconds = 0 THEN <<[kind |-> "M1", at |-> at, low |-> low]>> ELSE << >>
        trades == IF shape.side = "none" THEN << >> ELSE <<[size |-> LargeTrade, side |-> shape.side]>>
    IN  /\ Len(intraBars[sym]) < QueueSize /\ Len(intraTrades[sym]) < QueueSize
        /\ Len(s1Bars) < QueueSize
        /\ second' = [second EXCEPT ![sym] = @ + 1]
        /\ minuteLow' = [minuteLow EXCEPT ![sym] = low]
        /\ intraTrades' = [intraTrades EXCEPT ![sym] = @ \o trades]
        /\ intraBars' = [intraBars EXCEPT ![sym] = @ \o <<bar>> \o m1]
        /\ s1Bars' = Append(s1Bars, bar)
        /\ UNCHANGED <<engine, window, monitorVars, clientVars>>

on_intrabar_bar(sym) ==
    LET bar   == Head(intraBars[sym])
        first == engine[sym].window # MinuteOf(bar.at)
    IN  /\ intraBars[sym] # << >>
        /\ intraBars' = [intraBars EXCEPT ![sym] = Tail(@)]
        /\ engine' = [engine EXCEPT ![sym] = intrabar_on_bar(@, bar)]
        /\ window' = [window EXCEPT ![sym] = IF bar.kind = "M1" THEN @
                                             ELSE IF first THEN << >> ELSE Append(@, bar)]
        /\ UNCHANGED <<second, minuteLow, intraTrades, s1Bars, monitorVars, clientVars>>

on_intrabar_trade(sym) ==
    /\ intraTrades[sym] # << >>
    /\ intraTrades' = [intraTrades EXCEPT ![sym] = Tail(@)]
    /\ engine' = [engine EXCEPT ![sym] = intrabar_on_trade(@, Head(intraTrades[sym]))]
    /\ UNCHANGED <<second, minuteLow, intraBars, s1Bars, window, monitorVars, clientVars>>

-----------------------------------------------------------------------------
(* Outputs, theses, quotes and data quality *)

Event(kind, sym, value) ==
    /\ events < Len(Script) /\ [kind |-> kind, sym |-> sym, value |-> value] \in Script[events + 1]
    /\ events' = events + 1

qualifies(s) == s.grade <= MinGrade

\* _on_pipeline_output: the watchlist of the symbol is replaced, and the block
\* on setups that have exited is lifted, for every symbol.
on_pipeline_output(sym, scored) ==
    /\ Event("output", sym, scored)
    /\ outputs' = outputs + 1
    /\ recently_exited' = {}
    /\ pending_setups' = [pending_setups EXCEPT ![sym] = {s \in scored : qualifies(s)}]
    /\ UNCHANGED <<positions, thesis, imbalance, clean, task, signals, feedVars, clientVars>>

invalidates(sym, new) ==
    positions[sym] # NoPosition /\ positions[sym].thesis # "none" /\ new # positions[sym].thesis

\* _on_thesis
on_thesis(sym, new) ==
    /\ Event("thesis", sym, new)
    /\ thesis' = [thesis EXCEPT ![sym] = new]
    /\ positions' = IF invalidates(sym, new) THEN [positions EXCEPT ![sym].invalidated = TRUE]
                    ELSE positions
    /\ UNCHANGED <<pending_setups, imbalance, clean, recently_exited, task, signals, outputs,
                   feedVars, clientVars>>

\* _on_quote, and _compute_bai of it: a quote without sizes gives none.
on_quote(sym, side) ==
    /\ Event("quote", sym, side)
    /\ imbalance' = [imbalance EXCEPT ![sym] = side]
    /\ UNCHANGED <<pending_setups, positions, thesis, clean, recently_exited, task, signals,
                   outputs, feedVars, clientVars>>

\* The ingestion monitor changes its mind about the symbol.
quality_changes(sym) ==
    /\ Event("quality", sym, "change")
    /\ clean' = [clean EXCEPT ![sym] = ~@]
    /\ UNCHANGED <<pending_setups, positions, thesis, imbalance, recently_exited, task, signals,
                   outputs, feedVars, clientVars>>

-----------------------------------------------------------------------------
(* Entries and exits *)

\* _confirms_entry; imbalance 2 is a missing one.
confirms_entry(s, sym, price) ==
    LET d == delta(engine[sym].state)
        b == imbalance[sym]
    IN  IF s.buy THEN price >= s.entry /\ d > 0 /\ (b = 2 \/ b = 1)
        ELSE price <= s.entry /\ d < 0 /\ (b = 2 \/ b = -1)

\* Mutant: the block on setups that have exited is not consulted.
may_enter_again(s) == TRUE

may_enter(s) == s.id \notin recently_exited

\* _check_entry: the best grade first, then the least id.
entry_candidates(sym, price) ==
    {s \in pending_setups[sym] : may_enter(s) /\ confirms_entry(s, sym, price)}

best_of(S) == CHOOSE s \in S : \A o \in S : s.grade < o.grade \/ (s.grade = o.grade /\ s.id <= o.id)

open_position(sym, s, price) ==
    [setup |-> s.id, buy |-> s.buy, entry |-> price, stop |-> s.stop, target |-> s.target,
     thesis |-> thesis[sym], held |-> 0, mfe |-> 0, mae |-> 0, invalidated |-> FALSE, shown |-> {}]

gain(p, price) == IF p.buy THEN price - p.entry ELSE p.entry - price

is_stop_hit(p, price) == IF p.buy THEN price <= p.stop ELSE price >= p.stop
is_target_hit(p, price) == IF p.buy THEN price >= p.target ELSE price <= p.target

\* The first half of _check_exit: the bar is counted and the excursions kept.
held_one_more(p, price) ==
    LET x == gain(p, price)
    IN  [p EXCEPT !.held = @ + 1, !.mfe = IF x > @ THEN x ELSE @,
                  !.mae = IF x < -@ THEN -x ELSE @, !.shown = @ \cup {price}]

exit_reason(p, price) ==
    IF is_stop_hit(p, price) THEN "stop_hit"
    ELSE IF is_target_hit(p, price) THEN "target_hit"
    ELSE IF p.invalidated THEN "thesis_invalidated"
    ELSE IF p.held >= TimeoutBars THEN "timeout"
    ELSE "none"

signal(type, sym, p, price, reason) ==
    [type |-> type, sym |-> sym, setup |-> p.setup, pnl |-> gain(p, price),
     mfe |-> p.mfe, mae |-> p.mae, reason |-> reason, outputs |-> outputs]

\* _emit_enter, _emit_hold and _emit_exit: the event is published and the
\* task may be suspended.
emit(s, exit) ==
    /\ signals' = Append(signals, s)
    /\ task' = [phase |-> "published", sym |-> s.sym, exit |-> exit]

symbol_broadcast_keys(sym) == {sym, Root[sym]}

\* The clients a broadcast of the symbol is for.
receivers(sym) ==
    {c \in Clients : client[c] = "open" /\ ClientKey[c] \in symbol_broadcast_keys(sym)}

forget_position(sym) == [positions EXCEPT ![sym] = NoPosition]

\* _on_s1_bar up to the first suspension.
on_s1_bar ==
    LET bar  == Head(s1Bars)
        sym  == bar.sym
        held == held_one_more(positions[sym], bar.close)
        why  == exit_reason(held, bar.close)
        best == best_of(entry_candidates(sym, bar.close))
        new  == open_position(sym, best, bar.close)
    IN  /\ task.phase = "idle" /\ s1Bars # << >>
        /\ s1Bars' = Tail(s1Bars)
        /\ \/ /\ positions[sym] # NoPosition
              /\ positions' = [positions EXCEPT ![sym] = held]
              /\ emit(signal(IF why = "none" THEN "would_hold" ELSE "would_exit",
                             sym, held, bar.close, why), why # "none")
           \/ /\ positions[sym] = NoPosition /\ ~clean[sym]
              /\ UNCHANGED <<positions, signals, task>>
           \/ /\ positions[sym] = NoPosition /\ clean[sym]
              /\ entry_candidates(sym, bar.close) # {}
              /\ positions' = [positions EXCEPT ![sym] = new]
              /\ emit(signal("would_enter", sym, new, bar.close, "none"), FALSE)
           \/ /\ positions[sym] = NoPosition /\ clean[sym]
              /\ entry_candidates(sym, bar.close) = {}
              /\ task' = [phase |-> "published", sym |-> sym, exit |-> FALSE]
              /\ UNCHANGED <<positions, signals>>
        /\ UNCHANGED <<second, minuteLow, intraBars, intraTrades, engine, window, clientVars,
                       pending_setups, thesis, imbalance, clean, recently_exited, outputs,
                       events>>

\* _broadcast_intrabar: the bar is done at once when there is nobody to send to.
broadcast_intrabar(sym) ==
    /\ task' = IF receivers(sym) = {} THEN Idle ELSE [task EXCEPT !.phase = "casting"]
    /\ cast' = [cast EXCEPT !.flow.todo = receivers(sym)]

\* Back from publishing, once the subscriber's queue has room: the rest of _check_exit, then _broadcast_intrabar.
resume_s1_bar ==
    LET sym == task.sym
    IN  /\ task.phase = "published" /\ Len(signals) - delivered <= QueueSize
        /\ recently_exited' = IF task.exit THEN recently_exited \cup {positions[sym].setup}
                              ELSE recently_exited
        /\ positions' = IF task.exit THEN forget_position(sym) ELSE positions
        /\ broadcast_intrabar(sym)
        /\ UNCHANGED <<feedVars, pending_setups, thesis, imbalance, clean, signals, outputs,
                       events, delivered, client, missed>>

-----------------------------------------------------------------------------
(* The connection manager *)

connect(c) ==
    /\ client[c] = "new"
    /\ client' = [client EXCEPT ![c] = "open"]
    /\ UNCHANGED <<delivered, missed, cast, feedVars, monitorVars>>

\* The client goes away: the endpoint's ping fails and disconnects it.
disconnect(c) ==
    /\ client[c] = "open"
    /\ client' = [client EXCEPT ![c] = "closed"]
    /\ UNCHANGED <<delivered, missed, cast, feedVars, monitorVars>>

\* _on_position_signal: the next signal goes to the clients of its symbol.
on_position_signal ==
    /\ delivered < Len(signals) /\ cast.signal = NoCast
    /\ delivered' = delivered + 1
    /\ cast' = [cast EXCEPT !.signal.todo = receivers(signals[delivered + 1].sym)]
    /\ missed' = missed \cup {c \in Clients : client[c] = "open" /\ c \notin cast'.signal.todo
                                 /\ ClientKey[c] \in {signals[delivered'].sym, Root[signals[delivered'].sym]}}
    /\ UNCHANGED <<client, feedVars, monitorVars>>

\* Mutant: a client whose send failed stays connected.
discard_nobody(d) == client

discard(d) == [client EXCEPT ![d] = "closed"]

\* The loop over the clients whose send failed: the next one is discarded and the loop
\* waits for its socket to close.  After the last one the monitor's bar is done.
drop_next(b, dead) ==
    IF dead = {}
    THEN /\ cast' = [cast EXCEPT ![b] = NoCast]
         /\ task' = IF b = "flow" THEN Idle ELSE task
         /\ UNCHANGED client
    ELSE \E d \in dead :
         /\ client' = discard(d)
         /\ cast' = [cast EXCEPT ![b] = [todo |-> {}, dead |-> dead \ {d}, closing |-> TRUE]]
         /\ UNCHANGED task

\* Mutant: the send has no timeout.
send_ends_untimed(c, ok) == ok /\ client[c] = "open"

\* A send succeeds only with a client that is there, and fails when the
\* timeout passes first.
send_ends(c, ok) == ok => client[c] = "open"

\* One turn of the loop over the clients of _broadcast.
send_json(b, c, ok) ==
    LET dead == cast[b].dead \cup (IF ok THEN {} ELSE {c})
    IN  /\ c \in cast[b].todo
        /\ send_ends(c, ok)
        /\ missed' = IF b = "signal" /\ ~ok THEN missed \cup {c} ELSE missed
        /\ IF cast[b].todo = {c} THEN drop_next(b, dead)
           ELSE /\ cast' = [cast EXCEPT ![b].todo = @ \ {c}, ![b].dead = dead]
                /\ UNCHANGED <<client, task>>
        /\ UNCHANGED <<feedVars, delivered, pending_setups, positions, thesis, imbalance, clean,
                       recently_exited, signals, outputs, events>>

\* ws.close() returns or raises.
close_ends(b) ==
    /\ cast[b].closing /\ drop_next(b, cast[b].dead)
    /\ UNCHANGED missed
    /\ UNCHANGED <<feedVars, delivered, pending_setups, positions, thesis, imbalance, clean,
                   recently_exited, signals, outputs, events>>

-----------------------------------------------------------------------------
Init ==
    /\ second = [s \in Symbols |-> 0] /\ minuteLow = [s \in Symbols |-> 0]
    /\ intraBars = [s \in Symbols |-> << >>] /\ intraTrades = [s \in Symbols |-> << >>]
    /\ s1Bars = << >>
    /\ engine = [s \in Symbols |-> NewEngine] /\ window = [s \in Symbols |-> << >>]
    /\ pending_setups = [s \in Symbols |-> {}]
    /\ positions = [s \in Symbols |-> NoPosition]
    /\ thesis = [s \in Symbols |-> "none"] /\ imbalance = [s \in Symbols |-> 2]
    /\ clean = [s \in Symbols |-> TRUE]
    /\ recently_exited = {} /\ task = Idle /\ signals = << >>
    /\ outputs = 0 /\ events = 0
    /\ delivered = 0 /\ client = [c \in Clients |-> "new"] /\ missed = {}
    /\ cast = [flow |-> NoCast, signal |-> NoCast]

Next ==
    \/ \E sym \in Symbols :
        \/ second[sym] < Seconds[sym] /\ \E shape \in Shapes[second[sym]] : Publish(sym, shape)
        \/ on_intrabar_bar(sym) \/ on_intrabar_trade(sym)
        \/ \E scored \in SUBSET Setups[sym] : on_pipeline_output(sym, scored)
        \/ \E new \in Theses : on_thesis(sym, new)
        \/ \E side \in -1 .. 1 : on_quote(sym, side)
        \/ quality_changes(sym)
    \/ on_s1_bar \/ resume_s1_bar \/ on_position_signal
    \/ \E c \in Clients : connect(c) \/ disconnect(c)
    \/ \E b \in {"flow", "signal"} :
        close_ends(b) \/ \E c \in Clients, ok \in BOOLEAN : send_json(b, c, ok)

\* The monitor's task and the manager's run whenever they can; a send ends, in success or
\* at its timeout, and so does the closing of a socket, which has none in this code: the
\* WebSocket library gives it one.
Fairness ==
    /\ WF_vars(on_s1_bar) /\ WF_vars(resume_s1_bar) /\ WF_vars(on_position_signal)
    /\ \A b \in {"flow", "signal"} :
        WF_vars(\E c \in Clients, ok \in BOOLEAN : send_json(b, c, ok)) /\ WF_vars(close_ends(b))

Spec == Init /\ [][Next]_vars /\ Fairness

-----------------------------------------------------------------------------
(* Properties *)

\* The type invariant; no position outlives its timeout.
MonitorTypeOK ==
    /\ recently_exited \subseteq UNION {{s.id : s \in Setups[sym]} : sym \in Symbols}
    /\ \A sym \in Symbols :
        /\ second[sym] \in 0 .. Seconds[sym]
        /\ pending_setups[sym] \subseteq Setups[sym]
        /\ positions[sym] = NoPosition \/ positions[sym].held \in 0 .. TimeoutBars
    /\ task.phase \in {"idle", "published", "casting"}
    /\ \A c \in Clients : client[c] \in {"new", "open", "closed"}

\* Whatever is handled while a bar's handler is suspended, the signals of a
\* symbol come in cycles of one entry, holds and one exit of the same setup.
SignalsCycle ==
    \A i \in DOMAIN signals :
        LET mine == {j \in DOMAIN signals : signals[j].sym = signals[i].sym}
            open == {j \in mine : /\ j < i /\ signals[j].type # "would_exit"
                                  /\ \A k \in mine : k <= j \/ k >= i}
        IN  IF open = {} THEN signals[i].type = "would_enter"
            ELSE \A j \in open : signals[i].type # "would_enter" /\ signals[i].setup = signals[j].setup

\* A setup that has exited is only entered again after a pipeline output.
ReentryNeedsOutput ==
    \A i, j \in DOMAIN signals :
        (i < j /\ signals[i].type = "would_exit" /\ signals[j].type = "would_enter"
            /\ signals[i].setup = signals[j].setup)
        => signals[i].outputs < signals[j].outputs

\* A position entered under a thesis is marked as soon as the symbol's thesis
\* differs from it, also while its entry is still being published.
ThesisChangeIsSeen ==
    \A sym \in Symbols :
        LET p == positions[sym] IN
        (p # NoPosition /\ p.thesis # "none" /\ thesis[sym] # p.thesis) => p.invalidated

\* The excursions are those of every price the position was shown, and the
\* profit of an exit lies between them.
ExcursionsCoverPrices ==
    /\ \A sym \in Symbols :
        LET p == positions[sym] IN
        p # NoPosition =>
            /\ \A x \in p.shown : -p.mae <= gain(p, x) /\ gain(p, x) <= p.mfe
            /\ p.mfe > 0 => \E x \in p.shown : gain(p, x) = p.mfe
            /\ p.mae > 0 => \E x \in p.shown : gain(p, x) = -p.mae
    /\ \A i \in DOMAIN signals :
        signals[i].type = "would_exit" =>
            -signals[i].mae <= signals[i].pnl /\ signals[i].pnl <= signals[i].mfe

m1_queued(sym) == intraBars[sym] # << >> /\ Head(intraBars[sym]).kind = "M1"

\* Before the bar that ends the minute, a sweep has been found exactly when the
\* running low, that of every second but the first, is below the minute before.
SweepIsNewLow ==
    \A sym \in Symbols :
        LET e == engine[sym]
            s == e.state
        IN  /\ s.elapsed = Len(window[sym]) /\ s.elapsed < MinuteSeconds
            /\ \A i \in DOMAIN window[sym] : s.low <= window[sym][i].low
            /\ (s.elapsed > 0 /\ (s.elapsed < MinuteSeconds - 1 \/ m1_queued(sym))) =>
                (s.swept <=> e.prior_low # None /\ s.low < e.prior_low)

\* A client that is still connected has received every signal of its symbol
\* broadcast since it connected: one that misses a signal is dropped before the
\* next one is sent.
NoSilentGap ==
    \A c \in Clients :
        (client[c] = "open" /\ c \notin cast.signal.dead)
            => c \notin missed

\* However slow the clients are, a position whose timeout is in the bars
\* already published is closed: each send ends, so the bars are all handled.
PositionCloses ==
    \A sym \in Symbols :
        (positions[sym] # NoPosition
            /\ positions[sym].held + Len(SelectSeq(s1Bars, LAMBDA b : b.sym = sym)) >= TimeoutBars)
        ~> (positions[sym] = NoPosition)

-----------------------------------------------------------------------------
(* The properties together, as a run checks them *)

\* The record of shadow trades can be evaluated: complete cycles of one setup,
\* no second entry on the same output, no change of thesis missed.
ShadowTradesAreOrderly ==
    MonitorTypeOK /\ SignalsCycle /\ ReentryNeedsOutput /\ ThesisChangeIsSeen

\* What is measured second by second is what the prices were: excursions and
\* profits of a position, the sweep of a minute.
PricesAreMeasured == ExcursionsCoverPrices /\ SweepIsNewLow
=============================================================================
