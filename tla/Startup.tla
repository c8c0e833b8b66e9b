------------------------------ MODULE Startup ------------------------------
(***************************************************************************)
(* One `alpha run` after another over the same disk: BaseEngine's life      *)
(* cycle (core/engine.py), BootstrapEngine._on_start, _start_live and       *)
(* _on_stop (engines/bootstrap/engine.py), CatchupService.run               *)
(* (engines/bootstrap/catchup.py) and main.run's start and stop.  One       *)
(* symbol.  A minute bar is its stamp; a setup is the stamp of the bar it    *)
(* was detected on (setup_id is uuid5 of symbol, type and bar stamp).       *)
(* Between the actions of the starter run the subscribers of the event bus, *)
(* each with a FIFO queue and a task of its own: the feature engine, which  *)
(* takes the higher timeframes; the aggregator, which makes a bundle of     *)
(* every minute bar; the pipeline, which takes the bundles; the storage     *)
(* engine and the risk engine.  In which order the tasks get their turns is *)
(* left open.  A bar a subscriber ignores is not put on its queue.          *)
(***************************************************************************)
EXTENDS Catchup

CONSTANTS
    Now0,          \* the minute of the first launch
    MaxNow,        \* bound: the last minute
    MaxLag,        \* bound: minutes the historical edge trails the clock
    WarmLen,       \* m1_days, in minutes
    DetectAt,      \* minutes whose bar makes the setup engine open a setup
    MaxLaunches,   \* bound: launches of the process
    MaxCrashes     \* bound: crashes

ASSUME StartupAssumption ==
    /\ {Now0, MaxNow, MaxLag, WarmLen, MaxLaunches, MaxCrashes} \subseteq Nat
    /\ WarmLen > 0 /\ WarmLen + MaxLag <= Now0 /\ Now0 <= MaxNow
    /\ DetectAt \subseteq Nat

VARIABLES
    now,       \* the wall clock, in minutes
    disk,      \* Parquet: the stamps of the M1 table
    eng,       \* state of every engine, and of the bootstrap engine itself
    pc,        \* where start() is
    spc,       \* engines stop() has still to look at; -1 when it was not called
    m1_end,    \* availability edge of the catch-up
    warm,      \* M1 bars the catch-up fetched
    emitted,   \* bars the catch-up has published
    live,      \* the live subscription: on, its next bar, when it was made
    qFeat, qAgg, qPipe, qStore, qRisk,   \* the subscribers' queues
    buf,       \* M1 bars the storage engine holds in memory
    htf,       \* every D1, H1 and M5 bar the feature engine has taken since the launch
    fed,       \* every minute bar the pipeline has processed since the launch
    active,    \* SetupEngine._active: setup -> stage
    todo,      \* setups _reconcile_active_setups has still to publish
    plans,     \* trade plans the risk engine made of each setup
    reconciled,\* setups published as TRIGGERED by the reconciliation
    left,      \* what the last normal exit left behind
    budget     \* launches and crashes still to come

disk_vars == <<disk, buf>>
bus_vars  == <<qFeat, qAgg, qPipe, qStore, qRisk>>
pipe_vars == <<htf, fed, active, plans>>
start_vars == <<pc, m1_end, warm, emitted, live, todo, reconciled>>
vars == <<now, disk, eng, pc, spc, m1_end, warm, emitted, live, qFeat, qAgg, qPipe, qStore,
          qRisk, buf, htf, fed, active, todo, plans, reconciled, left, budget>>

Minute == 0 .. MaxNow
\* wire_all's list, the order in which engines start and, backwards, stop: those of the
\* twelve whose start and stop change something here.
EngineOrder == <<"storage", "live", "risk">>
Engines == Range(EngineOrder)
Boot == "boot"
FORMING == 1
CONFIRMED == 2
TRIGGERED == 3
EXPIRED == 4
NoSetup == [s \in {} |-> FORMING]

Bar(tf, t, replay) == [tf |-> tf, ts |-> t, replay |-> replay]
SetupEvent(s, stage, replay) == [tf |-> "setup", ts |-> s, stage |-> stage, replay |-> replay]

NothingLeft == [overlap |-> FALSE, saved |-> {}, running |-> {}]
NoLive == [on |-> FALSE, next |-> 0, at |-> 0]

\* Everything the process holds in memory, as main.run leaves it before initialize.
Fresh ==
    /\ m1_end' = 0 /\ warm' = {} /\ emitted' = 0 /\ live' = NoLive
    /\ qFeat' = <<>> /\ qAgg' = <<>> /\ qPipe' = <<>> /\ qStore' = <<>> /\ qRisk' = <<>>
    /\ buf' = {} /\ htf' = <<>> /\ fed' = <<>>
    /\ active' = NoSetup /\ todo' = <<>> /\ reconciled' = {}
    /\ plans' = [s \in DetectAt |-> 0]
    /\ spc' = -1

Init ==
    /\ now = Now0
    /\ disk = {}
    /\ eng = [e \in Engines \cup {Boot} |-> "CREATED"]
    /\ pc = "off" /\ spc = -1 /\ m1_end = 0 /\ warm = {} /\ emitted = 0 /\ live = NoLive
    /\ qFeat = <<>> /\ qAgg = <<>> /\ qPipe = <<>> /\ qStore = <<>> /\ qRisk = <<>>
    /\ buf = {} /\ htf = <<>> /\ fed = <<>>
    /\ active = NoSetup /\ todo = <<>> /\ reconciled = {}
    /\ plans = [s \in DetectAt |-> 0]
    /\ left = NothingLeft
    /\ budget = [launches |-> MaxLaunches, crashes |-> MaxCrashes]
----------------------------------------------------------------------------
(* Storage: the writer loop and the periodic flush, for M1 bars (the setups  *)
(* table is StorageEngine's subject).                                        *)

\* parquet.write with the stamp as the key.
Written(d, bars) == d \cup {b.ts : b \in bars}

\* _on_event: replayed bars are not enqueued here because the handler drops them.
StoreEvent ==
    /\ qStore # <<>>
    /\ qStore' = Tail(qStore)
    /\ buf' = buf \cup {Head(qStore)}
    /\ UNCHANGED <<now, disk, eng, spc, qFeat, qAgg, qPipe, qRisk, left, budget>>
    /\ UNCHANGED <<start_vars, pipe_vars>>

\* The periodic flush.  That rows are in flight while it writes is StorageEngine's
\* subject; here a crash comes before or after the write.
FlushDue ==
    /\ eng["storage"] = "RUNNING" /\ buf # {}
    /\ disk' = Written(disk, buf) /\ buf' = {}
    /\ UNCHANGED <<now, eng, spc, left, budget>>
    /\ UNCHANGED <<start_vars, pipe_vars, bus_vars>>
----------------------------------------------------------------------------
(* The other subscribers.                                                   *)

\* FeatureEngine._handle_bar, a task of its own: a D1 or H1 bar updates its averages, an
\* M5 bar is kept for the next process_bar; minute bars are left to the pipeline.
HandleBar ==
    /\ qFeat # <<>>
    /\ qFeat' = Tail(qFeat)
    /\ htf' = Append(htf, Head(qFeat))
    /\ UNCHANGED <<now, disk, eng, spc, qAgg, qPipe, qStore, qRisk, buf, fed, active, plans, left, budget>>
    /\ UNCHANGED start_vars

\* BarFlowAggregator._on_bar: every minute bar becomes a bundle for the pipeline.
Seal ==
    /\ qAgg # <<>>
    /\ qAgg' = Tail(qAgg)
    /\ qPipe' = Append(qPipe, Head(qAgg))
    /\ UNCHANGED <<now, disk, eng, spc, qFeat, qStore, qRisk, buf, left, budget>>
    /\ UNCHANGED <<start_vars, pipe_vars>>

\* A finite set of integers in increasing order.
Asc(S) == CHOOSE f \in [1..Cardinality(S) -> S] :
             \A i, j \in 1..Cardinality(S) : i < j => f[i] < f[j]

\* SetupEngine.process_bar on a minute bar: every active setup moves one stage, one
\* that reaches a terminal stage leaves _active, and a bar of DetectAt opens its own.
is_active(stage) == stage # EXPIRED

Moved == [s \in DOMAIN active |-> active[s] + 1]
Opened(b) == {b.ts} \cap (DetectAt \ {fed[i].ts : i \in 1..Len(fed)})
Staged(b) == [s \in DOMAIN active \cup Opened(b) |->
                IF s \in DOMAIN active THEN Moved[s] ELSE FORMING]
\* Of the SetupEvents only the TRIGGERED ones do anything at the risk engine.
EventsOf(b) == LET ids == Asc({u \in DOMAIN Staged(b) : Staged(b)[u] = TRIGGERED})
               IN  [i \in 1..Len(ids) |-> SetupEvent(ids[i], TRIGGERED, b.replay)]

\* BarPipeline._process, of one bundle.
Pipeline ==
    /\ qPipe # <<>>
    /\ LET b == Head(qPipe) IN
        /\ qPipe' = Tail(qPipe)
        /\ fed' = Append(fed, b)
        /\ active' = [s \in {u \in DOMAIN Staged(b) : is_active(Staged(b)[u])} |-> Staged(b)[s]]
        /\ qRisk' = qRisk \o EventsOf(b)
    /\ UNCHANGED <<now, qFeat, qAgg, qStore, disk, eng, spc, buf, htf, plans, left, budget>>
    /\ UNCHANGED start_vars

\* RiskEngine._handle_setup: any TRIGGERED event of a setup that is still active makes
\* a plan and forwards it to the order engine; is_replay is not looked at.
MakesPlan(e) == e.stage = TRIGGERED /\ e.ts \in DOMAIN active

RiskHandle ==
    /\ qRisk # <<>>
    /\ qRisk' = Tail(qRisk)
    /\ plans' = IF MakesPlan(Head(qRisk)) THEN [plans EXCEPT ![Head(qRisk).ts] = @ + 1]
                ELSE plans
    /\ UNCHANGED <<now, disk, eng, spc, qFeat, qAgg, qPipe, qStore, buf, htf, fed, active, left, budget>>
    /\ UNCHANGED start_vars

\* The live feed: a minute's bar arrives once the minute is over.
LiveBar ==
    /\ live.on /\ live.next < now
    /\ live' = [live EXCEPT !.next = @ + 1]
    /\ qAgg' = Append(qAgg, Bar("M1", live.next, FALSE))
    /\ qStore' = Append(qStore, Bar("M1", live.next, FALSE))
    /\ UNCHANGED <<now, eng, pc, spc, m1_end, warm, emitted, qFeat, qPipe, qRisk, todo, reconciled,
                   left, budget>>
    /\ UNCHANGED <<disk_vars, pipe_vars>>

\* The clock, where somebody reads it: before a launch, during the catch-up, and once
\* the live feed is on.
Tick ==
    /\ pc \in {"off", "live", "reconcile", "running"} /\ spc = -1 /\ now < MaxNow
    /\ now' = now + 1
    /\ UNCHANGED <<disk, eng, spc, buf, left, budget>>
    /\ UNCHANGED <<start_vars, pipe_vars, bus_vars>>
----------------------------------------------------------------------------
(* start(): BootstrapEngine._on_initialize, _on_start and _start_live.      *)

launch(kind) ==
    /\ pc = "off" /\ budget.launches > 0
    /\ budget' = [budget EXCEPT !.launches = @ - 1]
    /\ eng' = [e \in Engines \cup {Boot} |-> "READY"]
    /\ Fresh
    /\ pc' = kind
    /\ left' = NothingLeft
    /\ UNCHANGED <<now, disk>>

initialize == launch("start")

\* The places of the start order whose engine is not running yet; live comes later.
NotStarted == {i \in DOMAIN EngineOrder :
                 EngineOrder[i] # "live" /\ eng[EngineOrder[i]] \in {"READY", "STOPPED"}}

\* BaseEngine.start: _assert_state(READY) raises in any other state, and the raise
\* puts the bootstrap engine into ERROR.
start_engine ==
    /\ pc = "start" /\ NotStarted # {}
    /\ LET e == EngineOrder[Min(NotStarted)] IN
        IF eng[e] = "READY"
        THEN /\ eng' = [eng EXCEPT ![e] = "RUNNING",
                                   ![Boot] = IF @ = "READY" THEN "STARTING" ELSE @]
             /\ pc' = pc
        ELSE /\ eng' = [eng EXCEPT ![Boot] = "ERROR"]
             /\ pc' = "failed"
    /\ UNCHANGED <<now, spc, m1_end, warm, emitted, live, todo, reconciled, left, budget>>
    /\ UNCHANGED <<disk_vars, pipe_vars, bus_vars>>

SavedRows(S) == [i \in 1..Cardinality(S) |-> Bar("M1", Asc(S)[i], TRUE)]

\* CatchupService.run, first part: the edges, M1 fetched fresh and handed to save_bar.
fetch_m1 ==
    /\ pc = "start" /\ NotStarted = {}
    /\ \E lag \in 0..MaxLag :
        /\ m1_end' = now - lag
        /\ warm' \in fetched(now - lag - WarmLen, now - lag, now - lag)
    /\ buf' = buf \cup Range(SavedRows(warm'))
    /\ pc' = "flush"
    /\ UNCHANGED <<now, disk, eng, spc, emitted, live, todo, reconciled, left, budget>>
    /\ UNCHANGED <<pipe_vars, bus_vars>>

\* StorageEngine.flush: what is buffered is written.  The writer of a stopped storage
\* engine no longer drains the queue, so the join never returns.
flush(from, to) ==
    /\ pc = from
    /\ eng["storage"] = "RUNNING" \/ buf = {}
    /\ disk' = Written(disk, buf) /\ buf' = {}
    /\ pc' = to
    /\ UNCHANGED <<now, eng, spc, m1_end, warm, emitted, live, todo, reconciled, left, budget>>
    /\ UNCHANGED <<pipe_vars, bus_vars>>

flush_m1 == flush("flush", "emit")

\* Emit in dependency order; one H1 bar stands for the D1 and H1 bars, one M5 bar for the
\* M5 bars (how they come from the cache is Backfill's subject).
HigherHistory == <<Bar("H1", 0, TRUE), Bar("M5", 0, TRUE)>>
EmitOrder == HigherHistory \o SavedRows(warm)

\* One publish per bar, which may suspend: a higher timeframe goes to the feature engine,
\* a minute to the aggregator.
emit ==
    /\ pc = "emit"
    /\ emitted' = emitted + 1
    /\ LET b == EmitOrder[emitted'] IN
        IF b.tf = "M1" THEN qAgg' = Append(qAgg, b) /\ UNCHANGED qFeat
        ELSE qFeat' = Append(qFeat, b) /\ UNCHANGED qAgg
    /\ pc' = IF emitted' = Len(EmitOrder) THEN "context" ELSE "emit"
    /\ UNCHANGED <<now, eng, spc, m1_end, warm, live, qPipe, qStore, qRisk, todo, reconciled,
                   left, budget>>
    /\ UNCHANGED <<disk_vars, pipe_vars>>

flush_warm == flush("context", "live")

\* LiveIngestionEngine._on_start: connect, then subscribe from the replay start on.  A
\* connection that fails is logged and leaves the engine RUNNING without a feed.
live_on_start ==
    \E connected \in BOOLEAN :
        live' = [on |-> connected, next |-> compute_replay_start(m1_end, now), at |-> now]

\* The live engine starts from compute_replay_start, then the list of active setups is
\* taken.
start_live ==
    /\ pc = "live"
    /\ IF eng["live"] = "READY"
       THEN /\ eng' = [eng EXCEPT !["live"] = "RUNNING"]
            /\ live_on_start
            /\ todo' = LET ids == Asc(DOMAIN active)
                       IN  [i \in 1..Len(ids) |-> SetupEvent(ids[i], active[ids[i]], FALSE)]
            /\ pc' = "reconcile"
       ELSE /\ eng' = [eng EXCEPT ![Boot] = "ERROR"]
            /\ pc' = "failed"
            /\ UNCHANGED <<live, todo>>
    /\ UNCHANGED <<now, spc, m1_end, warm, emitted, reconciled, left, budget>>
    /\ UNCHANGED <<disk_vars, pipe_vars, bus_vars>>

\* _reconcile_active_setups: one publish per setup of the list, which may suspend.
reconcile ==
    /\ pc = "reconcile" /\ todo # <<>>
    /\ todo' = Tail(todo)
    /\ qRisk' = IF Head(todo).stage = TRIGGERED THEN Append(qRisk, Head(todo)) ELSE qRisk
    /\ reconciled' = IF Head(todo).stage = TRIGGERED THEN reconciled \cup {Head(todo).ts}
                     ELSE reconciled
    /\ UNCHANGED <<now, eng, pc, spc, m1_end, warm, emitted, live, qFeat, qAgg, qPipe, qStore,
                   left, budget>>
    /\ UNCHANGED <<disk_vars, pipe_vars>>

\* start() returns: RUNNING, whatever stop() has done meanwhile.
started ==
    /\ pc = "reconcile" /\ todo = <<>>
    /\ pc' = "running"
    /\ eng' = [eng EXCEPT ![Boot] = "RUNNING"]
    /\ UNCHANGED <<now, spc, m1_end, warm, emitted, live, todo, reconciled, left, budget>>
    /\ UNCHANGED <<disk_vars, pipe_vars, bus_vars>>
----------------------------------------------------------------------------
(* stop(): main.run's finally, _on_stop, and the end of the process.        *)

Starting == pc \notin {"off", "running", "failed", "cancelled"}

\* The states in which BaseEngine.stop does anything.
Stoppable == {"RUNNING", "STARTING", "ERROR"}

begin_stop ==
    /\ pc # "off" /\ spc = -1 /\ eng[Boot] \in Stoppable
    /\ eng' = [eng EXCEPT ![Boot] = "STOPPING"]
    /\ spc' = Len(EngineOrder)

\* A signal cancels start() first; the HTTP server raising, or start() failing, does not.
signal ==
    /\ begin_stop
    /\ pc' = "cancelled"
    /\ UNCHANGED <<now, m1_end, warm, emitted, live, todo, reconciled, left, budget>>
    /\ UNCHANGED <<disk_vars, pipe_vars, bus_vars>>

server_fails ==
    /\ begin_stop
    /\ left' = [left EXCEPT !.overlap = Starting]
    /\ UNCHANGED <<now, budget>>
    /\ UNCHANGED <<start_vars, disk_vars, pipe_vars, bus_vars>>

\* Mutant: stop() waits for an engine that was never started.
stop_engine_waits ==
    /\ spc > 0 /\ eng[EngineOrder[spc]] \in Stoppable
    /\ spc' = spc - 1
    /\ eng' = [eng EXCEPT ![EngineOrder[spc]] = "STOPPED"]
    /\ UNCHANGED <<now, live, pc, m1_end, warm, emitted, todo, reconciled, left, budget>>
    /\ UNCHANGED <<disk_vars, pipe_vars, bus_vars>>

\* LiveIngestionEngine._on_stop: every adapter is disconnected.
live_on_stop == live' = [live EXCEPT !.on = FALSE]

\* BaseEngine.stop of the engines in reverse order; one that is neither RUNNING,
\* STARTING nor ERROR is left as it is.
stop_engine ==
    /\ spc > 0
    /\ spc' = spc - 1
    /\ LET e == EngineOrder[spc] IN
        IF eng[e] \in Stoppable
        THEN /\ eng' = [eng EXCEPT ![e] = "STOPPED"]
             /\ IF e = "live" THEN live_on_stop ELSE UNCHANGED live
             /\ IF e = "storage"
                THEN /\ disk' = Written(disk, buf) /\ buf' = {}
                ELSE UNCHANGED disk_vars
        ELSE UNCHANGED <<eng, live, disk_vars>>
    /\ UNCHANGED <<now, pc, m1_end, warm, emitted, todo, reconciled, left, budget>>
    /\ UNCHANGED <<pipe_vars, bus_vars>>

\* The process ends; asyncio.run cancels whatever is left of start().
exit ==
    /\ spc = 0
    /\ pc' = "off"
    /\ eng' = [e \in Engines \cup {Boot} |-> "CREATED"]
    /\ left' = [overlap |-> left.overlap,
                saved   |-> {b.ts : b \in {c \in buf : c.replay}},
                running |-> {e \in Engines : eng[e] = "RUNNING"}]
    /\ Fresh
    /\ UNCHANGED <<now, disk, budget>>

\* The process dies; only what was written is left.
crash ==
    /\ pc # "off" /\ budget.crashes > 0
    /\ budget' = [budget EXCEPT !.crashes = @ - 1]
    /\ pc' = "off"
    /\ left' = NothingLeft
    /\ eng' = [e \in Engines \cup {Boot} |-> "CREATED"]
    /\ Fresh
    /\ UNCHANGED <<now, disk>>
----------------------------------------------------------------------------
Start == start_engine \/ fetch_m1 \/ flush_m1 \/ emit
         \/ flush_warm \/ start_live \/ reconcile \/ started
Stop  == stop_engine \/ exit
Next  == initialize \/ Start \/ Stop \/ signal \/ server_fails \/ crash
         \/ StoreEvent \/ FlushDue \/ HandleBar \/ Seal \/ Pipeline \/ RiskHandle \/ LiveBar \/ Tick

Fairness == /\ WF_vars(Start) /\ WF_vars(Stop)
            /\ WF_vars(StoreEvent) /\ WF_vars(FlushDue)
            /\ WF_vars(HandleBar) /\ WF_vars(Seal) /\ WF_vars(Pipeline)
Spec == Init /\ [][Next]_vars /\ Fairness
----------------------------------------------------------------------------
(* Properties.                                                              *)

Stages == {FORMING, CONFIRMED, TRIGGERED, EXPIRED}
EngineStates == {"CREATED", "READY", "STARTING", "RUNNING", "STOPPING", "STOPPED", "ERROR"}

\* Every variable holds the kind of value the code's attribute holds.
StartupTypeOK ==
    /\ now \in Minute /\ disk \subseteq Minute /\ warm \subseteq Minute /\ m1_end \in Minute
    /\ eng \in [Engines \cup {Boot} -> EngineStates]
    /\ spc \in -1 .. Len(EngineOrder)
    /\ live.next \in 0 .. MaxNow /\ live.on \in BOOLEAN
    /\ DOMAIN active \subseteq DetectAt /\ \A s \in DOMAIN active : active[s] \in Stages \ {EXPIRED}
    /\ plans \in [DetectAt -> Nat]
    /\ \A b \in buf : b.ts \in Minute

Rank(b) == IF b.replay THEN 1 ELSE 2

\* The pipeline processes the history before the first live bar, and either in time
\* order, however far the catch-up, the live feed, the aggregator and the pipeline are
\* ahead of each other when the live feed starts (_start_live, CatchupService.run).  The
\* feature engine takes the higher timeframes in their own order.  Nothing is said of the
\* order between the two: the model lets a minute bar be processed before the history of
\* H1 is taken.
WarmBeforeLive ==
    /\ \A i, j \in 1..Len(fed) : i < j =>
         \/ Rank(fed[i]) < Rank(fed[j])
         \/ Rank(fed[i]) = Rank(fed[j]) /\ fed[i].ts < fed[j].ts
    /\ Len(htf) <= Len(HigherHistory)
    /\ \A i \in 1..Len(htf) : htf[i] = HigherHistory[i]

LiveFed == {fed[i].ts : i \in {j \in 1..Len(fed) : ~fed[j].replay}}
WarmFed == {fed[i].ts : i \in {j \in 1..Len(fed) : fed[j].replay}}

\* No minute between the first warm-up bar and the newest live bar is missing from the
\* pipeline, unless the catch-up fetch gave nothing or took so long that the minute
\* lies between its edge and the lookback of the live subscription.
GapOnlyWhenLate ==
    \A t \in LiveFed : \A u \in m1_end - WarmLen .. t :
        \/ u \in LiveFed \cup WarmFed
        \/ u < m1_end /\ warm = {}
        \/ m1_end <= u /\ u < live.at - Lookback

\* The overlap of history and live feed is one bar: only the minute before the edge
\* can reach the pipeline twice (compute_replay_start).
OverlapIsOneBar == LiveFed \cap WarmFed \subseteq {m1_end - 1}

\* A second plan for the same setup is only made for one the reconciliation published
\* as TRIGGERED, and there is never a third (RiskEngine._handle_setup does not tell
\* replayed events from live ones).
SecondPlanIsReconciled ==
    \A s \in DetectAt : plans[s] <= IF s \in reconciled THEN 2 ELSE 1

\* A process that ended by stop() leaves no engine running and no saved history bar
\* unwritten, unless stop() overlapped a start() that was not cancelled.
ExitIsClean == left.overlap \/ (left.saved = {} /\ left.running = {})

\* Every history bar the catch-up fetched is in Parquet from the moment it is emitted,
\* so a crash during or after the warm-up costs no history.
WarmupIsDurable == pc \in {"context", "live", "reconcile", "running"} => warm \subseteq disk

\* start() comes to an end: RUNNING, failed, or ended with the process.
StartEnds == (pc = "start") ~> (pc \in {"running", "failed", "cancelled", "off"})

\* A stop() that was begun ends the process, from whatever state start() was in.
StopEnds == (spc >= 0) ~> (pc = "off")

----------------------------------------------------------------------------
(* The properties together, as a run checks them. *)

\* History and live feed join as one tape, through slow fetches, crashes and
\* restarts: history first, one bar of overlap, no unexplained gap, on disk
\* before it is used, no third plan, and a clean exit.
WarmupJoinsLive ==
    /\ StartupTypeOK /\ WarmBeforeLive /\ GapOnlyWhenLate /\ OverlapIsOneBar
    /\ WarmupIsDurable /\ SecondPlanIsReconciled /\ ExitIsClean
============================================================================
