------------------------------ MODULE DateReplay ------------------------------
(***************************************************************************)
(* The on-demand backfill of one date: POST /runtime/backfill-date          *)
(* (api/routes/runtime.py), the background worker (api/date_replay.py) with *)
(* its bar sources (historical/sources), the partitions it writes, and the   *)
(* replay through an EventBus of its own into FeatureEngine,                 *)
(* MarketStateEngine and SetupEngine, which all subscribe to BAR here: no    *)
(* BarPipeline orders them.  Workers share the event loop, the partitions    *)
(* and the gateway's client id.  The tasks of one worker run in the order in *)
(* which they were woken (`ready`); workers interleave freely.               *)
(* A bar is <<date, i>>: the i-th bar of the UTC date's partition.           *)
(***************************************************************************)
EXTENDS Integers, FiniteSets, FiniteSetsExt, Sequences, SequencesExt

CONSTANTS
    Dates,         \* calendar dates, neighbouring integers
    Trading,       \* the trading days among them
    Tape,          \* date -> the trading session of each of its bars
    Imports,       \* dates with a file under data/imports
    Requested,     \* dates a client asks for
    WarmupDays,    \* _WARMUP_DAYS
    MaxPosts,      \* bound: accepted requests
    MaxRestarts    \* bound: restarts of the server

ASSUME DateReplayAssumption ==
    /\ Dates \subseteq Nat /\ Trading \subseteq Dates /\ Imports \subseteq Dates
    /\ Tape \in [Dates -> Seq(Nat)]
    /\ Requested \subseteq {d \in Dates : d - 1 \in Dates /\ \E t \in Trading : t < d}
    /\ WarmupDays \in Nat \ {0} /\ MaxPosts \in Nat /\ MaxRestarts \in Nat

VARIABLES
    jobs,      \* app.state.backfill_jobs: date -> status
    workers,   \* the background tasks, in the order of their requests
    disk,      \* bars/1m: date -> the rows of the partition, <<>> when there is no file
    saved,     \* session_contexts: date -> the stored context
    slot,      \* the worker connected under backfill_client_id, 0 if none
    overlap,   \* two workers were at work at once (history)
    restarts

replayVars == <<jobs, workers, disk, saved, slot, overlap, restarts>>

Bars(d) == [i \in 1..Len(Tape[d]) |-> <<d, i>>]
Session(b) == Tape[b[1]][b[2]]
Running == {"pending", "fetching_bars", "detecting_setups"}
Tasks == <<"feature", "market", "setup", "collect">>
NoBar == <<-1, -1>>
NoContext == [session |-> -1]

\* prev_trading_day, as often as there are warm-up days.
warmup(d) ==
    {t \in Trading : t < d /\ Cardinality({u \in Trading : t < u /\ u < d}) < WarmupDays}

\* The dates _ensure_prior_bars looks at, the latest first.
prior_dates(d) == {d - 1} \cup warmup(d)

NewWorker(d) ==
    [date |-> d, at |-> "queued", want |-> d, todo |-> prior_dates(d), plan |-> {},
     bars |-> <<>>, ready |-> <<>>, q |-> [t \in Range(Tasks) |-> <<>>],
     snap |-> NoBar, state |-> NoBar, ctx |-> NoContext, prev |-> NoContext, states |-> {}]

AtWork == {i \in DOMAIN workers : workers[i].at # "ended"}

ReplayInit ==
    /\ jobs = [d \in Dates |-> "none"] /\ workers = <<>>
    /\ disk = [d \in Dates |-> <<>>] /\ saved = [d \in Dates |-> NoContext]
    /\ slot = 0 /\ overlap = FALSE /\ restarts = 0
----------------------------------------------------------------------------
(* The request.                                                              *)

\* A job that is running is returned as it is, any other is started again.
accepts(d) == jobs[d] \notin Running

trigger_backfill(d) ==
    /\ accepts(d) /\ Len(workers) < MaxPosts
    /\ jobs' = [jobs EXCEPT ![d] = "pending"]
    /\ workers' = Append(workers, NewWorker(d))
    /\ overlap' = (overlap \/ AtWork # {})
    /\ UNCHANGED <<disk, saved, slot, restarts>>
----------------------------------------------------------------------------
(* Fetching.  `d` is the disk as the step has left it so far.                *)

Leave(w) == [NewWorker(w.date) EXCEPT !.at = "ended", !.todo = {}]

\* Mutant: the exception ends the task and nothing else.
fail_silently(i) == jobs' = jobs /\ workers' = [workers EXCEPT ![i] = Leave(@)]

\* An exception of the worker.
fail(i) ==
    /\ jobs' = [jobs EXCEPT ![workers[i].date] = "error"]
    /\ workers' = [workers EXCEPT ![i] = Leave(@)]

StartReplay(w) ==
    [w EXCEPT !.at = "replay", !.todo = {}, !.ready = <<"worker">>,
              !.plan = warmup(w.date) \cup {w.date}]

\* _ensure_prior_bars: dates without a file are imported until one needs the gateway;
\* when none is left, the replay begins.
ensure_prior_bars(i, d) ==
    LET w       == workers[i]
        missing == {p \in w.todo : d[p] = <<>>}
        remote  == missing \ Imports
        next    == Max(remote)
        files   == IF remote = {} THEN missing ELSE {p \in missing : p > next}
    IN  /\ disk' = [p \in Dates |-> IF p \in files THEN Bars(p) ELSE d[p]]
        /\ IF remote = {}
           THEN /\ workers' = [workers EXCEPT ![i] = StartReplay(w)]
                /\ jobs' = [jobs EXCEPT ![w.date] = "detecting_setups"]
           ELSE /\ workers' = [workers EXCEPT ![i] =
                        [w EXCEPT !.at = "connect", !.want = next,
                                  !.todo = {p \in missing : p < next}]]
                /\ jobs' = jobs

has_bars(d) == disk[d] # <<>>

\* run_date_backfill up to its first await: bars that exist are used, an import file is
\* preferred to the gateway.
run_date_backfill(i) ==
    /\ workers[i].at = "queued"
    /\ LET d == workers[i].date
       IN  CASE has_bars(d) -> ensure_prior_bars(i, disk)
             [] ~has_bars(d) /\ d \in Imports /\ Tape[d] # <<>> ->
                    ensure_prior_bars(i, [disk EXCEPT ![d] = @ \o Bars(d)])
             [] ~has_bars(d) /\ d \in Imports /\ Tape[d] = <<>> -> fail(i) /\ disk' = disk
             [] OTHER -> /\ jobs' = [jobs EXCEPT ![d] = "fetching_bars"]
                         /\ workers' = [workers EXCEPT ![i].at = "connect"]
                         /\ disk' = disk
    /\ UNCHANGED <<saved, slot, overlap, restarts>>

\* The gateway takes one connection per client id; get() retries for a while ...
connect(i) ==
    /\ workers[i].at = "connect" /\ slot = 0
    /\ slot' = i
    /\ workers' = [workers EXCEPT ![i].at = "download"]
    /\ UNCHANGED <<jobs, disk, saved, overlap, restarts>>

\* What a fetch without bars means: the end for the date itself, nothing for another.
without_bars(i) ==
    IF workers[i].want = workers[i].date THEN fail(i) /\ disk' = disk
    ELSE ensure_prior_bars(i, disk)

\* ... and gives up at last.
connect_fails(i) ==
    /\ workers[i].at = "connect"
    /\ without_bars(i)
    /\ UNCHANGED <<saved, slot, overlap, restarts>>

\* fetch_bars of the gateway source for one date: one contract segment and one chunk of
\* two days, cut to the date.  An error skips the chunk: the contract a retry would fall
\* back to is that of the chunk's end, for one date the contract just refused.
fetch_bars(d, ok) == IF ok THEN Bars(d) ELSE <<>>

\* The rows are appended without a key to upsert on; the connection is closed either way.
fetch_bars_from_ibkr(i, ok) ==
    /\ workers[i].at = "download"
    /\ LET p    == workers[i].want
           rows == fetch_bars(p, ok)
       IN  IF rows # <<>> THEN ensure_prior_bars(i, [disk EXCEPT ![p] = @ \o rows])
                          ELSE without_bars(i)
    /\ slot' = 0
    /\ UNCHANGED <<saved, overlap, restarts>>
----------------------------------------------------------------------------
(* The replay: functions of the worker's record.                             *)

Idle(w, t) == \A k \in DOMAIN w.ready : w.ready[k] # t
Put(w, t, b) ==
    [w EXCEPT !.q[t] = Append(@, b), !.ready = IF Idle(w, t) THEN Append(@, t) ELSE @]
Drained(w) == \A t \in Range(Tasks) : w.q[t] = <<>>
Next1(w) == [w EXCEPT !.ready = Tail(@)]

\* The three engines have subscribed to BAR in this order.
Publish(w) ==
    LET b == Head(w.bars)
    IN  [Put(Put(Put(w, "feature", b), "market", b), "setup", b) EXCEPT !.bars = Tail(@)]

\* Mutant: the publisher does not yield.
publish_bar_burst(w) == Publish(w)

\* bus.publish and sleep(0): the publisher queues up behind the handlers it has woken.
publish_bar(w) == [Publish(Next1(w)) EXCEPT !.ready = Append(@, "worker")]

by_time(rows) == SortSeq(rows, LAMBDA x, y : x[2] < y[2])

\* bus.flush, then the bars of the next date, sorted by time.
flush_and_load(w) ==
    IF ~Drained(w) THEN [Next1(w) EXCEPT !.at = "join"]
    ELSE [w EXCEPT !.plan = @ \ {Min(@)}, !.bars = by_time(disk[Min(w.plan)])]

\* The three handlers take all that is queued for them.
handle_feature(w) == [w EXCEPT !.snap = Last(w.q.feature), !.q.feature = <<>>]

\* One market state for each bar, from the snapshot there is by now.
handle_market(w) ==
    LET x == [w EXCEPT !.q.market = <<>>]
    IN  IF w.snap = NoBar THEN x
        ELSE [x EXCEPT !.state = w.snap,
                       !.q.collect = @ \o [k \in DOMAIN w.q.market |-> w.snap],
                       !.ready = IF Idle(w, "collect") THEN Append(@, "collect") ELSE @]

\* _roll_session_if_needed ...
roll(w, b) ==
    IF w.ctx.session = Session(b) THEN w
    ELSE [w EXCEPT !.prev = IF w.ctx = NoContext THEN @ ELSE w.ctx,
                   !.ctx = [session |-> Session(b), seen |-> <<>>]]

\* ... and the record of the bar.
detect(w, b) ==
    LET x == roll(w, b)
    IN  IF w.snap = NoBar \/ w.state = NoBar THEN x
        ELSE [x EXCEPT !.ctx.seen = Append(@, [bar |-> b, snap |-> w.snap, state |-> w.state])]

handle_setup(w) == [FoldLeft(detect, w, w.q.setup) EXCEPT !.q.setup = <<>>]

collect_market_state(w) ==
    [w EXCEPT !.states = @ \cup Range(w.q.collect), !.q.collect = <<>>]

\* join returns when the last queue has been drained.
Joined(w) == IF w.at = "join" /\ Drained(w)
             THEN [w EXCEPT !.at = "replay", !.ready = Append(@, "worker")] ELSE w

\* Mutant: the last session is stored.
context_latest(w) == w.ctx

\* The last bars of a date may belong to the next session: then the one before is meant.
context_of(w) == IF w.ctx # NoContext /\ w.ctx.session # w.date THEN w.prev ELSE w.ctx

WorkerTurn(w) == w.at = "replay" /\ w.ready # <<>> /\ Head(w.ready) = "worker"

replay_step(i) ==
    /\ workers[i].at \in {"replay", "join"} /\ workers[i].ready # <<>>
    /\ LET w == workers[i]
           t == Head(w.ready)
           h == Next1(w)
       IN  \/ /\ t = "worker" /\ w.bars # <<>>
              /\ workers' = [workers EXCEPT ![i] = publish_bar(w)]
           \/ /\ t = "worker" /\ w.bars = <<>> /\ (~Drained(w) \/ w.plan # {})
              /\ workers' = [workers EXCEPT ![i] = flush_and_load(w)]
           \/ /\ t = "feature" /\ workers' = [workers EXCEPT ![i] = Joined(handle_feature(h))]
           \/ /\ t = "market"  /\ workers' = [workers EXCEPT ![i] = Joined(handle_market(h))]
           \/ /\ t = "setup"   /\ workers' = [workers EXCEPT ![i] = Joined(handle_setup(h))]
           \/ /\ t = "collect"
              /\ workers' = [workers EXCEPT ![i] = Joined(collect_market_state(h))]
    /\ UNCHANGED <<jobs, disk, saved, slot, overlap, restarts>>

\* The engines and the bus are stopped, the context of the date is stored.
save(i) ==
    /\ workers[i].at = "replay" /\ WorkerTurn(workers[i])
    /\ workers[i].bars = <<>> /\ workers[i].plan = {} /\ Drained(workers[i])
    /\ LET w == workers[i]
           c == context_of(w)
       IN  /\ saved' = IF c = NoContext THEN saved
                       ELSE [saved EXCEPT ![w.date] =
                                [session |-> c.session, seen |-> c.seen,
                                 states |-> {b \in w.states : b[1] = w.date}]]
           /\ jobs' = [jobs EXCEPT ![w.date] = "done"]
           /\ workers' = [workers EXCEPT ![i] = Leave(w)]
    /\ UNCHANGED <<disk, slot, overlap, restarts>>

\* The server restarts: jobs and workers are gone, files stay.
restart ==
    /\ restarts < MaxRestarts /\ workers # <<>>
    /\ restarts' = restarts + 1
    /\ jobs' = [d \in Dates |-> "none"] /\ slot' = 0
    /\ workers' = [i \in DOMAIN workers |-> Leave(workers[i])]
    /\ UNCHANGED <<disk, saved, overlap>>

work(i) ==
    \/ run_date_backfill(i)
    \/ connect(i)
    \/ connect_fails(i)
    \/ \E ok \in BOOLEAN : fetch_bars_from_ibkr(i, ok)
    \/ replay_step(i)
    \/ save(i)

ReplayNext ==
    \/ \E d \in Requested : trigger_backfill(d)
    \/ \E i \in DOMAIN workers : work(i)
    \/ restart

\* The event loop runs what is ready; a connection attempt and a download end.
ReplayFairness == \A i \in 1..MaxPosts : WF_replayVars(i \in DOMAIN workers /\ work(i))

ReplaySpec == ReplayInit /\ [][ReplayNext]_replayVars /\ ReplayFairness
----------------------------------------------------------------------------
(* Properties.                                                              *)

\* Although three subscriptions drain BAR each on its own, a setup is judged by the
\* snapshot and the market state of its own bar: sleep(0) after every publish lets the
\* three handlers finish in the order of their subscriptions.
SetupsMeetTheirBar ==
    \A d \in Dates : saved[d] # NoContext =>
        \A k \in DOMAIN saved[d].seen :
            saved[d].seen[k].snap = saved[d].seen[k].bar /\ saved[d].seen[k].state = saved[d].seen[k].bar

\* The stored regime has one entry for each bar of the date.
RegimeIsWhole ==
    \A d \in Dates : saved[d] # NoContext => saved[d].states = Range(disk[d])

\* What is stored for a trading day whose partition has bars of that day's session is
\* the context of that session, and it has seen all of them: not the session that
\* begins in the evening of the date, nor one left over from the warm-up.
ContextIsOfItsDay ==
    \A d \in Trading :
        LET own == {b \in Range(disk[d]) : Session(b) = d}
        IN  saved[d] # NoContext /\ own # {} =>
              /\ saved[d].session = d
              /\ own \subseteq {saved[d].seen[k].bar : k \in DOMAIN saved[d].seen}

\* Workers that were never at work at the same time leave every bar on disk once,
\* through retries after errors and restarts: a date that has a file is not fetched.
AloneMeansNoDoubles == ~overlap => \A d \in Dates : IsInjective(disk[d])

\* "Safe to run concurrently for different (symbol, date) pairs" (date_replay.py:94).
\* Not so: two workers may find the same prior date missing, and both append its bars.
PartitionsHaveNoDoubles == \A d \in Dates : IsInjective(disk[d])

\* Two requests for one date never work at the same time, whichever way they and the
\* workers interleave, and the job's status tells whether one does.
OneWorkerPerDate ==
    /\ \A i, j \in AtWork : workers[i].date = workers[j].date => i = j
    /\ \A d \in Dates : (jobs[d] \in Running) = (\E i \in AtWork : workers[i].date = d)

\* A job that was accepted ends, with an error or done, whatever the gateway does.
JobsEnd == \A d \in Requested : (jobs[d] \in Running) ~> (jobs[d] \notin Running)

----------------------------------------------------------------------------
(* The properties together, as a run checks them. *)

\* Workers interleave, and so do the three handlers of one: all the same a setup meets
\* the market of its own bar, a date has one worker, and bars are there once unless two
\* workers overlap.
ReplaysAreOrderly == SetupsMeetTheirBar /\ AloneMeansNoDoubles /\ OneWorkerPerDate

\* What a worker stores for a date is right: the context of that day's session, with
\* every bar of it and a regime for each.
ReplayStoresItsDay == RegimeIsWhole /\ ContextIsOfItsDay
=============================================================================
