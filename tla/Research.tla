------------------------------ MODULE Research ------------------------------
(***************************************************************************)
(* The shadow research subscribers of PIPELINE_OUTPUT over one disk:         *)
(* LevelInteractionEngine with its EpisodeWriter (research/interaction),     *)
(* LevelObserver with its LevelObservationWriter (research/), the clearing   *)
(* of today's partitions at launch (bootstrap/wiring.py),                    *)
(* scripts/research_replay.py, and the chart query (research/query.py).      *)
(* Minutes pass whether the runtime is up or not; every launch replays the    *)
(* recent minutes and goes on live.  Writes fail while `fault` names their   *)
(* table.                                                                    *)
(***************************************************************************)
EXTENDS LevelEpisodes, Bags

CONSTANTS
    Bars,          \* minute -> the bars it may have
    SessionLen,    \* minutes of a session
    RthFrom, RthTo,\* first minute of the opening range and first minute after RTH
    OrLen,         \* minutes of the opening range
    Atr,           \* minute -> atr_14, 0 while it is not warmed
    LastMinute,    \* bound: the last minute
    WarmLen,       \* minutes the catch-up replays
    QCap,          \* queue size of either subscription
    FlushEvery,    \* completed episodes between two flushes
    MaxBuffer,     \* max_buffer_rows
    MaxPending,    \* max_pending_rows
    MaxEvents      \* bound: launches, research replays, exceptions and times a table
                   \* becomes unwritable

ASSUME ResearchAssumption ==
    /\ {SessionLen, FlushEvery, MaxBuffer, MaxPending, QCap} \subseteq Nat \ {0}
    /\ {RthFrom, RthTo, OrLen, LastMinute, WarmLen, MaxEvents} \subseteq Nat

VARIABLES
    tape,      \* the bar of every minute that has passed, Quiet when it had no trade
    pc,        \* the runtime: off, warm, live or stopping
    feed,      \* the next minute to publish
    qI, qO,    \* queues of the two subscriptions
    e,         \* LevelInteractionEngine with manager and writer
    o,         \* LevelObserver with writer
    disk,      \* the three research tables, as bags of rows
    fault,     \* the table that cannot be written
    run,       \* run_id
    left,      \* what the last normal exit left unwritten
    torn,      \* history: observations of partitions a failed flush wrote a part of
    budget     \* how many of these events may still happen

vars == <<tape, pc, feed, qI, qO, e, o, disk, fault, run, left, torn, budget>>

Quiet == [open |-> 0, low |-> 0, high |-> 0, close |-> 0]
Now == Len(tape)                      \* the minute that is going on
BarOf(t) == tape[t + 1]
Session(t) == t \div SessionLen
Phase(t) == t % SessionLen
InRth(t) == RthFrom <= Phase(t) /\ Phase(t) < RthTo
Tables == {"episodes", "episode_bars", "level_observations"}

\* _resolve_levels: the opening range counts once it is established.
resolve_levels(t) ==
    SelectSeq(Levels, LAMBDA l : CASE l = "rth_vwap" -> InRth(t)
                                   [] l = "orh" -> Phase(t) >= RthFrom + OrLen
                                   [] OTHER -> TRUE)

\* The levels LevelObserver writes a row for: the range also while it accumulates.
observed_levels(t) ==
    SelectSeq(Levels, LAMBDA l : CASE l = "rth_vwap" -> InRth(t)
                                   [] l = "orh" -> Phase(t) >= RthFrom
                                   [] OTHER -> TRUE)

NoEngine   == [m |-> NoManager, session |-> -1, last_ts |-> -1, buf |-> <<>>, completed |-> 0, upto |-> -1]
NoObserver == [session |-> -1, seen |-> {}, pending |-> <<>>]
NoDisk     == [t \in Tables |-> EmptyBag]
Rows(t)    == BagToSet(disk[t])

Init ==
    /\ tape = <<>> /\ pc = "off" /\ feed = 0 /\ qI = <<>> /\ qO = <<>>
    /\ e = NoEngine /\ o = NoObserver /\ disk = NoDisk
    /\ fault = "ok" /\ run = 0 /\ left = {} /\ torn = {}
    /\ budget = MaxEvents
----------------------------------------------------------------------------
(* EpisodeWriter and LevelInteractionEngine, as functions of a pair p: the    *)
(* engine's record and the tables.                                            *)

Put(d, t, S) == [d EXCEPT ![t] = @ (+) SetToBag(S)]

\* Mutant: what could not be written is not queued again.
flush_writer_no_requeue(p) ==
    <<[p[1] EXCEPT !.buf = <<>>],
      CASE fault = "episodes"     -> p[2]
        [] fault = "episode_bars" -> Put(p[2], "episodes", Range(p[1].buf))
        [] OTHER -> Put(Put(p[2], "episodes", Range(p[1].buf)), "episode_bars", Range(p[1].buf))>>

\* EpisodeWriter.flush: two tables one after the other; a failure queues both again.
flush_writer(p) ==
    CASE p[1].buf = <<>>           -> p
      [] fault = "episodes"        -> p
      [] fault = "episode_bars"    -> <<p[1], Put(p[2], "episodes", Range(p[1].buf))>>
      [] OTHER -> <<[p[1] EXCEPT !.buf = <<>>],
                    Put(Put(p[2], "episodes", Range(p[1].buf)), "episode_bars", Range(p[1].buf))>>

add_episode(p, row) ==
    <<[p[1] EXCEPT !.buf = Append(@, row), !.completed = @ + 1], p[2]>>
flush_if_due(p) == IF p[1].completed % FlushEvery = 0 THEN flush_writer(p) ELSE p

\* _on_episode_complete, for every episode the manager has handed over.
on_episode_complete(p, r) ==
    FoldLeft(LAMBDA q, row : flush_if_due(add_episode(q, [run |-> r, row |-> row])),
             <<[p[1] EXCEPT !.m.done = <<>>], p[2]>>, p[1].m.done)

\* Session rollover, before the gap is looked at.
roll_session(p, t, r) ==
    IF p[1].session \in {-1, Session(t)} THEN p
    ELSE flush_writer(on_episode_complete(<<[p[1] EXCEPT !.m = on_session_end(@, t)], p[2]>>, r))

\* Mutant: one missing minute is not a gap.
is_gap_two(last, t) == last >= 0 /\ t - last > 2

\* More than 90 seconds since the last bar, within the session.
is_gap(last, t) == last >= 0 /\ t - last > 1

\* The gap check, then the manager over the levels `frame`.
process_levels(p, t, r, frame) ==
    LET gap == p[1].session = Session(t) /\ is_gap(p[1].last_ts, t)
    IN  on_episode_complete(
            <<[p[1] EXCEPT !.session = Session(t), !.last_ts = t,
                           !.m = process(IF gap THEN on_gap(@, t) ELSE @,
                                         Session(t), frame, t, BarOf(t), Atr[t])], p[2]>>, r)

\* _process up to the frame, then the levels.
process_output(p, t, r, frame) == process_levels(roll_session(p, t, r), t, r, frame)

\* LevelInteractionEngine.flush.
flush_engine(p, r) ==
    flush_writer(on_episode_complete(
        <<[p[1] EXCEPT !.m = flush_manager(@), !.upto = p[1].last_ts], p[2]>>, r))
----------------------------------------------------------------------------
(* LevelObservationWriter and LevelObserver, as functions of a triple p: the  *)
(* observer's record, the tables and `torn`.  A flush ends in one of several   *)
(* ways, so these functions return the set of the triples that may come of p.  *)

\* Above max_pending the batches go, oldest first, until half of it is left.
overflow(pending) ==
    IF Len(pending) <= MaxPending THEN pending
    ELSE LET days   == {pending[i].session : i \in 1..Len(pending)}
             kept(d) == SelectSeq(pending, LAMBDA row : row.session >= d)
             fits   == {d \in days : Len(kept(d)) <= MaxPending \div 2}
         IN  IF fits = {} THEN <<>> ELSE kept(Min(fits))

batch(pending, d) == SelectSeq(pending, LAMBDA row : row.session = d)

\* _write_partition: one file after the other, of max_buffer_rows each; any of them
\* may fail while the table is faulty.  The lengths of what gets to disk.
write_partition(rows) ==
    IF fault # "level_observations" THEN {Len(rows)}
    ELSE {n \in 0..Len(rows) : n % MaxBuffer = 0 \/ n = Len(rows)}

\* flush: a partition whose last file could not be written is kept whole, up to a
\* limit, the rows of its earlier files included.
flush_observations(p) ==
    LET pending   == p[1].pending
        days      == {row.session : row \in Range(pending)}
        failed(w) == {d \in days : w[d] < Len(batch(pending, d))}
        written(w, D) == UNION {Range(SubSeq(batch(pending, d), 1, w[d])) : d \in D}
    IN  {<<[p[1] EXCEPT !.pending = overflow(SelectSeq(@, LAMBDA row : row.session \in failed(w)))],
           Put(p[2], "level_observations", written(w, days)),
           p[3] \cup written(w, failed(w))>> :
             w \in {f \in [days -> 0..Len(pending)] :
                       \A d \in days : f[d] \in write_partition(batch(pending, d))}}

\* add: a row seen before in this run and session is ignored.
add(p, row) ==
    IF row \in p[1].seen THEN {p}
    ELSE LET y == [p[1] EXCEPT !.seen = @ \cup {row}, !.pending = Append(@, row)]
             q == <<y, p[2], p[3]>>
         IN  IF Len(y.pending) >= MaxBuffer THEN flush_observations(q) ELSE {q}

begin_session(p, d) == <<[p[1] EXCEPT !.seen = {}, !.session = d], p[2], p[3]>>

\* LevelObserver._process.  The event has no attribute is_replay, so replayed bars are
\* written like live ones.
observe_output(p, t, r) ==
    FoldLeft(LAMBDA P, l : UNION {add(q, [run |-> r, session |-> Session(t), ts |-> t, level |-> l]) : q \in P},
             IF p[1].session = Session(t) THEN {p}
             ELSE {begin_session(q, Session(t)) : q \in flush_observations(p)},
             observed_levels(t))
----------------------------------------------------------------------------
(* The actions.                                                               *)

\* drop_if_full: the oldest output is evicted.
push(q, t) == Append(IF Len(q) < QCap THEN q ELSE Tail(q), t)
publish(t) == IF BarOf(t) = Quiet THEN UNCHANGED <<qI, qO>>
              ELSE qI' = push(qI, t) /\ qO' = push(qO, t)

\* The partitions of session d of the three tables are removed.
clear_partitions(d) ==
    LET keep(t) == {x \in Rows(t) : (IF t = "level_observations" THEN x.session ELSE x.row.session) # d}
    IN  [t \in Tables |-> [x \in keep(t) |-> disk[t][x]]]

\* A minute passes; the live feed publishes it.
minute ==
    /\ Now <= LastMinute /\ qI = <<>> /\ qO = <<>>
    /\ \/ pc = "off" /\ budget > 0      \* bound: nothing is looked at after the last run
       \/ pc = "live" /\ feed = Now      \* bound: the feed keeps up
    /\ \E bar \in Bars[Now] : tape' = Append(tape, bar)
    /\ UNCHANGED <<pc, feed, qI, qO, e, o, disk, fault, run, left, torn, budget>>

launch ==
    /\ pc = "off" /\ budget > 0
    /\ budget' = budget - 1
    /\ run' = run + 1 /\ left' = {}
    /\ disk' = clear_partitions(Session(Now))
    /\ pc' = "warm" /\ feed' = Max({0, Now - WarmLen})
    /\ UNCHANGED <<tape, qI, qO, e, o, fault, torn>>

\* The catch-up publishes its bars; the live feed starts one minute before their end.
warm_up ==
    /\ pc = "warm"
    /\ IF feed < Now THEN publish(feed) /\ feed' = feed + 1 /\ pc' = pc
       ELSE UNCHANGED <<qI, qO>> /\ feed' = Max({0, Now - 1}) /\ pc' = "live"
    /\ UNCHANGED <<tape, e, o, disk, fault, run, left, torn, budget>>

live_bar ==
    /\ pc \in {"live", "stopping"} /\ feed < Now
    /\ publish(feed) /\ feed' = feed + 1
    /\ UNCHANGED <<tape, pc, e, o, disk, fault, run, left, torn, budget>>

engine_is(p)   == e' = p[1] /\ disk' = p[2]

interact ==
    /\ qI # <<>>
    /\ engine_is(process_output(<<e, disk>>, Head(qI), run, resolve_levels(Head(qI))))
    /\ qI' = Tail(qI)
    /\ UNCHANGED <<tape, pc, feed, qO, o, fault, run, left, torn, budget>>

\* _handle: an exception while the levels are processed invalidates what is active.
interact_fails ==
    /\ qI # <<>> /\ budget > 0
    /\ LET t == Head(qI)
           frame == resolve_levels(t)
       IN  \E n \in 0 .. Len(frame) - 1 :
            LET p == process_output(<<e, disk>>, t, run, SubSeq(frame, 1, n))
            IN  engine_is(on_episode_complete(
                    <<[p[1] EXCEPT !.m = on_processing_error(@, t)], p[2]>>, run))
    /\ qI' = Tail(qI)
    /\ budget' = budget - 1
    /\ UNCHANGED <<tape, pc, feed, qO, o, fault, run, left, torn>>

observe ==
    /\ qO # <<>>
    /\ \E p \in observe_output(<<o, disk, torn>>, Head(qO), run) :
         o' = p[1] /\ disk' = p[2] /\ torn' = p[3]
    /\ qO' = Tail(qO)
    /\ UNCHANGED <<tape, pc, feed, qI, e, fault, run, left, budget>>

\* A table becomes unwritable, or writable again.
disk_changes ==
    \/ /\ fault = "ok" /\ pc # "off" /\ qI = <<>> /\ qO = <<>> /\ budget > 0
       /\ fault' \in Tables /\ budget' = budget - 1
       /\ UNCHANGED <<tape, pc, feed, qI, qO, e, o, disk, run, left, torn>>
    \/ /\ fault # "ok" /\ fault' = "ok" /\ qI = <<>> /\ qO = <<>>
       /\ UNCHANGED <<tape, pc, feed, qI, qO, e, o, disk, run, left, torn, budget>>

\* BootstrapEngine._on_stop: both are flushed before the engines are stopped.
stop ==
    /\ pc \in {"warm", "live"}
    /\ \E p \in flush_observations(<<o, disk, torn>>) :
         o' = p[1] /\ torn' = p[3] /\ engine_is(flush_engine(<<e, p[2]>>, run))
    /\ pc' = "stopping"
    /\ UNCHANGED <<tape, feed, qI, qO, fault, run, left, budget>>

Unwritten(x) == {[start |-> x.m.active[l].start, done |-> FALSE] : l \in Active(x.m)}
                \cup {[start |-> x.buf[i].row.start, done |-> TRUE] : i \in 1..Len(x.buf)}

\* The engines and the bus are stopped and the process ends.
exit ==
    /\ pc = "stopping"
    /\ left' = {u.start - e.upto : u \in Unwritten(e)}
    /\ pc' = "off" /\ feed' = 0
    /\ qI' = <<>> /\ qO' = <<>> /\ e' = NoEngine /\ o' = NoObserver
    /\ UNCHANGED <<tape, disk, fault, run, torn, budget>>

crash ==
    /\ pc # "off" /\ qI = <<>> /\ qO = <<>>      \* bound: queued outputs are lost anyway
    /\ pc' = "off" /\ feed' = 0
    /\ qI' = <<>> /\ qO' = <<>> /\ e' = NoEngine /\ o' = NoObserver
    /\ UNCHANGED <<tape, disk, fault, run, left, torn, budget>>

\* scripts/research_replay.py on a past session, from the bars on disk.
research_replay ==
    /\ pc = "off" /\ budget > 0
    /\ \E d \in 0 .. Session(Now) - 1 :
        LET ts       == SelectSeq([i \in 1..SessionLen |-> d * SessionLen + i - 1],
                                  LAMBDA t : BarOf(t) # Quiet)
            observed == FoldLeft(LAMBDA P, t : UNION {observe_output(p, t, run + 1) : p \in P},
                                 {<<NoObserver, clear_partitions(d), torn>>}, ts)
        IN  \E x \in UNION {flush_observations(p) : p \in observed} :
              /\ disk' = flush_engine(
                             FoldLeft(LAMBDA p, t : process_output(p, t, run + 1, resolve_levels(t)),
                                      <<NoEngine, x[2]>>, ts), run + 1)[2]
              /\ torn' = x[3]
    /\ run' = run + 1
    /\ budget' = budget - 1
    /\ UNCHANGED <<tape, pc, feed, qI, qO, e, o, fault, left>>

\* build_chart_payload: one row for every window of a level (whichever part file sorts
\* first), each with all the bars stored under its episode_id.
episode_identity(x) == <<x.row.level, x.row.start, x.row.ended>>
build_chart_payload(d) ==
    {[identity |-> episode_identity(x), bars |-> CopiesIn(x, disk["episode_bars"])] :
        x \in {y \in Rows("episodes") : y.row.session = d}}

Next == minute \/ launch \/ warm_up \/ live_bar \/ interact \/ interact_fails \/ observe
        \/ disk_changes \/ stop \/ exit \/ crash \/ research_replay
Spec == Init /\ [][Next]_vars
----------------------------------------------------------------------------
(* Properties.                                                              *)

Buffered  == Range(e.buf)
Recorded  == {x.row : x \in Rows("episodes") \cup Buffered}
OpenBars  == {e.m.active[l].bars : l \in {k \in Active(e.m) : e.m.active[k].valid}}
LongestRun(bars, s) ==
    Max({0} \cup {n \in 1..Len(bars) : \E i \in 0 .. Len(bars) - n :
                    \A j \in i + 1 .. i + n : bars[j].side = s})
Separated(bars, n) ==
    /\ n >= MinSep
    /\ bars[n].away # None
    /\ \A j \in n - MinSep + 1 .. n : bars[j].away = bars[n].away

\* Records and queues have the form the code gives them, and what the manager has
\* handed over never stays with it.
ResearchTypeOK ==
    /\ pc \in {"off", "warm", "live", "stopping"} /\ fault \in Tables \cup {"ok"}
    /\ Range(qI) \cup Range(qO) \subseteq 0 .. Now - 1
    /\ Len(qI) <= QCap /\ Len(qO) <= QCap
    /\ e.m.done = <<>>
    /\ \A l \in Active(e.m) : /\ e.m.active[l].session = e.session
                             /\ Len(e.m.active[l].bars) < MaxBars
                             /\ e.m.active[l].index = e.m.index[l]

\* An episode that is valid for research has no missing minute between its bars,
\* although outputs are dropped when the queue is full, minutes pass without a trade
\* and exceptions skip levels: the gap check and the error handler see to it.
ValidMeansUnbroken ==
    \A bars \in OpenBars \cup {r.bars : r \in {q \in Recorded : q.valid}} :
        \A i \in 1 .. Len(bars) - 1 : bars[i + 1].ts - bars[i].ts \in {0, 1}

\* An episode stays within its session, follows the episode it names as prior, and is
\* the first of its level exactly when it names none, over rollovers, gaps, errors and
\* restarts (interaction_index, prior_episode_id).
EpisodesChain ==
    \A r \in Recorded :
        /\ \A i \in 1..Len(r.bars) : Session(r.bars[i].ts) = r.session
        /\ r.prior = r.index - 1
        /\ (Session(r.ended) # r.session) = (r.reason = "session_ended")
        /\ \A x, y \in Rows("episodes") \cup Buffered :
             (x.run = y.run /\ x.row.level = y.row.level /\ x.row.session = y.row.session
                 /\ x.row.index < y.row.index) => Last(x.row.bars).ts <= y.row.start

\* An episode ends by separation exactly at the first bar that completes MinSep
\* neighbouring bars wholly beyond the threshold on one side; the counter and its
\* direction reset agree with the recorded bars.
SeparationHeld ==
    /\ \A r \in Recorded :
        /\ r.reason = "separation" => Separated(r.bars, Len(r.bars))
        /\ \A n \in 1 .. Len(r.bars) - 1 : ~Separated(r.bars, n)
    /\ \A l \in Active(e.m) : ~Separated(e.m.active[l].bars, Len(e.m.active[l].bars))

\* The closing summary of an episode agrees with its bars: the longest runs of closes
\* on one side are runs that are there, and no longer one is.
SummaryMatchesBars ==
    \A r \in Recorded : /\ r.closes.max_above = LongestRun(r.bars, "above")
                        /\ r.closes.max_below = LongestRun(r.bars, "below")

\* No completed episode of the running process is lost or counted twice: each is
\* buffered or on disk, through failed writes of either table.
EpisodesAccounted ==
    pc # "off" => e.completed = Cardinality(Buffered \cup {x \in Rows("episodes") : x.run = run})

\* The chart shows every bar of an episode at most once, whatever retries wrote: the
\* episodes are written before their bars, and rows of one window are collapsed.
ChartShowsBarsOnce ==
    \A d \in 0 .. Session(LastMinute) : \A c \in build_chart_payload(d) : c.bars <= 1

\* The research rows of the session that is going on all come from one run: a launch
\* removes what an earlier process wrote of it.
TodayIsOneRun ==
    Cardinality({x.run : x \in {y \in Rows("level_observations") : y.session = Session(Now)}
                    \cup {y \in Rows("episodes") \cup Rows("episode_bars") :
                            y.row.session = Session(Now)}}) <= 1

\* A run records a bar and level once, although history and live feed overlap by a bar
\* and failed rows are written again later; the exception are the rows a failed flush
\* had written already when a later file of their partition failed.
ObservedOnce ==
    /\ \A x \in Rows("level_observations") \ torn : CopiesIn(x, disk["level_observations"]) = 1
    /\ Range(o.pending) \cap Rows("level_observations") \subseteq torn
    /\ IsInjective(o.pending)

\* parquet_writer.py: "flush() writes ONE part file per (symbol, session_date) batch",
\* "On write failure: buffer is retained ... retry on next flush()": a retry writes
\* nothing twice.  It does when the failure came after the first of several files.
ObservationsAreOnce ==
    \A x \in Rows("level_observations") : CopiesIn(x, disk["level_observations"]) = 1

\* The rows retained while the disk refuses them never exceed max_pending_rows.
RetainedRowsBounded == Len(o.pending) <= MaxPending

\* What a normal exit leaves unwritten began with the last bar seen by the final flush
\* or later, unless a table could not be written: outputs that are still queued, or
\* that the live feed adds before it is stopped, come too late.
StopKeepsWhatItSaw == budget + run = MaxEvents => \A x \in left : x >= 0

----------------------------------------------------------------------------
(* The properties together, as a run checks them. *)

\* An episode is what its bars say: unbroken where it claims to be, within its
\* session and chain, ended by the separation it names, summed up correctly.
EpisodesAreSound ==
    /\ ResearchTypeOK /\ ValidMeansUnbroken /\ EpisodesChain
    /\ SeparationHeld /\ SummaryMatchesBars

\* Every row of the research tables is there once, through failed writes, retries,
\* overlapping feeds and restarts, except where a flush failed between two files of
\* one partition, and what a disk that refuses rows costs is bounded:
\* the rows retained for it, and what a normal exit leaves unwritten.
RowsAreAccounted ==
    /\ EpisodesAccounted /\ ChartShowsBarsOnce /\ TodayIsOneRun /\ ObservedOnce
    /\ RetainedRowsBounded /\ StopKeepsWhatItSaw
=============================================================================
