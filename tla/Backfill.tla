------------------------------ MODULE Backfill ------------------------------
(***************************************************************************)
(* BackfillEngine (engines/backfill/engine.py, scripts/backfill.py) run     *)
(* after the runtime over the Parquet store: M1 refetched whole, M5         *)
(* rebuilt from it, H1 and D1 filled gap by gap through CatchupService,      *)
(* trades and quotes fetched day by day.  A behaviour has either launches   *)
(* of the runtime or backfills: what the runtime leaves in the tables that  *)
(* a backfill reads, the trades it captured live, is live_trade.            *)
(***************************************************************************)
EXTENDS Startup

CONSTANTS
    LiveMinutes,   \* minutes whose trades the runtime may have captured
    Ends,          \* --end: the minutes a backfill may be asked to end at
    BarLens,       \* windows of the bar tables, in bars: the default and an explicit --start
    TickLen,       \* the tick window, in minutes
    MaxBackfills   \* bound: backfill runs

ASSUME BackfillAssumption ==
    /\ {TickLen, MaxBackfills} \cup BarLens \subseteq Nat
    /\ Ends \cup LiveMinutes \subseteq Minute

VARIABLES
    h1, m5,        \* Parquet: H1 stamps; M5 bars, each with the minutes it is made of
    trades,        \* Parquet: minute -> "live" or "replay", the origin of its rows
    quotes,        \* Parquet: day -> the minutes its file has rows of
    job,           \* the running backfill: its options, day loop and what it queued
    jobs           \* backfill runs still to come

bvars == <<h1, m5, trades, quotes, job, jobs>>
tables == <<h1, m5, trades, quotes>>
allvars == <<vars, bvars>>

Days == {Day(t) : t \in Minute}
NoTrade == [t \in {} |-> "live"]
NoJob == [start |-> 0, end |-> 0, force |-> FALSE, ok |-> FALSE, days |-> <<>>, m1 |-> {}, h1 |-> {}, m5 |-> {}]

BInit ==
    /\ Init
    /\ h1 = {} /\ m5 = {} /\ trades = NoTrade /\ quotes = [d \in Days |-> {}]
    /\ job = NoJob /\ jobs = MaxBackfills

AtBackfill(at) == pc = at /\ UNCHANGED <<now, eng, spc, m1_end, warm, emitted, live, todo, reconciled, left, budget>>
                  /\ UNCHANGED <<bus_vars, pipe_vars, buf>>

\* Between two backfills the runtime has captured the trades of a past minute live.
live_trade ==
    /\ pc = "off" /\ jobs > 0 /\ budget.launches = MaxLaunches
    /\ \E t \in LiveMinutes \ DOMAIN trades :
        trades' = [u \in DOMAIN trades \cup {t} |-> IF u = t THEN "live" ELSE trades[u]]
    /\ UNCHANGED <<vars, h1, m5, quotes, job, jobs>>

\* initialize and start: storage and historical engines only.  A job fetches bars or
\* ticks; one asked for both does the first and then the second.
bf_start ==
    /\ pc = "off" /\ jobs > 0 /\ budget.launches = MaxLaunches
    /\ jobs' = jobs - 1
    /\ \/ /\ pc' = "bf_m1"
          /\ \E e \in Ends, n \in BarLens :
                job' = [NoJob EXCEPT !.start = Max({0, e - n}), !.end = e]
       \/ /\ pc' = "bf_trades"
          /\ \E e \in Ends, f \in BOOLEAN :
                LET s == Max({0, e - TickLen}) IN
                job' = [NoJob EXCEPT !.start = s, !.end = e, !.force = f,
                                     !.days = Asc({Day(t) : t \in s .. e})]
    /\ UNCHANGED <<now, disk, eng, spc, m1_end, warm, emitted, live, buf, todo, reconciled, left, budget>>
    /\ UNCHANGED <<bus_vars, pipe_vars>>
    /\ UNCHANGED tables

\* StorageEngine.clear_bars: the whole partition goes, whatever part of it comes back.
clear_bars(days) == {b \in m5 : Day(b.bucket * BucketLen) \notin days}

\* parquet.write with the stamp as the key: the newer row wins.
UpsertBars(new) == {b \in m5 : b.bucket \notin {c.bucket : c \in new}} \cup new

\* M1 in one request; the M5 partitions of the days it covers are deleted at once, and
\* the resampled bars queued behind the M1 bars.
bf_m1 ==
    /\ AtBackfill("bf_m1")
    /\ \E ok \in BOOLEAN :
        LET got  == IF ok THEN fetch_bars(job.start, job.end, now) ELSE {}
            days == {Day(t) : t \in got}
        IN  /\ job' = [job EXCEPT !.ok = ok, !.m1 = got, !.m5 = resample_m5(got)]
            /\ m5' = clear_bars(days)
    /\ pc' = "bf_h1"
    /\ UNCHANGED <<disk, h1, trades, quotes, jobs>>

\* The storage engine's periodic flush while the job goes on.
bf_flush_due ==
    /\ AtBackfill(pc) /\ pc \in {"bf_h1", "bf_end"}
    /\ job.m1 \cup job.h1 # {} \/ job.m5 # {}
    /\ disk' = disk \cup job.m1 /\ h1' = h1 \cup job.h1
    /\ m5' = UpsertBars(job.m5)
    /\ job' = [job EXCEPT !.m1 = {}, !.h1 = {}, !.m5 = {}]
    /\ UNCHANGED <<pc, trades, quotes, jobs>>

\* H1 through load_or_fetch_bars.
bf_h1 ==
    /\ AtBackfill("bf_h1")
    /\ \E ok \in BOOLEAN :
        job' = [job EXCEPT
            !.ok = @ /\ ok,
            !.h1 = IF ok THEN load_or_fetch_bars(h1, job.start, job.end, now) ELSE {}]
    /\ pc' = "bf_end"
    /\ UNCHANGED <<disk, jobs>> /\ UNCHANGED tables

TicksOf(d) == {t \in fetch_bars(job.start, job.end, now) : Day(t) = d}
\* A failed request is logged and gives no trades, or no rows.
fetch_trades(d)      == {TicksOf(d), {}}
fetch_quotes_rows(d) == {TicksOf(d), {}}
HasTrades(d) == \E t \in DOMAIN trades : Day(t) = d

\* Mutant: the newer row wins, as it does for the other tables.
UpsertTrades_new_wins(new) == [t \in DOMAIN trades \cup new |-> IF t \in new THEN "replay" ELSE trades[t]]

\* parquet.write with prefer_live: a live row is not overwritten.
UpsertTrades(new) == [t \in DOMAIN trades \cup new |-> IF t \in DOMAIN trades THEN trades[t] ELSE "replay"]

\* One day: skipped when a file is there, unless --force; a failed fetch saves nothing.
bf_trades ==
    /\ AtBackfill("bf_trades") /\ job.days # <<>>
    /\ IF job.force \/ ~HasTrades(Head(job.days))
       THEN \E new \in fetch_trades(Head(job.days)) : trades' = UpsertTrades(new)
       ELSE UNCHANGED trades
    /\ pc' = "bf_quotes"
    /\ UNCHANGED <<disk, h1, m5, quotes, job, jobs>>

\* A day that has a file is skipped without --force; with it, the file is deleted
\* before the new rows are asked for.
NeedsQuotes(d) == job.force \/ quotes[d] = {}

bf_clear_quotes ==
    /\ AtBackfill("bf_quotes")
    /\ LET d == Head(job.days) IN
        /\ quotes' = IF job.force THEN [quotes EXCEPT ![d] = {}] ELSE quotes
        /\ pc' = IF NeedsQuotes(d) THEN "bf_save" ELSE "bf_trades"
        /\ job' = IF NeedsQuotes(d) THEN job ELSE [job EXCEPT !.days = Tail(@)]
    /\ UNCHANGED <<disk, h1, m5, trades, jobs>>

\* write_streaming puts a new file in the place of whatever is there; no rows, as
\* after a failed request, no file.
write_streaming(d, rows) == IF rows = {} THEN quotes ELSE [quotes EXCEPT ![d] = rows]

bf_save_quotes ==
    /\ AtBackfill("bf_save")
    /\ \E rows \in fetch_quotes_rows(Head(job.days)) :
        quotes' = write_streaming(Head(job.days), rows)
    /\ job' = [job EXCEPT !.days = Tail(@)]
    /\ pc' = "bf_trades"
    /\ UNCHANGED <<disk, h1, m5, trades, jobs>>

\* Mutant: the old M5 partitions are wiped when the new bars are already there.
bf_flush_wipes ==
    /\ \/ AtBackfill("bf_end")
       \/ AtBackfill("bf_trades") /\ job.days = <<>>
    /\ disk' = disk \cup job.m1 /\ h1' = h1 \cup job.h1
    /\ m5' = {b \in m5 : b.bucket \notin {c.bucket : c \in job.m5}}
    /\ job' = [job EXCEPT !.m1 = {}, !.h1 = {}, !.m5 = {}]
    /\ pc' = "bf_done"
    /\ UNCHANGED <<trades, quotes, jobs>>

\* The final flush, and the end of the run.
bf_flush ==
    /\ \/ AtBackfill("bf_end")
       \/ AtBackfill("bf_trades") /\ job.days = <<>>
    /\ disk' = disk \cup job.m1 /\ h1' = h1 \cup job.h1
    /\ m5' = UpsertBars(job.m5)
    /\ job' = [job EXCEPT !.m1 = {}, !.h1 = {}, !.m5 = {}]
    /\ pc' = "bf_done"
    /\ UNCHANGED <<trades, quotes, jobs>>

bf_exit ==
    /\ AtBackfill("bf_done")
    /\ pc' = "off" /\ job' = NoJob
    /\ UNCHANGED <<disk, jobs>> /\ UNCHANGED tables

Backfill == bf_m1 \/ bf_h1 \/ bf_trades \/ bf_clear_quotes \/ bf_save_quotes \/ bf_flush \/ bf_exit

\* A crash of the runtime or of the job; the job's queue goes with it.
b_crash == crash /\ job' = NoJob /\ UNCHANGED <<jobs, tables>>

b_run ==
    /\ pc = "off" => jobs = MaxBackfills /\ trades = NoTrade
    /\ \/ initialize \/ Start \/ Stop \/ signal \/ server_fails
       \/ StoreEvent \/ FlushDue \/ HandleBar \/ Seal \/ Pipeline \/ RiskHandle \/ LiveBar \/ Tick
    /\ UNCHANGED bvars

BNext == b_run \/ b_crash \/ live_trade \/ bf_start \/ bf_flush_due \/ Backfill
BSpec == /\ BInit /\ [][BNext]_allvars
         /\ WF_allvars(Start /\ UNCHANGED bvars) /\ WF_allvars(Stop /\ UNCHANGED bvars)
         /\ WF_allvars(Backfill)
----------------------------------------------------------------------------
(* Properties of the store.                                                 *)

\* The tables hold stamps, resampled bars and origins, and no job runs while the
\* process is off.
StoreTypeOK ==
    /\ h1 \subseteq Minute /\ DOMAIN trades \subseteq Minute
    /\ \A b \in m5 : b.of # {} /\ \A t \in b.of : Bucket(t) = b.bucket
    /\ \A d \in Days : quotes[d] \subseteq {t \in Minute : Day(t) = d}
    /\ pc = "off" => job = NoJob

\* When a backfill whose requests succeeded is done, an H1 bar of its window that the
\* source could serve is missing for one of two reasons only: its gap crosses a
\* session boundary, which _missing_ranges skips, or it is the last bar of its gap,
\* which the half-open request leaves out.
HolesExplained ==
    (pc = "bf_done" /\ job.ok) =>
        \A t \in fetch_bars(job.start, job.end, now) \ h1 :
            \/ t + 1 \in h1
            \/ \E l, r \in h1 : l < t /\ t < r /\ session_key(l) # session_key(r)

\* When a backfill whose requests succeeded is done, every M5 bar of its window is
\* there, made of all the minutes of its bucket that the window holds; the wipe of
\* the old partition never outlives the run (clear_bars before save_bar).
M5Rebuilt ==
    (pc = "bf_done" /\ job.ok) => resample_m5(fetch_bars(job.start, job.end, now)) \subseteq m5

\* Rows captured live are never replaced by a backfill's rows nor dropped, through
\* forced refetches, failed requests and crashes (prefer_live).
LiveTradesKept ==
    [][\A t \in DOMAIN trades : trades[t] = "live" =>
            t \in DOMAIN trades' /\ trades'[t] = "live"]_allvars

\* A plain backfill only adds: without --force no tick row that is on disk is lost,
\* although a quotes file is written whole and its rows have no key to merge on.
PlainBackfillOnlyAdds ==
    [][~job.force => /\ DOMAIN trades \subseteq DOMAIN trades'
                     /\ \A d \in Days : quotes[d] \subseteq quotes'[d]]_allvars

\* A backfill ends, unless the process dies.
BackfillEnds == (pc = "bf_m1" \/ pc = "bf_trades") ~> (pc = "off")

----------------------------------------------------------------------------
(* The properties together, as a run checks them. *)

\* A backfill that could fetch leaves its window whole, but for the holes its
\* range computation is known to leave.
BackfillHealsTheStore == StoreTypeOK /\ HolesExplained /\ M5Rebuilt

\* Rows once captured survive every backfill that was not told to replace them.
CapturedRowsSurvive == LiveTradesKept /\ PlainBackfillOnlyAdds

\* Whatever was started comes to an end: start(), stop() and a backfill.
RunsComeToAnEnd == StartEnds /\ StopEnds /\ BackfillEnds
============================================================================
