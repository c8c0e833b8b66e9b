------------------------------ MODULE Catchup ------------------------------
(***************************************************************************)
(* The pure part of the history the runtime warms up from:                  *)
(* engines/bootstrap/catchup.py and compute_replay_start of                 *)
(* engines/bootstrap/engine.py.  A bar is its stamp, counted in bars of its *)
(* timeframe; a set of stamps stands for a list of bars sorted by stamp.    *)
(***************************************************************************)
EXTENDS Integers, FiniteSets, FiniteSetsExt, Sequences, SequencesExt

CONSTANTS
    Lookback,      \* _MAX_LIVE_REPLAY_LOOKBACK, in minutes
    SessionLen,    \* bars of one session, for session_key
    BucketLen,     \* minutes of one M5 bar
    DayLen         \* minutes of one Parquet partition

ASSUME CatchupAssumption ==
    /\ Lookback \in Nat
    /\ {SessionLen, BucketLen, DayLen} \subseteq Nat \ {0}

session_key(t) == t \div SessionLen
Bucket(t)      == t \div BucketLen
Day(t)         == t \div DayLen

\* Mutant: two bars of overlap.
replay_start_two_back(m1_end, at) == m1_end - 2

\* compute_replay_start: one bar of overlap, but never further back than Lookback.
compute_replay_start(m1_end, at) == Max({m1_end - 1, at - Lookback})

\* resample_m5: one bar for every bucket that has a minute; the minute bars it is
\* made of are all the information it holds.
resample_m5(m1) == { [bucket |-> Bucket(t), of |-> {u \in m1 : Bucket(u) = Bucket(t)}] : t \in m1 }

\* fetch_bars of the Databento source: the end is cut at the dataset's edge and is
\* exclusive, so a range whose two ends are equal gives nothing.
fetch_bars(start, end, edge) == start .. (Min({end, edge}) - 1)

\* HistoricalDataEngine.fetch_bars collects what the source yields; the source logs a
\* failed request and yields nothing.
fetched(start, end, edge) == {fetch_bars(start, end, edge), {}}

\* The gap between two neighbours is looked at unless the session changed in it.
InnerGap(stored, l, r) ==
    /\ l \in stored /\ r \in stored /\ l < r
    /\ \A u \in stored : ~(l < u /\ u < r)
    /\ r > l + 1
    /\ session_key(l) = session_key(r)

\* _missing_ranges for H1: before the first bar, between neighbours, after the last.
missing_ranges(stored, start, end) ==
    IF stored = {} THEN {<<start, end>>}
    ELSE LET first == Min(stored)
             last  == Max(stored)
             outer == {<<start, first - 1>>, <<last + 1, end>>}
             inner == { <<p[1] + 1, p[2] - 1>> :
                        p \in {q \in stored \X stored : InnerGap(stored, q[1], q[2])} }
         IN  { g \in outer \cup inner : g[1] <= g[2] }

\* load_or_fetch_bars: the bars that fetching each missing range adds.
load_or_fetch_bars(stored, start, end, edge) ==
    UNION { fetch_bars(g[1], g[2], edge) :
            g \in missing_ranges({t \in stored : start <= t /\ t <= end}, start, end) }
============================================================================
