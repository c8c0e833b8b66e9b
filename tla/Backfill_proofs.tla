--------------------------- MODULE Backfill_proofs ---------------------------
(***************************************************************************)
(* Proofs about the start-up, the catch-up and the backfill, for any        *)
(* lookback, session, bucket and partition length, any windows and any      *)
(* number of launches, crashes and backfills: history and live feed join as *)
(* one tape, a backfill that could fetch leaves only the holes its range    *)
(* computation is known to leave, and captured rows survive.                *)
(***************************************************************************)
EXTENDS Backfill, FiniteInduction, SequenceTheorems

-----------------------------------------------------------------------------
(* The inductive invariant of the runtime *)

BackfillAt == {"bf_m1", "bf_h1", "bf_end", "bf_trades", "bf_quotes", "bf_save", "bf_done"}
Idle       == {"off"} \cup BackfillAt
BeforeEmit == {"start", "flush", "emit"}
BeforeLive == {"context", "live"}
Ended      == {"failed", "cancelled"}
Places     == Idle \cup BeforeEmit \cup BeforeLive \cup {"reconcile", "running"} \cup Ended

Bars        == [tf : {"H1", "M5", "M1"}, ts : Minute, replay : BOOLEAN]
LiveBars    == {b \in Bars : ~b.replay}
Setups      == DetectAt \cap Minute
SetupEvents == [tf : {"setup"}, ts : Setups, stage : {FORMING, CONFIRMED, TRIGGERED},
                replay : BOOLEAN]
TriggerEvents == {e \in SetupEvents : e.stage = TRIGGERED}

\* What StartupTypeOK leaves out.
RunTypeOK ==
  /\ now >= Now0
  /\ pc \in Places
  /\ live \in [on : BOOLEAN, next : 0 .. MaxNow, at : Minute]
  /\ emitted \in Nat /\ qFeat \in Seq(Bars) /\ htf \in Seq(Bars)
  /\ qAgg \in Seq(Bars) /\ qPipe \in Seq(Bars) /\ fed \in Seq(Bars) /\ qStore \in Seq(LiveBars)
  /\ qRisk \in Seq(TriggerEvents) /\ todo \in Seq(SetupEvents)
  /\ buf \subseteq Bars
  /\ active \in [DOMAIN active -> {FORMING, CONFIRMED, TRIGGERED}] /\ DOMAIN active \subseteq Setups
  /\ left \in [overlap : BOOLEAN, saved : SUBSET Minute, running : SUBSET Engines]

\* A process that is off, or runs a backfill, holds nothing of the runtime.
Blank ==
  /\ m1_end = 0 /\ warm = {} /\ emitted = 0 /\ live = NoLive /\ spc = -1
  /\ qFeat = <<>> /\ qAgg = <<>> /\ qPipe = <<>> /\ qStore = <<>> /\ qRisk = <<>>
  /\ buf = {} /\ htf = <<>> /\ fed = <<>>
  /\ active = NoSetup /\ todo = <<>> /\ reconciled = {}
  /\ plans = [s \in DetectAt |-> 0]

EnginesInv ==
  /\ pc \in Idle => Blank /\ eng = [e \in Engines \cup {Boot} |-> "CREATED"]
  /\ pc \notin Idle => \A e \in Engines : eng[e] \in {"READY", "RUNNING", "STOPPED"}

\* The tape of minute bars: what the pipeline was fed, then its bundles, then what waits
\* at the aggregator.  Its i-th bar is a function of what the catch-up fetched and of
\* where the live subscription began.
LiveFrom == compute_replay_start(m1_end, live.at)
WarmBars == Cardinality(warm)
TapeAt(bars, from, i) ==
  IF i <= Cardinality(bars) THEN Bar("M1", Asc(bars)[i], TRUE)
  ELSE Bar("M1", from + (i - 1 - Cardinality(bars)), FALSE)
Tape == fed \o qPipe \o qAgg

WarmInv ==
  /\ warm = {} \/ warm = m1_end - WarmLen .. m1_end - 1
  /\ m1_end <= now
  /\ pc \in {"flush", "emit"} \cup BeforeLive => m1_end >= WarmLen

TapeInv ==
  /\ \A i \in 1 .. Len(Tape) : Tape[i] = TapeAt(warm, LiveFrom, i)
  /\ \/ /\ Len(Tape) = (IF emitted <= 2 THEN 0 ELSE emitted - 2)
        /\ emitted < 2 + WarmBars
        /\ pc \in {"start", "flush"} => emitted = 0
        /\ live = NoLive /\ pc \in Idle \cup BeforeEmit \cup Ended
     \/ Len(Tape) = WarmBars /\ live = NoLive /\ m1_end >= WarmLen /\ pc \in BeforeLive \cup Ended
     \/ /\ Len(Tape) = WarmBars + (live.next - LiveFrom)
        /\ m1_end >= WarmLen /\ live.at <= now
        /\ LiveFrom <= live.next /\ live.next <= now
        /\ pc \in {"reconcile", "running"} \cup Ended

\* The higher timeframes: what the feature engine has taken, then what waits for it, is
\* what was published of them.
HigherInv ==
  /\ Len(htf) + Len(qFeat) = (IF emitted <= 2 THEN emitted ELSE 2)
  /\ \A i \in 1 .. Len(htf) : htf[i] = HigherHistory[i]
  /\ \A i \in 1 .. Len(qFeat) : qFeat[i] = HigherHistory[Len(htf) + i]

\* What the catch-up fetched is in the buffer or on disk before it is emitted.
DurableInv ==
  /\ pc = "flush" => warm \subseteq disk \cup {b.ts : b \in buf}
  /\ pc \in {"emit"} \cup BeforeLive \cup {"reconcile", "running"} => warm \subseteq disk

\* A stop() that overlaps no start() leaves nothing behind it.
ExitInv ==
  /\ spc >= 0 /\ ~left.overlap =>
       /\ pc \in {"running"} \cup Ended
       /\ \A k \in DOMAIN EngineOrder : k > spc => eng[EngineOrder[k]] # "RUNNING"
  /\ ~left.overlap /\ (\E b \in buf : b.replay) => eng["storage"] = "RUNNING"
  /\ pc \notin Idle => /\ left.saved = {} /\ left.running = {}
                       /\ spc = -1 => ~left.overlap
  /\ ExitIsClean

\* A setup is triggered once by the pipeline, since its bar opens it once, and once more
\* by the reconciliation; the events that wait at the risk engine are what is left of it.
MinutesFed == {fed[i].ts : i \in 1..Len(fed)}
Triggered(s)  == s \in MinutesFed /\ (s \in DOMAIN active => active[s] = TRIGGERED)
Allowed(s) == (IF Triggered(s) THEN 1 ELSE 0) + (IF s \in reconciled THEN 1 ELSE 0)
AtMost(q, s, n) ==
  /\ n = 0 => \A i \in 1 .. Len(q) : q[i].ts # s
  /\ n = 1 => \A i, j \in 1 .. Len(q) : q[i].ts = s /\ q[j].ts = s => i = j
  /\ n = 2 => \A i, j, k \in 1 .. Len(q) :
                q[i].ts = s /\ q[j].ts = s /\ q[k].ts = s => i = j \/ i = k \/ j = k
Reconciling ==
  /\ pc \in BeforeEmit \cup BeforeLive => todo = <<>> /\ reconciled = {}
  /\ \A i \in 1 .. Len(todo) : todo[i].ts \notin reconciled
  /\ \A i, j \in 1 .. Len(todo) : todo[i].ts = todo[j].ts => i = j
PlansInv ==
  /\ DOMAIN active \subseteq MinutesFed
  /\ \A s \in DetectAt :
       /\ plans[s] <= Allowed(s)
       /\ AtMost(qRisk, s, Allowed(s) - plans[s])

RuntimeInv == /\ StartupTypeOK /\ RunTypeOK /\ EnginesInv /\ WarmInv /\ TapeInv /\ HigherInv
              /\ DurableInv /\ ExitInv /\ Reconciling /\ PlansInv

-----------------------------------------------------------------------------
(* The inductive invariant of a backfill *)

M5Bars == {b \in [bucket : Nat, of : SUBSET Minute] : b.of # {} /\ \A t \in b.of : Bucket(t) = b.bucket}
Jobs == [start : Minute, end : Minute, force : BOOLEAN, ok : BOOLEAN, days : Seq(Days),
         m1 : SUBSET Minute, h1 : SUBSET Minute, m5 : SUBSET M5Bars]
JobTypeOK == job \in Jobs /\ quotes \in [Days -> SUBSET Minute]

\* The holes that filling the gaps of H may leave in the window.
HolesIn(H, from, to, edge) ==
  \A t \in fetch_bars(from, to, edge) \ H :
    t + 1 \in H \/ \E l, r \in H : l < t /\ t < r /\ session_key(l) # session_key(r)

WindowM5 == resample_m5(fetch_bars(job.start, job.end, now))
JobInv ==
  /\ JobTypeOK
  /\ pc \notin BackfillAt => job = NoJob
  /\ pc \in {"bf_quotes", "bf_save"} => job.days # <<>>
  /\ pc = "bf_save" /\ ~job.force => quotes[Head(job.days)] = {}
  /\ pc \in {"bf_m1", "bf_trades", "bf_quotes", "bf_save"} => ~job.ok
  /\ job.ok => \/ job.m5 = {} /\ WindowM5 \subseteq m5
               \/ job.m5 = WindowM5 /\ pc \in {"bf_h1", "bf_end"}
  /\ pc = "bf_end" /\ job.ok => HolesIn(h1 \cup job.h1, job.start, job.end, now)
  /\ pc = "bf_done" /\ job.ok => HolesIn(h1, job.start, job.end, now)

BackfillInv == RuntimeInv /\ StoreTypeOK /\ JobInv

-----------------------------------------------------------------------------
(* Finite sets of naturals *)

\* The greatest element of a bounded set of naturals.
LEMMA GreatestNat ==
  ASSUME NEW n \in Nat, NEW S \in SUBSET (0 .. n), S # {}
  PROVE  Max(S) \in S /\ \A y \in S : y <= Max(S)
<1> DEFINE T == {k \in Nat : n - k \in S}
<1>1. PICK x \in S : TRUE
  OBVIOUS
<1>2. n - x \in T
  <2>1. n - x \in Nat /\ n - (n - x) = x
    OBVIOUS
  <2> QED  BY <1>1, <2>1
<1>3. Min(T) \in T /\ \A k \in T : Min(T) <= k
  BY <1>2, LeastNat
<1>4. \E z \in S : \A y \in S : z >= y
  <2>1. n - Min(T) \in S
    BY <1>3
  <2>2. ASSUME NEW y \in S  PROVE n - Min(T) >= y
    <3>1. n - y \in Nat /\ n - (n - y) = y /\ Min(T) \in Nat
      BY <1>3
    <3>2. n - y \in T
      BY <3>1
    <3>3. Min(T) <= n - y
      BY <1>3, <3>2
    <3> HIDE DEF T
    <3> QED  BY <3>1, <3>3
  <2> QED  BY <2>1, <2>2
<1>5. Max(S) \in S /\ \A y \in S : Max(S) >= y
  <2> HIDE DEF Max
  <2> QED  BY <1>4, Zenon DEF Max
<1> QED  BY <1>5

\* max() and min() of two numbers.
LEMMA TwoNumbers ==
  ASSUME NEW x \in Int, NEW y \in Int
  PROVE  /\ Max({x, y}) \in {x, y} /\ Max({x, y}) >= x /\ Max({x, y}) >= y
         /\ Min({x, y}) \in {x, y} /\ Min({x, y}) <= x /\ Min({x, y}) <= y
<1>1. \E m \in {x, y} : \A z \in {x, y} : m >= z
  <2>1. CASE x >= y BY <2>1
  <2>2. CASE y >= x BY <2>2
  <2> QED BY <2>1, <2>2
<1>2. \E m \in {x, y} : \A z \in {x, y} : m =< z
  <2>1. CASE x >= y BY <2>1
  <2>2. CASE y >= x BY <2>2
  <2> QED BY <2>1, <2>2
<1>3. Max({x, y}) \in {x, y} /\ \A z \in {x, y} : Max({x, y}) >= z
  BY <1>1 DEF Max
<1>4. Min({x, y}) \in {x, y} /\ \A z \in {x, y} : Min({x, y}) =< z
  BY <1>2 DEF Min
<1> HIDE DEF Max, Min
<1> QED  BY <1>3, <1>4

Increasing(f, n) == \A i, j \in 1 .. n : i < j => f[i] < f[j]

\* A bounded set of naturals can be listed in increasing order: the greatest comes last.
LEMMA SortedExists ==
  ASSUME NEW m \in Nat, NEW S \in SUBSET (0 .. m)
  PROVE  /\ IsFiniteSet(S) /\ Cardinality(S) \in Nat
         /\ \E f \in [1 .. Cardinality(S) -> S] : Increasing(f, Cardinality(S))
<1> DEFINE N == {n \in Nat : \A U \in SUBSET (0 .. m) :
                    Cardinality(U) = n => \E f \in [1 .. n -> U] : Increasing(f, n)}
<1>1. \A U \in SUBSET (0 .. m) : IsFiniteSet(U) /\ Cardinality(U) \in Nat
  <2>1. IsFiniteSet(0 .. m)
    BY FS_Interval
  <2> QED  BY <2>1, FS_Subset, FS_CardinalityType
<1>2. 0 \in N
  <2> SUFFICES ASSUME NEW U \in SUBSET (0 .. m), Cardinality(U) = 0
               PROVE  \E f \in [1 .. 0 -> U] : Increasing(f, 0)
    OBVIOUS
  <2>1. [i \in 1 .. 0 |-> 0] \in [1 .. 0 -> U] /\ Increasing([i \in 1 .. 0 |-> 0], 0)
    BY DEF Increasing
  <2> QED  BY <2>1
<1>3. ASSUME NEW n \in N  PROVE n + 1 \in N
  <2> SUFFICES ASSUME NEW U \in SUBSET (0 .. m), Cardinality(U) = n + 1
               PROVE  \E f \in [1 .. n + 1 -> U] : Increasing(f, n + 1)
    OBVIOUS
  <2> DEFINE x == Max(U)
             V == U \ {x}
  <2>1. n \in Nat /\ U # {}
    BY <1>1, FS_EmptySet
  <2>2. x \in U /\ \A y \in U : y <= x
    BY <2>1, GreatestNat
  <2> HIDE DEF x
  <2>3. Cardinality(V) = n
    BY <1>1, <2>1, <2>2, FS_RemoveElement
  <2>4. PICK f \in [1 .. n -> V] : Increasing(f, n)
    BY <2>3
  <2>5. \A i \in 1 .. n : f[i] \in U /\ f[i] < x
    <3>1. \A y \in V : y \in U /\ y # x /\ y <= x /\ y \in Int /\ x \in Int
      BY <2>2
    <3>2. \A y \in V : y \in U /\ y < x
      BY <3>1
    <3> HIDE DEF V
    <3> QED  BY <2>4, <3>2
  <2> DEFINE g == [i \in 1 .. n + 1 |-> IF i <= n THEN f[i] ELSE x]
  <2>6. g \in [1 .. n + 1 -> U]
    BY <2>1, <2>2, <2>5
  <2>7. Increasing(g, n + 1)
    BY <2>1, <2>4, <2>5 DEF Increasing
  <2> QED  BY <2>6, <2>7
<1> HIDE DEF N
<1>4. N = Nat
  <2>1. N \in SUBSET Nat
    BY DEF N
  <2> QED  BY <1>2, <1>3, <2>1, SetInduction
<1> QED  BY <1>1, <1>4 DEF N

\* Asc(S) lists every element of S once, in increasing order.
LEMMA AscSorts ==
  ASSUME NEW m \in Nat, NEW S \in SUBSET (0 .. m)
  PROVE  /\ Cardinality(S) \in Nat
         /\ Asc(S) \in [1 .. Cardinality(S) -> S]
         /\ \A i, j \in 1 .. Cardinality(S) : i < j => Asc(S)[i] < Asc(S)[j]
         /\ \A i, j \in 1 .. Cardinality(S) : Asc(S)[i] = Asc(S)[j] => i = j
         /\ \A x \in S : \E i \in 1 .. Cardinality(S) : Asc(S)[i] = x
<1> DEFINE n == Cardinality(S)
           f == Asc(S)
<1>1. IsFiniteSet(S) /\ n \in Nat
  BY SortedExists
<1>2. f \in [1 .. n -> S] /\ \A i, j \in 1 .. n : i < j => f[i] < f[j]
  BY SortedExists DEF Increasing, Asc
<1> HIDE DEF n, f
<1>3. ASSUME NEW i \in 1 .. n, NEW j \in 1 .. n, f[i] = f[j]  PROVE i = j
  <2>1. f[i] \in Int /\ f[j] \in Int
    <3>1. \A x \in S : x \in Int
      OBVIOUS
    <3> QED  BY <1>2, <3>1
  <2>2. ~(i < j) /\ ~(j < i)
    BY <1>2, <1>3, <2>1
  <2> QED  BY <1>1, <2>2
<1>4. \A x \in S : \E i \in 1 .. n : f[i] = x
  <2>1. f \in Injection(1 .. n, S)
    BY <1>2, <1>3 DEF Injection, IsInjective
  <2>2. IsFiniteSet(1 .. n) /\ Cardinality(1 .. n) = n
    <3>1. IsFiniteSet(1 .. n) /\ Cardinality(1 .. n) = (IF 1 > n THEN 0 ELSE n - 1 + 1)
      BY <1>1, FS_Interval
    <3> QED  BY <1>1, <3>1
  <2>3. f \in Surjection(1 .. n, S)
    BY <1>1, <2>1, <2>2, FS_Injection DEF n
  <2> QED  BY <2>3 DEF Surjection
<1> QED  BY <1>1, <1>2, <1>3, <1>4 DEF n, f

-----------------------------------------------------------------------------
(* The helpers of the model *)

\* Two sequences one after the other.
LEMMA Joined ==
  ASSUME NEW S, NEW p \in Seq(S), NEW q \in Seq(S)
  PROVE  /\ Len(p \o q) = Len(p) + Len(q)
         /\ \A i \in 1 .. Len(p) + Len(q) :
              (p \o q)[i] = IF i <= Len(p) THEN p[i] ELSE q[i - Len(p)]
  OBVIOUS

\* Three engines, in the order of wire_all.
LEMMA EnginesAre ==
  /\ Engines = {"storage", "live", "risk"} /\ Len(EngineOrder) = 3
  /\ DOMAIN EngineOrder = {1, 2, 3}
  /\ EngineOrder[1] = "storage" /\ EngineOrder[2] = "live" /\ EngineOrder[3] = "risk"
  BY DEF Engines, EngineOrder, Range

\* A minute of a request: from its start on, before its end and the edge.
LEMMA FetchedMinutes ==
  ASSUME NEW a \in Int, NEW b \in Int, NEW e \in Int
  PROVE  \A t : t \in fetch_bars(a, b, e) <=> t \in Int /\ a <= t /\ t < b /\ t < e
<1> DEFINE m == Min({b, e})
<1>1. m \in Int /\ m <= b /\ m <= e /\ m \in {b, e}
  BY TwoNumbers
<1> HIDE DEF m
<1>2. fetch_bars(a, b, e) = a .. m - 1
  BY DEF fetch_bars, m
<1> QED  BY <1>1, <1>2

\* The live subscription replays one bar before the edge, and never reaches further back
\* than Lookback.
LEMMA ReplayStart ==
  ASSUME NEW edge \in Nat, NEW at \in Nat, edge >= 1, edge <= at
  PROVE  /\ compute_replay_start(edge, at) \in Nat
         /\ compute_replay_start(edge, at) >= edge - 1
         /\ compute_replay_start(edge, at) <= at
         /\ compute_replay_start(edge, at) # edge - 1 => compute_replay_start(edge, at) = at - Lookback
<1> DEFINE m == Max({edge - 1, at - Lookback})
<1>1. Lookback \in Nat
  BY CatchupAssumption
<1>2. m \in Int /\ m >= edge - 1 /\ m \in {edge - 1, at - Lookback}
  BY <1>1, TwoNumbers
<1> HIDE DEF m
<1>3. compute_replay_start(edge, at) = m
  BY DEF compute_replay_start, m
<1> QED  BY <1>1, <1>2, <1>3

\* The rows saved of a set of minutes: one for each, in order, marked as replayed.
LEMMA SavedRowsAre ==
  ASSUME NEW S \in SUBSET Minute
  PROVE  /\ Cardinality(S) \in Nat
         /\ SavedRows(S) \in Seq(Bars) /\ Len(SavedRows(S)) = Cardinality(S)
         /\ \A i \in 1 .. Cardinality(S) :
              /\ Asc(S)[i] \in S
              /\ SavedRows(S)[i] = Bar("M1", Asc(S)[i], TRUE)
         /\ Range(SavedRows(S)) \subseteq Bars
         /\ \A t \in S : \E b \in Range(SavedRows(S)) : b.ts = t
<1> DEFINE n == Cardinality(S)
           f == Asc(S)
<1>1. n \in Nat /\ f \in [1 .. n -> S] /\ \A x \in S : \E i \in 1 .. n : f[i] = x
  BY StartupAssumption, AscSorts DEF Minute
<1> HIDE DEF n, f
<1>2. SavedRows(S) = [i \in 1 .. n |-> Bar("M1", f[i], TRUE)]
  BY DEF SavedRows, n, f
<1>3. \A i \in 1 .. n : Bar("M1", f[i], TRUE) \in Bars
  BY <1>1 DEF Bar, Bars
<1>4. SavedRows(S) \in Seq(Bars) /\ Len(SavedRows(S)) = n /\ DOMAIN SavedRows(S) = 1 .. n
  <2>1. SavedRows(S) \in [1 .. n -> Bars]
    BY <1>2, <1>3
  <2> HIDE DEF SavedRows, Bars
  <2> QED  BY <1>1, <2>1
<1>5. \A i \in 1 .. n : f[i] \in S /\ SavedRows(S)[i] = Bar("M1", f[i], TRUE)
  BY <1>1, <1>2
<1>6. Range(SavedRows(S)) \subseteq Bars
  BY <1>3, <1>4, <1>5 DEF Range
<1>7. ASSUME NEW t \in S  PROVE \E b \in Range(SavedRows(S)) : b.ts = t
  <2>1. PICK i \in 1 .. n : f[i] = t
    BY <1>1
  <2>2. SavedRows(S)[i] \in Range(SavedRows(S)) /\ SavedRows(S)[i].ts = t
    BY <1>4, <1>5, <2>1 DEF Range, Bar
  <2> QED  BY <2>2
<1> QED  BY <1>1, <1>4, <1>5, <1>6, <1>7 DEF n, f

\* What the catch-up publishes: two bars of the higher timeframes, then the saved minutes.
LEMMA EmitOrderAre ==
  ASSUME warm \subseteq Minute
  PROVE  /\ WarmBars \in Nat /\ Len(EmitOrder) = 2 + WarmBars
         /\ \A i \in 1 .. 2 + WarmBars : EmitOrder[i] \in Bars
         /\ \A i \in 1 .. 2 : EmitOrder[i] = HigherHistory[i] /\ EmitOrder[i].tf # "M1"
         /\ \A i \in 1 .. WarmBars : EmitOrder[2 + i] = Bar("M1", Asc(warm)[i], TRUE)
<1> DEFINE W == WarmBars
           saved == SavedRows(warm)
           first == HigherHistory
<1>1. saved \in Seq(Bars) /\ W \in Nat /\ Len(saved) = W
      /\ \A i \in 1 .. W : saved[i] = Bar("M1", Asc(warm)[i], TRUE)
  BY SavedRowsAre DEF WarmBars
<1>2. first \in Seq(Bars) /\ Len(first) = 2 /\ \A i \in 1 .. 2 : first[i].tf # "M1"
  <2>1. 0 \in Minute
    BY StartupAssumption DEF Minute
  <2> QED  BY <2>1 DEF HigherHistory, Bars, Bar
<1>3. EmitOrder = first \o saved
  BY DEF EmitOrder
<1> HIDE DEF first, saved, W
<1>4. EmitOrder \in Seq(Bars)
  BY <1>1, <1>2, <1>3
<1>5. /\ Len(EmitOrder) = Len(first) + Len(saved)
      /\ \A i \in 1 .. Len(first) + Len(saved) :
           EmitOrder[i] = IF i <= Len(first) THEN first[i] ELSE saved[i - Len(first)]
  BY <1>1, <1>2, <1>3, Joined
<1>6. /\ Len(EmitOrder) = 2 + W
      /\ \A i \in 1 .. 2 + W : EmitOrder[i] = IF i <= 2 THEN first[i] ELSE saved[i - 2]
  BY <1>1, <1>2, <1>5
<1>7. \A i \in 1 .. 2 + W : EmitOrder[i] \in Bars
  BY <1>4, <1>6
<1>8. \A i \in 1 .. 2 : i \in 1 .. 2 + W /\ i <= 2
  BY <1>1
<1>9. \A i \in 1 .. W : 2 + i \in 1 .. 2 + W /\ ~(2 + i <= 2) /\ (2 + i) - 2 = i
  BY <1>1
<1>10. \A i \in 1 .. 2 : EmitOrder[i] = first[i] /\ first[i].tf # "M1"
  BY <1>2, <1>6, <1>8
<1>11. \A i \in 1 .. W : EmitOrder[2 + i] = Bar("M1", Asc(warm)[i], TRUE)
  BY <1>1, <1>6, <1>9
<1> QED  BY <1>1, <1>6, <1>7, <1>10, <1>11 DEF W, first

\* The setup events a list of setups gives, one for each.
LEMMA ListedSetups ==
  ASSUME NEW S \in SUBSET Setups
  PROVE  /\ Cardinality(S) \in Nat /\ Len(Asc(S)) = Cardinality(S)
         /\ \A i \in 1 .. Cardinality(S) : Asc(S)[i] \in S
         /\ \A i, j \in 1 .. Cardinality(S) : Asc(S)[i] = Asc(S)[j] => i = j
<1> DEFINE n == Cardinality(S)
           f == Asc(S)
<1>1. n \in Nat /\ f \in [1 .. n -> S] /\ \A i, j \in 1 .. n : f[i] = f[j] => i = j
  BY StartupAssumption, AscSorts DEF Minute, Setups
<1> HIDE DEF n, f
<1>2. Len(f) = n
  BY <1>1
<1> QED  BY <1>1, <1>2 DEF n, f

\* What a minute bar makes of the active setups: each moves one stage, and the bar may
\* open its own, which it does once.
LEMMA StagedAre ==
  ASSUME RunTypeOK, NEW b \in Bars
  PROVE  /\ Opened(b) \subseteq Setups /\ \A s \in Opened(b) : s = b.ts /\ s \notin MinutesFed
         /\ DOMAIN Staged(b) = DOMAIN active \cup Opened(b)
         /\ DOMAIN Staged(b) \subseteq Setups
         /\ \A s \in DOMAIN active : Staged(b)[s] = active[s] + 1 /\ active[s] \in 1 .. 3
         /\ \A s \in DOMAIN Staged(b) \ DOMAIN active : Staged(b)[s] = FORMING /\ s \in Opened(b)
<1>1. Opened(b) \subseteq Setups /\ \A s \in Opened(b) : s = b.ts /\ s \notin MinutesFed
  BY DEF Opened, Setups, Bars, MinutesFed
<1>2. DOMAIN active \subseteq Setups /\ \A s \in DOMAIN active : active[s] \in {FORMING, CONFIRMED, TRIGGERED}
  BY DEF RunTypeOK
<1> QED  BY <1>1, <1>2 DEF Staged, Moved, FORMING, CONFIRMED, TRIGGERED

\* The events of a bar: one for each setup that the bar makes TRIGGERED.
LEMMA PipelineEvents ==
  ASSUME RunTypeOK, NEW b \in Bars
  PROVE  /\ EventsOf(b) \in Seq(TriggerEvents)
         /\ \A i \in 1 .. Len(EventsOf(b)) :
              EventsOf(b)[i].ts \in DOMAIN Staged(b) /\ Staged(b)[EventsOf(b)[i].ts] = TRIGGERED
         /\ \A i, j \in 1 .. Len(EventsOf(b)) : EventsOf(b)[i].ts = EventsOf(b)[j].ts => i = j
<1> DEFINE S == {u \in DOMAIN Staged(b) : Staged(b)[u] = TRIGGERED}
           n == Cardinality(S)
           f == Asc(S)
<1>1. S \in SUBSET Setups /\ \A u \in S : u \in DOMAIN Staged(b) /\ Staged(b)[u] = TRIGGERED
  BY StagedAre
<1>2. /\ n \in Nat /\ Len(f) = n
      /\ \A i \in 1 .. n : f[i] \in S
      /\ \A i, j \in 1 .. n : f[i] = f[j] => i = j
  BY <1>1, ListedSetups
<1>3. EventsOf(b) = [i \in 1 .. Len(f) |-> SetupEvent(f[i], TRIGGERED, b.replay)]
  BY DEF EventsOf
<1> HIDE DEF S, n, f
<1>4. \A i \in 1 .. n : SetupEvent(f[i], TRIGGERED, b.replay) \in TriggerEvents
  BY <1>1, <1>2 DEF SetupEvent, TriggerEvents, SetupEvents, Bars
<1>5. EventsOf(b) \in [1 .. n -> TriggerEvents] /\ \A i \in 1 .. n : EventsOf(b)[i].ts = f[i]
  BY <1>2, <1>3, <1>4 DEF SetupEvent
<1>6. EventsOf(b) \in Seq(TriggerEvents) /\ Len(EventsOf(b)) = n
  BY <1>2, <1>5
<1> QED  BY <1>1, <1>2, <1>5, <1>6

-----------------------------------------------------------------------------
(* The steps of the runtime: types *)

\* What every step of the runtime may rely on.
RuntimeStep ==
  \/ initialize \/ Start \/ Stop \/ signal \/ server_fails \/ crash
  \/ StoreEvent \/ FlushDue \/ HandleBar \/ Seal \/ Pipeline \/ RiskHandle \/ LiveBar \/ Tick

TypeInv == StartupTypeOK /\ RunTypeOK

\* A stopped or freshly launched process holds values of the right kind.
LEMMA FreshType ==
  ASSUME TypeInv, Fresh, UNCHANGED now, disk' \subseteq Minute,
         pc' \in Places, left' \in [overlap : BOOLEAN, saved : SUBSET Minute, running : SUBSET Engines],
         eng' \in [Engines \cup {Boot} -> EngineStates]
  PROVE  TypeInv'
<1>1. 0 \in Minute
  BY StartupAssumption DEF Minute
<1>2. /\ m1_end' \in Minute /\ warm' \subseteq Minute /\ now' \in Minute /\ now' >= Now0
      /\ live' \in [on : BOOLEAN, next : 0 .. MaxNow, at : Minute]
      /\ live'.next \in 0 .. MaxNow /\ live'.on \in BOOLEAN
      /\ plans' \in [DetectAt -> Nat] /\ buf' = {}
      /\ spc' \in -1 .. Len(EngineOrder)
  BY <1>1, EnginesAre DEF Fresh, NoLive, TypeInv, StartupTypeOK, RunTypeOK, Minute
<1>3. /\ qPipe' \in Seq(Bars) /\ fed' \in Seq(Bars) /\ qStore' \in Seq(LiveBars)
      /\ qRisk' \in Seq(TriggerEvents) /\ todo' \in Seq(SetupEvents)
      /\ qFeat' \in Seq(Bars) /\ htf' \in Seq(Bars) /\ qAgg' \in Seq(Bars) /\ emitted' \in Nat
  BY DEF Fresh
<1>4. DOMAIN active' = {} /\ active' \in [DOMAIN active' -> {FORMING, CONFIRMED, TRIGGERED}]
  BY DEF Fresh, NoSetup
<1> QED  BY <1>1, <1>2, <1>3, <1>4 DEF TypeInv, StartupTypeOK, RunTypeOK

\* What is written to disk are stamps.
LEMMA WrittenStamps ==
  ASSUME NEW d \in SUBSET Minute, NEW bars \in SUBSET Bars
  PROVE  Written(d, bars) \subseteq Minute /\ d \subseteq Written(d, bars)
         /\ \A b \in bars : b.ts \in Written(d, bars)
  BY DEF Written, Bars

\* The variables that a step of an engine of its own leaves alone.
LEMMA TypeKept ==
  ASSUME TypeInv, UNCHANGED <<now, warm, m1_end, live, emitted, qFeat, htf, qAgg, qPipe, fed, qStore, qRisk, todo, buf,
                              active, plans>>,
         disk' \subseteq Minute, pc' \in Places, spc' \in -1 .. Len(EngineOrder),
         left' \in [overlap : BOOLEAN, saved : SUBSET Minute, running : SUBSET Engines],
         eng' \in [Engines \cup {Boot} -> EngineStates]
  PROVE  TypeInv'
  BY DEF TypeInv, StartupTypeOK, RunTypeOK

\* Every variable keeps holding the kind of value its attribute holds.
LEMMA TypeStep ==
  ASSUME RuntimeInv, RuntimeStep
  PROVE  TypeInv'
<1> DEFINE Lefts == [overlap : BOOLEAN, saved : SUBSET Minute, running : SUBSET Engines]
<1>1. TypeInv
  BY DEF RuntimeInv, TypeInv
<1>2. /\ disk \subseteq Minute /\ pc \in Places /\ spc \in -1 .. Len(EngineOrder) /\ left \in Lefts
      /\ eng \in [Engines \cup {Boot} -> EngineStates] /\ buf \subseteq Bars
      /\ now \in Minute /\ now >= Now0 /\ warm \subseteq Minute /\ m1_end \in Minute
  BY <1>1 DEF TypeInv, StartupTypeOK, RunTypeOK
<1>3. {"CREATED", "READY", "STARTING", "RUNNING", "STOPPING", "STOPPED", "ERROR"} = EngineStates
  BY DEF EngineStates
<1>4. /\ NothingLeft \in Lefts
      /\ [e \in Engines \cup {Boot} |-> "READY"] \in [Engines \cup {Boot} -> EngineStates]
      /\ [e \in Engines \cup {Boot} |-> "CREATED"] \in [Engines \cup {Boot} -> EngineStates]
  BY DEF NothingLeft, EngineStates
<1>5. {"off", "start", "flush", "emit", "context", "live", "reconcile", "running", "failed",
       "cancelled"} \subseteq Places
  BY DEF Places, Idle, BeforeEmit, BeforeLive, Ended
<1>6. \A x, y : LET f == [eng EXCEPT ![x] = y] IN
        y \in EngineStates => f \in [Engines \cup {Boot} -> EngineStates]
  BY <1>2
<1> HIDE DEF Lefts
<1>7. CASE initialize
  BY <1>1, <1>2, <1>4, <1>5, <1>7, FreshType DEF initialize, launch, Lefts
<1>8. CASE start_engine
  <2>1. eng' \in [Engines \cup {Boot} -> EngineStates]
    BY <1>2, <1>8 DEF start_engine, EngineStates
  <2>2. pc' \in Places
    BY <1>5, <1>8 DEF start_engine
  <2>3. UNCHANGED <<now, warm, m1_end, live, emitted, qFeat, htf, qAgg, qPipe, fed, qStore, qRisk,
                  todo, buf, active, plans, disk, spc, left>>
    BY <1>8 DEF start_engine, disk_vars, pipe_vars, bus_vars
  <2> QED  BY <1>1, <1>2, <2>1, <2>2, <2>3, TypeKept DEF Lefts
<1>9. CASE fetch_m1
  <2>1. PICK lag \in 0 .. MaxLag :
          /\ m1_end' = now - lag
          /\ warm' \in fetched(now - lag - WarmLen, now - lag, now - lag)
    BY <1>9 DEF fetch_m1
  <2>2. now - lag \in Minute /\ now - lag - WarmLen \in Nat /\ now - lag \in Int
    BY <1>2, StartupAssumption DEF Minute
  <2>3. warm' \subseteq Minute
    <3>1. ASSUME NEW t \in fetch_bars(now - lag - WarmLen, now - lag, now - lag)  PROVE t \in Minute
      <4>1. t \in Int /\ now - lag - WarmLen <= t /\ t < now - lag
        BY <2>2, FetchedMinutes
      <4> QED  BY <2>2, <4>1, StartupAssumption DEF Minute
    <3> QED  BY <2>1, <3>1 DEF fetched
  <2>4. Range(SavedRows(warm')) \subseteq Bars
    BY <2>3, SavedRowsAre
  <2>5. buf' \subseteq Bars /\ \A b \in buf' : b.ts \in Minute
    BY <1>2, <1>9, <2>4 DEF fetch_m1, Bars
  <2>6. pc' \in Places
    BY <1>5, <1>9 DEF fetch_m1
  <2>7. UNCHANGED <<now, disk, eng, spc, live, emitted, todo, left, htf, fed, active, plans, qFeat, qAgg, qPipe,
                  qStore, qRisk>>
    BY <1>9 DEF fetch_m1, pipe_vars, bus_vars
  <2> QED  BY <1>1, <2>1, <2>2, <2>3, <2>5, <2>6, <2>7 DEF TypeInv, StartupTypeOK, RunTypeOK
<1>10. CASE flush_m1 \/ flush_warm \/ FlushDue
  <2>1. disk' = Written(disk, buf) /\ buf' = {} /\ pc' \in {pc, "emit", "live"}
    BY <1>10 DEF flush_m1, flush_warm, flush, FlushDue, start_vars
  <2>2. UNCHANGED <<now, eng, spc, m1_end, warm, live, emitted, todo, left, htf, fed, active, plans, qFeat,
                  qAgg, qPipe, qStore, qRisk>>
    BY <1>10 DEF flush_m1, flush_warm, flush, FlushDue, start_vars, pipe_vars, bus_vars
  <2>3. disk' \subseteq Minute /\ pc' \in Places
    BY <1>2, <1>5, <2>1, WrittenStamps
  <2> QED  BY <1>1, <2>1, <2>2, <2>3 DEF TypeInv, StartupTypeOK, RunTypeOK
<1>11. CASE emit
  <2>1. UNCHANGED <<now, disk, eng, spc, m1_end, warm, live, todo, left, htf, fed, active, plans, buf, qPipe,
                    qStore, qRisk>>
    BY <1>11 DEF emit, disk_vars, pipe_vars
  <2>2. EmitOrder[emitted + 1] \in Bars /\ emitted' = emitted + 1 /\ emitted' \in Nat
    <3>1. emitted \in Nat /\ emitted < 2 + WarmBars /\ WarmBars \in Nat
      <4>1. emitted < 2 + WarmBars
        BY <1>11 DEF emit, RuntimeInv, TapeInv, Idle, BackfillAt, BeforeEmit, BeforeLive, Ended
      <4>2. WarmBars \in Nat
        BY <1>2, SavedRowsAre DEF WarmBars
      <4> QED  BY <1>1, <4>1, <4>2 DEF TypeInv, RunTypeOK
    <3>2. emitted + 1 \in 1 .. 2 + WarmBars
      BY <3>1
    <3>3. EmitOrder[emitted + 1] \in Bars
      BY <1>2, <3>2, EmitOrderAre
    <3>4. emitted' = emitted + 1
      BY <1>11 DEF emit
    <3> QED  BY <3>1, <3>3, <3>4
  <2>3. qFeat' \in Seq(Bars) /\ qAgg' \in Seq(Bars)
    <3> DEFINE b == EmitOrder[emitted + 1]
    <3>1. qFeat' \in {qFeat, Append(qFeat, b)} /\ qAgg' \in {qAgg, Append(qAgg, b)}
      BY <1>11, <2>2 DEF emit
    <3>2. b \in Bars /\ qFeat \in Seq(Bars) /\ qAgg \in Seq(Bars)
      BY <1>1, <2>2 DEF TypeInv, RunTypeOK
    <3> HIDE DEF b
    <3>3. Append(qFeat, b) \in Seq(Bars) /\ Append(qAgg, b) \in Seq(Bars)
      BY <3>2, AppendProperties
    <3> QED  BY <3>1, <3>2, <3>3
  <2>4. pc' \in Places
    BY <1>5, <1>11 DEF emit
  <2> QED  BY <1>1, <2>1, <2>2, <2>3, <2>4 DEF TypeInv, StartupTypeOK, RunTypeOK
<1>12. CASE start_live
  <2>1. UNCHANGED <<now, disk, spc, m1_end, warm, emitted, left, htf, fed, active, plans, buf, qFeat, qAgg, qPipe,
                    qStore, qRisk>>
    BY <1>12 DEF start_live, disk_vars, pipe_vars, bus_vars
  <2>2. pc' \in Places /\ pc = "live"
    BY <1>5, <1>12 DEF start_live
  <2>3. eng' \in [Engines \cup {Boot} -> EngineStates]
    BY <1>2, <1>12 DEF start_live, EngineStates
  <2>4. CASE eng["live"] = "READY"
    <3>1. PICK c \in BOOLEAN :
            live' = [on |-> c, next |-> compute_replay_start(m1_end, now), at |-> now]
      BY <1>12, <2>4 DEF start_live, live_on_start
    <3>2. m1_end >= 1 /\ m1_end <= now
      BY <1>2, <2>2, StartupAssumption DEF RuntimeInv, WarmInv, BeforeLive, Minute
    <3>3. compute_replay_start(m1_end, now) \in 0 .. MaxNow
      BY <1>2, <3>2, ReplayStart, StartupAssumption DEF Minute
    <3>4. live' \in [on : BOOLEAN, next : 0 .. MaxNow, at : Minute]
      BY <1>2, <3>1, <3>3
    <3>5. todo' \in Seq(SetupEvents)
      <4> DEFINE ids == Asc(DOMAIN active)
      <4>1. DOMAIN active \in SUBSET Setups
        BY <1>1 DEF TypeInv, RunTypeOK
      <4>2. Len(ids) \in Nat /\ \A i \in 1 .. Len(ids) : ids[i] \in DOMAIN active
        BY <4>1, ListedSetups
      <4> HIDE DEF ids
      <4>3. todo' = [i \in 1 .. Len(ids) |-> SetupEvent(ids[i], active[ids[i]], FALSE)]
        BY <1>12, <2>4 DEF start_live, ids
      <4>4. \A i \in 1 .. Len(ids) : SetupEvent(ids[i], active[ids[i]], FALSE) \in SetupEvents
        BY <1>1, <4>2 DEF SetupEvent, SetupEvents, TypeInv, RunTypeOK
      <4>5. todo' \in [1 .. Len(ids) -> SetupEvents]
        BY <4>3, <4>4
      <4> QED  BY <4>2, <4>5
    <3> QED  BY <1>1, <2>1, <2>2, <2>3, <3>4, <3>5 DEF TypeInv, StartupTypeOK, RunTypeOK
  <2>5. CASE eng["live"] # "READY"
    <3>1. UNCHANGED <<live, todo>>
      BY <1>12, <2>5 DEF start_live
    <3> QED  BY <1>1, <1>2, <2>1, <2>2, <2>3, <3>1, TypeKept DEF Lefts
  <2> QED  BY <2>4, <2>5
<1>13. CASE reconcile
  <2>1. UNCHANGED <<now, disk, eng, pc, spc, m1_end, warm, live, emitted, left, htf, fed, active, plans, buf,
                    qFeat, qAgg, qPipe, qStore>>
    BY <1>13 DEF reconcile, disk_vars, pipe_vars
  <2>2. todo \in Seq(SetupEvents) /\ todo # <<>> /\ todo' = Tail(todo)
    BY <1>1, <1>13 DEF reconcile, TypeInv, RunTypeOK
  <2>3. todo' \in Seq(SetupEvents) /\ Head(todo) \in SetupEvents
    BY <2>2
  <2>4. qRisk' \in Seq(TriggerEvents)
    BY <1>1, <1>13, <2>3 DEF reconcile, TypeInv, RunTypeOK, TriggerEvents
  <2> QED  BY <1>1, <2>1, <2>3, <2>4 DEF TypeInv, StartupTypeOK, RunTypeOK
<1>14. CASE started
  <2>1. UNCHANGED <<now, warm, m1_end, live, emitted, qFeat, htf, qAgg, qPipe, fed, qStore, qRisk,
                  todo, buf, active, plans, disk, spc, left>>
    BY <1>14 DEF started, disk_vars, pipe_vars, bus_vars
  <2>2. pc' \in Places /\ eng' \in [Engines \cup {Boot} -> EngineStates]
    BY <1>2, <1>5, <1>14 DEF started, EngineStates
  <2> QED  BY <1>1, <1>2, <2>1, <2>2, TypeKept DEF Lefts
<1>15. CASE signal \/ server_fails
  <2>1. UNCHANGED <<now, warm, m1_end, live, emitted, qFeat, htf, qAgg, qPipe, fed, qStore, qRisk, todo, buf,
                    active, plans, disk>>
    BY <1>15 DEF signal, server_fails, start_vars, disk_vars, pipe_vars, bus_vars
  <2>2. pc' \in Places
    BY <1>2, <1>5, <1>15 DEF signal, server_fails, start_vars
  <2>3. eng' \in [Engines \cup {Boot} -> EngineStates] /\ spc' \in -1 .. Len(EngineOrder)
    BY <1>2, <1>15, EnginesAre DEF signal, server_fails, begin_stop, EngineStates
  <2>4. left' \in [overlap : BOOLEAN, saved : SUBSET Minute, running : SUBSET Engines]
    BY <1>2, <1>15 DEF signal, server_fails, Starting, Lefts
  <2> QED  BY <1>1, <1>2, <2>1, <2>2, <2>3, <2>4, TypeKept
<1>16. CASE stop_engine
  <2>1. UNCHANGED <<now, pc, warm, m1_end, emitted, qFeat, htf, qAgg, qPipe, fed, qStore, qRisk, todo, active,
                    plans, left>>
    BY <1>16 DEF stop_engine, pipe_vars, bus_vars
  <2>2. eng' \in [Engines \cup {Boot} -> EngineStates] /\ spc' \in -1 .. Len(EngineOrder)
    <3>1. eng' = eng \/ eng' = [eng EXCEPT ![EngineOrder[spc]] = "STOPPED"]
      BY <1>16 DEF stop_engine
    <3>2. spc > 0 /\ spc' = spc - 1
      BY <1>16 DEF stop_engine
    <3>3. eng' \in [Engines \cup {Boot} -> EngineStates]
      BY <1>2, <1>3, <3>1
    <3> QED  BY <1>2, <3>2, <3>3, EnginesAre
  <2>3. live' \in [on : BOOLEAN, next : 0 .. MaxNow, at : Minute]
    BY <1>1, <1>16 DEF stop_engine, live_on_stop, TypeInv, RunTypeOK
  <2>4. (disk' = disk /\ buf' = buf) \/ (disk' = Written(disk, buf) /\ buf' = {})
    BY <1>16 DEF stop_engine, disk_vars
  <2>5. disk' \subseteq Minute /\ buf' \subseteq Bars
    BY <1>2, <2>4, WrittenStamps
  <2> QED  BY <1>1, <1>2, <2>1, <2>2, <2>3, <2>5 DEF TypeInv, StartupTypeOK, RunTypeOK, Bars
<1>17. CASE exit
  <2>1. left' \in Lefts
    BY <1>2, <1>17 DEF exit, Lefts, Bars
  <2> QED  BY <1>1, <1>2, <1>4, <1>5, <1>17, <2>1, FreshType DEF exit, Lefts
<1>18. CASE crash
  BY <1>1, <1>2, <1>4, <1>5, <1>18, FreshType DEF crash, Lefts
<1>19. CASE StoreEvent
  <2>1. UNCHANGED <<now, disk, eng, spc, pc, m1_end, warm, live, emitted, todo, qFeat, qAgg, qPipe, qRisk, left,
                    htf, fed, active, plans>>
    BY <1>19 DEF StoreEvent, start_vars, pipe_vars
  <2>2. qStore \in Seq(LiveBars) /\ qStore # <<>> /\ qStore' = Tail(qStore) /\ buf' = buf \cup {Head(qStore)}
    BY <1>1, <1>19 DEF StoreEvent, TypeInv, RunTypeOK
  <2>3. qStore' \in Seq(LiveBars) /\ Head(qStore) \in LiveBars
    BY <2>2
  <2>4. buf' \subseteq Bars
    BY <1>2, <2>2, <2>3 DEF LiveBars
  <2> QED  BY <1>1, <2>1, <2>3, <2>4 DEF TypeInv, StartupTypeOK, RunTypeOK, Bars
<1>20. CASE Pipeline
  <2> DEFINE b == Head(qPipe)
  <2>1. UNCHANGED <<now, disk, eng, spc, pc, m1_end, warm, live, emitted, todo, qFeat, qAgg, qStore, buf, htf,
                    plans, left>>
    BY <1>20 DEF Pipeline, start_vars
  <2>2. qPipe \in Seq(Bars) /\ qPipe # <<>> /\ qPipe' = Tail(qPipe) /\ fed' = Append(fed, b)
    BY <1>1, <1>20 DEF Pipeline, TypeInv, RunTypeOK
  <2>3. qPipe' \in Seq(Bars) /\ b \in Bars
    BY <2>2
  <2>4. fed' \in Seq(Bars)
    BY <1>1, <2>2, <2>3 DEF TypeInv, RunTypeOK
  <2>5. /\ active' = [s \in {u \in DOMAIN Staged(b) : is_active(Staged(b)[u])} |-> Staged(b)[s]]
        /\ qRisk' = qRisk \o EventsOf(b)
    BY <1>20 DEF Pipeline
  <2> HIDE DEF b
  <2>6. qRisk' \in Seq(TriggerEvents)
    BY <1>1, <2>3, <2>5, PipelineEvents DEF TypeInv, RunTypeOK
  <2>7. \A s \in DOMAIN Staged(b) : s \in Setups /\ (Staged(b)[s] # EXPIRED =>
                                     Staged(b)[s] \in {FORMING, CONFIRMED, TRIGGERED})
    <3>1. RunTypeOK
      BY <1>1 DEF TypeInv
    <3>2. /\ DOMAIN Staged(b) \subseteq Setups
          /\ \A s \in DOMAIN active : Staged(b)[s] = active[s] + 1 /\ active[s] \in 1 .. 3
          /\ \A s \in DOMAIN Staged(b) \ DOMAIN active : Staged(b)[s] = FORMING
      BY <2>3, <3>1, StagedAre
    <3> QED  BY <3>2 DEF FORMING, CONFIRMED, TRIGGERED, EXPIRED
  <2>8. /\ active' \in [DOMAIN active' -> {FORMING, CONFIRMED, TRIGGERED}]
        /\ DOMAIN active' \subseteq Setups
    BY <2>5, <2>7 DEF is_active
  <2>9. DOMAIN active' \subseteq DetectAt /\ \A s \in DOMAIN active' : active'[s] \in Stages \ {EXPIRED}
    BY <2>8 DEF Setups, Stages, FORMING, CONFIRMED, TRIGGERED, EXPIRED
  <2> QED  BY <1>1, <2>1, <2>3, <2>4, <2>6, <2>8, <2>9 DEF TypeInv, StartupTypeOK, RunTypeOK
<1>21. CASE RiskHandle
  <2>1. UNCHANGED <<now, disk, eng, spc, pc, m1_end, warm, live, emitted, todo, qFeat, qAgg, qPipe, qStore, buf,
                    htf, fed, active, left>>
    BY <1>21 DEF RiskHandle, start_vars
  <2>2. qRisk \in Seq(TriggerEvents) /\ qRisk # <<>> /\ qRisk' = Tail(qRisk)
    BY <1>1, <1>21 DEF RiskHandle, TypeInv, RunTypeOK
  <2>3. qRisk' \in Seq(TriggerEvents)
    BY <2>2
  <2>4. plans' \in [DetectAt -> Nat]
    <3>1. plans' = plans \/ plans' = [plans EXCEPT ![Head(qRisk).ts] = @ + 1]
      BY <1>21 DEF RiskHandle
    <3>2. plans \in [DetectAt -> Nat]
      BY <1>1 DEF TypeInv, StartupTypeOK
    <3> QED  BY <3>1, <3>2
  <2> QED  BY <1>1, <2>1, <2>3, <2>4 DEF TypeInv, StartupTypeOK, RunTypeOK
<1>22. CASE LiveBar
  <2>1. UNCHANGED <<now, disk, eng, pc, spc, m1_end, warm, emitted, qFeat, qPipe, qRisk, todo, left, buf, htf, fed,
                    active, plans>>
    BY <1>22 DEF LiveBar, disk_vars, pipe_vars
  <2>2. live.next \in Minute /\ live.next + 1 \in 0 .. MaxNow
    <3>1. live.next \in 0 .. MaxNow /\ live.next < now
      BY <1>1, <1>22 DEF LiveBar, TypeInv, StartupTypeOK
    <3> QED  BY <1>2, <3>1, StartupAssumption DEF Minute
  <2>3. live' \in [on : BOOLEAN, next : 0 .. MaxNow, at : Minute]
    BY <1>1, <1>22, <2>2 DEF LiveBar, TypeInv, RunTypeOK
  <2>4. Bar("M1", live.next, FALSE) \in LiveBars /\ Bar("M1", live.next, FALSE) \in Bars
    BY <2>2 DEF Bar, Bars, LiveBars
  <2>5. qAgg' \in Seq(Bars) /\ qStore' \in Seq(LiveBars)
    <3>1. qAgg \in Seq(Bars) /\ qStore \in Seq(LiveBars)
      BY <1>1 DEF TypeInv, RunTypeOK
    <3> DEFINE b == Bar("M1", live.next, FALSE)
    <3>2. qAgg' = Append(qAgg, b) /\ qStore' = Append(qStore, b)
      BY <1>22 DEF LiveBar
    <3>3. b \in Bars /\ b \in LiveBars
      BY <2>4
    <3> HIDE DEF b
    <3>4. qAgg' \in Seq(Bars)
      BY <3>1, <3>2, <3>3
    <3>5. qStore' \in Seq(LiveBars)
      BY <3>1, <3>2, <3>3
    <3> QED  BY <3>4, <3>5
  <2> QED  BY <1>1, <2>1, <2>3, <2>5 DEF TypeInv, StartupTypeOK, RunTypeOK
<1>23. CASE Tick
  <2>1. UNCHANGED <<disk, eng, spc, pc, m1_end, warm, live, emitted, todo, qFeat, qAgg, qPipe, qStore, qRisk, buf,
                    htf, fed, active, plans, left>>
    BY <1>23 DEF Tick, start_vars, pipe_vars, bus_vars
  <2>2. now' \in Minute /\ now' >= Now0
    BY <1>2, <1>23, StartupAssumption DEF Tick, Minute
  <2> QED  BY <1>1, <2>1, <2>2 DEF TypeInv, StartupTypeOK, RunTypeOK
<1>24. CASE HandleBar
  <2>1. UNCHANGED <<now, disk, eng, spc, pc, m1_end, warm, live, emitted, todo, qAgg, qPipe, qStore, qRisk, buf,
                    fed, active, plans, left>>
    BY <1>24 DEF HandleBar, start_vars
  <2>2. qFeat \in Seq(Bars) /\ htf \in Seq(Bars) /\ qFeat # <<>>
        /\ qFeat' = Tail(qFeat) /\ htf' = Append(htf, Head(qFeat))
    BY <1>1, <1>24 DEF HandleBar, TypeInv, RunTypeOK
  <2>3. qFeat' \in Seq(Bars) /\ htf' \in Seq(Bars)
    BY <2>2
  <2> QED  BY <1>1, <2>1, <2>3 DEF TypeInv, StartupTypeOK, RunTypeOK
<1>25. CASE Seal
  <2>1. UNCHANGED <<now, disk, eng, spc, pc, m1_end, warm, live, emitted, todo, qFeat, qStore, qRisk, buf, htf,
                    fed, active, plans, left>>
    BY <1>25 DEF Seal, start_vars, pipe_vars
  <2>2. qAgg \in Seq(Bars) /\ qPipe \in Seq(Bars) /\ qAgg # <<>>
        /\ qAgg' = Tail(qAgg) /\ qPipe' = Append(qPipe, Head(qAgg))
    BY <1>1, <1>25 DEF Seal, TypeInv, RunTypeOK
  <2>3. qAgg' \in Seq(Bars) /\ qPipe' \in Seq(Bars)
    BY <2>2
  <2> QED  BY <1>1, <2>1, <2>3 DEF TypeInv, StartupTypeOK, RunTypeOK
<1> QED
  BY <1>7, <1>8, <1>9, <1>10, <1>11, <1>12, <1>13, <1>14, <1>15, <1>16, <1>17, <1>18, <1>19,
     <1>20, <1>21, <1>22, <1>23, <1>24, <1>25 DEF RuntimeStep, Start, Stop

-----------------------------------------------------------------------------
(* The steps of the runtime: a process that holds nothing *)

PlaceSets == /\ Idle = {"off", "bf_m1", "bf_h1", "bf_end", "bf_trades", "bf_quotes", "bf_save", "bf_done"}
             /\ BeforeEmit = {"start", "flush", "emit"} /\ BeforeLive = {"context", "live"}
             /\ Ended = {"failed", "cancelled"}
             /\ Places = Idle \cup {"start", "flush", "emit", "context", "live", "reconcile", "running",
                                    "failed", "cancelled"}

\* The places of start() as sets.
LEMMA PlacesAre == PlaceSets
  BY DEF PlaceSets, Idle, BackfillAt, BeforeEmit, BeforeLive, Ended, Places

\* Where a process may be that holds nothing: launched, it has left nothing behind yet.
BlankAt == pc \in Idle \cup {"start"} /\ (pc = "start" => left = NothingLeft)
RestInv == WarmInv /\ TapeInv /\ HigherInv /\ DurableInv /\ ExitInv /\ Reconciling /\ PlansInv

\* With nothing held there is no tape, no plan and nothing left to write.
LEMMA BlankHolds ==
  TypeInv /\ Blank /\ BlankAt /\ ExitIsClean => RestInv
<1> SUFFICES ASSUME TypeInv, Blank, BlankAt, ExitIsClean
             PROVE  RestInv
  OBVIOUS
<1> USE DEF Blank, BlankAt
<1>1. pc \notin {"flush", "emit", "context", "live", "reconcile", "running"}
  BY PlacesAre DEF PlaceSets
<1>2. WarmInv
  BY <1>1 DEF WarmInv, BeforeLive, TypeInv, StartupTypeOK, Minute
<1>3. TapeInv
  <2>1. Len(Tape) = 0 /\ emitted = 0
    BY DEF Tape
  <2>2. pc \in Idle \cup BeforeEmit \cup Ended
    BY PlacesAre DEF PlaceSets
  <2>3. WarmBars \in Nat
    BY SavedRowsAre DEF WarmBars, TypeInv, StartupTypeOK
  <2> QED  BY <2>1, <2>2, <2>3 DEF TapeInv
<1>8. HigherInv
  <2>1. Len(htf) = 0 /\ Len(qFeat) = 0 /\ emitted = 0
    OBVIOUS
  <2> QED  BY <2>1 DEF HigherInv
<1>4. DurableInv
  BY <1>1 DEF DurableInv, BeforeLive
<1>5. ExitInv
  BY DEF ExitInv, NothingLeft
<1>6. Reconciling
  BY DEF Reconciling
<1>7. PlansInv
  <2>1. DOMAIN active = {}
    BY DEF NoSetup
  <2>2. ASSUME NEW s \in DetectAt
        PROVE  plans[s] <= Allowed(s) /\ AtMost(qRisk, s, Allowed(s) - plans[s])
    <3>1. plans[s] = 0 /\ Allowed(s) \in 0 .. 2
      BY DEF Allowed
    <3>2. Len(qRisk) = 0
      OBVIOUS
    <3>3. AtMost(qRisk, s, Allowed(s))
      BY <3>2 DEF AtMost
    <3> QED  BY <3>1, <3>3
  <2> QED  BY <2>1, <2>2 DEF PlansInv
<1> QED  BY <1>2, <1>3, <1>4, <1>5, <1>6, <1>7, <1>8 DEF RestInv

\* The process is launched, ends or dies.
LEMMA FreshStep ==
  ASSUME RuntimeInv, initialize \/ exit \/ crash
  PROVE  RuntimeInv'
<1>1. TypeInv'
  BY TypeStep DEF RuntimeStep, Stop
<1>2. Blank'
  BY DEF initialize, launch, exit, crash, Fresh, Blank
<1>3. BlankAt'
  BY PlacesAre DEF PlaceSets, BlankAt, initialize, launch, exit, crash
<1>4. EnginesInv'
  BY <1>2, EnginesAre, PlacesAre DEF PlaceSets, EnginesInv, initialize, launch, exit, crash, Boot
<1>5. ExitIsClean'
  <2>1. CASE initialize \/ crash
    BY <2>1 DEF initialize, launch, crash, NothingLeft, ExitIsClean
  <2>2. CASE exit
    <3> SUFFICES ASSUME ~left.overlap  PROVE left'.saved = {} /\ left'.running = {}
      BY <2>2 DEF exit, ExitIsClean
    <3>1. spc = 0 /\ \A k \in DOMAIN EngineOrder : eng[EngineOrder[k]] # "RUNNING"
      BY <2>2, EnginesAre DEF exit, RuntimeInv, ExitInv
    <3>2. \A e \in Engines : eng[e] # "RUNNING"
      BY <3>1, EnginesAre
    <3>3. ~ \E b \in buf : b.replay
      BY <3>1, EnginesAre DEF RuntimeInv, ExitInv
    <3> QED  BY <2>2, <3>2, <3>3 DEF exit
  <2> QED  BY <2>1, <2>2
<1>6. RestInv'
  <2>1. (TypeInv /\ Blank /\ BlankAt /\ ExitIsClean => RestInv)'
    BY BlankHolds, PTL
  <2> QED  BY <1>1, <1>2, <1>3, <1>5, <2>1
<1> QED  BY <1>1, <1>4, <1>6 DEF RuntimeInv, TypeInv, RestInv

-----------------------------------------------------------------------------
(* The steps of the runtime: engines and warm-up *)

\* The steps of a process that is up.
BusyStep == \/ Start \/ stop_engine \/ signal \/ server_fails
            \/ StoreEvent \/ FlushDue \/ HandleBar \/ Seal \/ Pipeline \/ RiskHandle \/ LiveBar \/ Tick

\* A process that is off, or runs a backfill, has nothing to do; the clock may go on.
LEMMA IdleTicks ==
  ASSUME RuntimeInv, pc \in Idle, BusyStep
  PROVE  Tick
<1>1. Blank /\ eng = [e \in Engines \cup {Boot} |-> "CREATED"]
  BY DEF RuntimeInv, EnginesInv
<1>2. eng[Boot] = "CREATED" /\ eng["storage"] = "CREATED"
  BY <1>1, EnginesAre DEF Boot
<1>3. ~Start
  BY PlacesAre DEF PlaceSets, Start, start_engine, fetch_m1, flush_m1, flush_warm, flush, emit,
                   start_live, reconcile, started
<1>4. ~stop_engine /\ ~signal /\ ~server_fails
  BY <1>1, <1>2 DEF stop_engine, signal, server_fails, begin_stop, Stoppable, Blank
<1>5. ~StoreEvent /\ ~FlushDue /\ ~HandleBar /\ ~Seal /\ ~Pipeline /\ ~RiskHandle /\ ~LiveBar
  BY <1>1, <1>2 DEF StoreEvent, FlushDue, HandleBar, Seal, Pipeline, RiskHandle, LiveBar, Blank, NoLive
<1> QED  BY <1>3, <1>4, <1>5 DEF BusyStep

\* So it goes on holding nothing.
LEMMA IdleStep ==
  ASSUME RuntimeInv, pc \in Idle, BusyStep
  PROVE  RuntimeInv'
<1>1. Blank /\ eng = [e \in Engines \cup {Boot} |-> "CREATED"]
  BY DEF RuntimeInv, EnginesInv
<1>6. Tick
  BY IdleTicks
<1>7. TypeInv'
  BY <1>6, TypeStep DEF RuntimeStep
<1>8. UNCHANGED <<disk, eng, spc, pc, m1_end, warm, emitted, live, todo, reconciled, qFeat, qAgg, qPipe,
                  qStore, qRisk, buf, htf, fed, active, plans, left>>
  BY <1>6 DEF Tick, start_vars, pipe_vars, bus_vars
<1>9. Blank' /\ BlankAt' /\ EnginesInv'
  BY <1>1, <1>8, PlacesAre DEF Blank, BlankAt, EnginesInv, PlaceSets
<1>10. ExitIsClean'
  BY <1>8 DEF RuntimeInv, ExitInv, ExitIsClean
<1>11. RestInv'
  <2>1. (TypeInv /\ Blank /\ BlankAt /\ ExitIsClean => RestInv)'
    BY BlankHolds, PTL
  <2> QED  BY <1>7, <1>9, <1>10, <2>1
<1> QED  BY <1>7, <1>9, <1>11 DEF RuntimeInv, TypeInv, RestInv

\* An engine of a process that is up is READY, RUNNING or STOPPED.
LEMMA EnginesStep ==
  ASSUME RuntimeInv, pc \notin Idle, BusyStep
  PROVE  EnginesInv' /\ pc' \notin Idle
<1> DEFINE Up == {"READY", "RUNNING", "STOPPED"}
<1>1. \A e \in Engines : eng[e] \in Up
  BY DEF RuntimeInv, EnginesInv
<1>2. DOMAIN eng = Engines \cup {Boot} /\ Boot \notin Engines
  BY EnginesAre DEF RuntimeInv, StartupTypeOK, Boot
<1>3. pc' \notin Idle
  <2>1. CASE Start
    BY <2>1, PlacesAre DEF PlaceSets, Start, start_engine, fetch_m1, flush_m1, flush_warm, flush, emit,
                           start_live, reconcile, started
  <2>2. CASE signal \/ server_fails \/ stop_engine
    BY <2>2, PlacesAre DEF PlaceSets, signal, server_fails, stop_engine, start_vars
  <2>3. CASE StoreEvent \/ FlushDue \/ HandleBar \/ Seal \/ Pipeline \/ RiskHandle \/ LiveBar \/ Tick
    BY <2>3 DEF StoreEvent, FlushDue, HandleBar, Seal, Pipeline, RiskHandle, LiveBar, Tick, start_vars
  <2> QED  BY <2>1, <2>2, <2>3 DEF BusyStep
<1>4. \A e \in Engines : eng'[e] \in Up
  <2>1. CASE start_engine
    BY <1>1, <1>2, <2>1 DEF start_engine
  <2>2. CASE start_live \/ started
    BY <1>1, <1>2, <2>2 DEF start_live, started
  <2>3. CASE signal \/ server_fails
    BY <1>1, <1>2, <2>3 DEF signal, server_fails, begin_stop
  <2>4. CASE stop_engine
    <3>1. eng' = eng \/ eng' = [eng EXCEPT ![EngineOrder[spc]] = "STOPPED"]
      BY <2>4 DEF stop_engine
    <3> QED  BY <1>1, <1>2, <3>1
  <2>5. CASE UNCHANGED eng
    BY <1>1, <2>5
  <2> QED
    BY <2>1, <2>2, <2>3, <2>4, <2>5
       DEF BusyStep, Start, fetch_m1, flush_m1, flush_warm, flush, emit, reconcile, StoreEvent, FlushDue,
           HandleBar, Seal, Pipeline, RiskHandle, LiveBar, Tick
<1> QED  BY <1>3, <1>4 DEF EnginesInv

\* What the catch-up fetched is the window before its edge, or nothing.
LEMMA WarmStep ==
  ASSUME RuntimeInv, pc \notin Idle, BusyStep
  PROVE  WarmInv'
<1>1. WarmInv /\ m1_end \in Minute /\ now \in Minute /\ now >= Now0
  BY DEF RuntimeInv, StartupTypeOK, RunTypeOK
<1>2. CASE fetch_m1
  <2>1. PICK lag \in 0 .. MaxLag :
          /\ m1_end' = now - lag
          /\ warm' \in fetched(now - lag - WarmLen, now - lag, now - lag)
    BY <1>2 DEF fetch_m1
  <2> DEFINE e == now - lag
  <2>2. e \in Nat /\ e >= WarmLen /\ e <= now /\ WarmLen \in Nat
    BY <1>1, StartupAssumption DEF Minute
  <2> HIDE DEF e
  <2>3. \A t : t \in fetch_bars(e - WarmLen, e, e) <=> t \in Int /\ e - WarmLen <= t /\ t < e
    BY <2>2, FetchedMinutes
  <2>4. fetch_bars(e - WarmLen, e, e) = e - WarmLen .. e - 1
    <3>1. \A t : t \in fetch_bars(e - WarmLen, e, e) <=> t \in e - WarmLen .. e - 1
      BY <2>2, <2>3
    <3> QED  BY <3>1, Zenon
  <2>5. warm' = {} \/ warm' = e - WarmLen .. e - 1
    BY <2>1, <2>4 DEF fetched, e
  <2>6. now' = now /\ m1_end' = e
    BY <1>2, <2>1 DEF fetch_m1, e
  <2> QED  BY <2>2, <2>5, <2>6 DEF WarmInv
<1>3. CASE Tick
  <2>1. now' = now + 1 /\ UNCHANGED <<pc, m1_end, warm>>
    BY <1>3 DEF Tick, start_vars
  <2> QED  BY <1>1, <2>1 DEF WarmInv, Minute
<1>4. CASE /\ UNCHANGED <<now, m1_end, warm>>
           /\ pc' \in {"flush", "emit", "context", "live"} => pc \in {"flush", "emit", "context", "live"}
  BY <1>1, <1>4 DEF WarmInv, BeforeLive
<1>5. CASE Start /\ ~fetch_m1
  <2>1. UNCHANGED <<now, m1_end, warm>>
    BY <1>5 DEF Start, start_engine, flush_m1, flush_warm, flush, emit, start_live, reconcile, started
  <2>2. pc' \in {"flush", "emit", "context", "live"} => pc \in {"flush", "emit", "context", "live"}
    BY <1>5 DEF Start, start_engine, flush_m1, flush_warm, flush, emit, start_live, reconcile, started
  <2> QED  BY <1>4, <2>1, <2>2
<1>6. CASE signal \/ server_fails \/ stop_engine
  <2>1. UNCHANGED <<now, m1_end, warm>> /\ pc' \in {pc, "cancelled"}
    BY <1>6 DEF signal, server_fails, stop_engine, start_vars
  <2> QED  BY <1>4, <2>1
<1>7. CASE StoreEvent \/ FlushDue \/ HandleBar \/ Seal \/ Pipeline \/ RiskHandle \/ LiveBar
  <2>1. UNCHANGED <<now, pc, m1_end, warm>>
    BY <1>7 DEF StoreEvent, FlushDue, HandleBar, Seal, Pipeline, RiskHandle, LiveBar, start_vars
  <2> QED  BY <1>4, <2>1
<1> QED  BY <1>2, <1>3, <1>5, <1>6, <1>7 DEF BusyStep

\* What was fetched reaches the disk before it is emitted, and stays there.
LEMMA DurableStep ==
  ASSUME RuntimeInv, pc \notin Idle, BusyStep
  PROVE  DurableInv'
<1>1. DurableInv /\ disk \subseteq Minute /\ buf \subseteq Bars /\ warm \subseteq Minute
  BY DEF RuntimeInv, StartupTypeOK, RunTypeOK
<1> DEFINE Stamps == {b.ts : b \in buf}
           After == {"emit", "context", "live", "reconcile", "running"}
<1>2. Written(disk, buf) = disk \cup Stamps
  BY DEF Written
<1>3. CASE fetch_m1
  <2>1. pc' = "flush" /\ buf' = buf \cup Range(SavedRows(warm'))
    BY <1>3 DEF fetch_m1
  <2>2. warm' \subseteq Minute
    BY <1>3, TypeStep DEF BusyStep, RuntimeStep, Start, TypeInv, StartupTypeOK
  <2>3. \A t \in warm' : \E b \in buf' : b.ts = t
    BY <2>1, <2>2, SavedRowsAre
  <2> QED  BY <2>1, <2>3 DEF DurableInv, BeforeLive
<1>4. CASE flush_m1 \/ flush_warm
  <2>1. /\ disk' = disk \cup Stamps /\ warm' = warm
        /\ (pc = "flush" /\ pc' = "emit") \/ (pc = "context" /\ pc' = "live")
    BY <1>2, <1>4 DEF flush_m1, flush_warm, flush
  <2> QED  BY <1>1, <2>1 DEF DurableInv, BeforeLive
<1>5. CASE /\ UNCHANGED warm /\ (pc' \in After => pc \in After) /\ (pc' = "flush" => pc = "flush")
           /\ \/ disk' = disk /\ buf \subseteq buf'
              \/ disk' = disk \cup Stamps
  BY <1>1, <1>5 DEF DurableInv, BeforeLive
<1>6. CASE Start /\ ~fetch_m1 /\ ~flush_m1 /\ ~flush_warm
  <2>1. /\ UNCHANGED <<warm, disk, buf>>
        /\ pc' \in After => pc \in After
        /\ pc' = "flush" => pc = "flush"
    BY <1>6 DEF Start, start_engine, emit, start_live, reconcile, started, disk_vars
  <2> QED  BY <1>5, <2>1
<1>7. CASE signal \/ server_fails
  <2>1. UNCHANGED <<warm, disk, buf>> /\ pc' \in {pc, "cancelled"}
    BY <1>7 DEF signal, server_fails, start_vars, disk_vars
  <2> QED  BY <1>5, <2>1
<1>8. CASE stop_engine \/ FlushDue
  <2>1. /\ UNCHANGED <<warm, pc>>
        /\ \/ disk' = disk /\ buf' = buf
           \/ disk' = disk \cup Stamps
    BY <1>2, <1>8 DEF stop_engine, FlushDue, start_vars, disk_vars
  <2> QED  BY <1>5, <2>1
<1>9. CASE StoreEvent \/ HandleBar \/ Seal \/ Pipeline \/ RiskHandle \/ LiveBar \/ Tick
  <2>1. UNCHANGED <<warm, pc, disk>> /\ buf \subseteq buf'
    BY <1>9 DEF StoreEvent, HandleBar, Seal, Pipeline, RiskHandle, LiveBar, Tick, start_vars, disk_vars
  <2> QED  BY <1>5, <2>1
<1> QED  BY <1>3, <1>4, <1>6, <1>7, <1>8, <1>9 DEF BusyStep

-----------------------------------------------------------------------------
(* The steps of the runtime: the tape *)

\* The head of one queue put at the end of another leaves their concatenation as it is.
LEMMA HeadMoves ==
  ASSUME NEW p \in Seq(Bars), NEW q \in Seq(Bars), q # <<>>
  PROVE  Append(p, Head(q)) \o Tail(q) = p \o q
<1>1. Head(q) \in Bars /\ Tail(q) \in Seq(Bars) /\ <<Head(q)>> \in Seq(Bars)
  OBVIOUS
<1>2. Append(p, Head(q)) = p \o <<Head(q)>>
  BY <1>1, AppendIsConcat
<1>3. (p \o <<Head(q)>>) \o Tail(q) = p \o (<<Head(q)>> \o Tail(q))
  BY <1>1, ConcatAssociative
<1>4. <<Head(q)>> \o Tail(q) = q
  OBVIOUS
<1> QED  BY <1>2, <1>3, <1>4

\* A bar that is put on the second queue comes last in the concatenation.
LEMMA LastOfBoth ==
  ASSUME NEW p \in Seq(Bars), NEW q \in Seq(Bars), NEW b \in Bars
  PROVE  p \o Append(q, b) = Append(p \o q, b)
<1>1. p \o q \in Seq(Bars) /\ <<b>> \in Seq(Bars)
  OBVIOUS
<1>2. Append(q, b) = q \o <<b>> /\ Append(p \o q, b) = (p \o q) \o <<b>>
  BY <1>1, AppendIsConcat
<1>3. (p \o q) \o <<b>> = p \o (q \o <<b>>)
  BY <1>1, ConcatAssociative
<1> QED  BY <1>2, <1>3

\* A bar that goes from one queue to the next keeps its place on the tape.
LEMMA TapeTurns ==
  ASSUME fed \in Seq(Bars), qPipe \in Seq(Bars), qAgg \in Seq(Bars), Pipeline \/ Seal
  PROVE  Tape' = Tape
<1>1. CASE Pipeline
  <2>1. qPipe # <<>> /\ qPipe' = Tail(qPipe) /\ fed' = Append(fed, Head(qPipe)) /\ qAgg' = qAgg
    BY <1>1 DEF Pipeline
  <2>2. fed' \o qPipe' = fed \o qPipe
    BY <2>1, HeadMoves
  <2> QED  BY <2>1, <2>2 DEF Tape
<1>2. CASE Seal
  <2>1. qAgg # <<>> /\ qAgg' = Tail(qAgg) /\ qPipe' = Append(qPipe, Head(qAgg)) /\ fed' = fed
    BY <1>2 DEF Seal, pipe_vars
  <2>2. Head(qAgg) \in Bars /\ fed \o qPipe \in Seq(Bars)
    BY <2>1
  <2>3. fed' \o qPipe' = Append(fed \o qPipe, Head(qAgg))
    BY <2>1, <2>2, LastOfBoth
  <2>4. Append(fed \o qPipe, Head(qAgg)) \o Tail(qAgg) = (fed \o qPipe) \o qAgg
    BY <2>1, <2>2, HeadMoves
  <2> QED  BY <2>1, <2>3, <2>4 DEF Tape
<1> QED  BY <1>1, <1>2

\* A bar that is put on the aggregator's queue comes last on the tape.
LEMMA TapeGrows ==
  ASSUME fed \in Seq(Bars), qPipe \in Seq(Bars), qAgg \in Seq(Bars), NEW b \in Bars,
         qAgg' = Append(qAgg, b), UNCHANGED <<fed, qPipe>>
  PROVE  /\ Len(Tape) \in Nat /\ Len(Tape') = Len(Tape) + 1
         /\ \A i \in 1 .. Len(Tape) : Tape'[i] = Tape[i]
         /\ Tape'[Len(Tape) + 1] = b
<1>1. fed \o qPipe \in Seq(Bars) /\ Tape \in Seq(Bars)
  BY DEF Tape
<1>2. Tape' = Append(Tape, b)
  BY <1>1, LastOfBoth DEF Tape
<1> QED  BY <1>1, <1>2

\* The tape is the history in order and then the live bars, one by one from where the
\* subscription began; the aggregator and the pipeline take its bars in turn.
LEMMA TapeStep ==
  ASSUME RuntimeInv, pc \notin Idle, BusyStep
  PROVE  TapeInv'
<1> DEFINE W == WarmBars
           Published == IF emitted <= 2 THEN 0 ELSE emitted - 2
           EmitTape == /\ Len(Tape) = Published /\ emitted < 2 + W
                       /\ pc \in {"start", "flush"} => emitted = 0
                       /\ live = NoLive
           WarmTape == Len(Tape) = W /\ live = NoLive /\ m1_end >= WarmLen
           LiveTape == /\ Len(Tape) = W + (live.next - LiveFrom)
                       /\ m1_end >= WarmLen /\ live.at <= now
                       /\ LiveFrom <= live.next /\ live.next <= now
           InPlace == \A i \in 1 .. Len(Tape) : Tape[i] = TapeAt(warm, LiveFrom, i)
           HasTape == \/ EmitTape /\ pc \in Idle \cup BeforeEmit \cup Ended
                      \/ WarmTape /\ pc \in BeforeLive \cup Ended
                      \/ LiveTape /\ pc \in {"reconcile", "running"} \cup Ended
<1>1. InPlace /\ HasTape
  BY DEF RuntimeInv, TapeInv
<1>2. /\ fed \in Seq(Bars) /\ qPipe \in Seq(Bars) /\ qAgg \in Seq(Bars) /\ emitted \in Nat
      /\ warm \subseteq Minute /\ now \in Minute /\ m1_end \in Minute
      /\ live \in [on : BOOLEAN, next : 0 .. MaxNow, at : Minute]
  BY DEF RuntimeInv, StartupTypeOK, RunTypeOK
<1>3. W \in Nat /\ Len(Tape) \in Nat /\ WarmLen \in Nat \ {0} /\ MaxNow \in Nat
  <2>1. W \in Nat
    BY <1>2, SavedRowsAre DEF WarmBars
  <2>2. Len(Tape) \in Nat
    BY <1>2 DEF Tape
  <2>3. WarmLen \in Nat \ {0} /\ MaxNow \in Nat
    BY StartupAssumption
  <2> QED  BY <2>1, <2>2, <2>3
<1>4. InPlace' /\ HasTape' => TapeInv'
  BY DEF TapeInv
<1>5. PlaceSets
  BY PlacesAre
\* Steps that leave the tape alone.
<1>6. ASSUME Tape' = Tape,
             UNCHANGED <<warm, m1_end, emitted>>, live' = live \/ live' = [live EXCEPT !.on = FALSE]
      PROVE  /\ InPlace'
             /\ EmitTape /\ (pc' \in {"start", "flush"} => pc \in {"start", "flush"}) => EmitTape'
             /\ WarmTape => WarmTape'
             /\ LiveTape /\ now' = now => LiveTape'
  <2>1. live'.at = live.at /\ live'.next = live.next /\ (live = NoLive => live' = NoLive)
    BY <1>2, <1>6 DEF NoLive
  <2>2. UNCHANGED <<W, Published, LiveFrom>>
    BY <1>6, <2>1 DEF WarmBars, LiveFrom
  <2>3. InPlace'
    BY <1>1, <1>6, <2>2
  <2> HIDE DEF InPlace, Published, W
  <2> QED  BY <1>6, <2>1, <2>2, <2>3
<1>7. CASE Pipeline \/ Seal
  <2>1. UNCHANGED <<pc, now, warm, m1_end, emitted, live>>
    BY <1>7 DEF Pipeline, Seal, start_vars
  <2>2. Tape' = Tape
    BY <1>2, <1>7, TapeTurns
  <2>3. InPlace' /\ (EmitTape => EmitTape') /\ (WarmTape => WarmTape') /\ (LiveTape => LiveTape')
    BY <1>6, <2>1, <2>2
  <2> HIDE DEF InPlace, EmitTape, WarmTape, LiveTape
  <2> QED  BY <1>1, <1>4, <2>1, <2>3
<1>8. CASE LiveBar
  <2> DEFINE b == Bar("M1", live.next, FALSE)
  <2>1. /\ qAgg' = Append(qAgg, b) /\ live.on /\ live.next < now
        /\ UNCHANGED <<pc, now, warm, m1_end, emitted, fed, qPipe>>
        /\ live' = [live EXCEPT !.next = @ + 1]
    BY <1>8 DEF LiveBar, pipe_vars
  <2>10. b \in Bars
    BY <1>2, <2>1 DEF Bars, Bar, Minute
  <2> HIDE DEF b
  <2>2. LiveTape /\ pc \in {"reconcile", "running"} \cup Ended
    BY <1>1, <2>1 DEF NoLive
  <2>3. /\ Len(Tape') = Len(Tape) + 1
        /\ \A i \in 1 .. Len(Tape) : Tape'[i] = Tape[i]
        /\ Tape'[Len(Tape) + 1] = b
    BY <1>2, <2>1, <2>10, TapeGrows
  <2>4. live'.at = live.at /\ live'.next = live.next + 1 /\ W' = W /\ LiveFrom' = LiveFrom
    BY <1>2, <2>1 DEF WarmBars, LiveFrom
  <2>5. LiveFrom \in Int /\ live.next \in Int /\ now \in Int
    <3>1. m1_end - 1 \in Int /\ live.at - Lookback \in Int
      BY <1>2, CatchupAssumption DEF Minute
    <3>2. LiveFrom \in {m1_end - 1, live.at - Lookback}
      BY <3>1, TwoNumbers DEF LiveFrom, compute_replay_start
    <3> QED  BY <1>2, <3>1, <3>2 DEF Minute
  <2>6. Len(Tape) = W + (live.next - LiveFrom) /\ LiveFrom <= live.next /\ live.next <= now
    BY <2>2
  <2> HIDE DEF W
  <2>7. b = TapeAt(warm, LiveFrom, Len(Tape) + 1)
    <3> DEFINE n == Len(Tape) + 1
               from == LiveFrom
               next == live.next
    <3> HIDE DEF from, next
    <3>1. W \in Nat /\ from \in Int /\ next \in Int /\ from <= next /\ Len(Tape) = W + (next - from)
      BY <1>3, <2>5, <2>6 DEF from, next
    <3>2. n = 1 + W + (next - from) /\ n > W /\ n \in Nat
      BY <3>1
    <3>3. from + (n - 1 - W) = next
      BY <3>1, <3>2
    <3>4. LiveFrom + (n - 1 - W) = live.next
      BY <3>3 DEF from, next
    <3> HIDE DEF n
    <3>5. ~(n <= W)
      BY <1>3, <3>2
    <3>6. TapeAt(warm, LiveFrom, n) = Bar("M1", LiveFrom + (n - 1 - W), FALSE)
      BY <3>5 DEF TapeAt, W, WarmBars
    <3> QED  BY <3>4, <3>6 DEF b, n
  <2>8. InPlace'
    <3>1. \A i \in 1 .. Len(Tape) + 1 : i \in 1 .. Len(Tape) \/ i = Len(Tape) + 1
      BY <1>3
    <3>2. \A i \in 1 .. Len(Tape) + 1 : Tape'[i] = TapeAt(warm, LiveFrom, i)
      <4>1. ASSUME NEW i \in 1 .. Len(Tape) + 1  PROVE Tape'[i] = TapeAt(warm, LiveFrom, i)
        <5>1. CASE i \in 1 .. Len(Tape)
          BY <1>1, <2>3, <5>1
        <5>2. CASE i = Len(Tape) + 1
          BY <2>3, <2>7, <5>2
        <5> QED  BY <3>1, <5>1, <5>2
      <4> QED  BY <4>1
    <3> QED  BY <2>1, <2>3, <2>4, <3>2
  <2>9. LiveTape'
    <3> DEFINE from == LiveFrom
               next == live.next
    <3> HIDE DEF from, next
    <3>1. /\ W \in Nat /\ from \in Int /\ next \in Int /\ now \in Int /\ from <= next /\ next < now
          /\ Len(Tape) = W + (next - from)
      BY <1>3, <2>1, <2>5, <2>6 DEF from, next
    <3>2. Len(Tape) + 1 = W + ((next + 1) - from) /\ from <= next + 1 /\ next + 1 <= now
      BY <3>1
    <3> QED  BY <2>1, <2>2, <2>3, <2>4, <3>2 DEF from, next
  <2> HIDE DEF InPlace, LiveTape
  <2> QED  BY <1>4, <2>1, <2>2, <2>8, <2>9
<1>9. CASE emit
  <2> DEFINE n == emitted + 1
             b == EmitOrder[n]
  <2>1. /\ pc = "emit" /\ emitted' = n /\ pc' = (IF n = Len(EmitOrder) THEN "context" ELSE "emit")
        /\ UNCHANGED <<now, warm, m1_end, live, fed, qPipe>>
        /\ IF b.tf = "M1" THEN qAgg' = Append(qAgg, b) ELSE qAgg' = qAgg
    BY <1>9 DEF emit, pipe_vars
  <2>2. EmitTape /\ m1_end >= WarmLen
    BY <1>1, <1>5, <2>1 DEF PlaceSets, RuntimeInv, WarmInv
  <2>3. /\ Len(EmitOrder) = 2 + W
        /\ \A i \in 1 .. 2 : EmitOrder[i].tf # "M1"
        /\ \A i \in 1 .. W : EmitOrder[2 + i] = Bar("M1", Asc(warm)[i], TRUE)
    BY <1>2, EmitOrderAre
  <2>4. UNCHANGED <<W, LiveFrom>>
    BY <2>1 DEF WarmBars, LiveFrom
  <2>5. n \in 1 .. 2 + W /\ Len(Tape) = Published /\ live = NoLive
    BY <1>2, <1>3, <2>2
  <2> HIDE DEF b
  <2>6. InPlace' /\ Len(Tape') = (IF n <= 2 THEN 0 ELSE n - 2)
    <3>1. CASE n <= 2
      <4>1. n \in 1 .. 2
        BY <2>5, <3>1
      <4>2. b.tf # "M1"
        BY <2>3, <4>1 DEF b
      <4>3. UNCHANGED <<fed, qPipe, qAgg>>
        BY <2>1, <4>2
      <4>4. Len(Tape') = Len(Tape) /\ Len(Tape) = 0
        <5>1. emitted <= 2
          BY <1>2, <3>1
        <5> QED  BY <2>5, <4>3, <5>1 DEF Tape
      <4>5. 1 .. Len(Tape') = {}
        BY <4>4
      <4> QED  BY <3>1, <4>4, <4>5
    <3>2. CASE n > 2
      <4> DEFINE k == n - 2
      <4>1. k \in 1 .. W /\ 2 + k = n /\ k \in Nat
        BY <1>2, <1>3, <2>5, <3>2
      <4>2. Len(Tape) = k - 1
        <5>1. CASE emitted <= 2
          BY <1>2, <2>5, <3>2, <5>1
        <5>2. CASE emitted > 2
          BY <1>2, <2>5, <3>2, <5>2
        <5> QED  BY <1>2, <5>1, <5>2
      <4> HIDE DEF k
      <4>3. b = Bar("M1", Asc(warm)[k], TRUE)
        BY <2>3, <4>1 DEF b
      <4>4. qAgg' = Append(qAgg, b)
        BY <2>1, <4>3 DEF Bar
      <4>11. b \in Bars
        BY <1>2, <2>5, EmitOrderAre DEF b
      <4>5. /\ Len(Tape') = Len(Tape) + 1
            /\ \A i \in 1 .. Len(Tape) : Tape'[i] = Tape[i]
            /\ Tape'[Len(Tape) + 1] = b
        BY <1>2, <2>1, <4>4, <4>11, TapeGrows
      <4>6. b = TapeAt(warm, LiveFrom, k)
        BY <4>1, <4>3 DEF TapeAt, WarmBars
      <4>7. Len(Tape) + 1 = k
        BY <4>1, <4>2
      <4>8. \A i \in 1 .. k : i \in 1 .. Len(Tape) \/ i = k
        BY <4>1, <4>2
      <4>9. \A i \in 1 .. k : Tape'[i] = TapeAt(warm, LiveFrom, i)
        <5>1. ASSUME NEW i \in 1 .. k  PROVE Tape'[i] = TapeAt(warm, LiveFrom, i)
          <6>1. CASE i \in 1 .. Len(Tape)
            BY <1>1, <4>5, <6>1
          <6>2. CASE i = k
            BY <4>5, <4>6, <4>7, <6>2
          <6> QED  BY <4>8, <6>1, <6>2
        <5> QED  BY <5>1
      <4>10. InPlace'
        BY <2>1, <2>4, <4>5, <4>7, <4>9
      <4> HIDE DEF InPlace
      <4> QED  BY <1>2, <3>2, <4>5, <4>7, <4>10 DEF k
    <3> QED  BY <1>2, <3>1, <3>2
  <2> HIDE DEF InPlace
  <2>7. CASE n = 2 + W
    <3>1. pc' \in BeforeLive /\ pc' = "context"
      BY <1>5, <2>1, <2>3, <2>7 DEF PlaceSets
    <3>2. Len(Tape') = W
      BY <1>3, <2>6, <2>7
    <3>3. WarmTape'
      BY <2>1, <2>2, <2>4, <2>5, <3>2
    <3> HIDE DEF WarmTape
    <3> QED  BY <1>4, <2>6, <3>1, <3>3
  <2>8. CASE n # 2 + W
    <3>1. pc' \in BeforeEmit /\ pc' = "emit"
      BY <1>5, <2>1, <2>3, <2>8 DEF PlaceSets
    <3>2. emitted' < 2 + W'
      BY <1>3, <2>1, <2>4, <2>5, <2>8
    <3>3. EmitTape'
      BY <2>1, <2>5, <2>6, <3>1, <3>2
    <3> HIDE DEF EmitTape
    <3> QED  BY <1>4, <2>6, <3>1, <3>3
  <2> QED  BY <2>7, <2>8
<1>10. CASE fetch_m1
  <2>1. pc = "start" /\ pc' = "flush" /\ UNCHANGED <<live, fed, qPipe, qAgg, emitted>>
    BY <1>10 DEF fetch_m1, pipe_vars, bus_vars
  <2>2. EmitTape /\ emitted = 0
    BY <1>1, <1>5, <2>1 DEF PlaceSets
  <2>3. Len(Tape') = 0
    BY <1>3, <2>1, <2>2 DEF Tape
  <2>4. W' \in Nat
    <3>1. warm' \subseteq Minute
      BY <1>10, TypeStep DEF BusyStep, RuntimeStep, Start, TypeInv, StartupTypeOK
    <3> QED  BY <3>1, SavedRowsAre DEF WarmBars
  <2>5. EmitTape'
    <3>1. emitted' = 0 /\ live' = NoLive
      BY <2>1, <2>2
    <3>2. Published' = 0
      BY <3>1
    <3>3. ASSUME NEW x \in Nat  PROVE 0 < 2 + x
      OBVIOUS
    <3>4. emitted' < 2 + W'
      BY <2>4, <3>1, <3>3
    <3> HIDE DEF W, Published
    <3> QED  BY <2>3, <3>1, <3>2, <3>4
  <2>6. InPlace'
    BY <2>3
  <2>7. pc' \in BeforeEmit
    BY <1>5, <2>1 DEF PlaceSets
  <2> HIDE DEF EmitTape, InPlace
  <2> QED  BY <1>4, <2>5, <2>6, <2>7
<1>11. CASE start_live
  <2>1. pc = "live" /\ UNCHANGED <<now, warm, m1_end, emitted, fed, qPipe, qAgg>>
    BY <1>11 DEF start_live, pipe_vars, bus_vars
  <2>2. WarmTape
    BY <1>1, <1>5, <2>1 DEF PlaceSets
  <2>3. Tape' = Tape
    BY <2>1 DEF Tape
  <2>4. CASE live' = live /\ pc' = "failed"
    <3>1. InPlace' /\ WarmTape'
      BY <1>6, <2>1, <2>2, <2>3, <2>4
    <3>2. pc' \in Ended
      BY <1>5, <2>4 DEF PlaceSets
    <3> HIDE DEF InPlace, WarmTape
    <3> QED  BY <1>4, <3>1, <3>2
  <2>5. CASE eng["live"] = "READY"
    <3>1. PICK c \in BOOLEAN :
            live' = [on |-> c, next |-> compute_replay_start(m1_end, now), at |-> now]
      BY <1>11, <2>5 DEF start_live, live_on_start
    <3>2. pc' = "reconcile"
      BY <1>11, <2>5 DEF start_live
    <3>3. live'.next = LiveFrom' /\ live'.at = now /\ LiveFrom' = compute_replay_start(m1_end, now)
      BY <2>1, <3>1 DEF LiveFrom
    <3>4. compute_replay_start(m1_end, now) \in Nat /\ compute_replay_start(m1_end, now) <= now
      <4>1. m1_end >= 1 /\ m1_end <= now /\ m1_end \in Nat /\ now \in Nat
        BY <1>2, <1>3, <2>2 DEF RuntimeInv, WarmInv, Minute
      <4> QED  BY <4>1, ReplayStart
    <3>5. W' = W /\ Len(Tape) = W
      BY <2>1, <2>2 DEF WarmBars
    <3>6. \A i \in 1 .. W : TapeAt(warm, LiveFrom', i) = TapeAt(warm, LiveFrom, i)
      <4>1. \A i \in 1 .. W : i <= W
        BY <1>3
      <4> QED  BY <4>1 DEF TapeAt, WarmBars
    <3>7. InPlace'
      BY <1>1, <2>1, <2>3, <3>5, <3>6
    <3>8. LiveTape'
      BY <1>2, <1>3, <2>1, <2>2, <2>3, <3>3, <3>4, <3>5 DEF Minute
    <3> HIDE DEF InPlace, LiveTape
    <3> QED  BY <1>4, <3>2, <3>7, <3>8
  <2> QED  BY <1>11, <2>4, <2>5 DEF start_live
<1>12. CASE Tick
  <2>1. now' = now + 1 /\ UNCHANGED <<pc, warm, m1_end, emitted, live, fed, qPipe, qAgg>>
    BY <1>12 DEF Tick, start_vars, pipe_vars, bus_vars
  <2>2. Tape' = Tape
    BY <2>1 DEF Tape
  <2>3. InPlace' /\ (EmitTape => EmitTape') /\ (WarmTape => WarmTape')
    BY <1>6, <2>1, <2>2
  <2>4. LiveTape => LiveTape'
    BY <1>2, <2>1, <2>2 DEF WarmBars, LiveFrom, Minute
  <2> HIDE DEF InPlace, EmitTape, WarmTape, LiveTape
  <2> QED  BY <1>1, <1>4, <2>1, <2>3, <2>4
<1>13. ASSUME /\ UNCHANGED <<fed, qPipe, qAgg, warm, m1_end, emitted, now>>
              /\ live' = live \/ live' = [live EXCEPT !.on = FALSE]
              /\ pc \in Idle \cup BeforeEmit \cup Ended => pc' \in Idle \cup BeforeEmit \cup Ended
              /\ pc \in BeforeLive \cup Ended => pc' \in BeforeLive \cup Ended
              /\ pc \in {"reconcile", "running"} \cup Ended => pc' \in {"reconcile", "running"} \cup Ended
              /\ pc' \in {"start", "flush"} => pc \in {"start", "flush"}
       PROVE  TapeInv'
  <2>1. Tape' = Tape
    BY <1>13 DEF Tape
  <2>2. InPlace' /\ (EmitTape => EmitTape') /\ (WarmTape => WarmTape') /\ (LiveTape => LiveTape')
    BY <1>6, <1>13, <2>1
  <2> HIDE DEF InPlace, EmitTape, WarmTape, LiveTape
  <2> QED  BY <1>1, <1>4, <1>13, <2>2
<1>14. CASE start_engine \/ flush_m1 \/ flush_warm \/ reconcile \/ started
  <2>1. /\ UNCHANGED <<fed, qPipe, qAgg, warm, m1_end, emitted, now, live>>
        /\ <<pc, pc'>> \in {<<"start", "start">>, <<"start", "failed">>, <<"flush", "emit">>,
                            <<"context", "live">>, <<"reconcile", "reconcile">>, <<"reconcile", "running">>}
    BY <1>14 DEF start_engine, flush_m1, flush_warm, flush, reconcile, started, pipe_vars, bus_vars, disk_vars
  <2> QED  BY <1>5, <1>13, <2>1 DEF PlaceSets
<1>15. CASE signal \/ server_fails \/ stop_engine
  <2>1. /\ UNCHANGED <<fed, qPipe, qAgg, warm, m1_end, emitted, now>> /\ pc' \in {pc, "cancelled"}
        /\ live' = live \/ live' = [live EXCEPT !.on = FALSE]
    BY <1>15 DEF signal, server_fails, stop_engine, live_on_stop, start_vars, pipe_vars, bus_vars, disk_vars
  <2> QED  BY <1>5, <1>13, <2>1 DEF PlaceSets
<1>16. CASE StoreEvent \/ FlushDue \/ HandleBar \/ RiskHandle
  <2>1. UNCHANGED <<fed, qPipe, qAgg, warm, m1_end, emitted, now, live, pc>>
    BY <1>16 DEF StoreEvent, FlushDue, HandleBar, RiskHandle, start_vars, pipe_vars, bus_vars
  <2> QED  BY <1>13, <2>1
<1> QED
  BY <1>7, <1>8, <1>9, <1>10, <1>11, <1>12, <1>14, <1>15, <1>16 DEF BusyStep, Start

\* The feature engine takes what is published of the higher timeframes, in their order.
LEMMA HigherStep ==
  ASSUME RuntimeInv, pc \notin Idle, BusyStep
  PROVE  HigherInv'
<1> DEFINE H == Len(htf)
           Q == Len(qFeat)
<1>1. /\ htf \in Seq(Bars) /\ qFeat \in Seq(Bars) /\ emitted \in Nat /\ warm \subseteq Minute
      /\ H \in Nat /\ Q \in Nat
  BY DEF RuntimeInv, StartupTypeOK, RunTypeOK
<1>2. /\ H + Q = (IF emitted <= 2 THEN emitted ELSE 2)
      /\ \A i \in 1 .. H : htf[i] = HigherHistory[i]
      /\ \A i \in 1 .. Q : qFeat[i] = HigherHistory[H + i]
  BY DEF RuntimeInv, HigherInv
<1>3. CASE HandleBar
  <2>1. qFeat # <<>> /\ qFeat' = Tail(qFeat) /\ htf' = Append(htf, Head(qFeat)) /\ emitted' = emitted
    BY <1>3 DEF HandleBar, start_vars
  <2>2. /\ Len(htf') = H + 1 /\ Len(qFeat') = Q - 1 /\ Q >= 1
        /\ \A i \in 1 .. H : htf'[i] = htf[i]
        /\ htf'[H + 1] = qFeat[1]
        /\ \A i \in 1 .. Q - 1 : qFeat'[i] = qFeat[i + 1]
    BY <1>1, <2>1
  <2> HIDE DEF H, Q
  <2>3. \A i \in 1 .. H + 1 : htf'[i] = HigherHistory[i]
    <3>1. qFeat[1] = HigherHistory[H + 1]
      BY <1>1, <1>2, <2>2
    <3>2. \A i \in 1 .. H + 1 : i \in 1 .. H \/ i = H + 1
      BY <1>1
    <3> QED  BY <1>2, <2>2, <3>1, <3>2
  <2>4. ASSUME NEW i \in 1 .. Q - 1  PROVE qFeat'[i] = HigherHistory[H + 1 + i]
    <3>1. i + 1 \in 1 .. Q /\ H + (i + 1) = H + 1 + i
      BY <1>1
    <3> QED  BY <1>2, <2>2, <3>1
  <2>5. (H + 1) + (Q - 1) = H + Q
    BY <1>1
  <2> QED  BY <1>2, <2>1, <2>2, <2>3, <2>4, <2>5 DEF HigherInv
<1>4. CASE emit
  <2> DEFINE n == emitted + 1
             b == EmitOrder[n]
  <2>1. /\ pc = "emit" /\ emitted' = n /\ htf' = htf
        /\ qFeat' = IF b.tf = "M1" THEN qFeat ELSE Append(qFeat, b)
    BY <1>4 DEF emit, pipe_vars
  <2>2. /\ WarmBars \in Nat
        /\ \A i \in 1 .. 2 : EmitOrder[i] = HigherHistory[i] /\ EmitOrder[i].tf # "M1"
        /\ \A i \in 1 .. WarmBars : EmitOrder[2 + i] = Bar("M1", Asc(warm)[i], TRUE)
    BY <1>1, EmitOrderAre
  <2>3. emitted < 2 + WarmBars
    BY <2>1, PlacesAre DEF PlaceSets, RuntimeInv, TapeInv
  <2> HIDE DEF b, H, Q
  <2>4. CASE n <= 2
    <3>1. n \in 1 .. 2 /\ emitted <= 2
      BY <1>1, <2>4
    <3>2. b = HigherHistory[n] /\ qFeat' = Append(qFeat, b)
      BY <2>1, <2>2, <3>1 DEF b
    <3>3. /\ Len(qFeat') = Q + 1 /\ qFeat'[Q + 1] = b
          /\ \A i \in 1 .. Q : qFeat'[i] = qFeat[i]
      BY <1>1, <3>2 DEF Q
    <3>4. H + (Q + 1) = n /\ H + Q = emitted
      BY <1>1, <1>2, <3>1
    <3>5. \A i \in 1 .. Q + 1 : i \in 1 .. Q \/ i = Q + 1
      BY <1>1
    <3>6. \A i \in 1 .. Q + 1 : qFeat'[i] = HigherHistory[H + i]
      BY <1>2, <3>2, <3>3, <3>4, <3>5
    <3>7. Len(htf') = H
      BY <2>1 DEF H
    <3> QED  BY <1>2, <2>1, <2>4, <3>3, <3>4, <3>6, <3>7 DEF HigherInv
  <2>5. CASE n > 2
    <3> DEFINE k == n - 2
    <3>1. k \in 1 .. WarmBars /\ 2 + k = n
      BY <1>1, <2>2, <2>3, <2>5
    <3>2. b.tf = "M1"
      <4>1. b = Bar("M1", Asc(warm)[k], TRUE)
        BY <2>2, <3>1 DEF b
      <4> QED  BY <4>1 DEF Bar
    <3>3. UNCHANGED <<htf, qFeat>>
      BY <2>1, <3>2
    <3>4. ~(n <= 2) /\ (IF emitted <= 2 THEN emitted ELSE 2) = 2
      BY <1>1, <2>5
    <3> QED  BY <1>2, <2>1, <3>3, <3>4 DEF HigherInv, H, Q
  <2> QED  BY <1>1, <2>4, <2>5
<1>5. CASE UNCHANGED <<htf, qFeat, emitted>>
  BY <1>2, <1>5 DEF HigherInv
<1>6. CASE Start /\ ~emit
  BY <1>5, <1>6 DEF Start, start_engine, fetch_m1, flush_m1, flush_warm, flush, start_live, reconcile, started,
                    pipe_vars, bus_vars
<1>7. CASE stop_engine \/ signal \/ server_fails \/ StoreEvent \/ FlushDue \/ Seal \/ Pipeline \/ RiskHandle
           \/ LiveBar \/ Tick
  BY <1>5, <1>7 DEF stop_engine, signal, server_fails, StoreEvent, FlushDue, Seal, Pipeline, RiskHandle, LiveBar,
                    Tick, start_vars, pipe_vars, bus_vars
<1> QED  BY <1>3, <1>4, <1>6, <1>7 DEF BusyStep

-----------------------------------------------------------------------------
(* The steps of the runtime: the exit *)

\* A stop() that overlaps no start() finds it at its end, and goes through the engines
\* from the last to the first.
LEMMA ExitStep ==
  ASSUME RuntimeInv, pc \notin Idle, BusyStep
  PROVE  ExitInv'
<1> DEFINE Quiet == pc \in {"running"} \cup Ended
           Passed(n) == \A k \in DOMAIN EngineOrder : k > n => eng[EngineOrder[k]] # "RUNNING"
           Replayed == \E b \in buf : b.replay
<1>1. /\ spc >= 0 /\ ~left.overlap => Quiet /\ Passed(spc)
      /\ ~left.overlap /\ Replayed => eng["storage"] = "RUNNING"
      /\ left.saved = {} /\ left.running = {}
      /\ spc = -1 => ~left.overlap
  BY DEF RuntimeInv, ExitInv
<1>2. /\ DOMAIN eng = Engines \cup {Boot} /\ Boot \notin Engines /\ spc \in -1 .. 3
      /\ left \in [overlap : BOOLEAN, saved : SUBSET Minute, running : SUBSET Engines]
      /\ \A e \in Engines : eng[e] \in {"READY", "RUNNING", "STOPPED"}
  BY EnginesAre DEF RuntimeInv, StartupTypeOK, RunTypeOK, EnginesInv, Boot
<1>3. PlaceSets /\ Engines = {"storage", "live", "risk"}
  BY PlacesAre, EnginesAre
<1>4. CASE start_engine \/ start_live \/ started \/ emit \/ reconcile
  <2>1. UNCHANGED <<left, buf, spc>>
    BY <1>4 DEF start_engine, start_live, started, emit, reconcile, disk_vars
  <2>2. ~Quiet
    BY <1>3, <1>4 DEF PlaceSets, start_engine, start_live, started, emit, reconcile
  <2>3. eng["storage"] = "RUNNING" => eng'["storage"] = "RUNNING"
    <3>1. CASE start_engine
      BY <1>2, <1>3, <3>1 DEF start_engine
    <3>2. CASE start_live \/ started \/ emit \/ reconcile
      BY <1>2, <1>3, <3>2 DEF start_live, started, emit, reconcile
    <3> QED  BY <1>4, <3>1, <3>2
  <2> QED  BY <1>1, <2>1, <2>2, <2>3 DEF ExitInv, ExitIsClean
<1>5. CASE fetch_m1
  <2>1. pc = "start" /\ NotStarted = {} /\ UNCHANGED <<left, spc, eng>>
    BY <1>5 DEF fetch_m1
  <2>2. eng["storage"] = "RUNNING"
    <3>1. 1 \notin NotStarted
      BY <2>1
    <3>2. eng["storage"] \notin {"READY", "STOPPED"}
      BY <3>1, EnginesAre DEF NotStarted
    <3> QED  BY <1>2, <1>3, <3>2
  <2>3. ~Quiet
    BY <1>3, <2>1 DEF PlaceSets
  <2> QED  BY <1>1, <2>1, <2>2, <2>3 DEF ExitInv, ExitIsClean
<1>6. CASE flush_m1 \/ flush_warm
  <2>1. buf' = {} /\ UNCHANGED <<left, spc, eng>> /\ pc \in {"flush", "context"}
    BY <1>6 DEF flush_m1, flush_warm, flush
  <2>2. ~Quiet
    BY <1>3, <2>1 DEF PlaceSets
  <2> QED  BY <1>1, <2>1, <2>2 DEF ExitInv, ExitIsClean
<1>7. CASE signal \/ server_fails
  <2>1. /\ spc' = 3 /\ spc = -1 /\ UNCHANGED buf
        /\ eng' = [eng EXCEPT ![Boot] = "STOPPING"]
    BY <1>7, EnginesAre DEF signal, server_fails, begin_stop, disk_vars
  <2>2. eng'["storage"] = eng["storage"]
    BY <1>2, <1>3, <2>1
  <2>3. ~(\E k \in DOMAIN EngineOrder : k > 3)
    BY EnginesAre
  <2>4. left'.saved = {} /\ left'.running = {}
    BY <1>1, <1>2, <1>7 DEF signal, server_fails
  <2>5. ~left'.overlap => pc' \in {"running"} \cup Ended
    <3>1. CASE signal
      BY <1>3, <3>1 DEF signal, PlaceSets
    <3>2. CASE server_fails
      <4>1. left'.overlap = Starting /\ pc' = pc
        BY <1>2, <3>2 DEF server_fails, start_vars
      <4> QED  BY <1>3, <4>1 DEF Starting, PlaceSets
    <3> QED  BY <1>7, <3>1, <3>2
  <2>6. Passed(3)' /\ (~left'.overlap => pc' \in {"running"} \cup Ended)
    BY <2>3, <2>5
  <2> HIDE DEF Passed
  <2> QED  BY <1>1, <2>1, <2>2, <2>4, <2>6 DEF ExitInv, ExitIsClean, Passed
<1>8. CASE stop_engine
  <2> DEFINE e == EngineOrder[spc]
  <2>1. spc > 0 /\ spc' = spc - 1 /\ UNCHANGED <<pc, left>>
    BY <1>8 DEF stop_engine
  <2>2. \/ /\ eng[e] \in Stoppable /\ eng' = [eng EXCEPT ![e] = "STOPPED"]
           /\ e = "storage" => buf' = {}
           /\ e # "storage" => buf' = buf
        \/ eng[e] \notin Stoppable /\ eng' = eng /\ buf' = buf
    BY <1>8 DEF stop_engine, disk_vars
  <2>3. eng'[e] # "RUNNING" /\ e \in Engines
    <3>1. spc \in {1, 2, 3}
      BY <1>2, <2>1
    <3>2. e \in Engines
      BY <3>1, EnginesAre
    <3> HIDE DEF e
    <3> QED  BY <1>2, <2>2, <3>2 DEF Stoppable
  <2>4. \A x \in Engines : eng'[x] = eng[x] \/ eng'[x] = "STOPPED"
    BY <1>2, <2>2
  <2>5. spc >= 0 /\ ~left.overlap =>
          \A k \in DOMAIN EngineOrder : k > spc - 1 => eng'[EngineOrder[k]] # "RUNNING"
    <3> SUFFICES ASSUME spc >= 0, ~left.overlap, NEW k \in DOMAIN EngineOrder, k > spc - 1
                 PROVE  eng'[EngineOrder[k]] # "RUNNING"
      OBVIOUS
    <3>1. EngineOrder[k] \in Engines /\ k \in {1, 2, 3}
      BY EnginesAre
    <3>2. CASE k = spc
      BY <2>3, <3>2
    <3>3. CASE k > spc
      <4>1. eng[EngineOrder[k]] # "RUNNING"
        BY <1>1, <3>3
      <4> QED  BY <2>4, <3>1, <4>1
    <3> QED  BY <1>2, <3>1, <3>2, <3>3
  <2>6. ~left.overlap /\ (\E b \in buf' : b.replay) => eng'["storage"] = "RUNNING"
    BY <1>1, <1>2, <1>3, <2>2, <2>3
  <2>7. spc' >= 0 /\ ~left'.overlap => Quiet' /\ Passed(spc)'
    BY <1>1, <1>2, <2>1, <2>5
  <2> HIDE DEF Passed
  <2>8. spc' # -1
    BY <1>2, <2>1
  <2> QED  BY <1>1, <2>1, <2>6, <2>7, <2>8 DEF ExitInv, ExitIsClean, Passed
<1>9. CASE StoreEvent
  <2>1. qStore \in Seq(LiveBars) /\ qStore # <<>>
    BY <1>9 DEF StoreEvent, RuntimeInv, RunTypeOK
  <2>2. Head(qStore) \in LiveBars
    BY <2>1
  <2>3. ~Head(qStore).replay
    BY <2>2 DEF LiveBars
  <2>4. UNCHANGED <<left, eng, spc, pc>> /\ buf' = buf \cup {Head(qStore)}
    BY <1>9 DEF StoreEvent, start_vars
  <2> QED  BY <1>1, <2>3, <2>4 DEF ExitInv, ExitIsClean
<1>10. CASE FlushDue \/ HandleBar \/ Seal \/ Pipeline \/ RiskHandle \/ LiveBar \/ Tick
  <2>1. UNCHANGED <<left, eng, spc, pc>> /\ buf' \in {buf, {}}
    BY <1>10 DEF FlushDue, HandleBar, Seal, Pipeline, RiskHandle, LiveBar, Tick, start_vars, disk_vars
  <2> QED  BY <1>1, <2>1 DEF ExitInv, ExitIsClean
<1> QED  BY <1>4, <1>5, <1>6, <1>7, <1>8, <1>9, <1>10 DEF BusyStep, Start


-----------------------------------------------------------------------------
(* The steps of the runtime: setups and plans *)

\* What is left to reconcile is a list of different setups, none of them done yet.
LEMMA ReconcilingStep ==
  ASSUME RuntimeInv, pc \notin Idle, BusyStep
  PROVE  Reconciling'
<1> DEFINE Early == {"start", "flush", "emit", "context", "live"}
<1>1. /\ pc \in Early => todo = <<>> /\ reconciled = {}
      /\ \A i \in 1 .. Len(todo) : todo[i].ts \notin reconciled
      /\ \A i, j \in 1 .. Len(todo) : todo[i].ts = todo[j].ts => i = j
  BY PlacesAre DEF RuntimeInv, Reconciling, PlaceSets
<1>2. BeforeEmit \cup BeforeLive = Early
  BY DEF BeforeEmit, BeforeLive
<1>3. CASE start_live /\ eng["live"] = "READY"
  <2> DEFINE n == Cardinality(DOMAIN active)
             f == Asc(DOMAIN active)
  <2>1. /\ n \in Nat /\ Len(f) = n
        /\ \A i, j \in 1 .. n : f[i] = f[j] => i = j
    <3>1. DOMAIN active \subseteq Setups
      BY DEF RuntimeInv, RunTypeOK
    <3> QED  BY <3>1, ListedSetups
  <2>2. pc = "live" /\ pc' = "reconcile" /\ UNCHANGED reconciled
    BY <1>3 DEF start_live
  <2>3. todo' = [i \in 1 .. Len(f) |-> SetupEvent(f[i], active[f[i]], FALSE)]
    BY <1>3 DEF start_live
  <2> HIDE DEF n, f
  <2>4. Len(todo') = n /\ \A i \in 1 .. n : todo'[i].ts = f[i]
    BY <2>1, <2>3 DEF SetupEvent
  <2>5. reconciled' = {} /\ pc' \notin Early
    BY <1>1, <2>2
  <2> HIDE DEF Early
  <2> QED  BY <1>2, <2>1, <2>4, <2>5 DEF Reconciling
<1>4. CASE reconcile
  <2>1. todo \in Seq(SetupEvents) /\ todo # <<>> /\ todo' = Tail(todo)
    BY <1>4 DEF reconcile, RuntimeInv, RunTypeOK
  <2>2. /\ Len(todo') = Len(todo) - 1 /\ Len(todo) \in Nat \ {0} /\ Head(todo) = todo[1]
        /\ \A i \in 1 .. Len(todo') : todo'[i] = todo[i + 1]
    BY <2>1
  <2>3. reconciled' \in {reconciled, reconciled \cup {todo[1].ts}} /\ pc' = pc /\ pc = "reconcile"
    BY <1>4, <2>2 DEF reconcile
  <2>4. \A i \in 1 .. Len(todo') : i + 1 \in 1 .. Len(todo) /\ i + 1 # 1 /\ 1 \in 1 .. Len(todo)
    BY <2>2
  <2>5. \A i \in 1 .. Len(todo') : todo'[i].ts \notin reconciled'
    BY <1>1, <2>2, <2>3, <2>4
  <2>6. \A i, j \in 1 .. Len(todo') : todo'[i].ts = todo'[j].ts => i = j
    <3>1. ASSUME NEW i \in 1 .. Len(todo'), NEW j \in 1 .. Len(todo'), todo'[i].ts = todo'[j].ts
          PROVE  i + 1 = j + 1
      BY <1>1, <2>2, <2>4, <3>1
    <3> QED  BY <3>1
  <2>7. pc' \notin Early
    BY <2>3
  <2> HIDE DEF Early
  <2> QED  BY <1>2, <2>5, <2>6, <2>7 DEF Reconciling
<1>5. CASE UNCHANGED <<todo, reconciled>> /\ (pc' \in Early => pc \in Early)
  <2> HIDE DEF Early
  <2> QED  BY <1>1, <1>2, <1>5 DEF Reconciling
<1>6. CASE start_engine \/ fetch_m1 \/ flush_m1 \/ flush_warm \/ emit \/ started
           \/ (start_live /\ eng["live"] # "READY")
  <2>1. UNCHANGED <<todo, reconciled>> /\ (pc' \in Early => pc \in Early)
    BY <1>6 DEF start_engine, fetch_m1, flush_m1, flush_warm, flush, emit, started, start_live
  <2> QED  BY <1>5, <2>1
<1>7. CASE signal \/ server_fails \/ stop_engine
  <2>1. UNCHANGED <<todo, reconciled>> /\ pc' \in {pc, "cancelled"}
    BY <1>7 DEF signal, server_fails, stop_engine, start_vars
  <2> QED  BY <1>5, <2>1
<1>8. CASE StoreEvent \/ FlushDue \/ HandleBar \/ Seal \/ Pipeline \/ RiskHandle \/ LiveBar \/ Tick
  <2>1. UNCHANGED <<todo, reconciled, pc>>
    BY <1>8 DEF StoreEvent, FlushDue, HandleBar, Seal, Pipeline, RiskHandle, LiveBar, Tick, start_vars
  <2> QED  BY <1>5, <2>1
<1> QED  BY <1>3, <1>4, <1>6, <1>7, <1>8 DEF BusyStep, Start

\* Events that come behind those that wait: none of a setup, or one.
LEMMA MoreEvents ==
  ASSUME NEW T, NEW q \in Seq(T), NEW v \in Seq(T), NEW s, NEW n \in 0 .. 2, AtMost(q, s, n)
  PROVE  /\ (\A i \in 1 .. Len(v) : v[i].ts # s) => AtMost(q \o v, s, n)
         /\ n <= 1 /\ (\A i, j \in 1 .. Len(v) : v[i].ts = s /\ v[j].ts = s => i = j)
              => AtMost(q \o v, s, n + 1)
<1> DEFINE w == q \o v
           l == Len(q)
           m == Len(v)
           Of(p, k) == {i \in 1 .. k : p[i].ts = s}
<1>1. Len(w) = l + m /\ l \in Nat /\ m \in Nat
      /\ \A i \in 1 .. l + m : w[i] = IF i <= l THEN q[i] ELSE v[i - l]
  BY Joined
<1> HIDE DEF w
<1>2. \A i \in Of(w, l + m) : i \in Of(q, l) \/ (i > l /\ i - l \in Of(v, m))
  BY <1>1
<1>3. /\ n = 0 => Of(q, l) = {}
      /\ n = 1 => \A i, j \in Of(q, l) : i = j
      /\ n = 2 => \A i, j, k \in Of(q, l) : i = j \/ i = k \/ j = k
  BY DEF AtMost
<1>4. \A i \in Of(w, l + m) : i \in Int /\ l \in Int
  BY <1>1
<1>5. \A k \in 0 .. 2 : AtMost(w, s, k) <=>
        /\ k = 0 => Of(w, l + m) = {}
        /\ k = 1 => \A i, j \in Of(w, l + m) : i = j
        /\ k = 2 => \A i, j, h \in Of(w, l + m) : i = j \/ i = h \/ j = h
  <2>1. Len(w) = l + m
    BY <1>1
  <2> HIDE DEF l, m
  <2> QED  BY <2>1 DEF AtMost
<1>6. ASSUME \A i \in 1 .. m : v[i].ts # s  PROVE AtMost(w, s, n)
  <2>1. Of(v, m) = {}
    BY <1>6
  <2> HIDE DEF Of
  <2>2. \A i \in Of(w, l + m) : i \in Of(q, l)
    BY <1>2, <2>1
  <2> QED  BY <1>3, <1>5, <2>2
<1>7. ASSUME n <= 1, \A i, j \in 1 .. m : v[i].ts = s /\ v[j].ts = s => i = j
      PROVE  AtMost(w, s, n + 1)
  <2>1. \A i, j \in Of(v, m) : i = j
    BY <1>7
  <2> HIDE DEF Of
  <2>2. \A i, j \in Of(w, l + m) : i > l /\ j > l /\ i - l \in Of(v, m) /\ j - l \in Of(v, m) => i = j
    <3>1. ASSUME NEW i \in Of(w, l + m), NEW j \in Of(w, l + m), i - l \in Of(v, m), j - l \in Of(v, m)
          PROVE  i = j
      <4>1. i - l = j - l
        BY <2>1, <3>1
      <4> QED  BY <1>4, <4>1
    <3> QED  BY <3>1
  <2>3. CASE n = 0
    <3>1. \A i, j \in Of(w, l + m) : i = j
      BY <1>2, <1>3, <2>2, <2>3
    <3> QED  BY <1>5, <2>3, <3>1
  <2>4. CASE n = 1
    <3>1. \A i, j, h \in Of(w, l + m) : i = j \/ i = h \/ j = h
      BY <1>2, <1>3, <2>2, <2>4
    <3> QED  BY <1>5, <2>4, <3>1
  <2> QED  BY <1>7, <2>3, <2>4
<1> QED  BY <1>6, <1>7 DEF w

\* The first of the events that wait is taken.
LEMMA OneEventLess ==
  ASSUME NEW T, NEW q \in Seq(T), q # <<>>, NEW s, NEW n \in 0 .. 2, AtMost(q, s, n)
  PROVE  /\ AtMost(Tail(q), s, n)
         /\ Head(q).ts = s => n >= 1 /\ AtMost(Tail(q), s, n - 1)
<1> DEFINE p == Tail(q)
           l == Len(q)
           Of(u, k) == {i \in 1 .. k : u[i].ts = s}
<1>1. l \in Nat \ {0} /\ Len(p) = l - 1 /\ Head(q) = q[1] /\ \A i \in 1 .. l - 1 : p[i] = q[i + 1]
  OBVIOUS
<1> HIDE DEF p
<1>2. \A i \in Of(p, l - 1) : i \in Int /\ i + 1 \in Of(q, l) /\ i + 1 # 1
  BY <1>1
<1>3. /\ n = 0 => Of(q, l) = {}
      /\ n = 1 => \A i, j \in Of(q, l) : i = j
      /\ n = 2 => \A i, j, k \in Of(q, l) : i = j \/ i = k \/ j = k
  BY DEF AtMost
<1>4. \A k \in 0 .. 2 : AtMost(p, s, k) <=>
        /\ k = 0 => Of(p, l - 1) = {}
        /\ k = 1 => \A i, j \in Of(p, l - 1) : i = j
        /\ k = 2 => \A i, j, h \in Of(p, l - 1) : i = j \/ i = h \/ j = h
  BY <1>1 DEF AtMost
<1>5. Head(q).ts = s => 1 \in Of(q, l)
  BY <1>1
<1> HIDE DEF Of
<1>6. \A i, j \in Of(p, l - 1) : i + 1 = j + 1 => i = j
  BY <1>2
<1>7. AtMost(p, s, n)
  BY <1>2, <1>3, <1>4, <1>6
<1>8. ASSUME Head(q).ts = s  PROVE n >= 1 /\ AtMost(p, s, n - 1)
  <2>1. n \in {1, 2}
    BY <1>3, <1>5, <1>8
  <2>2. CASE n = 1
    <3>1. Of(p, l - 1) = {}
      BY <1>2, <1>3, <1>5, <1>8, <2>2
    <3> QED  BY <1>4, <2>2, <3>1
  <2>3. CASE n = 2
    <3>1. \A i, j \in Of(p, l - 1) : i = j
      BY <1>2, <1>3, <1>5, <1>6, <1>8, <2>3
    <3> QED  BY <1>4, <2>3, <3>1
  <2> QED  BY <2>1, <2>2, <2>3
<1> QED  BY <1>7, <1>8 DEF p


\* The pipeline triggers a setup once: the bar of its minute opens it once, and it then
\* goes through its stages one by one.
LEMMA TriggersOnce ==
  ASSUME RuntimeInv, Pipeline, NEW s \in DetectAt
  PROVE  /\ DOMAIN active' \subseteq MinutesFed'
         /\ plans[s] <= Allowed(s)' /\ AtMost(qRisk', s, Allowed(s)' - plans[s])
<1> DEFINE b == Head(qPipe)
           ev == EventsOf(b)
<1>1. qPipe \in Seq(Bars) /\ fed \in Seq(Bars) /\ qPipe # <<>> /\ fed' = Append(fed, b)
      /\ reconciled' = reconciled /\ qRisk \in Seq(TriggerEvents) /\ RunTypeOK
  BY DEF RuntimeInv, RunTypeOK, Pipeline, start_vars
<1>2. b \in Bars
  BY <1>1
<1>3. DOMAIN active \subseteq MinutesFed /\ plans[s] <= Allowed(s) /\ AtMost(qRisk, s, Allowed(s) - plans[s])
  BY DEF RuntimeInv, PlansInv
<1>4. plans[s] \in Nat
  BY DEF RuntimeInv, StartupTypeOK
<1> HIDE DEF b
<1>5. MinutesFed' = MinutesFed \cup {b.ts}
  <2>1. /\ Len(fed') = Len(fed) + 1 /\ Len(fed) \in Nat /\ fed'[Len(fed) + 1] = b
        /\ \A i \in 1 .. Len(fed) : fed'[i] = fed[i]
    BY <1>1, <1>2
  <2>2. \A i : i \in 1 .. Len(fed') <=> i \in 1 .. Len(fed) \/ i = Len(fed) + 1
    BY <2>1
  <2>3. \A t : t \in MinutesFed' <=> \E i \in 1 .. Len(fed') : fed'[i].ts = t
    BY DEF MinutesFed
  <2>4. \A t : t \in MinutesFed <=> \E i \in 1 .. Len(fed) : fed[i].ts = t
    BY DEF MinutesFed
  <2>5. \A t : t \in MinutesFed' <=> t \in MinutesFed \/ b.ts = t
    BY <2>1, <2>2, <2>3, <2>4
  <2>6. \A t : t \in MinutesFed' <=> t \in MinutesFed \cup {b.ts}
    BY <2>5
  <2> QED  BY <2>6
<1>6. /\ active' = [u \in {x \in DOMAIN Staged(b) : is_active(Staged(b)[x])} |-> Staged(b)[u]]
      /\ qRisk' = qRisk \o ev
  BY DEF Pipeline, b
<1>7. /\ Opened(b) \subseteq Setups /\ \A u \in Opened(b) : u = b.ts /\ u \notin MinutesFed
      /\ DOMAIN Staged(b) = DOMAIN active \cup Opened(b)
      /\ \A u \in DOMAIN active : Staged(b)[u] = active[u] + 1 /\ active[u] \in 1 .. 3
      /\ \A u \in DOMAIN Staged(b) \ DOMAIN active : Staged(b)[u] = FORMING /\ u \in Opened(b)
  BY <1>1, <1>2, StagedAre
<1>8. /\ ev \in Seq(TriggerEvents)
      /\ \A i \in 1 .. Len(ev) : ev[i].ts \in DOMAIN Staged(b) /\ Staged(b)[ev[i].ts] = TRIGGERED
      /\ \A i, j \in 1 .. Len(ev) : ev[i].ts = ev[j].ts => i = j
  BY <1>1, <1>2, PipelineEvents
<1>9. b.ts \in DetectAt /\ b.ts \notin MinutesFed => b.ts \in Opened(b)
  BY DEF Opened, MinutesFed
<1> HIDE DEF ev
<1>11. DOMAIN active' \subseteq MinutesFed'
  BY <1>3, <1>6, <1>7, <1>5
<1>12. DOMAIN active' = {x \in DOMAIN Staged(b) : Staged(b)[x] # EXPIRED}
      /\ \A u \in DOMAIN active' : active'[u] = Staged(b)[u]
  BY <1>6 DEF is_active
<1> DEFINE gets == s \in DOMAIN active /\ active[s] = CONFIRMED
<1>13. CASE gets
  <2>1. ~Triggered(s) /\ Triggered(s)'
    BY <1>3, <1>7, <1>5, <1>12, <1>13 DEF Triggered, CONFIRMED, TRIGGERED, EXPIRED
  <2>2. Allowed(s)' = Allowed(s) + 1 /\ Allowed(s) \in 0 .. 1
    BY <1>1, <2>1 DEF Allowed
  <2> DEFINE n == Allowed(s) - plans[s]
  <2>3. n \in 0 .. 1 /\ Allowed(s)' - plans[s] = n + 1
    BY <1>3, <1>4, <2>2
  <2>4. AtMost(qRisk \o ev, s, n + 1)
    <3>1. AtMost(qRisk, s, n) /\ n \in 0 .. 2 /\ n <= 1
      BY <1>3, <2>3
    <3> HIDE DEF n
    <3> QED  BY <1>1, <1>8, <3>1, MoreEvents
  <2> QED  BY <1>3, <1>4, <1>6, <1>11, <2>2, <2>3, <2>4
<1>14. CASE ~gets
  <2>1. Triggered(s)' = Triggered(s)
    <3>1. CASE s \in DOMAIN active /\ active[s] = FORMING
      BY <1>7, <1>12, <1>14, <3>1 DEF Triggered, FORMING, TRIGGERED, EXPIRED
    <3>2. CASE s \in DOMAIN active /\ active[s] = TRIGGERED
      BY <1>3, <1>7, <1>5, <1>12, <3>2 DEF Triggered, TRIGGERED, EXPIRED
    <3>3. CASE s \in Opened(b) /\ s \notin DOMAIN active
      BY <1>7, <1>12, <3>3 DEF Triggered, FORMING, TRIGGERED, EXPIRED
    <3>4. CASE s \notin Opened(b) /\ s \notin DOMAIN active
      <4>1. s \notin DOMAIN active'
        BY <1>7, <1>12, <3>4
      <4>2. s \in MinutesFed' <=> s \in MinutesFed
        BY <1>9, <1>5, <3>4
      <4> QED  BY <3>4, <4>1, <4>2 DEF Triggered
    <3>5. s \in DOMAIN active => active[s] \in {FORMING, CONFIRMED, TRIGGERED}
      BY <1>7 DEF FORMING, CONFIRMED, TRIGGERED
    <3> QED  BY <1>14, <3>1, <3>2, <3>3, <3>4, <3>5
  <2>2. Allowed(s)' = Allowed(s) /\ Allowed(s) \in 0 .. 2
    BY <1>1, <2>1 DEF Allowed
  <2>3. \A i \in 1 .. Len(ev) : ev[i].ts # s
    <3>1. s \in DOMAIN Staged(b) => Staged(b)[s] # TRIGGERED
      BY <1>7, <1>14 DEF FORMING, CONFIRMED, TRIGGERED
    <3> QED  BY <1>8, <3>1
  <2> DEFINE n == Allowed(s) - plans[s]
  <2>4. AtMost(qRisk, s, n) /\ n \in 0 .. 2
    BY <1>3, <1>4, <2>2
  <2>5. AtMost(qRisk \o ev, s, n)
    <3> HIDE DEF n
    <3> QED  BY <1>1, <1>8, <2>3, <2>4, MoreEvents
  <2> QED  BY <1>3, <1>6, <1>11, <2>2, <2>5
<1> QED  BY <1>13, <1>14

\* The plans of a setup are one for its triggering and one for its reconciliation, at the
\* most, the events that still wait included.
LEMMA PlansStep ==
  ASSUME RuntimeInv, pc \notin Idle, BusyStep
  PROVE  PlansInv'
<1>1. /\ DOMAIN active \subseteq MinutesFed
      /\ \A s \in DetectAt : plans[s] <= Allowed(s) /\ AtMost(qRisk, s, Allowed(s) - plans[s])
  BY DEF RuntimeInv, PlansInv
<1>2. plans \in [DetectAt -> Nat] /\ qRisk \in Seq(TriggerEvents) /\ todo \in Seq(SetupEvents)
  BY DEF RuntimeInv, StartupTypeOK, RunTypeOK
<1>3. \A s \in DetectAt : plans[s] \in Nat /\ Allowed(s) \in 0 .. 2 /\ Allowed(s) - plans[s] \in 0 .. 2
  <2> TAKE s \in DetectAt
  <2>1. plans[s] \in Nat /\ Allowed(s) \in 0 .. 2
    BY <1>2 DEF Allowed
  <2> QED  BY <1>1, <2>1
<1>4. CASE Pipeline
  <2>1. plans' = plans
    BY <1>4 DEF Pipeline
  <2>2. \A s \in DetectAt : /\ DOMAIN active' \subseteq MinutesFed'
                            /\ plans[s] <= Allowed(s)' /\ AtMost(qRisk', s, Allowed(s)' - plans[s])
    BY <1>4, TriggersOnce
  <2>3. DOMAIN active' \subseteq MinutesFed'
    <3>1. CASE DetectAt = {}
      <4>1. DOMAIN active' \subseteq DetectAt
        BY <1>4, TypeStep DEF RuntimeStep, TypeInv, StartupTypeOK
      <4> QED  BY <3>1, <4>1
    <3>2. CASE DetectAt # {}
      BY <2>2, <3>2
    <3> QED  BY <3>1, <3>2
  <2> QED  BY <2>1, <2>2, <2>3 DEF PlansInv
<1>5. CASE RiskHandle
  <2> DEFINE e == Head(qRisk)
  <2>1. qRisk # <<>> /\ qRisk' = Tail(qRisk) /\ UNCHANGED <<fed, active, reconciled>>
    BY <1>5 DEF RiskHandle, start_vars
  <2>2. plans' = plans \/ plans' = [plans EXCEPT ![e.ts] = @ + 1]
    BY <1>5 DEF RiskHandle
  <2>3. MinutesFed' = MinutesFed /\ \A s \in DetectAt : Allowed(s)' = Allowed(s)
    BY <2>1 DEF MinutesFed, Allowed, Triggered
  <2> HIDE DEF e
  <2>4. ASSUME NEW s \in DetectAt
        PROVE  plans'[s] <= Allowed(s) /\ AtMost(qRisk', s, Allowed(s) - plans'[s])
    <3> DEFINE n == Allowed(s) - plans[s]
    <3>1. n \in 0 .. 2 /\ AtMost(qRisk, s, n)
      BY <1>1, <1>3
    <3>2. /\ AtMost(Tail(qRisk), s, n)
          /\ e.ts = s => n >= 1 /\ AtMost(Tail(qRisk), s, n - 1)
      <4> HIDE DEF n
      <4> QED  BY <1>2, <2>1, <3>1, OneEventLess DEF e
    <3>3. CASE plans'[s] = plans[s]
      BY <1>1, <2>1, <3>2, <3>3
    <3>4. CASE plans'[s] = plans[s] + 1 /\ e.ts = s
      <4>1. Allowed(s) - plans'[s] = n - 1 /\ plans'[s] <= Allowed(s)
        BY <1>3, <3>2, <3>4
      <4> QED  BY <2>1, <3>2, <3>4, <4>1
    <3>5. plans'[s] = plans[s] \/ (plans'[s] = plans[s] + 1 /\ e.ts = s)
      BY <1>2, <2>2
    <3> QED  BY <3>3, <3>4, <3>5
  <2> QED  BY <1>1, <2>1, <2>3, <2>4 DEF PlansInv
<1>6. CASE reconcile
  <2> DEFINE e == Head(todo)
  <2>1. todo # <<>> /\ UNCHANGED <<fed, active, plans>>
    BY <1>6 DEF reconcile, pipe_vars
  <2>2. e \in SetupEvents /\ e = todo[1] /\ 1 \in 1 .. Len(todo)
    BY <1>2, <2>1
  <2>3. e.ts \notin reconciled
    BY <2>2 DEF RuntimeInv, Reconciling
  <2>4. \/ e.stage # TRIGGERED /\ UNCHANGED <<qRisk, reconciled>>
        \/ e.stage = TRIGGERED /\ qRisk' = Append(qRisk, e) /\ reconciled' = reconciled \cup {e.ts}
    BY <1>6 DEF reconcile
  <2> HIDE DEF e
  <2>5. MinutesFed' = MinutesFed /\ \A s \in DetectAt : Triggered(s)' = Triggered(s)
    BY <2>1 DEF MinutesFed, Triggered
  <2>6. CASE e.stage # TRIGGERED
    <3>1. UNCHANGED <<qRisk, reconciled>>
      BY <2>4, <2>6
    <3>2. \A s \in DetectAt : Allowed(s)' = Allowed(s)
      BY <2>5, <3>1 DEF Allowed
    <3> QED  BY <1>1, <2>1, <2>5, <3>1, <3>2 DEF PlansInv
  <2>7. CASE e.stage = TRIGGERED
    <3>1. qRisk' = qRisk \o <<e>> /\ reconciled' = reconciled \cup {e.ts} /\ e \in TriggerEvents
          /\ <<e>> \in Seq(TriggerEvents) /\ Len(<<e>>) = 1 /\ <<e>>[1] = e
      <4>1. e \in TriggerEvents
        BY <2>2, <2>7 DEF TriggerEvents
      <4>2. Append(qRisk, e) = qRisk \o <<e>>
        BY <1>2, <4>1
      <4> QED  BY <2>4, <2>7, <4>1, <4>2
    <3>2. ASSUME NEW s \in DetectAt
          PROVE  plans[s] <= Allowed(s)' /\ AtMost(qRisk', s, Allowed(s)' - plans[s])
      <4> DEFINE n == Allowed(s) - plans[s]
                 v == <<e>>
      <4>1. n \in 0 .. 2 /\ AtMost(qRisk, s, n)
        BY <1>1, <1>3
      <4>2. CASE s = e.ts
        <5>1. Allowed(s)' = Allowed(s) + 1 /\ Allowed(s) \in 0 .. 1
          BY <2>3, <2>5, <3>1, <4>2 DEF Allowed
        <5>2. n <= 1 /\ Allowed(s)' - plans[s] = n + 1 /\ plans[s] <= Allowed(s)'
          BY <1>1, <1>3, <5>1
        <5>3. \A i, j \in 1 .. Len(v) : i = j
          BY <3>1
        <5> HIDE DEF n, v
        <5>4. v \in Seq(TriggerEvents)
          BY <3>1 DEF v
        <5>5. AtMost(qRisk \o v, s, n + 1)
          BY <1>2, <4>1, <5>2, <5>3, <5>4, MoreEvents
        <5> QED  BY <3>1, <5>2, <5>5 DEF v
      <4>3. CASE s # e.ts
        <5>1. Allowed(s)' = Allowed(s)
          BY <2>5, <3>1, <4>3 DEF Allowed
        <5>2. \A i \in 1 .. Len(v) : v[i].ts # s
          BY <3>1, <4>3
        <5> HIDE DEF n, v
        <5>3. v \in Seq(TriggerEvents)
          BY <3>1 DEF v
        <5>4. AtMost(qRisk \o v, s, n)
          BY <1>2, <4>1, <5>2, <5>3, MoreEvents
        <5> QED  BY <1>1, <3>1, <5>1, <5>4 DEF v, n
      <4> QED  BY <4>2, <4>3
    <3> QED  BY <1>1, <2>1, <2>5, <3>2 DEF PlansInv
  <2> QED  BY <2>6, <2>7
<1>7. CASE UNCHANGED <<fed, active, plans, qRisk, reconciled>>
  <2>1. MinutesFed' = MinutesFed /\ \A s \in DetectAt : Allowed(s)' = Allowed(s)
    BY <1>7 DEF MinutesFed, Allowed, Triggered
  <2> QED  BY <1>1, <1>7, <2>1 DEF PlansInv
<1>8. CASE Start /\ ~reconcile
  BY <1>7, <1>8 DEF Start, start_engine, fetch_m1, flush_m1, flush_warm, flush, emit, start_live, started,
                    pipe_vars, bus_vars
<1>9. CASE stop_engine \/ signal \/ server_fails \/ StoreEvent \/ FlushDue \/ HandleBar \/ Seal
           \/ LiveBar \/ Tick
  BY <1>7, <1>9 DEF stop_engine, signal, server_fails, StoreEvent, FlushDue, HandleBar, Seal, LiveBar, Tick,
                    pipe_vars, bus_vars, start_vars
<1> QED  BY <1>4, <1>5, <1>6, <1>8, <1>9 DEF BusyStep

\* No step of the runtime leaves its invariant.
LEMMA RuntimeKeeps ==
  ASSUME RuntimeInv, RuntimeStep
  PROVE  RuntimeInv'
<1>1. CASE initialize \/ exit \/ crash
  BY <1>1, FreshStep
<1>2. CASE BusyStep /\ pc \in Idle
  BY <1>2, IdleStep
<1>3. CASE BusyStep /\ pc \notin Idle
  <2>1. TypeInv'
    BY TypeStep
  <2> QED  BY <1>3, <2>1, EnginesStep, WarmStep, TapeStep, HigherStep, DurableStep, ExitStep, ReconcilingStep, PlansStep
              DEF RuntimeInv, TypeInv
<1> QED  BY <1>1, <1>2, <1>3 DEF RuntimeStep, BusyStep, Stop


-----------------------------------------------------------------------------
(* What the invariant of the runtime says *)

\* The bars the pipeline was fed, by their place.
LEMMA FedBars ==
  ASSUME RuntimeInv
  PROVE  /\ WarmBars \in Nat /\ Len(fed) \in Nat
         /\ LiveFrom \in {m1_end - 1, live.at - Lookback} /\ LiveFrom \in Int /\ LiveFrom >= m1_end - 1
         /\ \A i \in 1 .. Len(fed) :
              /\ i <= WarmBars => Rank(fed[i]) = 1 /\ fed[i].replay /\ fed[i].ts = Asc(warm)[i]
              /\ i > WarmBars => /\ Rank(fed[i]) = 2 /\ ~fed[i].replay
                                 /\ fed[i].ts = LiveFrom + (i - 1 - WarmBars)
<1>1. /\ fed \in Seq(Bars) /\ qPipe \in Seq(Bars) /\ qAgg \in Seq(Bars)
      /\ warm \subseteq Minute /\ m1_end \in Minute
      /\ live \in [on : BOOLEAN, next : 0 .. MaxNow, at : Minute]
  BY DEF RuntimeInv, StartupTypeOK, RunTypeOK
<1>2. WarmBars \in Nat /\ Len(fed) \in Nat
  <2>1. WarmBars \in Nat
    BY <1>1, SavedRowsAre DEF WarmBars
  <2>2. Len(fed) \in Nat
    BY <1>1
  <2> QED  BY <2>1, <2>2
<1>3. LiveFrom \in {m1_end - 1, live.at - Lookback} /\ LiveFrom \in Int /\ LiveFrom >= m1_end - 1
  <2>1. m1_end - 1 \in Int /\ live.at - Lookback \in Int
    BY <1>1, CatchupAssumption DEF Minute
  <2> QED  BY <2>1, TwoNumbers DEF LiveFrom, compute_replay_start
<1>4. ASSUME NEW i \in 1 .. Len(fed)
      PROVE  /\ i <= WarmBars => Rank(fed[i]) = 1 /\ fed[i].replay /\ fed[i].ts = Asc(warm)[i]
             /\ i > WarmBars => /\ Rank(fed[i]) = 2 /\ ~fed[i].replay
                                /\ fed[i].ts = LiveFrom + (i - 1 - WarmBars)
  <2>1. fed[i] = TapeAt(warm, LiveFrom, i)
    <3>1. i \in 1 .. Len(Tape) /\ Tape[i] = fed[i]
      BY <1>1 DEF Tape
    <3>2. Tape[i] = TapeAt(warm, LiveFrom, i)
      BY <3>1 DEF RuntimeInv, TapeInv
    <3> QED  BY <3>1, <3>2
  <2>2. CASE i <= WarmBars
    <3>1. fed[i] = Bar("M1", Asc(warm)[i], TRUE)
      BY <2>1, <2>2 DEF TapeAt, WarmBars
    <3>2. Rank(fed[i]) = 1 /\ fed[i].replay /\ fed[i].ts = Asc(warm)[i]
      BY <3>1 DEF Bar, Rank
    <3> QED  BY <1>2, <2>2, <3>2
  <2>3. CASE i > WarmBars
    <3>1. ~(i <= WarmBars)
      BY <1>2, <2>3
    <3>2. fed[i] = Bar("M1", LiveFrom + (i - 1 - WarmBars), FALSE)
      BY <2>1, <3>1 DEF TapeAt, WarmBars
    <3>3. Rank(fed[i]) = 2 /\ ~fed[i].replay /\ fed[i].ts = LiveFrom + (i - 1 - WarmBars)
      BY <3>2 DEF Bar, Rank
    <3> QED  BY <1>2, <2>3, <3>3
  <2> QED  BY <1>2, <2>2, <2>3
<1> QED  BY <1>2, <1>3, <1>4

\* The tape has the history first, no gap that is not explained, and one bar of overlap.
LEMMA TapeJoins ==
  ASSUME RuntimeInv
  PROVE  WarmBeforeLive /\ GapOnlyWhenLate /\ OverlapIsOneBar
<1> DEFINE W == WarmBars
           f == Asc(warm)
           from == LiveFrom
           n == Len(fed)
<1>1. /\ W \in Nat /\ n \in Nat /\ from \in {m1_end - 1, live.at - Lookback} /\ from \in Int /\ from >= m1_end - 1
      /\ \A i \in 1 .. n : i <= W => Rank(fed[i]) = 1 /\ fed[i].replay /\ fed[i].ts = f[i]
      /\ \A i \in 1 .. n : i > W => Rank(fed[i]) = 2 /\ ~fed[i].replay /\ fed[i].ts = from + (i - 1 - W)
  BY FedBars
<1>2. /\ \A i, j \in 1 .. W : i < j => f[i] < f[j]
      /\ \A i \in 1 .. W : f[i] \in warm
      /\ \A t \in warm : \E i \in 1 .. W : f[i] = t
  <2>1. warm \subseteq 0 .. MaxNow /\ MaxNow \in Nat
    BY StartupAssumption DEF RuntimeInv, StartupTypeOK, Minute
  <2> QED  BY <2>1, AscSorts DEF WarmBars
<1>3. /\ warm = {} \/ warm = m1_end - WarmLen .. m1_end - 1
      /\ m1_end \in Int /\ WarmLen \in Int
  BY StartupAssumption DEF RuntimeInv, WarmInv, StartupTypeOK, Minute
<1>9. /\ Len(htf) <= Len(HigherHistory)
      /\ \A i \in 1 .. Len(htf) : htf[i] = HigherHistory[i]
  <2>1. /\ htf \in Seq(Bars) /\ qFeat \in Seq(Bars) /\ emitted \in Nat
        /\ Len(htf) + Len(qFeat) = (IF emitted <= 2 THEN emitted ELSE 2)
        /\ \A i \in 1 .. Len(htf) : htf[i] = HigherHistory[i]
    BY DEF RuntimeInv, RunTypeOK, HigherInv
  <2>2. Len(htf) <= 2
    BY <2>1
  <2>3. Len(HigherHistory) = 2
    BY DEF HigherHistory
  <2> QED  BY <2>1, <2>2, <2>3
<1> HIDE DEF W, f, from, n
<1>4. WarmBeforeLive
  <2> SUFFICES ASSUME NEW i \in 1 .. n, NEW j \in 1 .. n, i < j
               PROVE  \/ Rank(fed[i]) < Rank(fed[j])
                      \/ Rank(fed[i]) = Rank(fed[j]) /\ fed[i].ts < fed[j].ts
    BY <1>9 DEF WarmBeforeLive, n
  <2>1. CASE i <= W /\ j <= W
    <3>1. i \in 1 .. W /\ j \in 1 .. W
      BY <1>1, <2>1
    <3>2. f[i] < f[j]
      BY <1>2, <3>1
    <3> QED  BY <1>1, <2>1, <3>2
  <2>2. CASE i <= W /\ j > W
    BY <1>1, <2>2
  <2>3. CASE i > W
    <3>1. j > W
      BY <1>1, <2>3
    <3>2. from + (i - 1 - W) < from + (j - 1 - W)
      BY <1>1
    <3> QED  BY <1>1, <2>3, <3>1, <3>2
  <2> QED  BY <1>1, <2>1, <2>2, <2>3
<1>5. ASSUME NEW t \in LiveFed
      PROVE  \E k \in 1 .. n : k > W /\ t = from + (k - 1 - W)
  <2>1. PICK k \in 1 .. n : ~fed[k].replay /\ fed[k].ts = t
    BY <1>5 DEF LiveFed, n
  <2>2. k > W
    BY <1>1, <2>1
  <2> QED  BY <1>1, <2>1, <2>2
<1>6. ASSUME NEW k \in 1 .. n, k > W
      PROVE  from + (k - 1 - W) \in LiveFed
  <2>1. ~fed[k].replay /\ fed[k].ts = from + (k - 1 - W)
    BY <1>1, <1>6
  <2> QED  BY <2>1 DEF LiveFed, n
<1>7. GapOnlyWhenLate
  <2> SUFFICES ASSUME NEW t \in LiveFed, NEW u \in m1_end - WarmLen .. t
               PROVE  \/ u \in LiveFed \cup WarmFed
                      \/ u < m1_end /\ warm = {}
                      \/ m1_end <= u /\ u < live.at - Lookback
    BY DEF GapOnlyWhenLate
  <2>1. PICK k \in 1 .. n : k > W /\ t = from + (k - 1 - W)
    BY <1>5
  <2>2. t \in Int /\ u \in Int /\ m1_end - WarmLen <= u /\ u <= t
    BY <1>1, <1>3, <2>1
  <2>3. CASE u >= from
    <3> DEFINE i == 1 + W + (u - from)
    <3>1. i \in 1 .. n /\ i > W /\ from + (i - 1 - W) = u
      BY <1>1, <2>1, <2>2, <2>3
    <3> HIDE DEF i
    <3> QED  BY <1>6, <3>1
  <2>4. CASE u < from /\ u >= m1_end
    BY <1>1, <1>3, <2>2, <2>4
  <2>5. CASE u < m1_end /\ warm # {}
    <3>1. u \in warm
      BY <1>3, <2>2, <2>5
    <3>2. PICK i \in 1 .. W : f[i] = u
      BY <1>2, <3>1
    <3>3. i \in 1 .. n /\ i <= W
      BY <1>1, <2>1
    <3>4. fed[i].replay /\ fed[i].ts = u
      BY <1>1, <3>2, <3>3
    <3> QED  BY <3>3, <3>4 DEF WarmFed, n
  <2> QED  BY <1>1, <1>3, <2>2, <2>3, <2>4, <2>5
<1>8. OverlapIsOneBar
  <2> SUFFICES ASSUME NEW t \in LiveFed, t \in WarmFed  PROVE t = m1_end - 1
    BY DEF OverlapIsOneBar
  <2>1. t >= from /\ t \in Int
    BY <1>1, <1>5
  <2>2. PICK k \in 1 .. n : fed[k].replay /\ fed[k].ts = t
    BY DEF WarmFed, n
  <2>3. k <= W
    BY <1>1, <2>2
  <2>4. k \in 1 .. W /\ t = f[k]
    BY <1>1, <2>2, <2>3
  <2>5. t \in warm
    BY <1>2, <2>4
  <2> QED  BY <1>1, <1>3, <2>1, <2>5
<1> QED  BY <1>4, <1>7, <1>8

\* The invariant of the runtime is more than what a run checks.
LEMMA RuntimeInvJoins ==
  ASSUME RuntimeInv
  PROVE  WarmupJoinsLive
<1>1. WarmupIsDurable
  BY DEF RuntimeInv, DurableInv, BeforeLive, WarmupIsDurable
<1>2. SecondPlanIsReconciled
  <2>1. \A s \in DetectAt : plans[s] <= Allowed(s) /\ plans[s] \in Nat
    BY DEF RuntimeInv, PlansInv, StartupTypeOK
  <2> QED  BY <2>1 DEF Allowed, SecondPlanIsReconciled
<1>3. ExitIsClean
  BY DEF RuntimeInv, ExitInv
<1>4. StartupTypeOK
  BY DEF RuntimeInv
<1> QED  BY <1>1, <1>2, <1>3, <1>4, TapeJoins DEF WarmupJoinsLive


-----------------------------------------------------------------------------
(* The helpers of a backfill *)

\* Filling the ranges that _missing_ranges finds leaves the holes it is known to leave:
\* the last bar of a gap, and gaps across a session boundary.
LEMMA FillLeavesHoles ==
  ASSUME NEW H \in SUBSET Minute, NEW from \in Minute, NEW to \in Minute, NEW edge \in Minute
  PROVE  /\ load_or_fetch_bars(H, from, to, edge) \subseteq Minute
         /\ HolesIn(H \cup load_or_fetch_bars(H, from, to, edge), from, to, edge)
<1> DEFINE S == {t \in H : from <= t /\ t <= to}
           ranges == missing_ranges(S, from, to)
           got == load_or_fetch_bars(H, from, to, edge)
<1>1. MaxNow \in Nat /\ Minute = 0 .. MaxNow
  BY StartupAssumption DEF Minute
<1>2. got = UNION {fetch_bars(g[1], g[2], edge) : g \in ranges}
  BY DEF load_or_fetch_bars
<1>12. \A t \in Minute : t \in Nat /\ t <= MaxNow
  BY <1>1
<1>3. S \in SUBSET (0 .. MaxNow) /\ \A t \in S : t \in H /\ t \in Nat /\ from <= t /\ t <= to
  <2>1. \A t \in S : t \in H /\ t \in Minute /\ t \in Nat /\ from <= t /\ t <= to
    BY <1>12
  <2>2. S \in SUBSET Minute
    OBVIOUS
  <2> HIDE DEF S
  <2> QED  BY <1>1, <2>1, <2>2
<1>4. \A t \in H : t \notin S => t < from \/ t > to
  BY <1>1
<1> HIDE DEF S
<1>5. ASSUME S # {}
      PROVE  /\ Min(S) \in S /\ \A y \in S : Min(S) <= y
             /\ Max(S) \in S /\ \A y \in S : y <= Max(S)
  <2>1. S \in SUBSET Nat
    BY <1>3
  <2> QED  BY <1>1, <1>3, <1>5, <2>1, LeastNat, GreatestNat
<1>6. ASSUME S # {}
      PROVE  \A g : g \in ranges <=>
               /\ \/ g = <<from, Min(S) - 1>> \/ g = <<Max(S) + 1, to>>
                  \/ \E l, r \in S : InnerGap(S, l, r) /\ g = <<l + 1, r - 1>>
               /\ g[1] <= g[2]
  <2> DEFINE inner == {<<p[1] + 1, p[2] - 1>> : p \in {q \in S \X S : InnerGap(S, q[1], q[2])}}
  <2>1. ranges = {g \in {<<from, Min(S) - 1>>, <<Max(S) + 1, to>>} \cup inner : g[1] <= g[2]}
    BY <1>6 DEF missing_ranges
  <2>2. \A g : g \in inner <=> \E l, r \in S : InnerGap(S, l, r) /\ g = <<l + 1, r - 1>>
    <3>1. ASSUME NEW l \in S, NEW r \in S, InnerGap(S, l, r)  PROVE <<l + 1, r - 1>> \in inner
      <4>1. <<l, r>> \in S \X S /\ <<l, r>>[1] = l /\ <<l, r>>[2] = r
        OBVIOUS
      <4> QED  BY <3>1, <4>1
    <3>2. ASSUME NEW g \in inner  PROVE \E l, r \in S : InnerGap(S, l, r) /\ g = <<l + 1, r - 1>>
      <4>1. PICK p \in S \X S : InnerGap(S, p[1], p[2]) /\ g = <<p[1] + 1, p[2] - 1>>
        OBVIOUS
      <4> QED  BY <4>1
    <3> HIDE DEF inner
    <3> QED  BY <3>1, <3>2
  <2> HIDE DEF inner, ranges
  <2> QED  BY <2>1, <2>2
<1>7. \A a, b \in Int : \A t : t \in fetch_bars(a, b, edge) <=> t \in Int /\ a <= t /\ t < b /\ t < edge
  BY <1>1, FetchedMinutes
<1>8. \A g \in ranges : g[1] \in Nat /\ g[2] \in Int
  <2>1. CASE S = {}
    BY <1>1, <2>1 DEF missing_ranges
  <2>2. CASE S # {}
    <3> HIDE DEF ranges
    <3> SUFFICES ASSUME NEW g \in ranges  PROVE g[1] \in Nat /\ g[2] \in Int
      OBVIOUS
    <3>1. Min(S) \in Nat /\ Max(S) \in Nat /\ from \in Nat /\ to \in Nat
      <4>1. Min(S) \in S /\ Max(S) \in S
        BY <1>5, <2>2
      <4>2. Min(S) \in Nat /\ Max(S) \in Nat
        BY <1>3, <4>1
      <4> QED  BY <1>12, <4>2
    <3>2. g = <<from, Min(S) - 1>> \/ g = <<Max(S) + 1, to>> \/ \E l, r \in S : g = <<l + 1, r - 1>>
      BY <1>6, <2>2
    <3>3. CASE \E l, r \in S : g = <<l + 1, r - 1>>
      BY <1>3, <3>3
    <3> HIDE DEF S
    <3> QED  BY <3>1, <3>2, <3>3
  <2> QED  BY <2>1, <2>2
<1> HIDE DEF ranges, got
<1>9. got \subseteq Minute
  <2> SUFFICES ASSUME NEW t \in got  PROVE t \in Minute
    OBVIOUS
  <2>1. PICK g \in ranges : t \in fetch_bars(g[1], g[2], edge)
    BY <1>2
  <2>2. g[1] \in Nat /\ g[2] \in Int
    BY <1>8
  <2>3. t \in Int /\ g[1] <= t /\ t < edge
    BY <1>7, <2>1, <2>2
  <2> QED  BY <1>1, <2>2, <2>3
<1>10. ASSUME NEW a \in Int, NEW b \in Int, <<a, b>> \in ranges, NEW t \in Int, a <= t, t < b, t < edge
       PROVE  t \in got
  <2>1. t \in fetch_bars(a, b, edge)
    BY <1>7, <1>10
  <2>2. <<a, b>>[1] = a /\ <<a, b>>[2] = b
    OBVIOUS
  <2> QED  BY <1>2, <1>10, <2>1, <2>2
<1>11. ASSUME NEW t \in fetch_bars(from, to, edge), t \notin H \cup got
       PROVE  \/ t + 1 \in H \cup got
              \/ \E l, r \in H \cup got : l < t /\ t < r /\ session_key(l) # session_key(r)
  <2>1. t \in Int /\ from <= t /\ t < to /\ t < edge /\ from \in Int /\ to \in Int
    BY <1>1, <1>7
  <2>2. S # {}
    <3> SUFFICES ASSUME S = {}  PROVE FALSE
      OBVIOUS
    <3>1. <<from, to>> \in ranges
      BY DEF ranges, missing_ranges
    <3> QED  BY <1>10, <1>11, <2>1, <3>1
  <2>3. Min(S) \in S /\ Max(S) \in S /\ Min(S) \in Int /\ Max(S) \in Int
    <3>1. Min(S) \in S /\ Max(S) \in S
      BY <1>5, <2>2
    <3>2. \A x \in S : x \in Int
      BY <1>3
    <3> QED  BY <3>1, <3>2
  <2>4. t \notin S
    BY <1>3, <1>11
  <2> DEFINE a == Min(S)
             z == Max(S)
  <2>5. CASE t < Min(S)
    <3>1. <<from, Min(S) - 1>> \in ranges
      <4>1. <<from, Min(S) - 1>>[1] <= <<from, Min(S) - 1>>[2]
        BY <2>1, <2>3, <2>5
      <4> QED  BY <1>6, <2>2, <4>1
    <3>2. Min(S) - 1 \in Int /\ ~(t < Min(S) - 1)
      BY <1>10, <1>11, <2>1, <2>3, <3>1
    <3>3. t + 1 = Min(S)
      BY <2>1, <2>3, <2>5, <3>2
    <3> QED  BY <1>3, <2>3, <3>3
  <2>6. CASE t > Max(S)
    <3>1. <<Max(S) + 1, to>> \in ranges
      <4>1. <<Max(S) + 1, to>>[1] <= <<Max(S) + 1, to>>[2]
        BY <2>1, <2>3, <2>6
      <4> QED  BY <1>6, <2>2, <4>1
    <3>2. Max(S) + 1 \in Int /\ Max(S) + 1 <= t
      BY <2>1, <2>3, <2>6
    <3> QED  BY <1>10, <1>11, <2>1, <3>1, <3>2
  <2>7. CASE Min(S) < t /\ t < Max(S)
    <3> DEFINE L == {x \in S : x < t}
               R == {x \in S : t < x}
               l == Max(L)
               r == Min(R)
    <3>1. L \in SUBSET (0 .. MaxNow) /\ L # {} /\ R \in SUBSET Nat /\ R # {}
      BY <1>3, <2>3, <2>7
    <3>2. l \in L /\ \A y \in L : y <= l
      BY <1>1, <3>1, GreatestNat
    <3>3. r \in R /\ \A y \in R : r <= y
      BY <3>1, LeastNat
    <3>4. l \in S /\ l < t /\ r \in S /\ t < r /\ l \in Int /\ r \in Int
      <4>1. \A x \in L : x \in S /\ x < t
        OBVIOUS
      <4>2. \A x \in R : x \in S /\ t < x
        OBVIOUS
      <4>3. \A x \in S : x \in Int
        BY <1>3
      <4> HIDE DEF l, r, L, R
      <4> QED  BY <3>2, <3>3, <4>1, <4>2, <4>3
    <3>5. \A u \in S : ~(l < u /\ u < r)
      <4> SUFFICES ASSUME NEW u \in S, l < u, u < r  PROVE FALSE
        OBVIOUS
      <4>1. u \in Int /\ u # t
        BY <1>3, <2>4
      <4>2. u < t \/ t < u
        BY <2>1, <4>1
      <4>3. u <= l \/ r <= u
        BY <3>2, <3>3, <4>2
      <4> HIDE DEF l, r, L, R
      <4> QED  BY <3>4, <4>1, <4>3
    <3> HIDE DEF l, r, L, R
    <3>6. CASE session_key(l) = session_key(r)
      <4>1. InnerGap(S, l, r)
        BY <2>1, <3>4, <3>5, <3>6 DEF InnerGap
      <4>2. <<l + 1, r - 1>>[1] <= <<l + 1, r - 1>>[2]
        BY <2>1, <3>4
      <4>3. <<l + 1, r - 1>> \in ranges
        BY <1>6, <2>2, <3>4, <4>1, <4>2
      <4>4. l + 1 \in Int /\ r - 1 \in Int /\ l + 1 <= t /\ ~(t < r - 1)
        BY <1>10, <1>11, <2>1, <3>4, <4>3
      <4>5. t + 1 = r
        BY <2>1, <3>4, <4>4
      <4> QED  BY <1>3, <3>4, <4>5
    <3>7. CASE session_key(l) # session_key(r)
      BY <1>3, <3>4, <3>7
    <3> QED  BY <3>6, <3>7
  <2> QED  BY <2>1, <2>3, <2>4, <2>5, <2>6, <2>7
<1> QED  BY <1>9, <1>11 DEF HolesIn, got


\* A resampled bar is made of the minutes of its bucket, at least one.
LEMMA ResampledAre ==
  ASSUME NEW S \in SUBSET Minute
  PROVE  resample_m5(S) \subseteq M5Bars
<1> SUFFICES ASSUME NEW t \in S
             PROVE  [bucket |-> Bucket(t), of |-> {u \in S : Bucket(u) = Bucket(t)}] \in M5Bars
  BY DEF resample_m5
<1>1. Bucket(t) \in Nat
  <2>1. t \in Nat /\ BucketLen \in Nat \ {0}
    BY StartupAssumption, CatchupAssumption DEF Minute
  <2>2. t \div BucketLen \in 0 .. t
    BY <2>1, QuotientRemainder
  <2> QED  BY <2>1, <2>2 DEF Bucket
<1> DEFINE of == {u \in S : Bucket(u) = Bucket(t)}
<1>2. t \in of /\ of \in SUBSET Minute /\ \A u \in of : Bucket(u) = Bucket(t)
  OBVIOUS
<1> HIDE DEF of
<1>3. of # {}
  BY <1>2
<1> DEFINE b == [bucket |-> Bucket(t), of |-> of]
<1>4. b \in [bucket : Nat, of : SUBSET Minute] /\ b.of = of /\ b.bucket = Bucket(t)
  BY <1>1, <1>2
<1> HIDE DEF b
<1>5. b \in M5Bars
  BY <1>2, <1>3, <1>4 DEF M5Bars
<1> QED  BY <1>5 DEF b, of

\* The days of a window are listed as days.
LEMMA ListedDays ==
  ASSUME NEW from \in Minute, NEW to \in Minute
  PROVE  Asc({Day(t) : t \in from .. to}) \in Seq(Days)
<1> DEFINE S == {Day(t) : t \in from .. to}
           n == Cardinality(S)
           f == Asc(S)
<1>1. MaxNow \in Nat /\ DayLen \in Nat \ {0} /\ Minute = 0 .. MaxNow
  BY StartupAssumption, CatchupAssumption DEF Minute
<1>2. \A t \in from .. to : t \in Minute
  BY <1>1
<1>3. S \subseteq Days
  BY <1>2 DEF Days
<1>4. ASSUME NEW t \in Minute  PROVE Day(t) \in 0 .. MaxNow
  <2>1. t \in Nat /\ t <= MaxNow
    BY <1>1
  <2>2. t \div DayLen \in 0 .. t
    BY <1>1, <2>1, QuotientRemainder
  <2> QED  BY <1>1, <2>1, <2>2 DEF Day
<1>5. S \in SUBSET (0 .. MaxNow)
  BY <1>2, <1>4
<1> HIDE DEF S
<1>6. n \in Nat /\ f \in [1 .. n -> S]
  BY <1>1, <1>5, AscSorts
<1> HIDE DEF n, f
<1>7. f \in [1 .. n -> Days]
  BY <1>3, <1>6
<1>8. f \in Seq(Days)
  BY <1>6, <1>7
<1> QED  BY <1>8 DEF f, S

\* A backfill leaves the runtime's variables alone, but for its place and the disk.
LEMMA QuietStep ==
  ASSUME RuntimeInv, pc \in Idle, pc' \in Idle, disk' \subseteq Minute,
         UNCHANGED <<now, eng, spc, m1_end, warm, emitted, live, qFeat, qAgg, qPipe, qStore, qRisk, buf, htf,
                     fed, active, todo, plans, reconciled, left>>
  PROVE  RuntimeInv'
<1>1. TypeInv'
  <2>1. pc' \in Places
    BY DEF Places
  <2> QED  BY <2>1 DEF RuntimeInv, TypeInv, StartupTypeOK, RunTypeOK
<1>2. Blank /\ eng = [e \in Engines \cup {Boot} |-> "CREATED"] /\ ExitIsClean
  BY DEF RuntimeInv, EnginesInv, ExitInv
<1>3. Blank' /\ EnginesInv' /\ ExitIsClean'
  BY <1>2 DEF Blank, EnginesInv, ExitIsClean
<1>4. BlankAt'
  BY PlacesAre DEF BlankAt, PlaceSets
<1>5. RestInv'
  <2>1. (TypeInv /\ Blank /\ BlankAt /\ ExitIsClean => RestInv)'
    BY BlankHolds, PTL
  <2> QED  BY <1>1, <1>3, <1>4, <2>1
<1> QED  BY <1>1, <1>3, <1>5 DEF RuntimeInv, TypeInv, RestInv

-----------------------------------------------------------------------------
(* The steps of a backfill *)

BackfillStep == live_trade \/ bf_start \/ bf_flush_due \/ Backfill

\* What a backfill does to the runtime: it keeps its place and writes stamps.
LEMMA RuntimeOfBackfill ==
  ASSUME BackfillInv, BackfillStep
  PROVE  RuntimeInv' /\ pc \in Idle
<1>1. disk \subseteq Minute /\ job.m1 \subseteq Minute
  BY DEF BackfillInv, RuntimeInv, StartupTypeOK, JobInv, JobTypeOK, Jobs
<1>2. PlaceSets
  BY PlacesAre
<1>3. CASE live_trade
  <2>1. pc = "off" /\ UNCHANGED vars
    BY <1>3 DEF live_trade
  <2> QED  BY <1>1, <1>2, <2>1, QuietStep DEF vars, BackfillInv, PlaceSets
<1>4. CASE bf_start
  <2>1. /\ pc = "off" /\ pc' \in {"bf_m1", "bf_trades"}
        /\ UNCHANGED <<now, disk, eng, spc, m1_end, warm, emitted, live, qFeat, qAgg, qPipe, qStore, qRisk, buf,
                       htf, fed, active, todo, plans, reconciled, left>>
    BY <1>4 DEF bf_start, bus_vars, pipe_vars
  <2> QED  BY <1>1, <1>2, <2>1, QuietStep DEF BackfillInv, PlaceSets
<1>5. CASE bf_flush_due \/ Backfill
  <2>1. /\ pc \in Idle /\ pc' \in Idle
        /\ UNCHANGED <<now, eng, spc, m1_end, warm, emitted, live, qFeat, qAgg, qPipe, qStore, qRisk, buf,
                       htf, fed, active, todo, plans, reconciled, left>>
    BY <1>2, <1>5 DEF PlaceSets, bf_flush_due, Backfill, bf_m1, bf_h1, bf_trades, bf_clear_quotes,
                      bf_save_quotes, bf_flush, bf_exit, AtBackfill, bus_vars, pipe_vars
  <2>2. disk' = disk \/ disk' = disk \cup job.m1
    BY <1>5 DEF bf_flush_due, Backfill, bf_m1, bf_h1, bf_trades, bf_clear_quotes,
                bf_save_quotes, bf_flush, bf_exit
  <2> QED  BY <1>1, <2>1, <2>2, QuietStep DEF BackfillInv
<1> QED  BY <1>3, <1>4, <1>5 DEF BackfillStep

\* What a backfill starts from.
LEMMA StartOfBackfill ==
  ASSUME BackfillInv, live_trade \/ bf_start \/ bf_exit
  PROVE  StoreTypeOK' /\ JobInv'
<1>1. /\ StoreTypeOK /\ job \in Jobs /\ quotes \in [Days -> SUBSET Minute] /\ now \in Minute
      /\ MaxNow \in Nat /\ Minute = 0 .. MaxNow
  BY StartupAssumption DEF BackfillInv, JobInv, JobTypeOK, RuntimeInv, StartupTypeOK, Minute
<1>2. PlaceSets /\ BackfillAt = {"bf_m1", "bf_h1", "bf_end", "bf_trades", "bf_quotes", "bf_save", "bf_done"}
  BY PlacesAre DEF BackfillAt
<1>3. NoJob \in Jobs
  <2>1. 0 \in Minute /\ <<>> \in Seq(Days)
    BY <1>1
  <2> QED  BY <2>1 DEF NoJob, Jobs
<1>4. CASE live_trade
  <2>1. UNCHANGED <<pc, h1, m5, quotes, job, now>> /\ pc = "off"
    BY <1>4 DEF live_trade, vars
  <2>2. PICK t \in LiveMinutes \ DOMAIN trades :
          trades' = [u \in DOMAIN trades \cup {t} |-> IF u = t THEN "live" ELSE trades[u]]
    BY <1>4 DEF live_trade
  <2>3. DOMAIN trades' \subseteq Minute
    BY <1>1, <2>2, BackfillAssumption DEF StoreTypeOK
  <2>4. StoreTypeOK'
    BY <1>1, <2>1, <2>3 DEF StoreTypeOK
  <2>5. job = NoJob
    BY <1>1, <2>1 DEF StoreTypeOK
  <2> QED  BY <1>1, <1>2, <2>1, <2>4, <2>5 DEF JobInv, JobTypeOK, NoJob
<1>5. CASE bf_exit
  <2>1. UNCHANGED <<h1, m5, trades, quotes>> /\ pc' = "off" /\ job' = NoJob
    BY <1>5 DEF bf_exit, tables
  <2>2. StoreTypeOK'
    BY <1>1, <2>1 DEF StoreTypeOK
  <2> QED  BY <1>1, <1>2, <1>3, <2>1, <2>2 DEF JobInv, JobTypeOK, NoJob
<1>6. CASE bf_start
  <2>1. UNCHANGED <<h1, m5, trades, quotes>> /\ pc' \in {"bf_m1", "bf_trades"}
    BY <1>6 DEF bf_start, tables
  <2>2. StoreTypeOK'
    BY <1>1, <2>1 DEF StoreTypeOK
  <2>3. ASSUME NEW e \in Ends, NEW n \in BarLens \cup {TickLen}
        PROVE  Max({0, e - n}) \in Minute /\ e \in Minute
    <3>1. e \in Nat /\ n \in Nat /\ e <= MaxNow
      BY <1>1, BackfillAssumption
    <3> DEFINE d == e - n
    <3>2. d \in Int /\ d <= e /\ 0 \in Int
      BY <3>1
    <3> HIDE DEF d
    <3>3. Max({0, d}) \in {0, d} /\ Max({0, d}) >= 0
      BY <3>2, TwoNumbers
    <3>4. Max({0, d}) \in 0 .. MaxNow /\ e \in 0 .. MaxNow
      BY <1>1, <3>1, <3>2, <3>3
    <3> QED  BY <1>1, <3>4 DEF d
  <2>4. job' \in Jobs /\ ~job'.ok
    <3>1. CASE \E e \in Ends, n \in BarLens : job' = [NoJob EXCEPT !.start = Max({0, e - n}), !.end = e]
      <4>1. PICK e \in Ends, n \in BarLens : job' = [NoJob EXCEPT !.start = Max({0, e - n}), !.end = e]
        BY <3>1
      <4>2. Max({0, e - n}) \in Minute /\ e \in Minute
        BY <2>3
      <4> QED  BY <1>3, <4>1, <4>2 DEF Jobs, NoJob
    <3>2. CASE \E e \in Ends, f \in BOOLEAN :
                 LET s == Max({0, e - TickLen}) IN
                 job' = [NoJob EXCEPT !.start = s, !.end = e, !.force = f,
                                      !.days = Asc({Day(t) : t \in s .. e})]
      <4>1. PICK e \in Ends, f \in BOOLEAN :
              LET s == Max({0, e - TickLen}) IN
              job' = [NoJob EXCEPT !.start = s, !.end = e, !.force = f,
                                   !.days = Asc({Day(t) : t \in s .. e})]
        BY <3>2
      <4> DEFINE s == Max({0, e - TickLen})
                 days == Asc({Day(t) : t \in s .. e})
      <4>2. s \in Minute /\ e \in Minute
        BY <2>3
      <4>3. days \in Seq(Days)
        BY <4>2, ListedDays
      <4>4. job' = [NoJob EXCEPT !.start = s, !.end = e, !.force = f, !.days = days]
        BY <4>1
      <4> HIDE DEF s, days
      <4> QED  BY <1>3, <4>2, <4>3, <4>4 DEF Jobs, NoJob
    <3> QED  BY <1>6, <3>1, <3>2 DEF bf_start
  <2> QED  BY <1>1, <1>2, <2>1, <2>2, <2>4 DEF JobInv, JobTypeOK
<1> QED  BY <1>4, <1>5, <1>6


\* What a backfill may ask for.
LEMMA WindowAre ==
  ASSUME BackfillInv
  PROVE  /\ fetch_bars(job.start, job.end, now) \subseteq Minute
         /\ \A d : TicksOf(d) \subseteq {t \in Minute : Day(t) = d}
         /\ WindowM5 \subseteq M5Bars
<1>1. job.start \in Minute /\ job.end \in Minute /\ now \in Minute /\ MaxNow \in Nat /\ Minute = 0 .. MaxNow
  BY StartupAssumption DEF BackfillInv, JobInv, JobTypeOK, Jobs, RuntimeInv, StartupTypeOK, Minute
<1> DEFINE W == fetch_bars(job.start, job.end, now)
<1>2. \A t : t \in W <=> t \in Int /\ job.start <= t /\ t < job.end /\ t < now
  BY <1>1, FetchedMinutes
<1>3. W \subseteq Minute
  <2> HIDE DEF W
  <2> QED  BY <1>1, <1>2
<1>4. \A d : TicksOf(d) \subseteq {t \in Minute : Day(t) = d}
  BY <1>3 DEF TicksOf
<1> HIDE DEF W
<1>5. resample_m5(W) \subseteq M5Bars
  BY <1>3, ResampledAre
<1> QED  BY <1>3, <1>4, <1>5 DEF W, WindowM5

\* The steps that fetch bars: what is queued has the whole window, and the holes that are
\* left are the known ones.
LEMMA BarsOfBackfill ==
  ASSUME BackfillInv, bf_m1 \/ bf_h1 \/ bf_flush_due \/ bf_flush
  PROVE  StoreTypeOK' /\ JobInv'
<1>1. /\ StoreTypeOK /\ job \in Jobs /\ quotes \in [Days -> SUBSET Minute] /\ now \in Minute
      /\ h1 \subseteq Minute /\ \A b \in m5 : b.of # {} /\ \A t \in b.of : Bucket(t) = b.bucket
      /\ job.start \in Minute /\ job.end \in Minute
  BY DEF BackfillInv, JobInv, JobTypeOK, Jobs, RuntimeInv, StartupTypeOK, StoreTypeOK
<1>2. BackfillAt = {"bf_m1", "bf_h1", "bf_end", "bf_trades", "bf_quotes", "bf_save", "bf_done"}
  BY DEF BackfillAt
<1>3. UNCHANGED <<now, trades, quotes>>
  BY DEF bf_m1, bf_h1, bf_flush_due, bf_flush, AtBackfill, tables
<1>4. /\ pc \in {"bf_m1", "bf_trades", "bf_quotes", "bf_save"} => ~job.ok
      /\ job.ok => \/ job.m5 = {} /\ WindowM5 \subseteq m5
                   \/ job.m5 = WindowM5 /\ pc \in {"bf_h1", "bf_end"}
      /\ pc = "bf_end" /\ job.ok => HolesIn(h1 \cup job.h1, job.start, job.end, now)
  BY DEF BackfillInv, JobInv
<1>5. CASE bf_m1
  <2>1. PICK ok \in BOOLEAN :
          LET got  == IF ok THEN fetch_bars(job.start, job.end, now) ELSE {}
              days == {Day(t) : t \in got}
          IN  /\ job' = [job EXCEPT !.ok = ok, !.m1 = got, !.m5 = resample_m5(got)]
              /\ m5' = clear_bars(days)
    BY <1>5 DEF bf_m1
  <2> DEFINE got == IF ok THEN fetch_bars(job.start, job.end, now) ELSE {}
  <2>2. job' = [job EXCEPT !.ok = ok, !.m1 = got, !.m5 = resample_m5(got)] /\ m5' \subseteq m5
    BY <2>1 DEF clear_bars
  <2>3. got \subseteq Minute /\ (ok => resample_m5(got) = WindowM5)
    BY WindowAre DEF WindowM5
  <2> HIDE DEF got
  <2>4. resample_m5(got) \subseteq M5Bars
    BY <2>3, ResampledAre
  <2>5. /\ job' \in Jobs /\ job'.ok = ok /\ job'.m5 = resample_m5(got)
        /\ job'.start = job.start /\ job'.end = job.end
    BY <1>1, <2>2, <2>3, <2>4 DEF Jobs
  <2>6. WindowM5' = WindowM5
    BY <1>3, <2>5 DEF WindowM5
  <2>7. pc' = "bf_h1" /\ h1' = h1
    BY <1>5 DEF bf_m1
  <2>8. StoreTypeOK'
    BY <1>1, <1>3, <2>2, <2>7 DEF StoreTypeOK
  <2>9. JobTypeOK'
    BY <1>1, <1>3, <2>5 DEF JobTypeOK
  <2>10. JobInv'
    BY <1>2, <2>3, <2>5, <2>6, <2>7, <2>9 DEF JobInv
  <2> QED  BY <2>8, <2>10
<1>6. CASE bf_h1
  <2>1. PICK ok \in BOOLEAN :
          job' = [job EXCEPT
            !.ok = @ /\ ok,
            !.h1 = IF ok THEN load_or_fetch_bars(h1, job.start, job.end, now) ELSE {}]
    BY <1>6 DEF bf_h1
  <2> DEFINE got == IF ok THEN load_or_fetch_bars(h1, job.start, job.end, now) ELSE {}
  <2>2. got \subseteq Minute /\ (ok => HolesIn(h1 \cup got, job.start, job.end, now))
    BY <1>1, FillLeavesHoles
  <2>3. job' = [job EXCEPT !.ok = @ /\ ok, !.h1 = got]
    BY <2>1
  <2> HIDE DEF got
  <2>4. /\ job' \in Jobs /\ job'.ok = (job.ok /\ ok) /\ job'.h1 = got /\ job'.m5 = job.m5
        /\ job'.start = job.start /\ job'.end = job.end
    <3>1. (job.ok /\ ok) \in BOOLEAN
      OBVIOUS
    <3> QED  BY <1>1, <2>2, <2>3, <3>1 DEF Jobs
  <2>5. pc = "bf_h1" /\ pc' = "bf_end" /\ UNCHANGED <<h1, m5>>
    BY <1>6 DEF bf_h1, AtBackfill, tables
  <2>6. WindowM5' = WindowM5
    BY <1>3, <2>4 DEF WindowM5
  <2>7. StoreTypeOK'
    BY <1>1, <1>3, <2>5 DEF StoreTypeOK
  <2>8. JobTypeOK'
    BY <1>1, <1>3, <2>4 DEF JobTypeOK
  <2>9. job'.ok => job.ok /\ ok
    BY <2>4
  <2>10. job'.ok => HolesIn(h1 \cup job.h1, job.start, job.end, now)'
    BY <1>3, <2>2, <2>4, <2>5, <2>9
  <2>11. job'.ok => \/ job'.m5 = {} /\ WindowM5' \subseteq m5'
                    \/ job'.m5 = WindowM5' /\ pc' \in {"bf_h1", "bf_end"}
    BY <1>4, <2>4, <2>5, <2>6, <2>9
  <2>12. JobInv'
    BY <1>2, <2>5, <2>8, <2>10, <2>11 DEF JobInv
  <2> QED  BY <2>7, <2>12
<1>7. CASE bf_flush_due \/ bf_flush
  <2>1. /\ h1' = h1 \cup job.h1 /\ m5' = UpsertBars(job.m5)
        /\ job' = [job EXCEPT !.m1 = {}, !.h1 = {}, !.m5 = {}]
        /\ \/ pc' = pc /\ pc \in {"bf_h1", "bf_end"}
           \/ pc' = "bf_done" /\ (pc = "bf_end" \/ pc = "bf_trades")
    BY <1>7 DEF bf_flush_due, bf_flush, AtBackfill
  <2>2. /\ job' \in Jobs /\ job'.ok = job.ok /\ job'.h1 = {} /\ job'.m5 = {}
        /\ job'.start = job.start /\ job'.end = job.end
    BY <1>1, <2>1 DEF Jobs
  <2>3. \A b \in m5' : b.of # {} /\ \A t \in b.of : Bucket(t) = b.bucket
    <3>1. \A b \in job.m5 : b.of # {} /\ \A t \in b.of : Bucket(t) = b.bucket
      BY <1>1 DEF Jobs, M5Bars
    <3>2. m5' \subseteq m5 \cup job.m5
      BY <2>1 DEF UpsertBars
    <3> QED  BY <1>1, <3>1, <3>2
  <2>4. h1' \subseteq Minute
    BY <1>1, <2>1 DEF Jobs
  <2>5. StoreTypeOK'
    BY <1>1, <1>3, <2>1, <2>3, <2>4 DEF StoreTypeOK
  <2>6. JobTypeOK'
    BY <1>1, <1>3, <2>2 DEF JobTypeOK
  <2>7. WindowM5' = WindowM5
    BY <1>3, <2>2 DEF WindowM5
  <2>8. job.ok => WindowM5 \subseteq m5'
    <3>1. job.m5 \subseteq m5' /\ (job.m5 = {} => m5' = m5)
      BY <2>1 DEF UpsertBars
    <3> QED  BY <1>4, <3>1
  <2>9. pc = "bf_end" /\ job.ok => HolesIn(h1 \cup job.h1, job.start, job.end, now)' /\
                                   HolesIn(h1, job.start, job.end, now)'
    <3>1. h1' = h1 \cup job.h1 /\ h1' \cup job'.h1 = h1'
      BY <2>1, <2>2
    <3> QED  BY <1>3, <1>4, <2>2, <3>1
  <2>10. JobInv'
    BY <1>2, <1>4, <2>1, <2>2, <2>6, <2>7, <2>8, <2>9 DEF JobInv
  <2> QED  BY <2>5, <2>10
<1> QED  BY <1>5, <1>6, <1>7

\* The steps that fetch ticks: a day's rows stay of that day, and a quotes file that is
\* there is only replaced when the backfill was forced to.
LEMMA TicksOfBackfill ==
  ASSUME BackfillInv, bf_trades \/ bf_clear_quotes \/ bf_save_quotes
  PROVE  StoreTypeOK' /\ JobInv'
<1>1. /\ StoreTypeOK /\ job \in Jobs /\ quotes \in [Days -> SUBSET Minute] /\ now \in Minute
      /\ DOMAIN trades \subseteq Minute
      /\ \A d \in Days : quotes[d] \subseteq {t \in Minute : Day(t) = d}
      /\ \A d : TicksOf(d) \subseteq {t \in Minute : Day(t) = d}
  BY WindowAre DEF BackfillInv, JobInv, JobTypeOK, RuntimeInv, StartupTypeOK, StoreTypeOK
<1>2. BackfillAt = {"bf_m1", "bf_h1", "bf_end", "bf_trades", "bf_quotes", "bf_save", "bf_done"}
  BY DEF BackfillAt
<1>3. UNCHANGED <<now, h1, m5>> /\ pc \in {"bf_trades", "bf_quotes", "bf_save"}
  BY DEF bf_trades, bf_clear_quotes, bf_save_quotes, AtBackfill
<1>4. /\ ~job.ok
      /\ pc \in {"bf_quotes", "bf_save"} => job.days # <<>>
      /\ pc = "bf_save" /\ ~job.force => quotes[Head(job.days)] = {}
  BY <1>3 DEF BackfillInv, JobInv
<1>5. job.days \in Seq(Days) /\ job.force \in BOOLEAN
  BY <1>1 DEF Jobs
<1> DEFINE d == Head(job.days)
<1>6. /\ job.days # <<>>
      /\ d \in Days /\ Tail(job.days) \in Seq(Days)
  <2>1. job.days # <<>>
    BY <1>3, <1>4 DEF bf_trades, bf_clear_quotes, bf_save_quotes, AtBackfill
  <2> QED  BY <1>5, <2>1
<1>7. [job EXCEPT !.days = Tail(@)] \in Jobs /\ [job EXCEPT !.days = Tail(@)].ok = job.ok
  BY <1>1, <1>6 DEF Jobs
<1> HIDE DEF d
<1>8. CASE bf_trades
  <2>1. UNCHANGED <<quotes, job>> /\ pc' = "bf_quotes"
    BY <1>8 DEF bf_trades
  <2>2. DOMAIN trades' \subseteq Minute
    <3>1. trades' = trades \/ \E new \in fetch_trades(d) : trades' = UpsertTrades(new)
      BY <1>8 DEF bf_trades, d
    <3>2. ASSUME NEW new \in fetch_trades(d), trades' = UpsertTrades(new)
          PROVE  DOMAIN trades' \subseteq Minute
      <4>1. new \subseteq Minute
        BY <1>1 DEF fetch_trades
      <4> QED  BY <1>1, <3>2, <4>1 DEF UpsertTrades
    <3> QED  BY <1>1, <3>1, <3>2
  <2>3. StoreTypeOK'
    BY <1>1, <1>3, <2>1, <2>2 DEF StoreTypeOK
  <2> QED  BY <1>1, <1>2, <1>4, <1>6, <2>1, <2>3 DEF JobInv, JobTypeOK
<1>9. CASE bf_clear_quotes
  <2>1. /\ quotes' = IF job.force THEN [quotes EXCEPT ![d] = {}] ELSE quotes
        /\ pc' = IF NeedsQuotes(d) THEN "bf_save" ELSE "bf_trades"
        /\ job' = IF NeedsQuotes(d) THEN job ELSE [job EXCEPT !.days = Tail(@)]
        /\ UNCHANGED trades
    BY <1>9 DEF bf_clear_quotes, d
  <2>2. /\ quotes' \in [Days -> SUBSET Minute]
        /\ \A x \in Days : quotes'[x] \subseteq quotes[x]
    BY <1>1, <2>1
  <2>3. job' \in Jobs /\ ~job'.ok
    BY <1>1, <1>4, <1>7, <2>1
  <2>4. pc' = "bf_save" => job' = job /\ (~job.force => quotes'[d] = {})
    BY <2>1 DEF NeedsQuotes
  <2>5. StoreTypeOK'
    BY <1>1, <1>3, <2>1, <2>2 DEF StoreTypeOK
  <2>6. pc' \in {"bf_save", "bf_trades"}
    BY <2>1
  <2> QED  BY <1>2, <1>6, <2>2, <2>3, <2>4, <2>5, <2>6 DEF JobInv, JobTypeOK, d
<1>10. CASE bf_save_quotes
  <2>1. PICK rows \in fetch_quotes_rows(d) : quotes' = write_streaming(d, rows)
    BY <1>10 DEF bf_save_quotes, d
  <2>2. job' = [job EXCEPT !.days = Tail(@)] /\ pc' = "bf_trades" /\ UNCHANGED trades
    BY <1>10 DEF bf_save_quotes
  <2>3. rows \subseteq {t \in Minute : Day(t) = d}
    BY <1>1 DEF fetch_quotes_rows
  <2>4. quotes' = quotes \/ quotes' = [quotes EXCEPT ![d] = rows]
    BY <2>1 DEF write_streaming
  <2>5. /\ quotes' \in [Days -> SUBSET Minute]
        /\ \A x \in Days : quotes'[x] \subseteq {t \in Minute : Day(t) = x}
    BY <1>1, <1>6, <2>3, <2>4
  <2>6. StoreTypeOK'
    BY <1>1, <1>3, <2>2, <2>5 DEF StoreTypeOK
  <2> QED  BY <1>2, <1>4, <1>7, <2>2, <2>5, <2>6 DEF JobInv, JobTypeOK
<1> QED  BY <1>8, <1>9, <1>10


\* A step of the runtime finds no backfill, and starts none.
LEMMA StoreOfRuntime ==
  ASSUME BackfillInv, b_run \/ b_crash
  PROVE  RuntimeInv' /\ StoreTypeOK' /\ JobInv'
<1>1. RuntimeInv /\ RuntimeStep
  BY DEF BackfillInv, RuntimeStep, b_run, b_crash
<1>2. RuntimeInv'
  BY <1>1, RuntimeKeeps
<1>3. /\ StoreTypeOK /\ JobTypeOK
      /\ pc \notin BackfillAt => job = NoJob
  BY DEF BackfillInv, JobInv
<1>4. PlaceSets /\ BackfillAt = {"bf_m1", "bf_h1", "bf_end", "bf_trades", "bf_quotes", "bf_save", "bf_done"}
  BY PlacesAre DEF BackfillAt
<1>5. NoJob \in Jobs /\ ~NoJob.ok
  <2>1. 0 \in Minute /\ <<>> \in Seq(Days)
    BY StartupAssumption DEF Minute
  <2> QED  BY <2>1 DEF NoJob, Jobs
<1>6. CASE b_crash
  <2>1. UNCHANGED <<h1, m5, trades, quotes>> /\ pc' = "off" /\ job' = NoJob
    BY <1>6 DEF b_crash, crash, tables
  <2>2. StoreTypeOK'
    BY <1>3, <2>1 DEF StoreTypeOK
  <2> QED  BY <1>2, <1>3, <1>4, <1>5, <2>1, <2>2 DEF JobInv, JobTypeOK
<1>7. CASE b_run
  <2>1. UNCHANGED <<h1, m5, trades, quotes, job>>
    BY <1>7 DEF b_run, bvars
  <2>2. pc \notin BackfillAt /\ pc' \notin BackfillAt
    <3>1. CASE initialize
      BY <1>4, <3>1 DEF initialize, launch
    <3>2. CASE exit
      <4>1. pc \notin Idle
        BY <1>1, <3>2 DEF exit, RuntimeInv, EnginesInv, Blank
      <4> QED  BY <1>4, <3>2, <4>1 DEF exit, PlaceSets
    <3>3. CASE BusyStep /\ pc \in Idle
      <4>1. Tick
        BY <1>1, <3>3, IdleTicks
      <4> QED  BY <1>4, <3>3, <4>1 DEF Tick, start_vars, PlaceSets
    <3>4. CASE BusyStep /\ pc \notin Idle
      <4>1. pc' \notin Idle
        BY <1>1, <3>4, EnginesStep
      <4> QED  BY <3>4, <4>1 DEF Idle
    <3> QED  BY <1>7, <3>1, <3>2, <3>3, <3>4 DEF b_run, BusyStep, Stop
  <2>3. StoreTypeOK'
    <3>1. job = NoJob
      BY <1>3, <2>2
    <3> QED  BY <1>3, <2>1, <3>1 DEF StoreTypeOK
  <2>4. job = NoJob /\ JobTypeOK'
    BY <1>3, <2>1, <2>2 DEF JobTypeOK
  <2>5. pc' \notin {"bf_m1", "bf_h1", "bf_end", "bf_trades", "bf_quotes", "bf_save", "bf_done"}
    BY <1>4, <2>2
  <2> QED  BY <1>2, <1>5, <2>1, <2>2, <2>3, <2>4, <2>5 DEF JobInv
<1> QED  BY <1>6, <1>7

-----------------------------------------------------------------------------
(* The invariant *)

\* The disk is empty, no process runs.
LEMMA FirstLaunch ==
  BInit => BackfillInv
<1> SUFFICES ASSUME BInit  PROVE BackfillInv
  OBVIOUS
<1>1. /\ MaxNow \in Nat /\ Now0 \in Nat /\ Now0 <= MaxNow /\ Minute = 0 .. MaxNow /\ 0 \in Minute
  BY StartupAssumption DEF Minute
<1>2. StartupTypeOK
  <2>1. /\ now \in Minute /\ disk \subseteq Minute /\ warm \subseteq Minute /\ m1_end \in Minute
        /\ eng \in [Engines \cup {Boot} -> EngineStates]
        /\ live.next \in 0 .. MaxNow /\ live.on \in BOOLEAN
        /\ plans \in [DetectAt -> Nat] /\ buf = {}
    BY <1>1 DEF BInit, Init, EngineStates, NoLive
  <2>2. DOMAIN active = {}
    BY DEF BInit, Init, NoSetup
  <2>3. spc \in -1 .. Len(EngineOrder)
    BY EnginesAre DEF BInit, Init
  <2> QED  BY <2>1, <2>2, <2>3 DEF StartupTypeOK
<1>3. RunTypeOK
  <2>1. /\ now >= Now0 /\ pc \in Places
        /\ live \in [on : BOOLEAN, next : 0 .. MaxNow, at : Minute]
        /\ buf \subseteq Bars
        /\ left \in [overlap : BOOLEAN, saved : SUBSET Minute, running : SUBSET Engines]
    BY <1>1, PlacesAre DEF BInit, Init, NoLive, NothingLeft, PlaceSets
  <2>2. /\ qPipe \in Seq(Bars) /\ fed \in Seq(Bars) /\ qStore \in Seq(LiveBars)
        /\ qRisk \in Seq(TriggerEvents) /\ todo \in Seq(SetupEvents)
        /\ qFeat \in Seq(Bars) /\ htf \in Seq(Bars) /\ qAgg \in Seq(Bars) /\ emitted \in Nat
    BY DEF BInit, Init
  <2>3. DOMAIN active = {} /\ active \in [DOMAIN active -> {FORMING, CONFIRMED, TRIGGERED}]
    BY DEF BInit, Init, NoSetup
  <2> QED  BY <2>1, <2>2, <2>3 DEF RunTypeOK
<1>4. Blank /\ EnginesInv /\ BlankAt /\ ExitIsClean
  BY PlacesAre DEF BInit, Init, Blank, EnginesInv, BlankAt, ExitIsClean, NothingLeft, PlaceSets
<1>5. RestInv
  BY <1>2, <1>3, <1>4, BlankHolds DEF TypeInv
<1>6. RuntimeInv
  BY <1>2, <1>3, <1>4, <1>5 DEF RuntimeInv, RestInv
<1>7. StoreTypeOK
  <2>1. DOMAIN trades = {}
    BY DEF BInit, NoTrade
  <2> QED  BY <2>1 DEF BInit, Init, StoreTypeOK
<1>8. JobInv
  <2>1. job \in Jobs /\ ~job.ok
    <3>1. <<>> \in Seq(Days)
      OBVIOUS
    <3> QED  BY <1>1, <3>1 DEF BInit, NoJob, Jobs
  <2>2. pc \notin {"bf_m1", "bf_h1", "bf_end", "bf_trades", "bf_quotes", "bf_save", "bf_done"}
    BY DEF BInit, Init
  <2>3. quotes \in [Days -> SUBSET Minute] /\ job = NoJob
    BY DEF BInit
  <2> QED  BY <2>1, <2>2, <2>3 DEF JobInv, JobTypeOK
<1> QED  BY <1>6, <1>7, <1>8 DEF BackfillInv

\* No step leaves the invariant.
LEMMA BackfillStepKeeps ==
  BackfillInv /\ [BNext]_allvars => BackfillInv'
<1> SUFFICES ASSUME BackfillInv, [BNext]_allvars  PROVE BackfillInv'
  OBVIOUS
<1>1. CASE b_run \/ b_crash
  BY <1>1, StoreOfRuntime DEF BackfillInv
<1>2. CASE BackfillStep
  <2>1. RuntimeInv'
    BY <1>2, RuntimeOfBackfill
  <2>2. StoreTypeOK' /\ JobInv'
    BY <1>2, StartOfBackfill, BarsOfBackfill, TicksOfBackfill DEF BackfillStep, Backfill
  <2> QED  BY <2>1, <2>2 DEF BackfillInv
<1>3. CASE UNCHANGED allvars
  <2>1. UNCHANGED <<now, disk, eng, pc, spc, m1_end, warm, emitted, live, qFeat, qAgg, qPipe, qStore, qRisk, buf,
                    htf, fed, active, todo, plans, reconciled, left>>
    BY <1>3 DEF allvars, vars
  <2>2. UNCHANGED <<h1, m5, trades, quotes, job>>
    BY <1>3 DEF allvars, bvars
  <2>3. /\ StartupTypeOK' /\ RunTypeOK' /\ EnginesInv' /\ WarmInv' /\ HigherInv' /\ DurableInv' /\ ExitInv'
        /\ Reconciling'
    BY <2>1 DEF BackfillInv, RuntimeInv, StartupTypeOK, RunTypeOK, EnginesInv, Blank, WarmInv, HigherInv, DurableInv,
                ExitInv, ExitIsClean, Reconciling
  <2>4. TapeInv'
    <3>1. LiveFrom' = LiveFrom /\ WarmBars' = WarmBars /\ Tape' = Tape
      BY <2>1 DEF LiveFrom, WarmBars, Tape
    <3> QED  BY <2>1, <3>1 DEF BackfillInv, RuntimeInv, TapeInv
  <2>5. PlansInv'
    <3>1. MinutesFed' = MinutesFed /\ \A s : Allowed(s)' = Allowed(s)
      BY <2>1 DEF MinutesFed, Allowed, Triggered
    <3> QED  BY <2>1, <3>1 DEF BackfillInv, RuntimeInv, PlansInv
  <2>6. StoreTypeOK'
    BY <2>1, <2>2 DEF BackfillInv, StoreTypeOK
  <2>7. JobInv'
    <3>1. WindowM5' = WindowM5
      BY <2>1, <2>2 DEF WindowM5
    <3> QED  BY <2>1, <2>2, <3>1 DEF BackfillInv, JobInv, JobTypeOK
  <2> QED  BY <2>3, <2>4, <2>5, <2>6, <2>7 DEF BackfillInv, RuntimeInv
<1> QED  BY <1>1, <1>2, <1>3 DEF BNext, BackfillStep

\* It holds in every state.
LEMMA BackfillInvHolds ==
  BSpec => []BackfillInv
<1>1. BInit => BackfillInv
  BY FirstLaunch
<1>2. BackfillInv /\ [BNext]_allvars => BackfillInv'
  BY BackfillStepKeeps
<1> QED  BY <1>1, <1>2, PTL DEF BSpec

-----------------------------------------------------------------------------
(* What the runs check, for every value of the constants *)

\* History and live feed join as one tape, through slow fetches, crashes and restarts
\* (BootstrapEngine._start_live, CatchupService.run, compute_replay_start).
THEOREM WarmupJoins ==
  BSpec => []WarmupJoinsLive
<1>1. BackfillInv => WarmupJoinsLive
  BY RuntimeInvJoins DEF BackfillInv
<1> QED  BY <1>1, BackfillInvHolds, PTL

\* A backfill that could fetch leaves the M5 bars of its window whole, and of the H1 bars
\* only the holes that _missing_ranges is known to leave (BackfillEngine, CatchupService).
THEOREM BackfillHeals ==
  BSpec => []BackfillHealsTheStore
<1>1. BackfillInv => BackfillHealsTheStore
  <2> SUFFICES ASSUME BackfillInv  PROVE BackfillHealsTheStore
    OBVIOUS
  <2>1. StoreTypeOK
    BY DEF BackfillInv
  <2>2. HolesExplained
    BY DEF BackfillInv, JobInv, HolesIn, HolesExplained
  <2>3. M5Rebuilt
    BY DEF BackfillInv, JobInv, WindowM5, M5Rebuilt
  <2> QED  BY <2>1, <2>2, <2>3 DEF BackfillHealsTheStore
<1> QED  BY <1>1, BackfillInvHolds, PTL

\* Rows captured live are never replaced nor dropped by a backfill, and a backfill that
\* was not forced to only adds rows (parquet.write with prefer_live, write_streaming).
THEOREM CapturedRows ==
  BSpec => CapturedRowsSurvive
<1> DEFINE Kept == \A t \in DOMAIN trades : trades[t] = "live" =>
                      t \in DOMAIN trades' /\ trades'[t] = "live"
           Added == ~job.force => /\ DOMAIN trades \subseteq DOMAIN trades'
                                  /\ \A d \in Days : quotes[d] \subseteq quotes'[d]
<1>1. BackfillInv /\ [BNext]_allvars => [Kept /\ Added]_allvars
  <2> SUFFICES ASSUME BackfillInv, BNext  PROVE Kept /\ Added
    OBVIOUS
  <2>1. job \in Jobs /\ quotes \in [Days -> SUBSET Minute]
    BY DEF BackfillInv, JobInv, JobTypeOK
  <2>2. CASE UNCHANGED <<trades, quotes>>
    BY <2>2
  <2>3. CASE live_trade
    <3>1. PICK t \in LiveMinutes \ DOMAIN trades :
            trades' = [u \in DOMAIN trades \cup {t} |-> IF u = t THEN "live" ELSE trades[u]]
      BY <2>3 DEF live_trade
    <3>2. quotes' = quotes
      BY <2>3 DEF live_trade
    <3> QED  BY <3>1, <3>2
  <2>4. CASE bf_trades
    <3>1. trades' = trades \/ \E new : trades' = UpsertTrades(new)
      BY <2>4 DEF bf_trades
    <3>2. \A t \in DOMAIN trades : t \in DOMAIN trades' /\ trades'[t] = trades[t]
      BY <3>1 DEF UpsertTrades
    <3>3. quotes' = quotes
      BY <2>4 DEF bf_trades
    <3> QED  BY <3>2, <3>3
  <2>5. CASE bf_clear_quotes
    <3>1. trades' = trades /\ (~job.force => quotes' = quotes)
      BY <2>5 DEF bf_clear_quotes
    <3> QED  BY <3>1
  <2>6. CASE bf_save_quotes
    <3> DEFINE d == Head(job.days)
    <3>1. trades' = trades /\ (quotes' = quotes \/ \E rows : quotes' = [quotes EXCEPT ![d] = rows])
      BY <2>6 DEF bf_save_quotes, write_streaming
    <3>2. ~job.force => quotes[d] = {}
      BY <2>6 DEF bf_save_quotes, AtBackfill, BackfillInv, JobInv
    <3> HIDE DEF d
    <3>3. ~job.force => \A x \in Days : quotes[x] \subseteq quotes'[x]
      BY <2>1, <3>1, <3>2
    <3> QED  BY <3>1, <3>3
  <2>7. b_run \/ b_crash \/ bf_start \/ bf_flush_due \/ bf_m1 \/ bf_h1 \/ bf_flush \/ bf_exit
          => UNCHANGED <<trades, quotes>>
    BY DEF b_run, b_crash, bf_start, bf_flush_due, bf_m1, bf_h1, bf_flush, bf_exit, bvars, tables
  <2> QED  BY <2>2, <2>3, <2>4, <2>5, <2>6, <2>7 DEF BNext, Backfill
<1>2. BSpec => [][Kept /\ Added]_allvars
  BY <1>1, BackfillInvHolds, PTL DEF BSpec
<1>3. [][Kept /\ Added]_allvars => [][Kept]_allvars /\ [][Added]_allvars
  BY PTL
<1> QED  BY <1>2, <1>3 DEF CapturedRowsSurvive, LiveTradesKept, PlainBackfillOnlyAdds
=============================================================================
