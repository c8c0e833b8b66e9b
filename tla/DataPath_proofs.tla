--------------------------- MODULE DataPath_proofs ---------------------------
(***************************************************************************)
(* Proofs about the path of the market data, from the feed to the files.   *)
(* LiveFeed, for any symbols, queue size, thresholds and number of bars:   *)
(* type correctness, that FAILED is sticky, and that signals are allowed   *)
(* only on bars that neither got lost nor came late.  FlowAggregator, for  *)
(* any seconds, sizes and number of minutes: the flow of a bar is of its   *)
(* minute's trades.  StorageEngine: no accepted row disappears between its *)
(* queue, its buffers, the batches its writers took and the files, and a   *)
(* stop is durable.                                                        *)
(***************************************************************************)
EXTENDS LiveFeed, FlowAggregator, StorageEngine, FiniteInduction

IsBar(q, i, s) == q[i].kind = "bar" /\ q[i].sym = s

\* The bars of a symbol are on their way in the order of their minutes: handled,
\* then queued, then to come.
Orderly ==
  \A s \in Symbols :
    /\ handled[s] \subseteq 1 .. lastBar[s]
    /\ late[s] <= lastBar[s]
    /\ lastBar[s] < nextBar[s]
    /\ \A i \in DOMAIN ingress : IsBar(ingress, i, s) =>
         lastBar[s] < ingress[i].min /\ ingress[i].min < nextBar[s]
    /\ \A i, j \in DOMAIN ingress :
         i < j /\ IsBar(ingress, i, s) /\ IsBar(ingress, j, s) => ingress[i].min < ingress[j].min

After(s) == {h \in handled[s] : h > late[s]}

\* The clean bars a symbol can show: all that are needed once it is CLEAN.
Span(s) == IF quality[s] = "CLEAN" THEN CleanBarsNeeded ELSE clean[s]

\* They are bars handled since the last late one.
Counted ==
  \A s \in Symbols : late[s] # 0 /\ quality[s] # "FAILED" => Cardinality(After(s)) >= Span(s)

\* They are the last ones, without a hole.
Joined ==
  \A s \in Symbols : quality[s] # "FAILED" =>
    \A b \in lastBar[s] - Span(s) .. lastBar[s] :
      (\E first \in handled[s] : first <= b) => b \in handled[s]

IInv == FeedTypeOK /\ Orderly /\ Counted /\ Joined

-----------------------------------------------------------------------------
LEMMA InitIInv == Init => IInv
  <1> SUFFICES ASSUME Init PROVE IInv
    OBVIOUS
  <1> USE FeedConstants DEF Init
  <1>1. FeedTypeOK
    <2>1. ingress \in Seq(Records) /\ Len(ingress) <= IngressSize
      OBVIOUS
    <2>2. /\ silence \in [Symbols -> {NoRecord} \cup 0 .. SilenceFailed]
          /\ quality \in [Symbols -> Qualities]
      BY DEF Qualities
    <2>3. /\ nextBar \in [Symbols -> 1 .. MaxBar + 1]
          /\ clean \in [Symbols -> 0 .. CleanBarsNeeded - 1]
          /\ lastBar \in [Symbols -> 0 .. MaxBar] /\ late \in [Symbols -> 0 .. MaxBar]
          /\ handled \in [Symbols -> SUBSET Minutes]
      OBVIOUS
    <2> QED BY <2>1, <2>2, <2>3 DEF FeedTypeOK
  <1>2. Orderly
    BY DEF Orderly
  <1>3. Counted
    BY DEF Counted
  <1>4. Joined
    BY DEF Joined
  <1> QED BY <1>1, <1>2, <1>3, <1>4 DEF IInv

\* What the consumer takes, and what it leaves behind.
LEMMA HeadTail ==
  ASSUME FeedTypeOK, ingress # <<>>
  PROVE  /\ Head(ingress) \in Records /\ Head(ingress) = ingress[1]
         /\ Tail(ingress) \in Seq(Records) /\ Len(Tail(ingress)) = Len(ingress) - 1
         /\ \A i \in DOMAIN Tail(ingress) : i + 1 \in DOMAIN ingress /\ Tail(ingress)[i] = ingress[i + 1]
  BY DEF FeedTypeOK

\* put_nowait never takes the queue past its size.
LEMMA PutType ==
  ASSUME FeedTypeOK, NEW rec \in Records, Put(rec)
  PROVE  /\ ingress' \in Seq(Records) /\ Len(ingress') <= IngressSize
         /\ dropped' \in BOOLEAN
  BY FeedConstants DEF FeedTypeOK, Put, full

LEMMA RecordTypes ==
  /\ \A s \in Symbols : [kind |-> "mapping", sym |-> s] \in Records
  /\ \A s \in Symbols : [kind |-> "tick", sym |-> s] \in Records
  /\ [kind |-> "skipped"] \in Records
  /\ \A s \in Symbols, m \in Minutes : [kind |-> "bar", sym |-> s, min |-> m] \in Records
  /\ \A r \in Records : r.kind \in {"mapping", "tick", "bar"} => r.sym \in Symbols
  /\ \A r \in Records : r.kind = "bar" => r.min \in Minutes
  BY DEF Records
-----------------------------------------------------------------------------
(* Types *)

MonitorTypeOK ==
  /\ quality \in [Symbols -> Qualities]
  /\ clean \in [Symbols -> 0 .. CleanBarsNeeded - 1]
  /\ lastBar \in [Symbols -> 0 .. MaxBar]
  /\ silence \in [Symbols -> {NoRecord} \cup 0 .. SilenceFailed]
  /\ handled \in [Symbols -> SUBSET Minutes] /\ late \in [Symbols -> 0 .. MaxBar]

\* Neither judging a bar takes the quality out of its values nor the count of
\* clean bars past _CLEAN_BARS_NEEDED.
LEMMA BarType ==
  ASSUME FeedTypeOK, NEW s \in Symbols, NEW min \in Minutes, NEW lag \in BOOLEAN,
         on_bar_received(s, min, lag)
  PROVE  MonitorTypeOK'
  <1> USE FeedConstants DEF FeedTypeOK, on_bar_received
  <1>1. /\ lastBar' \in [Symbols -> 0 .. MaxBar]
        /\ late' \in [Symbols -> 0 .. MaxBar]
        /\ handled' \in [Symbols -> SUBSET Minutes]
    BY DEF Minutes
  <1>2. silence' \in [Symbols -> {NoRecord} \cup 0 .. SilenceFailed]
    BY DEF on_record_received
  <1>3. quality' \in [Symbols -> Qualities]
    BY DEF degrade, record_clean_bar, Qualities
  <1>4. clean' \in [Symbols -> 0 .. CleanBarsNeeded - 1]
    BY DEF degrade, record_clean_bar
  <1> QED BY <1>1, <1>2, <1>3, <1>4 DEF MonitorTypeOK

LEMMA TickType ==
  ASSUME FeedTypeOK, NEW s \in Symbols, on_trade_or_quote(s)
  PROVE  MonitorTypeOK'
  BY FeedConstants DEF FeedTypeOK, on_trade_or_quote, on_record_received, MonitorTypeOK

LEMMA TypeStep == FeedTypeOK /\ [Next]_vars => FeedTypeOK'
  <1> SUFFICES ASSUME FeedTypeOK, [Next]_vars PROVE FeedTypeOK'
    OBVIOUS
  <1> DEFINE QueueOK == ingress' \in Seq(Records) /\ Len(ingress') <= IngressSize /\ dropped' \in BOOLEAN
  <1> USE FeedConstants
  <1>0. MonitorTypeOK /\ ingress \in Seq(Records) /\ Len(ingress) <= IngressSize
    BY DEF FeedTypeOK, MonitorTypeOK
  <1>kept. ASSUME UNCHANGED monitorVars PROVE MonitorTypeOK'
    BY <1>kept, <1>0 DEF monitorVars, MonitorTypeOK
  <1>1. ASSUME NEW s \in Symbols, Announce(s) PROVE FeedTypeOK'
    <2>1. QueueOK
      BY <1>1, PutType, RecordTypes DEF Announce
    <2> QED BY <1>1, <2>1, <1>kept DEF Announce, FeedTypeOK, MonitorTypeOK
  <1>2. ASSUME NEW s \in Symbols, MinuteBar(s) PROVE FeedTypeOK'
    <2>1. nextBar[s] \in Minutes
      BY <1>2 DEF MinuteBar, FeedTypeOK, Minutes
    <2>2. nextBar' \in [Symbols -> 1 .. MaxBar + 1]
      BY <1>2, <2>1 DEF MinuteBar, FeedTypeOK, Minutes
    <2>3. QueueOK
      <3>1. CASE link = "up" /\ s \in announced
        BY <1>2, <2>1, <3>1, PutType, RecordTypes DEF MinuteBar
      <3>2. CASE ~(link = "up" /\ s \in announced)
        BY <1>2, <3>2, <1>0 DEF MinuteBar, FeedTypeOK
      <3> QED BY <3>1, <3>2
    <2> QED BY <1>2, <2>2, <2>3, <1>kept DEF MinuteBar, FeedTypeOK, MonitorTypeOK
  <1>3. ASSUME NEW s \in Symbols, Tick(s) PROVE FeedTypeOK'
    <2>1. QueueOK
      BY <1>3, PutType, RecordTypes DEF Tick
    <2> QED BY <1>3, <2>1, <1>kept DEF Tick, FeedTypeOK, MonitorTypeOK
  <1>4. ASSUME NEW S \in SUBSET Symbols, Skipped(S) PROVE FeedTypeOK'
    <2>1. QueueOK
      BY <1>4, PutType, RecordTypes DEF Skipped
    <2>2. nextBar' \in [Symbols -> 1 .. MaxBar + 1]
      BY <1>4 DEF Skipped, FeedTypeOK
    <2> QED BY <1>4, <2>1, <2>2, <1>kept DEF Skipped, FeedTypeOK, MonitorTypeOK
  <1>5. CASE LinkLost
    BY <1>5, <1>kept DEF LinkLost, FeedTypeOK, MonitorTypeOK
  <1>6. ASSUME NEW ok \in BOOLEAN, reconnect(ok) PROVE FeedTypeOK'
    BY <1>6, <1>kept DEF reconnect, FeedTypeOK, MonitorTypeOK
  <1>7. CASE disconnect
    BY <1>7, <1>kept DEF disconnect, FeedTypeOK, MonitorTypeOK
  <1>8. ASSUME NEW lag \in BOOLEAN, Dispatch(lag) PROVE FeedTypeOK'
    <2> DEFINE rec == Head(ingress)
    <2>1. ingress' \in Seq(Records) /\ Len(ingress') <= IngressSize
      BY <1>8, <1>0, HeadTail DEF Dispatch
    <2>2. rec \in Records
      BY <1>8, HeadTail DEF Dispatch
    <2>3. MonitorTypeOK' /\ mapped' \subseteq Symbols
      <3>1. CASE rec.kind = "mapping" /\ handle_symbol_mapping(rec.sym)
        BY <3>1, <2>2, <1>kept, RecordTypes DEF handle_symbol_mapping, FeedTypeOK
      <3>2. CASE rec.kind = "skipped" /\ on_skipped_records /\ UNCHANGED mapped
        BY <3>2, <1>0 DEF on_skipped_records, FeedTypeOK, MonitorTypeOK, Qualities
      <3>3. ASSUME NEW standard \in BOOLEAN, rec.kind = "tick", dispatch_tick(rec.sym, standard)
            PROVE  MonitorTypeOK' /\ mapped' \subseteq Symbols
        <4>1. CASE rec.sym \in mapped /\ standard
          BY <3>3, <4>1, TickType DEF dispatch_tick, FeedTypeOK
        <4>2. CASE ~(rec.sym \in mapped /\ standard)
          BY <3>3, <4>2, <1>kept DEF dispatch_tick, FeedTypeOK
        <4> QED BY <4>1, <4>2
      <3>4. CASE rec.kind = "bar" /\ dispatch_bar(rec.sym, rec.min, lag)
        <4>1. CASE rec.sym \in mapped
          BY <3>4, <4>1, <2>2, BarType, RecordTypes DEF dispatch_bar, on_bar, FeedTypeOK
        <4>2. CASE rec.sym \notin mapped
          BY <3>4, <4>2, <1>kept DEF dispatch_bar, FeedTypeOK
        <4> QED BY <4>1, <4>2
      <3>5. \/ rec.kind = "mapping" /\ handle_symbol_mapping(rec.sym)
            \/ rec.kind = "skipped" /\ on_skipped_records /\ UNCHANGED mapped
            \/ rec.kind = "tick" /\ \E standard \in BOOLEAN : dispatch_tick(rec.sym, standard)
            \/ rec.kind = "bar" /\ dispatch_bar(rec.sym, rec.min, lag)
        BY <1>8, Zenon DEF Dispatch
      <3> QED BY <3>1, <3>2, <3>3, <3>4, <3>5
    <2> QED BY <1>8, <2>1, <2>3 DEF Dispatch, FeedTypeOK, MonitorTypeOK
  <1>9. CASE check_health
    <2>1. quality' \in [Symbols -> Qualities]
      BY <1>9 DEF check_health, FeedTypeOK, Qualities
    <2>2. clean' \in [Symbols -> 0 .. CleanBarsNeeded - 1]
      BY <1>9 DEF check_health, FeedTypeOK
    <2> QED BY <1>9, <2>1, <2>2 DEF check_health, feedVars, FeedTypeOK
  <1>10. CASE Elapse
    <2>1. silence' \in [Symbols -> {NoRecord} \cup 0 .. SilenceFailed]
      BY <1>10 DEF Elapse, FeedTypeOK, NoRecord
    <2> QED BY <1>10, <2>1 DEF Elapse, feedVars, FeedTypeOK
  <1>11. CASE SessionBoundary
    BY <1>11, <1>kept DEF SessionBoundary, feedVars, FeedTypeOK, MonitorTypeOK
  <1>12. CASE UNCHANGED vars
    BY <1>12 DEF vars, feedVars, monitorVars, FeedTypeOK
  <1> QED BY <1>1, <1>2, <1>3, <1>4, <1>5, <1>6, <1>7, <1>8, <1>9, <1>10, <1>11, <1>12 DEF Next

-----------------------------------------------------------------------------
(* Order *)

OrderlyFor(s) ==
  /\ handled[s] \subseteq 1 .. lastBar[s]
  /\ late[s] <= lastBar[s]
  /\ lastBar[s] < nextBar[s]
  /\ \A i \in DOMAIN ingress : IsBar(ingress, i, s) =>
       lastBar[s] < ingress[i].min /\ ingress[i].min < nextBar[s]
  /\ \A i, j \in DOMAIN ingress :
       i < j /\ IsBar(ingress, i, s) /\ IsBar(ingress, j, s) => ingress[i].min < ingress[j].min

LEMMA OrderlyParts == Orderly <=> \A s \in Symbols : OrderlyFor(s)
  BY DEF Orderly, OrderlyFor

\* A bar is queued behind the bars of its symbol, with the minute that was next.
LEMMA PutOrderly ==
  ASSUME FeedTypeOK, Orderly, NEW rec \in Records,
         ingress' = ingress \/ ingress' = Append(ingress, rec),
         nextBar' \in [Symbols -> 1 .. MaxBar + 1],
         \A s \in Symbols : nextBar'[s] >= nextBar[s],
         rec.kind = "bar" => rec.min = nextBar[rec.sym] /\ nextBar'[rec.sym] = nextBar[rec.sym] + 1,
         UNCHANGED <<lastBar, handled, late>>
  PROVE  Orderly'
  <1> SUFFICES ASSUME NEW s \in Symbols PROVE OrderlyFor(s)'
    BY DEF Orderly, OrderlyFor
  <1> USE FeedConstants
  <1>1. /\ nextBar[s] \in Int /\ nextBar'[s] \in Int /\ lastBar[s] \in Int
        /\ nextBar'[s] >= nextBar[s] /\ ingress \in Seq(Records)
    BY DEF FeedTypeOK
  <1>2. OrderlyFor(s)
    BY OrderlyParts
  <1>3. \A i \in DOMAIN ingress : IsBar(ingress, i, s) => ingress[i].min \in Int
    BY <1>1, RecordTypes DEF IsBar, Minutes
  <1>4. CASE ingress' = ingress
    BY <1>1, <1>2, <1>3, <1>4 DEF OrderlyFor, IsBar
  <1>5. CASE ingress' = Append(ingress, rec)
    <2>1. /\ DOMAIN ingress' = DOMAIN ingress \cup {Len(ingress) + 1}
          /\ \A i \in DOMAIN ingress : ingress'[i] = ingress[i]
          /\ ingress'[Len(ingress) + 1] = rec
          /\ DOMAIN ingress = 1 .. Len(ingress) /\ Len(ingress) \in Nat
      BY <1>1, <1>5
    <2> DEFINE n == Len(ingress) + 1
    <2>2. IsBar(ingress', n, s) => rec.min = nextBar[s] /\ nextBar'[s] = nextBar[s] + 1
      BY <2>1 DEF IsBar
    <2>3. \A i \in DOMAIN ingress : IsBar(ingress', i, s) <=> IsBar(ingress, i, s)
      BY <2>1 DEF IsBar
    <2>4. \A i \in DOMAIN ingress' : IsBar(ingress', i, s) =>
            lastBar'[s] < ingress'[i].min /\ ingress'[i].min < nextBar'[s]
      BY <1>1, <1>2, <1>3, <2>1, <2>2, <2>3 DEF OrderlyFor
    <2>5. \A i, j \in DOMAIN ingress' :
            i < j /\ IsBar(ingress', i, s) /\ IsBar(ingress', j, s) => ingress'[i].min < ingress'[j].min
      <3> SUFFICES ASSUME NEW i \in DOMAIN ingress', NEW j \in DOMAIN ingress',
                          i < j, IsBar(ingress', i, s), IsBar(ingress', j, s)
                   PROVE  ingress'[i].min < ingress'[j].min
        OBVIOUS
      <3>1. i \in DOMAIN ingress
        BY <2>1
      <3>2. CASE j \in DOMAIN ingress
        BY <1>2, <2>1, <2>3, <3>1, <3>2 DEF OrderlyFor
      <3>3. CASE j = n
        BY <1>2, <1>3, <2>1, <2>2, <2>3, <3>1, <3>3 DEF OrderlyFor
      <3> QED BY <2>1, <3>2, <3>3
    <2> QED BY <1>1, <1>2, <2>4, <2>5 DEF OrderlyFor
  <1> QED BY <1>4, <1>5

\* The rest of the queue, after a record that is not a bar, or after a bar that has
\* become the last one of its symbol.
LEMMA TakeOrderly ==
  ASSUME FeedTypeOK, Orderly, ingress # <<>>, ingress' = Tail(ingress), UNCHANGED nextBar,
         \/ UNCHANGED <<lastBar, handled, late>>
         \/ \E s \in Symbols, min \in Minutes, lag \in BOOLEAN :
              /\ IsBar(ingress, 1, s) /\ ingress[1].min = min
              /\ lastBar' = [lastBar EXCEPT ![s] = min]
              /\ handled' = [handled EXCEPT ![s] = @ \cup {min}]
              /\ late' = [late EXCEPT ![s] = IF lag THEN min ELSE @]
  PROVE  Orderly'
  <1> SUFFICES ASSUME NEW s \in Symbols PROVE OrderlyFor(s)'
    BY DEF Orderly, OrderlyFor
  <1> USE FeedConstants
  <1>1. /\ nextBar[s] \in Int /\ lastBar[s] \in 0 .. MaxBar /\ late[s] \in 0 .. MaxBar
        /\ handled[s] \subseteq Minutes /\ ingress \in Seq(Records)
    BY DEF FeedTypeOK
  <1>2. OrderlyFor(s)
    BY OrderlyParts
  <1>3. \A i \in DOMAIN ingress : IsBar(ingress, i, s) => ingress[i].min \in Int
    BY <1>1, RecordTypes DEF IsBar, Minutes
  <1>4. /\ \A i \in DOMAIN ingress' : i \in Int /\ i + 1 \in DOMAIN ingress /\ ingress'[i] = ingress[i + 1]
        /\ 1 \in DOMAIN ingress /\ \A i \in DOMAIN ingress' : 1 < i + 1
    BY <1>1, HeadTail
  <1>5. \A i \in DOMAIN ingress' : IsBar(ingress', i, s) <=> IsBar(ingress, i + 1, s)
    BY <1>4 DEF IsBar
  <1>6. \A i, j \in DOMAIN ingress' :
          i < j /\ IsBar(ingress', i, s) /\ IsBar(ingress', j, s) => ingress'[i].min < ingress'[j].min
    BY <1>2, <1>4, <1>5 DEF OrderlyFor
  <1>7. ASSUME lastBar'[s] = lastBar[s], handled'[s] = handled[s], late'[s] = late[s]
        PROVE  OrderlyFor(s)'
    BY <1>2, <1>4, <1>5, <1>6, <1>7 DEF OrderlyFor
  <1>8. ASSUME NEW min \in Minutes, NEW lag \in BOOLEAN,
               IsBar(ingress, 1, s), ingress[1].min = min, lastBar'[s] = min,
               handled'[s] = handled[s] \cup {min}, late'[s] = IF lag THEN min ELSE late[s]
        PROVE  OrderlyFor(s)'
    <2>1. lastBar[s] < min /\ min < nextBar[s] /\ min \in Int
      BY <1>2, <1>4, <1>8 DEF OrderlyFor, Minutes
    <2>2. \A i \in DOMAIN ingress' : IsBar(ingress', i, s) =>
            lastBar'[s] < ingress'[i].min /\ ingress'[i].min < nextBar'[s]
      BY <1>2, <1>4, <1>5, <1>8 DEF OrderlyFor
    <2>3. handled'[s] \subseteq 1 .. lastBar'[s]
      BY <1>1, <1>2, <1>8, <2>1 DEF OrderlyFor, Minutes
    <2>4. late'[s] <= lastBar'[s] /\ lastBar'[s] < nextBar'[s]
      BY <1>1, <1>2, <1>8, <2>1 DEF OrderlyFor
    <2> QED BY <1>6, <2>2, <2>3, <2>4 DEF OrderlyFor
  <1>9. CASE UNCHANGED <<lastBar, handled, late>>
    BY <1>7, <1>9
  <1>10. ASSUME NEW t \in Symbols, NEW min \in Minutes, NEW lag \in BOOLEAN,
                IsBar(ingress, 1, t), ingress[1].min = min,
                lastBar' = [lastBar EXCEPT ![t] = min],
                handled' = [handled EXCEPT ![t] = @ \cup {min}],
                late' = [late EXCEPT ![t] = IF lag THEN min ELSE @]
         PROVE  OrderlyFor(s)'
    <2>1. CASE t = s
      <3>1. /\ lastBar'[s] = min /\ handled'[s] = handled[s] \cup {min}
            /\ late'[s] = IF lag THEN min ELSE late[s]
        BY <1>10, <2>1 DEF FeedTypeOK
      <3> QED BY <1>8, <1>10, <2>1, <3>1
    <2>2. CASE t # s
      BY <1>7, <1>10, <2>2 DEF FeedTypeOK
    <2> QED BY <2>1, <2>2
  <1> QED BY <1>9, <1>10

\* No order is lost: the record thread only appends, the consumer only takes.
LEMMA OrderlyStep == FeedTypeOK /\ Orderly /\ [Next]_vars => Orderly'
  <1> SUFFICES ASSUME FeedTypeOK, Orderly, [Next]_vars PROVE Orderly'
    OBVIOUS
  <1>0. FeedTypeOK'
    BY TypeStep
  <1>1. nextBar' \in [Symbols -> 1 .. MaxBar + 1] /\ nextBar \in [Symbols -> 1 .. MaxBar + 1]
    BY <1>0 DEF FeedTypeOK
  <1>kept. ASSUME UNCHANGED <<nextBar, ingress, lastBar, handled, late>> PROVE Orderly'
    BY <1>kept DEF Orderly, IsBar
  <1> USE FeedConstants
  <1>2. ASSUME NEW s \in Symbols, Announce(s) PROVE Orderly'
    <2> DEFINE rec == [kind |-> "mapping", sym |-> s]
    <2>1. rec \in Records /\ rec.kind # "bar"
      BY RecordTypes
    <2>2. \A t \in Symbols : nextBar'[t] >= nextBar[t]
      BY <1>1, <1>2 DEF Announce
    <2>3. ingress' = ingress \/ ingress' = Append(ingress, rec)
      BY <1>2 DEF Announce, Put
    <2>4. UNCHANGED <<lastBar, handled, late>>
      BY <1>2 DEF Announce, monitorVars
    <2> HIDE DEF rec
    <2> QED BY <1>1, <2>1, <2>2, <2>3, <2>4, PutOrderly
  <1>3. ASSUME NEW s \in Symbols, MinuteBar(s) PROVE Orderly'
    <2> DEFINE bar == [kind |-> "bar", sym |-> s, min |-> nextBar[s]]
    <2>1. /\ bar \in Records
          /\ bar.min = nextBar[bar.sym] /\ nextBar'[bar.sym] = nextBar[bar.sym] + 1
      <3>1. nextBar[s] \in Minutes
        BY <1>1, <1>3 DEF MinuteBar, Minutes
      <3> QED BY <1>1, <1>3, <3>1, RecordTypes DEF MinuteBar
    <2>2. \A t \in Symbols : nextBar'[t] >= nextBar[t]
      BY <1>1, <1>3 DEF MinuteBar
    <2>3. ingress' = ingress \/ ingress' = Append(ingress, bar)
      BY <1>3 DEF MinuteBar, Put
    <2>4. UNCHANGED <<lastBar, handled, late>>
      BY <1>3 DEF MinuteBar, monitorVars
    <2> HIDE DEF bar
    <2> QED BY <1>1, <2>1, <2>2, <2>3, <2>4, PutOrderly
  <1>4. ASSUME NEW s \in Symbols, Tick(s) PROVE Orderly'
    <2> DEFINE rec == [kind |-> "tick", sym |-> s]
    <2>1. rec \in Records /\ rec.kind # "bar"
      BY RecordTypes
    <2>2. \A t \in Symbols : nextBar'[t] >= nextBar[t]
      BY <1>1, <1>4 DEF Tick
    <2>3. ingress' = ingress \/ ingress' = Append(ingress, rec)
      BY <1>4 DEF Tick, Put
    <2>4. UNCHANGED <<lastBar, handled, late>>
      BY <1>4 DEF Tick, monitorVars
    <2> HIDE DEF rec
    <2> QED BY <1>1, <2>1, <2>2, <2>3, <2>4, PutOrderly
  <1>5. ASSUME NEW S \in SUBSET Symbols, Skipped(S) PROVE Orderly'
    <2> DEFINE rec == [kind |-> "skipped"]
    <2>1. rec \in Records /\ rec.kind # "bar"
      BY RecordTypes
    <2>2. \A t \in Symbols : nextBar'[t] >= nextBar[t]
      BY <1>1, <1>5 DEF Skipped
    <2>3. ingress' = ingress \/ ingress' = Append(ingress, rec)
      BY <1>5 DEF Skipped, Put
    <2>4. UNCHANGED <<lastBar, handled, late>>
      BY <1>5 DEF Skipped, monitorVars
    <2> HIDE DEF rec
    <2> QED BY <1>1, <2>1, <2>2, <2>3, <2>4, PutOrderly
  <1>6. CASE LinkLost
    BY <1>6, <1>kept DEF LinkLost, monitorVars
  <1>7. ASSUME NEW ok \in BOOLEAN, reconnect(ok) PROVE Orderly'
    BY <1>7, <1>kept DEF reconnect, monitorVars
  <1>8. CASE disconnect
    BY <1>8, <1>kept DEF disconnect, monitorVars
  <1>9. ASSUME NEW lag \in BOOLEAN, Dispatch(lag) PROVE Orderly'
    <2> DEFINE rec == Head(ingress)
    <2>1. /\ ingress # <<>> /\ ingress' = Tail(ingress) /\ UNCHANGED nextBar
          /\ rec \in Records /\ rec = ingress[1]
      BY <1>9, HeadTail DEF Dispatch
    <2>2. CASE UNCHANGED <<lastBar, handled, late>>
      BY <2>1, <2>2, TakeOrderly
    <2>3. CASE rec.kind = "bar" /\ rec.sym \in mapped /\ on_bar_received(rec.sym, rec.min, lag)
      <3>1. rec.sym \in Symbols /\ rec.min \in Minutes /\ IsBar(ingress, 1, rec.sym)
        BY <2>1, <2>3, RecordTypes DEF IsBar
      <3>2. /\ lastBar' = [lastBar EXCEPT ![rec.sym] = rec.min]
            /\ handled' = [handled EXCEPT ![rec.sym] = @ \cup {rec.min}]
            /\ late' = [late EXCEPT ![rec.sym] = IF lag THEN rec.min ELSE @]
        BY <2>3 DEF on_bar_received
      <3>3. \E s \in Symbols, min \in Minutes, l \in BOOLEAN :
              /\ IsBar(ingress, 1, s) /\ ingress[1].min = min
              /\ lastBar' = [lastBar EXCEPT ![s] = min]
              /\ handled' = [handled EXCEPT ![s] = @ \cup {min}]
              /\ late' = [late EXCEPT ![s] = IF l THEN min ELSE @]
        BY <2>1, <3>1, <3>2
      <3> QED BY <2>1, <3>3, TakeOrderly
    <2>4. \/ UNCHANGED <<lastBar, handled, late>>
          \/ rec.kind = "bar" /\ rec.sym \in mapped /\ on_bar_received(rec.sym, rec.min, lag)
      BY <1>9 DEF Dispatch, handle_symbol_mapping, on_skipped_records, dispatch_tick,
                  on_trade_or_quote, dispatch_bar, on_bar, monitorVars
    <2> QED BY <2>2, <2>3, <2>4
  <1>10. CASE check_health
    BY <1>10, <1>kept DEF check_health, feedVars
  <1>11. CASE Elapse
    BY <1>11, <1>kept DEF Elapse, feedVars
  <1>12. CASE SessionBoundary
    BY <1>12, <1>kept DEF SessionBoundary, feedVars, monitorVars
  <1>13. CASE UNCHANGED vars
    BY <1>13, <1>kept DEF vars, feedVars, monitorVars
  <1> QED BY <1>2, <1>3, <1>4, <1>5, <1>6, <1>7, <1>8, <1>9, <1>10, <1>11, <1>12, <1>13 DEF Next

-----------------------------------------------------------------------------
(* Sound bars *)

CountedFor(s) == late[s] # 0 /\ quality[s] # "FAILED" => Cardinality(After(s)) >= Span(s)

JoinedFor(s) ==
  quality[s] # "FAILED" =>
    \A b \in lastBar[s] - Span(s) .. lastBar[s] :
      (\E first \in handled[s] : first <= b) => b \in handled[s]

\* Only finitely many bars were handled.
LEMMA AfterFinite ==
  ASSUME FeedTypeOK, NEW s \in Symbols
  PROVE  IsFiniteSet(After(s)) /\ Cardinality(After(s)) \in Nat
  <1>1. IsFiniteSet(1 .. MaxBar)
    BY FeedConstants, FS_Interval
  <1>2. After(s) \subseteq 1 .. MaxBar
    BY DEF After, FeedTypeOK, Minutes
  <1> QED BY <1>1, <1>2, FS_Subset, FS_CardinalityType

\* A clean bar extends the run by one, and so at most the span of what is shown.
LEMMA CleanSpan ==
  ASSUME FeedTypeOK, NEW s \in Symbols, quality[s] # "FAILED", record_clean_bar(s)
  PROVE  Span(s)' \in Nat /\ Span(s) \in Nat /\ Span(s)' <= Span(s) + 1
  <1>1. clean[s] \in 0 .. CleanBarsNeeded - 1 /\ CleanBarsNeeded \in Nat \ {0} /\ quality[s] \in Qualities
    BY FeedConstants DEF FeedTypeOK
  <1>2. CASE quality[s] = "CLEAN"
    BY <1>1, <1>2 DEF record_clean_bar, Span
  <1>3. CASE quality[s] # "CLEAN"
    <2>1. /\ quality'[s] = IF clean[s] + 1 >= CleanBarsNeeded THEN "CLEAN" ELSE "RECOVERING"
          /\ clean'[s] = IF clean[s] + 1 >= CleanBarsNeeded THEN 0 ELSE clean[s] + 1
      BY <1>3 DEF record_clean_bar, FeedTypeOK
    <2> QED BY <1>1, <1>3, <2>1 DEF Span
  <1> QED BY <1>2, <1>3

LEMMA CleanBarSound ==
  ASSUME NEW s \in Symbols, NEW min \in Minutes,
         FeedTypeOK, OrderlyFor(s), CountedFor(s), JoinedFor(s), lastBar[s] < min, ~bar_gap(s, min),
         quality[s] # "FAILED", record_clean_bar(s),
         lastBar'[s] = min, handled'[s] = handled[s] \cup {min}, late'[s] = late[s]
  PROVE  CountedFor(s)' /\ JoinedFor(s)'
  <1>1. /\ lastBar[s] \in Nat /\ late[s] \in Nat /\ min \in Nat /\ late[s] <= lastBar[s]
        /\ handled[s] \subseteq 1 .. lastBar[s]
    BY FeedConstants DEF FeedTypeOK, OrderlyFor, Minutes
  <1>2. lastBar[s] = 0 \/ min = lastBar[s] + 1
    BY <1>1 DEF bar_gap
  <1>3. Span(s)' \in Nat /\ Span(s) \in Nat /\ Span(s)' <= Span(s) + 1
    BY CleanSpan
  <1>4. CountedFor(s)'
    <2>1. After(s)' = After(s) \cup {min} /\ min \notin After(s)
      BY <1>1 DEF After
    <2>2. Cardinality(After(s))' = Cardinality(After(s)) + 1 /\ Cardinality(After(s)) \in Nat
      BY <2>1, AfterFinite, FS_AddElement
    <2>3. late[s] # 0 => Cardinality(After(s)) >= Span(s)
      BY DEF CountedFor
    <2> QED BY <1>3, <2>2, <2>3 DEF CountedFor
  <1>5. JoinedFor(s)'
    <2> SUFFICES ASSUME NEW b \in min - Span(s)' .. min,
                        NEW first \in handled[s] \cup {min}, first <= b
                 PROVE  b \in handled[s] \cup {min}
      BY DEF JoinedFor
    <2>1. b \in Int /\ b <= min /\ b >= min - Span(s)' /\ first \in Int
      BY <1>1, <1>3
    <2>2. CASE b # min
      <3>1. b < min /\ first \in handled[s] /\ first <= lastBar[s] /\ 1 <= first
        BY <1>1, <2>1, <2>2
      <3>2. min = lastBar[s] + 1
        BY <1>1, <1>2, <3>1
      <3>3. b \in lastBar[s] - Span(s) .. lastBar[s]
        BY <1>1, <1>3, <2>1, <3>1, <3>2
      <3> QED BY <3>1, <3>3 DEF JoinedFor
    <2> QED BY <2>2
  <1> QED BY <1>4, <1>5

\* A late bar or a hole leaves nothing but the bar itself to show.
LEMMA DegradeSound ==
  ASSUME FeedTypeOK, FeedTypeOK', NEW s \in Symbols, NEW min \in Minutes, degrade(s),
         quality[s] # "FAILED", lastBar'[s] = min, handled'[s] = handled[s] \cup {min}
  PROVE  CountedFor(s)' /\ JoinedFor(s)'
  <1>1. quality'[s] = "DEGRADED" /\ clean'[s] = 0
    BY DEF degrade, FeedTypeOK
  <1>2. Span(s)' = 0
    BY <1>1 DEF Span
  <1>3. Cardinality(After(s))' \in Nat
    <2>1. IsFiniteSet(1 .. MaxBar)
      BY FeedConstants, FS_Interval
    <2>2. After(s)' \subseteq 1 .. MaxBar
      BY DEF After, FeedTypeOK, Minutes
    <2> QED BY <2>1, <2>2, FS_Subset, FS_CardinalityType
  <1>4. CountedFor(s)'
    BY <1>2, <1>3 DEF CountedFor
  <1>5. JoinedFor(s)'
    BY <1>2 DEF JoinedFor, Minutes
  <1> QED BY <1>4, <1>5

\* Judging one symbol's bar.
LEMMA BarSound ==
  ASSUME FeedTypeOK, FeedTypeOK', Orderly, Counted, Joined,
         NEW t \in Symbols, NEW min \in Minutes, NEW lag \in BOOLEAN,
         lastBar[t] < min, on_bar_received(t, min, lag)
  PROVE  Counted' /\ Joined'
  <1> SUFFICES ASSUME NEW s \in Symbols PROVE CountedFor(s)' /\ JoinedFor(s)'
    BY DEF Counted, Joined, CountedFor, JoinedFor
  <1>1. OrderlyFor(s) /\ CountedFor(s) /\ JoinedFor(s)
    BY OrderlyParts DEF Counted, Joined, CountedFor, JoinedFor
  <1>2. CASE s # t
    <2>1. /\ quality'[s] = quality[s] /\ clean'[s] = clean[s] /\ lastBar'[s] = lastBar[s]
          /\ handled'[s] = handled[s] /\ late'[s] = late[s]
      BY <1>2 DEF on_bar_received, degrade, record_clean_bar, FeedTypeOK
    <2> QED BY <1>1, <2>1 DEF CountedFor, JoinedFor, Span, After
  <1>3. CASE s = t /\ quality[s] = "FAILED"
    <2>1. quality'[s] = "FAILED"
      BY <1>3 DEF on_bar_received, degrade, record_clean_bar, FeedTypeOK
    <2> QED BY <2>1 DEF CountedFor, JoinedFor
  <1>4. CASE s = t /\ quality[s] # "FAILED"
    <2>1. /\ lastBar'[s] = min /\ handled'[s] = handled[s] \cup {min}
          /\ late'[s] = IF lag THEN min ELSE late[s]
      BY <1>4 DEF on_bar_received, FeedTypeOK
    <2>2. CASE lag \/ bar_gap(s, min)
      BY <1>4, <2>1, <2>2, DegradeSound DEF on_bar_received
    <2>3. CASE ~(lag \/ bar_gap(s, min))
      BY <1>1, <1>4, <2>1, <2>3, CleanBarSound DEF on_bar_received
    <2> QED BY <2>2, <2>3
  <1> QED BY <1>2, <1>3, <1>4

LEMMA QualityStep ==
  FeedTypeOK /\ FeedTypeOK' /\ Orderly /\ Counted /\ Joined /\ [Next]_vars => Counted' /\ Joined'
  <1> SUFFICES ASSUME FeedTypeOK, FeedTypeOK', Orderly, Counted, Joined, [Next]_vars
               PROVE  Counted' /\ Joined'
    OBVIOUS
  <1>kept. ASSUME UNCHANGED <<quality, clean, lastBar, handled, late>> PROVE Counted' /\ Joined'
    BY <1>kept DEF Counted, Joined, Span, After
  <1>1. ASSUME NEW s \in Symbols, Announce(s) \/ MinuteBar(s) \/ Tick(s) PROVE Counted' /\ Joined'
    BY <1>1, <1>kept DEF Announce, MinuteBar, Tick, monitorVars
  <1>2. ASSUME NEW S \in SUBSET Symbols, Skipped(S) PROVE Counted' /\ Joined'
    BY <1>2, <1>kept DEF Skipped, monitorVars
  <1>3. ASSUME NEW ok \in BOOLEAN, LinkLost \/ reconnect(ok) \/ disconnect PROVE Counted' /\ Joined'
    BY <1>3, <1>kept DEF LinkLost, reconnect, disconnect, monitorVars
  <1>4. ASSUME NEW lag \in BOOLEAN, Dispatch(lag) PROVE Counted' /\ Joined'
    <2> DEFINE rec == Head(ingress)
    <2>1. rec \in Records /\ rec = ingress[1] /\ 1 \in DOMAIN ingress
      <3>1. ingress # <<>> /\ ingress \in Seq(Records)
        BY <1>4 DEF Dispatch, FeedTypeOK
      <3> QED BY <3>1, HeadTail
    <2>2. CASE UNCHANGED <<quality, clean, lastBar, handled, late>>
      BY <2>2, <1>kept
    <2>3. CASE on_skipped_records
      BY <2>3 DEF on_skipped_records, Counted, Joined
    <2>4. CASE rec.kind = "bar" /\ rec.sym \in mapped /\ on_bar_received(rec.sym, rec.min, lag)
      <3>1. rec.sym \in Symbols /\ rec.min \in Minutes /\ IsBar(ingress, 1, rec.sym)
        BY <2>1, <2>4, RecordTypes DEF IsBar
      <3>2. lastBar[rec.sym] < rec.min
        BY <2>1, <3>1 DEF Orderly
      <3> QED BY <2>4, <3>1, <3>2, BarSound
    <2>5. \/ UNCHANGED <<quality, clean, lastBar, handled, late>>
          \/ on_skipped_records
          \/ rec.kind = "bar" /\ rec.sym \in mapped /\ on_bar_received(rec.sym, rec.min, lag)
      BY <1>4 DEF Dispatch, handle_symbol_mapping, dispatch_tick, on_trade_or_quote,
                  dispatch_bar, on_bar, monitorVars
    <2> QED BY <2>2, <2>3, <2>4, <2>5
  <1>5. CASE check_health
    <2> SUFFICES ASSUME NEW s \in Symbols PROVE CountedFor(s)' /\ JoinedFor(s)'
      BY DEF Counted, Joined, CountedFor, JoinedFor
    <2>1. /\ lastBar' = lastBar /\ handled' = handled /\ late' = late
          /\ \/ quality'[s] = "FAILED"
             \/ quality[s] = "CLEAN" /\ quality'[s] = "DEGRADED" /\ clean'[s] = 0
             \/ quality'[s] = quality[s] /\ clean'[s] = clean[s]
      BY <1>5 DEF check_health
    <2>2. CASE quality'[s] = "FAILED"
      BY <2>2 DEF CountedFor, JoinedFor
    <2>3. CASE quality[s] = "CLEAN" /\ quality'[s] = "DEGRADED" /\ clean'[s] = 0
      <3>1. Span(s)' = 0
        BY <2>3 DEF Span
      <3>2. After(s)' = After(s) /\ Cardinality(After(s)) \in Nat
        BY <2>1, AfterFinite DEF After
      <3>3. lastBar[s] \in Int /\ handled[s] \subseteq 1 .. lastBar[s]
        BY DEF FeedTypeOK, Orderly
      <3>4. JoinedFor(s)'
        <4>1. lastBar[s] \in lastBar[s] - Span(s) .. lastBar[s]
          BY <2>3, <3>3, FeedConstants DEF Span
        <4>2. (\E first \in handled[s] : first <= lastBar[s]) => lastBar[s] \in handled[s]
          BY <2>3, <4>1 DEF Joined
        <4> QED BY <2>1, <3>1, <3>3, <4>2 DEF JoinedFor
      <3> QED BY <2>1, <3>1, <3>2, <3>4 DEF CountedFor
    <2>4. CASE quality'[s] = quality[s] /\ clean'[s] = clean[s]
      BY <2>1, <2>4 DEF Counted, Joined, CountedFor, JoinedFor, Span, After
    <2> QED BY <2>1, <2>2, <2>3, <2>4
  <1>6. CASE Elapse
    BY <1>6, <1>kept DEF Elapse, feedVars
  <1>7. CASE SessionBoundary
    BY <1>7, <1>kept DEF SessionBoundary, feedVars, monitorVars
  <1>8. CASE UNCHANGED vars
    BY <1>8, <1>kept DEF vars, feedVars, monitorVars
  <1> QED BY <1>1, <1>2, <1>3, <1>4, <1>5, <1>6, <1>7, <1>8 DEF Next

-----------------------------------------------------------------------------
(* Theorems *)

LEMMA IInvStep == IInv /\ [Next]_vars => IInv'
  BY TypeStep, OrderlyStep, QualityStep DEF IInv

LEMMA InvSound == IInv => SignalsNeedSoundBars
  <1> SUFFICES ASSUME IInv PROVE SignalsNeedUnbrokenBars /\ SignalsNeedTimelyBars
    BY DEF IInv, SignalsNeedSoundBars
  <1>1. \A s \in Symbols : is_signal_allowed(s) => Span(s) = CleanBarsNeeded /\ quality[s] # "FAILED"
    BY DEF is_signal_allowed, Span
  <1>2. SignalsNeedUnbrokenBars
    BY <1>1 DEF IInv, Joined, SignalsNeedUnbrokenBars
  <1>3. SignalsNeedTimelyBars
    BY <1>1 DEF IInv, Counted, After, SignalsNeedTimelyBars
  <1> QED BY <1>2, <1>3

\* A failed symbol stays failed through every step: degrade() and _record_clean_bar()
\* leave FAILED alone, and the skipped records and the health check only ever fail more.
LEMMA StickyStep ==
  ASSUME FeedTypeOK, [Next]_vars, NEW s \in Symbols, quality[s] = "FAILED"
  PROVE  quality'[s] = "FAILED"
  <1>1. ASSUME NEW t \in Symbols, NEW min, NEW lag, on_bar_received(t, min, lag)
        PROVE  quality'[s] = "FAILED"
    BY <1>1 DEF on_bar_received, degrade, record_clean_bar, FeedTypeOK
  <1>2. ASSUME NEW lag \in BOOLEAN, Dispatch(lag) PROVE quality'[s] = "FAILED"
    <2>1. Head(ingress) \in Records
      BY <1>2, HeadTail DEF Dispatch
    <2>2. CASE Head(ingress).kind = "bar" /\ dispatch_bar(Head(ingress).sym, Head(ingress).min, lag)
      BY <1>1, <2>1, <2>2, RecordTypes DEF dispatch_bar, on_bar, monitorVars
    <2>3. CASE quality' = quality \/ on_skipped_records
      BY <2>3 DEF on_skipped_records
    <2>4. \/ quality' = quality
          \/ on_skipped_records
          \/ Head(ingress).kind = "bar" /\ dispatch_bar(Head(ingress).sym, Head(ingress).min, lag)
      BY <1>2 DEF Dispatch, handle_symbol_mapping, dispatch_tick, on_trade_or_quote, monitorVars
    <2> QED BY <2>2, <2>3, <2>4
  <1>3. CASE check_health
    BY <1>3 DEF check_health
  <1>4. CASE UNCHANGED quality
    BY <1>4
  <1>5. \/ \E lag \in BOOLEAN : Dispatch(lag)
        \/ check_health
        \/ UNCHANGED quality
    BY DEF Next, Announce, MinuteBar, Tick, Skipped, LinkLost, reconnect, disconnect, Elapse,
           SessionBoundary, vars, monitorVars
  <1> QED BY <1>2, <1>3, <1>4, <1>5

\* The ingress queue never outgrows _INGRESS_QUEUE_MAXSIZE, consecutive_clean stays below
\* _CLEAN_BARS_NEEDED and every field keeps its type, whatever the record thread and the
\* consumer do.
THEOREM FeedTypeCorrect == Spec => []FeedTypeOK
  <1>1. IInv => FeedTypeOK
    BY DEF IInv
  <1> QED BY InitIInv, IInvStep, <1>1, PTL DEF Spec

\* is_signal_allowed() is true only on an unbroken run of bars that came in time, for any
\* number of symbols and bars, any queue size and any _CLEAN_BARS_NEEDED.
THEOREM SoundSignals == Spec => []SignalsNeedSoundBars
  BY InitIInv, IInvStep, InvSound, PTL DEF Spec

\* No bar, reconnect or health check brings a FAILED symbol back.
THEOREM FailedStays == Spec => FailedIsSticky
  <1>1. FeedTypeOK /\ [Next]_vars => [\A s \in Symbols : quality[s] = "FAILED" => quality'[s] = "FAILED"]_vars
    BY StickyStep
  <1> QED BY FeedTypeCorrect, <1>1, PTL DEF Spec, FailedIsSticky

-----------------------------------------------------------------------------
(* From the feed to the flow of a bar: the inductive invariant *)

\* Minutes the feed has completed, and the first one whose bar is still to be sealed.
MinutesDone == second \div Len(Offsets)
NextMinute  == IF window.open = None THEN 0 ELSE window.open \div 60

SecondsInv ==
  /\ IsSeq(seconds) /\ Len(seconds) = second % Len(Offsets)
  /\ \A i \in DOMAIN seconds : MinuteOf(seconds[i].at) = 60 * MinutesDone

IsM1(i) == aggBars[i].kind = "M1"

\* The queue holds each minute's bar that is neither lost nor sealed, in order.
BarsInv ==
  /\ IsSeq(aggBars) /\ IsSeq(aggTrades) /\ IsSeq(thesisTrades) /\ IsSeq(vol_history)
  /\ \A i \in DOMAIN aggTrades : aggTrades[i].at \in Nat
  /\ \A i \in DOMAIN aggBars : IsM1(i) =>
       \E k \in NextMinute .. MinutesDone - 1 : aggBars[i].at = 60 * k
  /\ \A i, j \in DOMAIN aggBars : i < j /\ IsM1(i) /\ IsM1(j) => aggBars[i].at < aggBars[j].at
  /\ \A k \in NextMinute .. MinutesDone - 1 :
       60 * k \in lost \/ \E i \in DOMAIN aggBars : IsM1(i) /\ aggBars[i].at = 60 * k

\* The window is the minute after the last bar sealed, and so are its trades.
WindowInv ==
  /\ window = [open |-> window.open, trades |-> window.trades, s1 |-> window.s1]
  /\ \/ window.open = None /\ window.trades = << >>
     \/ window.open = 60 * NextMinute
  /\ NextMinute \in 0 .. MinutesDone
  /\ IsSeq(window.trades)
  /\ \A i \in DOMAIN window.trades : MinuteOf(window.trades[i].at) = window.open

\* Bundles are emitted in the order of their minutes, with trades from after the
\* bundle before.
EmittedInv ==
  /\ IsSeq(emitted)
  /\ \A i \in DOMAIN emitted :
       /\ emitted[i].flow.known \in BOOLEAN
       /\ emitted[i].at \in Nat /\ emitted[i].at < window.open
  /\ \A i, j \in DOMAIN emitted : i < j =>
       \A n \in DOMAIN emitted[j].flow.from :
         emitted[i].at < MinuteOf(emitted[j].flow.from[n].at)
  /\ \A i \in DOMAIN emitted : \A n \in DOMAIN emitted[i].flow.from :
       MinuteOf(emitted[i].flow.from[n].at) \in Nat
  /\ FlowIsNotAhead

\* A trade handled in its minute's window is in that window or in a bundle.
InTimeInv ==
  \A t \in inTime :
    \/ \E n \in DOMAIN window.trades : window.trades[n] = t
    \/ \E i \in DOMAIN emitted : \E n \in DOMAIN emitted[i].flow.from : emitted[i].flow.from[n] = t

FlowInv == FlowTypeOK /\ SecondsInv /\ BarsInv /\ WindowInv /\ EmittedInv /\ InTimeInv

-----------------------------------------------------------------------------
(* The clock *)

\* A minute as the multiple of sixty seconds it begins at.
LEMMA Minute60 ==
  ASSUME NEW k \in Nat
  PROVE  (60 * k) \div 60 = k /\ (60 * k) % 60 = 0
<1>1. 0 \in 0 .. 60 - 1 /\ 60 \in Nat \ {0}
  OBVIOUS
<1>2. ((60 * k) + 0) \div 60 = k /\ ((60 * k) + 0) % 60 = 0
  BY <1>1, DivMod
<1> QED  BY <1>2

\* The minute a time is in.
LEMMA MinuteHolds ==
  ASSUME NEW at \in Nat
  PROVE  /\ MinuteOf(at) \in Nat /\ MinuteOf(at) <= at /\ at < MinuteOf(at) + 60
         /\ \A k \in Nat : 60 * k <= at /\ at < (60 * k) + 60 <=> MinuteOf(at) = 60 * k
         /\ \E k \in Nat : MinuteOf(at) = 60 * k
<1>1. at \div 60 \in Nat /\ at % 60 \in 0 .. 59 /\ at = (60 * (at \div 60)) + (at % 60)
  BY QuotientRemainder
<1> DEFINE q == at \div 60
           r == at % 60
<1>2. q \in Nat /\ r \in 0 .. 59 /\ at = (60 * q) + r /\ MinuteOf(at) = 60 * q
  BY <1>1 DEF MinuteOf
<1> HIDE DEF q, r
<1> QED  BY <1>2

\* The time of a second, and what the next one completes.
LEMMA SecondOf ==
  ASSUME NEW n \in Nat
  PROVE  /\ TimeOf(n) \in Nat /\ MinuteOf(TimeOf(n)) = 60 * (n \div Len(Offsets))
         /\ n \div Len(Offsets) \in Nat /\ n % Len(Offsets) \in 0 .. Len(Offsets) - 1
         /\ IF (n + 1) % Len(Offsets) = 0
            THEN (n + 1) \div Len(Offsets) = (n \div Len(Offsets)) + 1
            ELSE /\ (n + 1) \div Len(Offsets) = n \div Len(Offsets)
                 /\ (n + 1) % Len(Offsets) = (n % Len(Offsets)) + 1
<1> DEFINE l == Len(Offsets)
           q == n \div l
           r == n % l
<1>1. l \in Nat \ {0} /\ \A i \in 1 .. l : Offsets[i] \in 0 .. 59
  <2> DEFINE D == 0 .. 59
  <2>1. Offsets \in Seq(D) /\ Offsets # << >>
    BY FlowAssumption
  <2> HIDE DEF D
  <2>2. l \in Nat \ {0} /\ \A i \in 1 .. l : Offsets[i] \in D
    BY <2>1
  <2> QED  BY <2>2 DEF D
<1> HIDE DEF l
<1>2. q \in Nat /\ r \in 0 .. l - 1 /\ n = (l * q) + r
  <2>1. q \in 0 .. n /\ r \in 0 .. l - 1 /\ n = (l * q) + r
    BY <1>1, QuotientRemainder, Zenon
  <2> QED  BY <2>1
<1> HIDE DEF q, r
<1>3. r + 1 \in 1 .. l
  BY <1>1, <1>2
<1>4. /\ TimeOf(n) = (q * 60) + Offsets[r + 1]
      /\ Offsets[r + 1] \in 0 .. 59
  BY <1>1, <1>3 DEF TimeOf, l, q, r
<1>5. TimeOf(n) \in Nat /\ 60 * q <= TimeOf(n) /\ TimeOf(n) < (60 * q) + 60
  BY <1>2, <1>4
<1>6. MinuteOf(TimeOf(n)) = 60 * q
  BY <1>2, <1>5, MinuteHolds
<1>7. CASE r = l - 1
  <2>1. l * (q + 1) = (l * q) + l
    BY <1>1, <1>2, SMTT(30)
  <2> DEFINE lq == l * q
  <2>2. lq \in Int
    BY <1>1, <1>2
  <2>3. n = lq + r /\ l * (q + 1) = lq + l
    BY <1>2, <2>1
  <2> HIDE DEF lq
  <2>4. n + 1 = (l * (q + 1)) + 0 /\ 0 \in 0 .. l - 1 /\ q + 1 \in Nat
    BY <1>1, <1>2, <1>7, <2>2, <2>3
  <2>5. (n + 1) \div l = q + 1 /\ (n + 1) % l = 0
    <3>1. ((l * (q + 1)) + 0) \div l = q + 1 /\ ((l * (q + 1)) + 0) % l = 0
      BY <1>1, <2>4, DivMod, Zenon
    <3> QED  BY <2>4, <3>1
  <2> QED  BY <1>2, <1>5, <1>6, <2>5 DEF l, q, r
<1>8. CASE r # l - 1
  <2> DEFINE lq == l * q
  <2>1. lq \in Int /\ n = lq + r
    BY <1>1, <1>2
  <2> HIDE DEF lq
  <2>2. n + 1 = lq + (r + 1) /\ r + 1 \in 0 .. l - 1 /\ r + 1 # 0
    BY <1>1, <1>2, <1>8, <2>1
  <2>3. (n + 1) \div l = q /\ (n + 1) % l = r + 1
    <3>1. n + 1 = (l * q) + (r + 1)
      BY <2>2 DEF lq
    <3>2. ((l * q) + (r + 1)) \div l = q /\ ((l * q) + (r + 1)) % l = r + 1
      BY <1>1, <1>2, <2>2, DivMod, Zenon
    <3> QED  BY <3>1, <3>2
  <2> QED  BY <1>2, <1>5, <1>6, <2>2, <2>3 DEF l, q, r
<1> QED  BY <1>7, <1>8


-----------------------------------------------------------------------------
(* The aggregator's steps *)

LEMMA FlowInvInit == FlowInit => FlowInv
<1> SUFFICES ASSUME FlowInit PROVE FlowInv
  OBVIOUS
<1>1. MinutesDone = 0 /\ 0 % Len(Offsets) = 0 /\ NextMinute = 0
  <2>1. Len(Offsets) \in Nat \ {0} /\ 0 \in Nat
    <3> DEFINE D == 0 .. 59
    <3>1. Offsets \in Seq(D) /\ Offsets # << >>
      BY FlowAssumption
    <3> HIDE DEF D
    <3> QED  BY <3>1
  <2>2. 0 \div Len(Offsets) \in 0 .. 0 /\ 0 % Len(Offsets) \in 0 .. Len(Offsets) - 1
        /\ 0 = (Len(Offsets) * (0 \div Len(Offsets))) + (0 % Len(Offsets))
    BY <2>1, QuotientRemainder, Zenon
  <2>3. 0 \div Len(Offsets) = 0
    BY <2>2
  <2>4. 0 % Len(Offsets) = 0
    BY <2>1, <2>2, <2>3
  <2> QED  BY <2>3, <2>4 DEF FlowInit, MinutesDone, NextMinute, NoWindow
<1>2. FlowTypeOK
  BY SeqShort, FlowAssumption DEF FlowInit, FlowTypeOK, NoWindow
<1>3. SecondsInv
  BY <1>1, SeqShort DEF FlowInit, SecondsInv
<1>4. BarsInv
  BY <1>1, SeqShort DEF FlowInit, BarsInv
<1>5. WindowInv
  BY <1>1, SeqShort DEF FlowInit, WindowInv, NoWindow
<1>6. EmittedInv
  BY SeqShort DEF FlowInit, EmittedInv, FlowIsNotAhead
<1>7. InTimeInv
  BY DEF FlowInit, InTimeInv
<1> QED  BY <1>2, <1>3, <1>4, <1>5, <1>6, <1>7 DEF FlowInv

\* The open window is that of a time exactly if it is the time's minute.
LEMMA WindowOf ==
  ASSUME WindowInv, NEW at \in Nat
  PROVE  in_window(at) <=> window.open = MinuteOf(at)
<1>1. MinuteOf(at) \in Nat /\ None \notin Nat
  BY MinuteHolds DEF None
<1>2. CASE window.open = None
  BY <1>1, <1>2 DEF in_window
<1>3. CASE window.open # None
  <2>1. window.open = 60 * NextMinute /\ NextMinute \in Nat
    BY <1>3 DEF WindowInv
  <2>2. 60 * NextMinute <= at /\ at < (60 * NextMinute) + 60 <=> MinuteOf(at) = 60 * NextMinute
    BY <2>1, MinuteHolds
  <2> QED  BY <1>3, <2>1, <2>2 DEF in_window
<1> QED  BY <1>2, <1>3

\* A trade goes into the window of its minute, or nowhere.
LEMMA TradeStep == FlowInv /\ on_trade => FlowInv'
<1> SUFFICES ASSUME FlowInv, on_trade PROVE FlowInv'
  OBVIOUS
<1> USE DEF FlowInv
<1> DEFINE t == Head(aggTrades)
           kept == Append(window.trades, t)
<1>1. /\ aggTrades # << >> /\ IsSeq(aggTrades) /\ IsSeq(window.trades)
      /\ \A i \in DOMAIN aggTrades : aggTrades[i].at \in Nat
  BY DEF on_trade, BarsInv, WindowInv
<1>2. /\ aggTrades' = Tail(aggTrades)
      /\ window' = IF in_window(t.at) THEN [window EXCEPT !.trades = kept] ELSE window
      /\ inTime' = IF window.open = MinuteOf(t.at) THEN inTime \cup {t} ELSE inTime
      /\ UNCHANGED <<second, seconds, lost, aggBars, thesisTrades, vol_history, emitted>>
  BY DEF on_trade
<1>3. t.at \in Nat /\ IsSeq(aggTrades') /\ Len(aggTrades') <= Len(aggTrades)
      /\ \A i \in DOMAIN aggTrades' : aggTrades'[i].at \in Nat
  <2>1. /\ IsSeq(Tail(aggTrades)) /\ Len(aggTrades) >= 1 /\ Len(Tail(aggTrades)) = Len(aggTrades) - 1
        /\ t = aggTrades[1] /\ DOMAIN aggTrades = 1 .. Len(aggTrades)
        /\ DOMAIN Tail(aggTrades) = 1 .. Len(aggTrades) - 1
        /\ \A i \in 1 .. Len(aggTrades) - 1 : Tail(aggTrades)[i] = aggTrades[i + 1]
    BY <1>1, SeqTail
  <2>2. Len(aggTrades) \in Nat
    BY <1>1, SeqShape
  <2> HIDE DEF t
  <2> QED  BY <1>1, <1>2, <2>1, <2>2
<1>4. in_window(t.at) <=> window.open = MinuteOf(t.at)
  BY <1>3, WindowOf
<1>5. /\ IsSeq(kept) /\ DOMAIN kept = 1 .. Len(window.trades) + 1 /\ Len(window.trades) \in Nat
      /\ DOMAIN window.trades = 1 .. Len(window.trades)
      /\ \A i \in 1 .. Len(window.trades) + 1 :
           kept[i] = IF i = Len(window.trades) + 1 THEN t ELSE window.trades[i]
  BY <1>1, SeqAppend, SeqShape
<1> HIDE DEF t, kept
<1>6. /\ window'.open = window.open /\ NextMinute' = NextMinute /\ MinutesDone' = MinutesDone
      /\ window' = [open |-> window'.open, trades |-> window'.trades, s1 |-> window'.s1]
      /\ window'.trades = IF in_window(t.at) THEN kept ELSE window.trades
  <2>1. window = [open |-> window.open, trades |-> window.trades, s1 |-> window.s1]
    BY DEF WindowInv
  <2>2. /\ window'.open = window.open
        /\ window' = [open |-> window'.open, trades |-> window'.trades, s1 |-> window'.s1]
        /\ window'.trades = IF in_window(t.at) THEN kept ELSE window.trades
    BY <1>2, <2>1
  <2> QED  BY <1>2, <2>2 DEF NextMinute, MinutesDone
<1>7. FlowTypeOK'
  <2>1. Len(aggTrades') <= QueueSize
    <3>1. Len(aggTrades) <= QueueSize /\ Len(aggTrades) \in Nat /\ Len(aggTrades') \in Nat
      BY <1>1, <1>3, SeqShape DEF FlowTypeOK
    <3> QED  BY <1>3, <3>1, FlowAssumption
  <2> QED  BY <1>2, <1>6, <2>1 DEF FlowTypeOK
<1>8. SecondsInv'
  BY <1>2, <1>6 DEF SecondsInv
<1>9. BarsInv'
  BY <1>2, <1>3, <1>6 DEF BarsInv, IsM1
<1>10. WindowInv'
  <2>1. IsSeq(window'.trades)
    BY <1>1, <1>5, <1>6
  <2>2. \A i \in DOMAIN window'.trades : MinuteOf(window'.trades[i].at) = window.open
    BY <1>4, <1>5, <1>6 DEF WindowInv
  <2>3. window.open = None /\ window.trades = << >> => window'.trades = << >>
    BY <1>6 DEF in_window
  <2> QED  BY <1>6, <2>1, <2>2, <2>3 DEF WindowInv
<1>11. EmittedInv'
  BY <1>2, <1>6 DEF EmittedInv, FlowIsNotAhead
<1>12. InTimeInv'
  <2>1. \A s : (\E n \in DOMAIN window.trades : window.trades[n] = s)
               => \E n \in DOMAIN window'.trades : window'.trades[n] = s
    BY <1>5, <1>6
  <2>2. window.open = MinuteOf(t.at) => \E n \in DOMAIN window'.trades : window'.trades[n] = t
    <3>1. kept[Len(window.trades) + 1] = t /\ Len(window.trades) + 1 \in DOMAIN kept
      BY <1>5
    <3> QED  BY <1>4, <1>6, <3>1
  <2> SUFFICES ASSUME NEW s \in inTime'
               PROVE  \/ \E n \in DOMAIN window'.trades : window'.trades[n] = s
                      \/ \E i \in DOMAIN emitted : \E n \in DOMAIN emitted[i].flow.from :
                           emitted[i].flow.from[n] = s
    BY <1>2, Zenon DEF InTimeInv
  <2>3. CASE s \in inTime
    BY <2>1, <2>3, Zenon DEF InTimeInv
  <2>4. CASE s \notin inTime
    <3>1. s = t /\ window.open = MinuteOf(t.at)
      BY <1>2, <2>4
    <3> QED  BY <2>2, <3>1
  <2> QED  BY <2>3, <2>4
<1> QED  BY <1>7, <1>8, <1>9, <1>10, <1>11, <1>12


\* A one-second bar leaves the minutes' bars as they are.
LEMMA SecondBarStep == FlowInv /\ on_s1_bar => FlowInv'
<1> SUFFICES ASSUME FlowInv, on_s1_bar PROVE FlowInv'
  OBVIOUS
<1> USE DEF FlowInv
<1> DEFINE b == Head(aggBars)
<1>1. aggBars # << >> /\ IsSeq(aggBars) /\ b.kind = "S1"
  BY DEF on_s1_bar, BarsInv
<1>2. /\ aggBars' = Tail(aggBars)
      /\ window' = IF in_window(b.at) THEN [window EXCEPT !.s1 = Append(@, b)] ELSE window
      /\ UNCHANGED <<second, seconds, lost, aggTrades, thesisTrades, vol_history, emitted, inTime>>
  BY DEF on_s1_bar
<1>3. /\ IsSeq(Tail(aggBars)) /\ Len(aggBars) >= 1 /\ Len(Tail(aggBars)) = Len(aggBars) - 1
      /\ b = aggBars[1] /\ DOMAIN aggBars = 1 .. Len(aggBars)
      /\ DOMAIN Tail(aggBars) = 1 .. Len(aggBars) - 1
      /\ \A i \in 1 .. Len(aggBars) - 1 : Tail(aggBars)[i] = aggBars[i + 1]
      /\ Len(aggBars) \in Nat
  BY <1>1, SeqTail, SeqShape
<1> HIDE DEF b
<1>4. /\ window'.open = window.open /\ NextMinute' = NextMinute /\ MinutesDone' = MinutesDone
      /\ window' = [open |-> window'.open, trades |-> window'.trades, s1 |-> window'.s1]
      /\ window'.trades = window.trades
  <2>1. window = [open |-> window.open, trades |-> window.trades, s1 |-> window.s1]
    BY DEF WindowInv
  <2>2. /\ window'.open = window.open /\ window'.trades = window.trades
        /\ window' = [open |-> window'.open, trades |-> window'.trades, s1 |-> window'.s1]
    BY <1>2, <2>1
  <2> QED  BY <1>2, <2>2 DEF NextMinute, MinutesDone
<1>5. FlowTypeOK'
  BY <1>2, <1>4 DEF FlowTypeOK
<1>6. SecondsInv'
  BY <1>2, <1>4 DEF SecondsInv
<1>7. BarsInv'
  <2>1. \A i \in DOMAIN aggBars' : i + 1 \in DOMAIN aggBars /\ aggBars'[i] = aggBars[i + 1]
                                   /\ IsM1(i)' = IsM1(i + 1)
    BY <1>2, <1>3 DEF IsM1
  <2>2. \A i \in DOMAIN aggBars : IsM1(i) =>
          \E j \in DOMAIN aggBars' : aggBars'[j] = aggBars[i] /\ IsM1(j)'
    <3> SUFFICES ASSUME NEW i \in DOMAIN aggBars, IsM1(i)
                 PROVE  \E j \in DOMAIN aggBars' : aggBars'[j] = aggBars[i] /\ IsM1(j)'
      OBVIOUS
    <3>1. i # 1
      BY <1>1, <1>3 DEF IsM1
    <3>2. i - 1 \in DOMAIN aggBars' /\ (i - 1) + 1 = i
      BY <1>2, <1>3, <3>1
    <3>3. aggBars'[i - 1] = aggBars[i]
      BY <2>1, <3>2
    <3> QED  BY <3>2, <3>3 DEF IsM1
  <2>3. \A i, j \in DOMAIN aggBars' : i < j => i + 1 < j + 1
    BY <1>2, <1>3
  <2>4. \A i \in DOMAIN aggBars' : IsM1(i)' =>
          \E k \in NextMinute .. MinutesDone - 1 : aggBars'[i].at = 60 * k
    BY <2>1 DEF BarsInv
  <2>5. \A i, j \in DOMAIN aggBars' : i < j /\ IsM1(i)' /\ IsM1(j)' => aggBars'[i].at < aggBars'[j].at
    BY <2>1, <2>3 DEF BarsInv
  <2>6. \A k \in NextMinute .. MinutesDone - 1 :
          60 * k \in lost \/ \E i \in DOMAIN aggBars' : IsM1(i)' /\ aggBars'[i].at = 60 * k
    <3> SUFFICES ASSUME NEW k \in NextMinute .. MinutesDone - 1, 60 * k \notin lost
                 PROVE  \E i \in DOMAIN aggBars' : IsM1(i)' /\ aggBars'[i].at = 60 * k
      OBVIOUS
    <3>1. PICK i \in DOMAIN aggBars : IsM1(i) /\ aggBars[i].at = 60 * k
      BY DEF BarsInv
    <3> QED  BY <2>2, <3>1
  <2> QED  BY <1>2, <1>3, <1>4, <2>4, <2>5, <2>6 DEF BarsInv
<1>8. WindowInv'
  BY <1>4 DEF WindowInv
<1>9. EmittedInv'
  BY <1>2, <1>4 DEF EmittedInv, FlowIsNotAhead
<1>10. InTimeInv'
  BY <1>2, <1>4 DEF InTimeInv
<1> QED  BY <1>5, <1>6, <1>7, <1>8, <1>9, <1>10

\* The thesis engine and the pipeline only take from their own queues.
LEMMA ConsumerStep == FlowInv /\ (thesis_handle_trade \/ process_bundle) => FlowInv'
<1> SUFFICES ASSUME FlowInv, thesis_handle_trade \/ process_bundle PROVE FlowInv'
  OBVIOUS
<1> USE DEF FlowInv
<1>1. /\ UNCHANGED <<second, seconds, lost, aggTrades, aggBars, window, vol_history, emitted, inTime>>
      /\ IsSeq(thesisTrades') /\ Len(thesisTrades') <= QueueSize
  <2>1. CASE thesis_handle_trade
    <3>1. thesisTrades # << >> /\ thesisTrades' = Tail(thesisTrades) /\ IsSeq(thesisTrades)
      BY <2>1 DEF thesis_handle_trade, BarsInv
    <3>2. IsSeq(thesisTrades') /\ Len(thesisTrades') = Len(thesisTrades) - 1 /\ Len(thesisTrades) \in Nat
      BY <3>1, SeqTail, SeqShape
    <3>3. Len(thesisTrades) <= QueueSize /\ QueueSize \in Nat
      BY FlowAssumption DEF FlowTypeOK
    <3>4. Len(thesisTrades') <= QueueSize
      BY <3>2, <3>3
    <3> QED  BY <2>1, <3>2, <3>4 DEF thesis_handle_trade
  <2>2. CASE process_bundle
    BY <2>2 DEF process_bundle, BarsInv, FlowTypeOK
  <2> QED  BY <2>1, <2>2
<1>2. NextMinute' = NextMinute /\ MinutesDone' = MinutesDone
  BY <1>1 DEF NextMinute, MinutesDone
<1>3. FlowTypeOK'
  BY <1>1 DEF FlowTypeOK
<1>4. SecondsInv' /\ WindowInv'
  BY <1>1, <1>2 DEF SecondsInv, WindowInv
<1>5. BarsInv'
  BY <1>1, <1>2 DEF BarsInv, IsM1
<1>6. EmittedInv' /\ InTimeInv'
  BY <1>1 DEF EmittedInv, FlowIsNotAhead, InTimeInv
<1> QED  BY <1>3, <1>4, <1>5, <1>6


\* The flow of a bundle is of the open window's trades.
LEMMA FlowOfWindow ==
  ASSUME WindowInv, NEW bar
  PROVE  /\ build_flow_context(window, bar).known \in BOOLEAN
         /\ build_flow_context(window, bar).from = window.trades
<1>1. window.open = None => window.trades = << >>
  <2>1. None \notin Nat /\ 60 * NextMinute \in Nat
    BY DEF None, WindowInv
  <2> QED  BY <2>1 DEF WindowInv
<1> QED  BY <1>1 DEF build_flow_context

\* A minute's bar seals the open window: the window is of its minute, or of an
\* earlier one whose bar was lost.
LEMMA SealStep == FlowInv /\ seal_and_emit => FlowInv'
<1> SUFFICES ASSUME FlowInv, seal_and_emit PROVE FlowInv'
  OBVIOUS
<1> USE DEF FlowInv
<1> DEFINE bar    == Head(aggBars)
           flow   == build_flow_context(window, bar)
           bundle == [at |-> bar.at, flow |-> flow]
<1>1. aggBars # << >> /\ IsSeq(aggBars) /\ bar.kind = "M1" /\ IsSeq(emitted) /\ IsSeq(vol_history)
  BY DEF seal_and_emit, BarsInv, EmittedInv
<1>2. /\ aggBars' = Tail(aggBars)
      /\ vol_history' = update_vol_history(bar.volume)
      /\ window' = [NoWindow EXCEPT !.open = next_open(bar)]
      /\ emitted' = Append(emitted, bundle)
      /\ UNCHANGED <<second, seconds, lost, aggTrades, thesisTrades, inTime>>
  BY DEF seal_and_emit
<1>3. /\ IsSeq(Tail(aggBars)) /\ Len(aggBars) >= 1 /\ Len(Tail(aggBars)) = Len(aggBars) - 1
      /\ bar = aggBars[1] /\ DOMAIN aggBars = 1 .. Len(aggBars)
      /\ DOMAIN Tail(aggBars) = 1 .. Len(aggBars) - 1
      /\ \A i \in 1 .. Len(aggBars) - 1 : Tail(aggBars)[i] = aggBars[i + 1]
      /\ Len(aggBars) \in Nat
  BY <1>1, SeqTail, SeqShape
<1>4. flow.known \in BOOLEAN /\ flow.from = window.trades
  BY FlowOfWindow
<1> HIDE DEF flow
<1>5. bundle.at = bar.at /\ bundle.flow = flow
  OBVIOUS
<1> HIDE DEF bundle
<1>6. /\ IsSeq(emitted') /\ DOMAIN emitted = 1 .. Len(emitted) /\ Len(emitted) \in Nat
      /\ DOMAIN emitted' = 1 .. Len(emitted) + 1
      /\ \A i \in 1 .. Len(emitted) + 1 :
           emitted'[i] = IF i = Len(emitted) + 1 THEN bundle ELSE emitted[i]
  BY <1>1, <1>2, SeqAppend, SeqShape
<1>7. PICK k \in NextMinute .. MinutesDone - 1 : bar.at = 60 * k
  BY <1>1, <1>3 DEF BarsInv, IsM1
<1> HIDE DEF bar
<1>8. NextMinute \in Nat /\ MinutesDone \in Int /\ k \in Nat /\ NextMinute <= k /\ k < MinutesDone
  <2>1. NextMinute \in 0 .. MinutesDone
    BY DEF WindowInv
  <2>2. MinutesDone \in Int
    BY SecondOf, FlowAssumption DEF MinutesDone, FlowTypeOK
  <2> QED  BY <1>7, <2>1, <2>2
<1>9. /\ window' = [open |-> 60 * (k + 1), trades |-> << >>, s1 |-> << >>]
      /\ NextMinute' = k + 1 /\ MinutesDone' = MinutesDone
  <2>1. next_open(bar) = 60 * (k + 1)
    BY <1>7, <1>8 DEF next_open
  <2>2. window' = [open |-> 60 * (k + 1), trades |-> << >>, s1 |-> << >>]
    BY <1>2, <2>1 DEF NoWindow
  <2>3. (60 * (k + 1)) \div 60 = k + 1 /\ 60 * (k + 1) # None
    BY <1>8, Minute60 DEF None
  <2>4. window'.open = 60 * (k + 1)
    BY <2>2
  <2>5. NextMinute' = k + 1
    BY <2>3, <2>4 DEF NextMinute
  <2> QED  BY <1>2, <2>2, <2>5 DEF MinutesDone
<1>10. window.open = None \/ (window.open = 60 * NextMinute /\ window.open <= bar.at)
  BY <1>7, <1>8 DEF WindowInv
\* A minute between the window's and the bar's was lost: its bar would come first.
<1>11. \A m \in NextMinute .. k - 1 : 60 * m \in lost
  <2> SUFFICES ASSUME NEW m \in NextMinute .. k - 1, 60 * m \notin lost PROVE FALSE
    OBVIOUS
  <2>1. PICK i \in DOMAIN aggBars : IsM1(i) /\ aggBars[i].at = 60 * m
    BY <1>8 DEF BarsInv
  <2>2. 60 * m < 60 * k
    BY <1>8
  <2>3. i # 1
    BY <1>3, <1>7, <2>1, <2>2
  <2>4. 1 \in DOMAIN aggBars /\ i \in 1 .. Len(aggBars) /\ 1 < i
    BY <1>3, <2>3
  <2>5. IsM1(1)
    BY <1>1, <1>3 DEF IsM1
  <2>6. aggBars[1].at < aggBars[i].at
    BY <2>1, <2>4, <2>5 DEF BarsInv
  <2> QED  BY <1>3, <1>7, <1>8, <2>1, <2>2, <2>6
<1>12. FlowTypeOK'
  <2>1. Len(vol_history') <= VolHistorySize
    <3> DEFINE rest == IF Len(vol_history) < VolHistorySize THEN vol_history ELSE Tail(vol_history)
    <3>1. /\ Len(vol_history) \in Nat /\ Len(vol_history) <= VolHistorySize
          /\ VolHistorySize \in Nat /\ VolHistorySize > 0
      BY <1>1, SeqShape, FlowAssumption DEF FlowTypeOK
    <3>2. IsSeq(rest) /\ Len(rest) < VolHistorySize /\ Len(rest) \in Nat
      <4>1. CASE Len(vol_history) < VolHistorySize
        BY <1>1, <3>1, <4>1
      <4>2. CASE ~(Len(vol_history) < VolHistorySize)
        <5>1. vol_history # << >>
          BY <3>1, <4>2, SeqShort
        <5>2. IsSeq(Tail(vol_history)) /\ Len(Tail(vol_history)) = Len(vol_history) - 1
          BY <1>1, <5>1, SeqTail
        <5> QED  BY <3>1, <4>2, <5>2, SeqShape
      <4> QED  BY <4>1, <4>2
    <3>3. vol_history' = Append(rest, bar.volume)
      BY <1>2 DEF update_vol_history
    <3> HIDE DEF rest
    <3>4. Len(vol_history') = Len(rest) + 1
      BY <3>2, <3>3, SeqAppend
    <3> QED  BY <3>1, <3>2, <3>4
  <2>2. window'.open % 60 = 0
    BY <1>8, <1>9, Minute60
  <2>3. \A i \in DOMAIN emitted' : emitted'[i].flow.known \in BOOLEAN
    BY <1>4, <1>5, <1>6 DEF FlowTypeOK
  <2> QED  BY <1>2, <2>1, <2>2, <2>3 DEF FlowTypeOK
<1>13. SecondsInv'
  BY <1>2, <1>9 DEF SecondsInv
<1>14. BarsInv'
  <2>1. \A i \in DOMAIN aggBars' : i + 1 \in DOMAIN aggBars /\ aggBars'[i] = aggBars[i + 1]
                                   /\ IsM1(i)' = IsM1(i + 1) /\ 1 < i + 1
    BY <1>2, <1>3 DEF IsM1
  <2>2. 1 \in DOMAIN aggBars /\ IsM1(1) /\ aggBars[1].at = 60 * k
    BY <1>1, <1>3, <1>7 DEF IsM1
  <2>3. \A i, j \in DOMAIN aggBars' : i < j => i + 1 < j + 1
    BY <1>2, <1>3
  <2>4. \A i \in DOMAIN aggBars' : IsM1(i)' =>
          \E m \in k + 1 .. MinutesDone - 1 : aggBars'[i].at = 60 * m
    <3> SUFFICES ASSUME NEW i \in DOMAIN aggBars', IsM1(i)'
                 PROVE  \E m \in k + 1 .. MinutesDone - 1 : aggBars'[i].at = 60 * m
      OBVIOUS
    <3>1. PICK m \in NextMinute .. MinutesDone - 1 : aggBars[i + 1].at = 60 * m
      BY <2>1 DEF BarsInv
    <3>2. 60 * k < 60 * m
      BY <2>1, <2>2, <3>1 DEF BarsInv
    <3>3. m \in k + 1 .. MinutesDone - 1
      BY <1>8, <3>1, <3>2
    <3> QED  BY <2>1, <3>1, <3>3
  <2>5. \A i, j \in DOMAIN aggBars' : i < j /\ IsM1(i)' /\ IsM1(j)' => aggBars'[i].at < aggBars'[j].at
    BY <2>1, <2>3 DEF BarsInv
  <2>6. \A m \in k + 1 .. MinutesDone - 1 :
          60 * m \in lost \/ \E i \in DOMAIN aggBars' : IsM1(i)' /\ aggBars'[i].at = 60 * m
    <3> SUFFICES ASSUME NEW m \in k + 1 .. MinutesDone - 1, 60 * m \notin lost
                 PROVE  \E i \in DOMAIN aggBars' : IsM1(i)' /\ aggBars'[i].at = 60 * m
      OBVIOUS
    <3>1. m \in NextMinute .. MinutesDone - 1 /\ 60 * m # 60 * k
      BY <1>8
    <3>2. PICK i \in DOMAIN aggBars : IsM1(i) /\ aggBars[i].at = 60 * m
      BY <3>1 DEF BarsInv
    <3>3. i # 1
      BY <2>2, <3>1, <3>2
    <3>4. i - 1 \in DOMAIN aggBars' /\ (i - 1) + 1 = i
      BY <1>2, <1>3, <3>3
    <3>5. aggBars'[i - 1] = aggBars[i]
      BY <2>1, <3>4
    <3> QED  BY <3>2, <3>4, <3>5 DEF IsM1
  <2>7. IsSeq(vol_history')
    <3>1. IsSeq(vol_history) /\ (vol_history # << >> => IsSeq(Tail(vol_history)))
      BY <1>1, SeqTail
    <3>2. ~(Len(vol_history) < VolHistorySize) => vol_history # << >>
      BY SeqShort, FlowAssumption
    <3> QED  BY <1>2, <3>1, <3>2, SeqAppend DEF update_vol_history
  <2> HIDE DEF FlowInv
  <2>8. IsSeq(aggBars') /\ IsSeq(aggTrades') /\ IsSeq(thesisTrades')
        /\ \A i \in DOMAIN aggTrades' : aggTrades'[i].at \in Nat
    BY <1>2, <1>3 DEF BarsInv, FlowInv
  <2>9. /\ \A i \in DOMAIN aggBars' : IsM1(i)' =>
             \E m \in NextMinute' .. MinutesDone' - 1 : aggBars'[i].at = 60 * m
        /\ \A m \in NextMinute' .. MinutesDone' - 1 :
             60 * m \in lost' \/ \E i \in DOMAIN aggBars' : IsM1(i)' /\ aggBars'[i].at = 60 * m
    BY <1>2, <1>9, <2>4, <2>6
  <2> QED  BY <2>5, <2>7, <2>8, <2>9 DEF BarsInv
<1>15. WindowInv'
  <2>1. NextMinute' \in 0 .. MinutesDone'
    BY <1>8, <1>9
  <2>2. IsSeq(window'.trades) /\ DOMAIN window'.trades = {}
    BY <1>9, SeqShort
  <2> QED  BY <1>9, <2>1, <2>2 DEF WindowInv
<1>16. EmittedInv'
  <2>1. bar.at \in Nat /\ bar.at < window'.open
    BY <1>7, <1>8, <1>9
  <2>2. \A i \in DOMAIN emitted : emitted[i].at \in Nat /\ emitted[i].at < window.open
                                  /\ emitted[i].flow.known \in BOOLEAN
    BY DEF EmittedInv
  <2>3. window.open < window'.open
    <3>1. window.open = -1 \/ window.open = 60 * NextMinute
      BY <1>10 DEF None
    <3> QED  BY <1>8, <1>9, <3>1
  <2>4. window.open \in Int
    BY <1>8, <1>10 DEF None
  <2>5. \A i \in DOMAIN emitted' : /\ emitted'[i].flow.known \in BOOLEAN
                                   /\ emitted'[i].at \in Nat /\ emitted'[i].at < window'.open
    BY <1>4, <1>5, <1>6, <1>8, <1>9, <2>1, <2>2, <2>3, <2>4
  <2>6. \A n \in DOMAIN window.trades : MinuteOf(window.trades[n].at) = window.open
    BY DEF WindowInv
  <2>7. \A i, j \in DOMAIN emitted' : i < j =>
          \A n \in DOMAIN emitted'[j].flow.from :
            emitted'[i].at < MinuteOf(emitted'[j].flow.from[n].at)
    <3> SUFFICES ASSUME NEW i \in DOMAIN emitted', NEW j \in DOMAIN emitted', i < j,
                        NEW n \in DOMAIN emitted'[j].flow.from
                 PROVE  emitted'[i].at < MinuteOf(emitted'[j].flow.from[n].at)
      OBVIOUS
    <3>1. i \in DOMAIN emitted /\ emitted'[i] = emitted[i]
      BY <1>6
    <3>2. CASE j \in DOMAIN emitted
      <4>1. emitted'[j] = emitted[j]
        BY <1>6, <3>2
      <4> QED  BY <3>1, <3>2, <4>1 DEF EmittedInv
    <3>3. CASE j \notin DOMAIN emitted
      <4>1. emitted'[j] = bundle
        BY <1>6, <3>3
      <4>2. emitted'[j].flow.from = window.trades
        BY <1>4, <1>5, <4>1
      <4> QED  BY <2>2, <2>6, <3>1, <4>2
    <3> QED  BY <3>2, <3>3
  <2>8. \A n \in DOMAIN window.trades : MinuteOf(window.trades[n].at) \in Nat
    <3>1. DOMAIN << >> = {}
      OBVIOUS
    <3>2. \A n \in DOMAIN window.trades : window.open = 60 * NextMinute
      BY <3>1 DEF WindowInv
    <3> QED  BY <1>8, <2>6, <3>2
  <2>9. \A i \in DOMAIN emitted' : \A n \in DOMAIN emitted'[i].flow.from :
          MinuteOf(emitted'[i].flow.from[n].at) \in Nat
    <3>1. \A i \in DOMAIN emitted : \A n \in DOMAIN emitted[i].flow.from :
            MinuteOf(emitted[i].flow.from[n].at) \in Nat
      BY DEF EmittedInv
    <3> QED  BY <1>4, <1>5, <1>6, <2>8, <3>1
  <2>10. FlowIsNotAhead'
    <3> SUFFICES ASSUME NEW i \in DOMAIN emitted', NEW n \in DOMAIN emitted'[i].flow.from
                 PROVE  LET m == MinuteOf(emitted'[i].flow.from[n].at) IN
                        m <= emitted'[i].at /\ (m # emitted'[i].at => (emitted'[i].at - 60) \in lost)
      BY <1>2 DEF FlowIsNotAhead
    <3>1. CASE i \in DOMAIN emitted
      <4>1. emitted'[i] = emitted[i]
        BY <1>6, <3>1
      <4> QED  BY <3>1, <4>1 DEF EmittedInv, FlowIsNotAhead
    <3>2. CASE i \notin DOMAIN emitted
      <4>1. emitted'[i] = bundle
        BY <1>6, <3>2
      <4>2. emitted'[i].at = 60 * k /\ emitted'[i].flow.from = window.trades
        BY <1>4, <1>5, <1>7, <4>1
      <4>3. MinuteOf(emitted'[i].flow.from[n].at) = 60 * NextMinute
        <5>1. DOMAIN << >> = {}
          OBVIOUS
        <5>2. window.trades # << >>
          BY <4>2, <5>1
        <5> QED  BY <2>6, <4>2, <5>2 DEF WindowInv
      <4>4. NextMinute # k => (60 * k) - 60 = 60 * (k - 1) /\ k - 1 \in NextMinute .. k - 1
        BY <1>8
      <4>5. 60 * NextMinute <= 60 * k /\ (NextMinute = k => 60 * NextMinute = 60 * k)
        BY <1>8
      <4> QED  BY <1>11, <4>2, <4>3, <4>4, <4>5
    <3> QED  BY <3>1, <3>2
  <2> QED  BY <1>6, <2>5, <2>7, <2>9, <2>10 DEF EmittedInv
<1>17. InTimeInv'
  <2> SUFFICES ASSUME NEW s \in inTime
               PROVE  \E i \in DOMAIN emitted' : \E n \in DOMAIN emitted'[i].flow.from :
                        emitted'[i].flow.from[n] = s
    BY <1>2 DEF InTimeInv
  <2>1. CASE \E n \in DOMAIN window.trades : window.trades[n] = s
    <3>1. Len(emitted) + 1 \in DOMAIN emitted' /\ emitted'[Len(emitted) + 1].flow.from = window.trades
      BY <1>4, <1>5, <1>6
    <3> QED  BY <2>1, <3>1
  <2>2. CASE \E i \in DOMAIN emitted : \E n \in DOMAIN emitted[i].flow.from : emitted[i].flow.from[n] = s
    <3>1. \A i \in DOMAIN emitted : i \in DOMAIN emitted' /\ emitted'[i] = emitted[i]
      BY <1>6
    <3> QED  BY <2>2, <3>1
  <2> QED  BY <2>1, <2>2 DEF InTimeInv
<1> QED  BY <1>12, <1>13, <1>14, <1>15, <1>16, <1>17


\* What a minute's bar says of its minute.
LEMMA BarOfMinute ==
  ASSUME NEW s
  PROVE  M1Bar(s).kind = "M1" /\ M1Bar(s).at = MinuteOf(s[1].at)
BY DEF M1Bar

\* A second is published, and with a minute's last one the minute's bar or its loss.
LEMMA PublishStep ==
  ASSUME FlowInv, NEW shape, NEW lose \in BOOLEAN, Publish(shape, lose)
  PROVE  FlowInv'
<1> USE DEF FlowInv
<1> DEFINE bar   == S1Bar(shape)
           trade == [at |-> bar.at, size |-> shape.volume, side |-> shape.trade]
           new   == IF shape.trade = "none" THEN << >> ELSE <<trade>>
           all   == Append(seconds, bar)
           last  == (second + 1) % Len(Offsets) = 0
           m1    == IF last /\ ~lose THEN <<M1Bar(all)>> ELSE << >>
<1>1. /\ second < MaxMinutes * Len(Offsets)
      /\ Len(aggTrades) < QueueSize /\ Len(thesisTrades) < QueueSize
      /\ lose => last
      /\ second' = second + 1
      /\ aggTrades' = aggTrades \o new /\ thesisTrades' = thesisTrades \o new
      /\ aggBars' = aggBars \o <<bar>> \o m1
      /\ seconds' = IF last THEN << >> ELSE all
      /\ lost' = IF lose THEN lost \cup {MinuteOf(bar.at)} ELSE lost
      /\ UNCHANGED <<window, vol_history, emitted, inTime>>
  BY DEF Publish
<1>2. bar.kind = "S1" /\ bar.at = TimeOf(second) /\ trade.at = bar.at
  BY DEF S1Bar
<1> HIDE DEF bar, trade
<1>3. IsSeq(new) /\ Len(new) \in {0, 1} /\ (\A i \in 1 .. Len(new) : new[i] = trade)
  BY SeqShort
<1> HIDE DEF new
<1>4. second \in Nat /\ MinutesDone \in Nat /\ NextMinute \in Nat /\ NextMinute <= MinutesDone
  <2>1. second \in Nat
    BY DEF FlowTypeOK
  <2>2. second \div Len(Offsets) \in Nat
    BY <2>1, SecondOf
  <2> QED  BY <2>1, <2>2 DEF MinutesDone, WindowInv
<1>5. /\ bar.at \in Nat /\ MinuteOf(bar.at) = 60 * MinutesDone
      /\ second % Len(Offsets) \in 0 .. Len(Offsets) - 1
      /\ last => MinutesDone' = MinutesDone + 1
      /\ ~last => MinutesDone' = MinutesDone /\ second' % Len(Offsets) = (second % Len(Offsets)) + 1
  BY <1>1, <1>2, <1>4, SecondOf DEF MinutesDone
<1>6. /\ IsSeq(seconds) /\ IsSeq(aggTrades) /\ IsSeq(thesisTrades) /\ IsSeq(aggBars)
      /\ Len(seconds) \in Nat /\ Len(aggTrades) \in Nat /\ Len(thesisTrades) \in Nat
      /\ Len(aggBars) \in Nat /\ DOMAIN aggBars = 1 .. Len(aggBars)
      /\ DOMAIN aggTrades = 1 .. Len(aggTrades) /\ DOMAIN seconds = 1 .. Len(seconds)
  <2>1. IsSeq(seconds) /\ IsSeq(aggTrades) /\ IsSeq(thesisTrades) /\ IsSeq(aggBars)
    BY DEF SecondsInv, BarsInv
  <2> QED  BY <2>1, SeqShape
\* The seconds of the minute, this one included.
<1>7. /\ IsSeq(all) /\ Len(all) = Len(seconds) + 1 /\ DOMAIN all = 1 .. Len(seconds) + 1
      /\ \A i \in DOMAIN all : MinuteOf(all[i].at) = 60 * MinutesDone
  <2>1. /\ IsSeq(all) /\ Len(all) = Len(seconds) + 1 /\ DOMAIN all = 1 .. Len(seconds) + 1
        /\ \A i \in 1 .. Len(seconds) + 1 : all[i] = IF i = Len(seconds) + 1 THEN bar ELSE seconds[i]
    BY <1>6, SeqAppend
  <2> HIDE DEF all
  <2>2. \A i \in 1 .. Len(seconds) : MinuteOf(seconds[i].at) = 60 * MinutesDone
    BY <1>6 DEF SecondsInv
  <2> QED  BY <1>5, <1>6, <2>1, <2>2
<1> HIDE DEF all
<1>8. M1Bar(all).kind = "M1" /\ M1Bar(all).at = 60 * MinutesDone
  <2>1. 1 \in DOMAIN all
    BY <1>6, <1>7
  <2> QED  BY <1>7, <2>1, BarOfMinute
<1> DEFINE minuteBar == M1Bar(all)
<1> HIDE DEF minuteBar
\* The queue grows by the second's bar, and the minute's unless it is lost.
<1>9. /\ IsSeq(aggBars') /\ DOMAIN aggBars' = 1 .. Len(aggBars) + 1 + Len(m1)
      /\ \A i \in DOMAIN aggBars : aggBars'[i] = aggBars[i]
      /\ aggBars'[Len(aggBars) + 1] = bar
      /\ m1 # << >> => aggBars'[Len(aggBars) + 2] = minuteBar
      /\ Len(m1) = IF last /\ ~lose THEN 1 ELSE 0
  <2> DEFINE mid == aggBars \o <<bar>>
  <2>1. IsSeq(<<bar>>) /\ Len(<<bar>>) = 1 /\ <<bar>>[1] = bar
    BY SeqShort
  <2>2. /\ IsSeq(mid) /\ Len(mid) = Len(aggBars) + 1
        /\ \A i \in 1 .. Len(aggBars) : mid[i] = aggBars[i]
        /\ \A i \in 1 .. 1 : mid[Len(aggBars) + i] = <<bar>>[i]
    BY <1>6, <2>1, SeqConcat
  <2>3. mid[Len(aggBars) + 1] = bar
    BY <2>1, <2>2
  <2> HIDE DEF mid
  <2>4. /\ IsSeq(m1)
        /\ Len(m1) = IF last /\ ~lose THEN 1 ELSE 0
        /\ m1 # << >> => Len(m1) = 1 /\ m1[1] = minuteBar
    <3> HIDE DEF last
    <3>1. CASE last /\ ~lose
      <4>1. m1 = <<minuteBar>>
        BY <3>1 DEF minuteBar
      <4> HIDE DEF m1
      <4> QED  BY <3>1, <4>1, SeqShort
    <3>2. CASE ~(last /\ ~lose)
      <4>1. m1 = << >>
        BY <3>2
      <4> HIDE DEF m1
      <4> QED  BY <3>2, <4>1, SeqShort
    <3> QED  BY <3>1, <3>2
  <2> HIDE DEF m1, last
  <2>5. aggBars' = mid \o m1
    BY <1>1 DEF mid
  <2>6. /\ IsSeq(mid \o m1) /\ DOMAIN (mid \o m1) = 1 .. Len(mid) + Len(m1)
        /\ \A i \in 1 .. Len(mid) : (mid \o m1)[i] = mid[i]
        /\ \A i \in 1 .. Len(m1) : (mid \o m1)[Len(mid) + i] = m1[i]
    <3>1. IsSeq(mid) /\ IsSeq(m1)
      BY <2>2, <2>4
    <3> QED  BY <3>1, SeqConcat
  <2>7. \A i \in DOMAIN aggBars : aggBars'[i] = aggBars[i]
    BY <1>6, <2>2, <2>5, <2>6
  <2>8. aggBars'[Len(aggBars) + 1] = bar
    BY <1>6, <2>2, <2>3, <2>5, <2>6
  <2>9. m1 # << >> => aggBars'[Len(aggBars) + 2] = minuteBar
    <3> SUFFICES ASSUME m1 # << >> PROVE aggBars'[Len(aggBars) + 2] = minuteBar
      OBVIOUS
    <3>1. 1 \in 1 .. Len(m1) /\ Len(mid) + 1 = Len(aggBars) + 2
      BY <1>6, <2>2, <2>4
    <3>2. (mid \o m1)[Len(mid) + 1] = m1[1]
      BY <2>6, <3>1
    <3> QED  BY <2>4, <2>5, <3>1, <3>2
  <2> QED  BY <2>2, <2>4, <2>5, <2>6, <2>7, <2>8, <2>9
<1>10. minuteBar.kind = "M1" /\ minuteBar.at = 60 * MinutesDone
  BY <1>8 DEF minuteBar
<1>11. m1 # << >> <=> last /\ ~lose
  BY SeqShort
<1> HIDE DEF m1, last
<1>12. NextMinute' = NextMinute
  BY <1>1 DEF NextMinute
<1>13. \A s \in lost : s \in lost'
  BY <1>1
<1>14. /\ IsSeq(aggTrades') /\ IsSeq(thesisTrades')
       /\ Len(aggTrades') <= QueueSize /\ Len(thesisTrades') <= QueueSize
       /\ \A i \in DOMAIN aggTrades' : aggTrades'[i].at \in Nat
  <2>1. /\ IsSeq(aggTrades') /\ Len(aggTrades') = Len(aggTrades) + Len(new)
        /\ DOMAIN aggTrades' = 1 .. Len(aggTrades) + Len(new)
        /\ \A i \in 1 .. Len(aggTrades) : aggTrades'[i] = aggTrades[i]
        /\ \A i \in 1 .. Len(new) : aggTrades'[Len(aggTrades) + i] = new[i]
    BY <1>1, <1>3, <1>6, SeqConcat
  <2>2. IsSeq(thesisTrades') /\ Len(thesisTrades') = Len(thesisTrades) + Len(new)
    BY <1>1, <1>3, <1>6, SeqConcat
  <2>3. Len(aggTrades') <= QueueSize /\ Len(thesisTrades') <= QueueSize
    <3>1. QueueSize \in Nat /\ Len(aggTrades) < QueueSize /\ Len(thesisTrades) < QueueSize
      BY <1>1, FlowAssumption
    <3>2. Len(new) <= 1 /\ Len(new) \in Nat /\ Len(aggTrades) \in Nat /\ Len(thesisTrades) \in Nat
          /\ Len(aggTrades') = Len(aggTrades) + Len(new)
          /\ Len(thesisTrades') = Len(thesisTrades) + Len(new)
      BY <1>3, <1>6, <2>1, <2>2
    <3> HIDE DEF new
    <3> QED  BY <3>1, <3>2
  <2>4. ASSUME NEW i \in DOMAIN aggTrades' PROVE aggTrades'[i].at \in Nat
    <3>1. CASE i \in 1 .. Len(aggTrades)
      BY <1>6, <2>1, <3>1 DEF BarsInv
    <3>2. CASE i \notin 1 .. Len(aggTrades)
      <4>1. i - Len(aggTrades) \in 1 .. Len(new) /\ Len(aggTrades) + (i - Len(aggTrades)) = i
        BY <1>3, <1>6, <2>1, <3>2
      <4>2. aggTrades'[i] = trade
        BY <1>3, <2>1, <4>1
      <4> QED  BY <1>2, <1>5, <4>2
    <3> QED  BY <3>1, <3>2
  <2> QED  BY <2>1, <2>2, <2>3, <2>4
<1>15. FlowTypeOK'
  <2>1. second' \in 0 .. MaxMinutes * Len(Offsets)
    <3> DEFINE bound == MaxMinutes * Len(Offsets)
    <3>1. second \in 0 .. bound /\ second < bound
      BY <1>1 DEF FlowTypeOK
    <3>2. bound \in Int
      <4>1. MaxMinutes \in Nat /\ Len(Offsets) \in Nat
        <5> DEFINE D == 0 .. 59
        <5>1. Offsets \in Seq(D)
          BY FlowAssumption
        <5> HIDE DEF D
        <5> QED  BY <5>1, FlowAssumption
      <4> QED  BY <4>1, SMTT(30)
    <3> HIDE DEF bound
    <3> QED  BY <1>1, <3>1, <3>2 DEF bound
  <2> QED  BY <1>1, <1>14, <2>1 DEF FlowTypeOK
<1>16. SecondsInv'
  <2>1. CASE last
    <3>1. second' % Len(Offsets) = 0 /\ seconds' = << >>
      BY <1>1, <2>1 DEF last
    <3> QED  BY <3>1, SeqShort DEF SecondsInv
  <2>2. CASE ~last
    <3>1. seconds' = all /\ MinutesDone' = MinutesDone
          /\ second' % Len(Offsets) = Len(seconds) + 1
      BY <1>1, <1>5, <2>2 DEF SecondsInv
    <3> QED  BY <1>7, <3>1 DEF SecondsInv
  <2> QED  BY <2>1, <2>2
<1>17. BarsInv'
  <2>1. ASSUME NEW i \in DOMAIN aggBars', IsM1(i)'
        PROVE  \/ i \in DOMAIN aggBars /\ IsM1(i) /\ aggBars'[i] = aggBars[i]
               \/ /\ i = Len(aggBars) + 2 /\ last /\ ~lose
                  /\ aggBars'[i].at = 60 * MinutesDone
    <3>1. i \in 1 .. Len(aggBars) \/ i = Len(aggBars) + 1 \/ (i = Len(aggBars) + 2 /\ last /\ ~lose)
      BY <1>6, <1>9
    <3>2. i # Len(aggBars) + 1
      BY <1>2, <1>9, <2>1 DEF IsM1
    <3>3. i \in 1 .. Len(aggBars) => IsM1(i) /\ aggBars'[i] = aggBars[i]
      BY <1>6, <1>9, <2>1 DEF IsM1
    <3> QED  BY <1>6, <1>9, <1>10, <1>11, <3>1, <3>2, <3>3
  <2>2. ASSUME NEW i \in DOMAIN aggBars', IsM1(i)'
        PROVE  \E k \in NextMinute .. MinutesDone' - 1 : aggBars'[i].at = 60 * k
    <3>1. CASE i \in DOMAIN aggBars /\ IsM1(i) /\ aggBars'[i] = aggBars[i]
      <4>1. PICK k \in NextMinute .. MinutesDone - 1 : aggBars[i].at = 60 * k
        BY <3>1 DEF BarsInv
      <4>2. PICK after \in Nat : MinutesDone' = after /\ MinutesDone <= after
        BY <1>4, <1>5
      <4>3. k \in NextMinute .. after - 1
        BY <1>4, <4>1, <4>2
      <4> QED  BY <3>1, <4>1, <4>2, <4>3
    <3>2. CASE last /\ aggBars'[i].at = 60 * MinutesDone
      <4>1. MinutesDone \in NextMinute .. MinutesDone' - 1
        BY <1>4, <1>5, <3>2
      <4> QED  BY <3>2, <4>1
    <3> QED  BY <2>1, <2>2, <3>1, <3>2
  <2>3. ASSUME NEW i \in DOMAIN aggBars', NEW j \in DOMAIN aggBars', i < j, IsM1(i)', IsM1(j)'
        PROVE  aggBars'[i].at < aggBars'[j].at
    <3>1. i \in DOMAIN aggBars /\ IsM1(i) /\ aggBars'[i] = aggBars[i]
      <4>1. j <= Len(aggBars) + 2 /\ i \in Nat /\ j \in Nat
        BY <1>6, <1>9
      <4>2. i # Len(aggBars) + 2
        BY <1>6, <2>3, <4>1
      <4> QED  BY <2>1, <2>3, <4>2
    <3>2. CASE j \in DOMAIN aggBars /\ IsM1(j) /\ aggBars'[j] = aggBars[j]
      BY <2>3, <3>1, <3>2 DEF BarsInv
    <3>3. CASE aggBars'[j].at = 60 * MinutesDone
      <4>1. PICK k \in NextMinute .. MinutesDone - 1 : aggBars[i].at = 60 * k
        BY <3>1 DEF BarsInv
      <4> QED  BY <1>4, <3>1, <3>3, <4>1
    <3> QED  BY <2>1, <2>3, <3>2, <3>3
  <2>4. ASSUME NEW k \in NextMinute .. MinutesDone' - 1
        PROVE  60 * k \in lost' \/ \E i \in DOMAIN aggBars' : IsM1(i)' /\ aggBars'[i].at = 60 * k
    <3>1. CASE k \in NextMinute .. MinutesDone - 1
      <4>1. CASE 60 * k \in lost
        BY <1>13, <4>1
      <4>2. CASE 60 * k \notin lost
        <5>1. PICK i \in DOMAIN aggBars : IsM1(i) /\ aggBars[i].at = 60 * k
          BY <3>1, <4>2 DEF BarsInv
        <5>2. i \in DOMAIN aggBars' /\ aggBars'[i] = aggBars[i]
          BY <1>6, <1>9
        <5> QED  BY <5>1, <5>2 DEF IsM1
      <4> QED  BY <4>1, <4>2
    <3>2. CASE k \notin NextMinute .. MinutesDone - 1
      <4>1. last /\ k = MinutesDone
        BY <1>4, <1>5, <2>4, <3>2
      <4>2. CASE lose
        BY <1>1, <1>5, <4>1, <4>2
      <4>3. CASE ~lose
        <5>1. Len(aggBars) + 2 \in DOMAIN aggBars' /\ aggBars'[Len(aggBars) + 2] = minuteBar
          BY <1>6, <1>9, <1>11, <4>1, <4>3
        <5> QED  BY <1>10, <4>1, <5>1 DEF IsM1
      <4> QED  BY <4>2, <4>3
    <3> QED  BY <3>1, <3>2
  <2>5. IsSeq(vol_history')
    BY <1>1 DEF BarsInv
  <2> QED  BY <1>9, <1>12, <1>14, <2>2, <2>3, <2>4, <2>5 DEF BarsInv
<1>18. WindowInv'
  <2>1. NextMinute \in 0 .. MinutesDone'
    BY <1>4, <1>5
  <2> QED  BY <1>1, <1>12, <2>1 DEF WindowInv
<1>19. EmittedInv'
  BY <1>1, <1>13 DEF EmittedInv, FlowIsNotAhead
<1>20. InTimeInv'
  BY <1>1 DEF InTimeInv
<1> QED  BY <1>15, <1>16, <1>17, <1>18, <1>19, <1>20

-----------------------------------------------------------------------------
(* The flow of a bar is of its minute *)

LEMMA FlowInvStep == FlowInv /\ [FlowNext]_flowVars => FlowInv'
<1> SUFFICES ASSUME FlowInv, [FlowNext]_flowVars PROVE FlowInv'
  OBVIOUS
<1>1. CASE \E shape \in Shapes[TimeOf(second) % 60], lose \in BOOLEAN : Publish(shape, lose)
  BY <1>1, PublishStep
<1>2. CASE UNCHANGED flowVars
  <2>1. NextMinute' = NextMinute /\ MinutesDone' = MinutesDone
    BY <1>2 DEF flowVars, NextMinute, MinutesDone
  <2>2. FlowTypeOK' /\ SecondsInv' /\ WindowInv'
    BY <1>2, <2>1 DEF flowVars, FlowInv, FlowTypeOK, SecondsInv, WindowInv
  <2>3. BarsInv' /\ EmittedInv' /\ InTimeInv'
    BY <1>2, <2>1 DEF flowVars, FlowInv, BarsInv, IsM1, EmittedInv, FlowIsNotAhead, InTimeInv
  <2> QED  BY <2>2, <2>3 DEF FlowInv
<1> QED  BY <1>1, <1>2, TradeStep, SecondBarStep, SealStep, ConsumerStep DEF FlowNext

\* Two bundles, or a bundle and the window, share no trade: minutes tell them apart.
LEMMA CountedOnce == FlowInv => TradesCountedOnce
<1> SUFFICES ASSUME FlowInv, NEW t \in inTime
             PROVE  LET sealed == {i \in DOMAIN emitted : t \in Range(emitted[i].flow.from)} IN
                    /\ Cardinality(sealed) <= 1
                    /\ (sealed = {}) <=> (t \in Range(window.trades))
  BY DEF TradesCountedOnce
<1> DEFINE sealed == {i \in DOMAIN emitted : t \in Range(emitted[i].flow.from)}
<1>1. \A i \in sealed : /\ i \in DOMAIN emitted
                        /\ \E n \in DOMAIN emitted[i].flow.from : emitted[i].flow.from[n] = t
  BY DEF Range
<1>2. DOMAIN emitted \subseteq Nat
  <2>1. DOMAIN emitted = 1 .. Len(emitted) /\ Len(emitted) \in Nat
    BY SeqShape DEF FlowInv, EmittedInv
  <2> QED  BY <2>1
<1>3. \A i \in sealed : MinuteOf(t.at) <= emitted[i].at /\ emitted[i].at \in Nat
                        /\ emitted[i].at < window.open
  BY <1>1 DEF FlowInv, EmittedInv, FlowIsNotAhead
<1>4. \A i \in DOMAIN emitted : \A j \in sealed : i < j => emitted[i].at < MinuteOf(t.at)
  BY <1>1 DEF FlowInv, EmittedInv
<1>5. \A i \in sealed : MinuteOf(t.at) \in Nat
  BY <1>1 DEF FlowInv, EmittedInv
<1>6. \A i, j \in sealed : i = j
  <2> SUFFICES ASSUME NEW i \in sealed, NEW j \in sealed, i < j PROVE FALSE
    BY <1>1, <1>2
  <2>1. emitted[i].at < MinuteOf(t.at)
    BY <1>1, <1>4
  <2> QED  BY <1>3, <1>5, <2>1
<1>7. Cardinality(sealed) <= 1
  <2>1. CASE sealed = {}
    BY <2>1, FS_EmptySet
  <2>2. CASE sealed # {}
    <3>1. PICK i \in sealed : TRUE
      BY <2>2
    <3>2. sealed = {i}
      BY <1>6, <3>1
    <3> HIDE DEF sealed
    <3>3. Cardinality({i}) = 1
      BY FS_Singleton
    <3> QED  BY <3>2, <3>3
  <2> QED  BY <2>1, <2>2
<1>8. ASSUME t \in Range(window.trades), NEW i \in sealed PROVE FALSE
  <2>1. MinuteOf(t.at) = window.open
    BY <1>8 DEF Range, FlowInv, WindowInv
  <2> QED  BY <1>3, <1>5, <2>1
<1>9. ASSUME sealed = {} PROVE t \in Range(window.trades)
  <2>1. \A i \in DOMAIN emitted : \A n \in DOMAIN emitted[i].flow.from : emitted[i].flow.from[n] # t
    BY <1>9 DEF Range
  <2> QED  BY <2>1 DEF FlowInv, InTimeInv, Range
<1> QED  BY <1>7, <1>8, <1>9

LEMMA FlowInvHolds == FlowSpec => []FlowInv
BY FlowInvInit, FlowInvStep, PTL DEF FlowSpec

\* However trades and bars interleave, and whatever bars get lost, the flow of a bundle
\* has no trade from after its bar, one from before its minute only when the bar before
\* was lost, and each trade once (BarFlowAggregator._on_trade, _seal_and_emit).
THEOREM FlowOfItsMinute == FlowSpec => []FlowIsOfItsMinute
<1>1. FlowInv => FlowIsOfItsMinute
  BY CountedOnce DEF FlowInv, EmittedInv, FlowIsOfItsMinute
<1> QED  BY <1>1, FlowInvHolds, PTL

-----------------------------------------------------------------------------
(* The storage engine.  The inductive invariant adds to the two properties:  *)
(* where each task can be, that a row is held once (queue included), what an *)
(* executor thread read of its file still covers that file unless two        *)
(* threads met on it, and what each stage of _on_stop has emptied for good.  *)

-----------------------------------------------------------------------------
(* The queue as a set *)

\* Appending adds the row, and only it, to the rows of the queue.
LEMMA AppendedRows ==
  ASSUME NEW S, NEW q \in Seq(S), NEW r \in S
  PROVE  /\ Append(q, r) \in Seq(S) /\ Len(Append(q, r)) = Len(q) + 1
         /\ ToSet(Append(q, r)) = ToSet(q) \cup {r}
<1>1. Append(q, r) \in Seq(S) /\ Len(Append(q, r)) = Len(q) + 1
  OBVIOUS
<1>2. DOMAIN q = 1..Len(q) /\ DOMAIN Append(q, r) = 1..(Len(q) + 1)
  OBVIOUS
<1>3. \A i \in 1..Len(q) : Append(q, r)[i] = q[i]
  OBVIOUS
<1>4. Append(q, r)[Len(q) + 1] = r
  OBVIOUS
<1>5. 1..(Len(q) + 1) = 1..Len(q) \cup {Len(q) + 1}
  OBVIOUS
<1>6. ToSet(Append(q, r)) = ToSet(q) \cup {r}
  BY <1>2, <1>3, <1>4, <1>5, Zenon DEF ToSet
<1> QED  BY <1>1, <1>6

\* Taking the head leaves the other rows: none is gone, and if each row is in
\* the queue once the head is gone from it.
LEMMA TakenHead ==
  ASSUME NEW S, NEW q \in Seq(S), q # <<>>
  PROVE  /\ Head(q) \in S /\ Tail(q) \in Seq(S) /\ Len(Tail(q)) = Len(q) - 1
         /\ ToSet(q) = ToSet(Tail(q)) \cup {Head(q)}
         /\ (\A i, j \in 1..Len(q) : q[i] = q[j] => i = j)
              => /\ Head(q) \notin ToSet(Tail(q))
                 /\ \A i, j \in 1..Len(Tail(q)) : Tail(q)[i] = Tail(q)[j] => i = j
<1>1. Head(q) \in S /\ Tail(q) \in Seq(S) /\ Len(Tail(q)) = Len(q) - 1 /\ Len(q) \in Nat \ {0}
  OBVIOUS
<1>2. DOMAIN q = 1..Len(q) /\ DOMAIN Tail(q) = 1..(Len(q) - 1)
  BY <1>1
<1>3. \A i \in 1..(Len(q) - 1) : Tail(q)[i] = q[i + 1]
  BY <1>1
<1>4. Head(q) = q[1]
  BY <1>1
<1>5. ToSet(q) = ToSet(Tail(q)) \cup {Head(q)}
  <2>1. ASSUME NEW x \in ToSet(q)  PROVE x \in ToSet(Tail(q)) \cup {Head(q)}
    <3>1. PICK i \in 1..Len(q) : x = q[i]
      BY <1>2 DEF ToSet
    <3>2. CASE i = 1
      BY <3>1, <3>2, <1>4
    <3>3. CASE i # 1
      <4>1. i - 1 \in 1..(Len(q) - 1) /\ (i - 1) + 1 = i
        BY <1>1, <3>1, <3>3
      <4>2. Tail(q)[i - 1] = x
        BY <4>1, <3>1, <1>3
      <4> QED  BY <4>1, <4>2, <1>2, Zenon DEF ToSet
    <3> QED  BY <3>2, <3>3
  <2>2. ASSUME NEW x \in ToSet(Tail(q))  PROVE x \in ToSet(q)
    <3>1. PICK i \in 1..(Len(q) - 1) : x = Tail(q)[i]
      BY <1>2 DEF ToSet
    <3>2. i + 1 \in 1..Len(q)
      BY <1>1, <3>1
    <3> QED  BY <3>1, <3>2, <1>2, <1>3, Zenon DEF ToSet
  <2>3. Head(q) \in ToSet(q)
    <3>1. 1 \in 1..Len(q)
      BY <1>1
    <3> QED  BY <3>1, <1>2, <1>4, Zenon DEF ToSet
  <2> QED  BY <2>1, <2>2, <2>3
<1>6. ASSUME \A i, j \in 1..Len(q) : q[i] = q[j] => i = j
      PROVE  /\ Head(q) \notin ToSet(Tail(q))
             /\ \A i, j \in 1..Len(Tail(q)) : Tail(q)[i] = Tail(q)[j] => i = j
  <2>1. SUFFICES ASSUME NEW i \in 1..(Len(q) - 1)
                 PROVE  /\ Head(q) # Tail(q)[i]
                        /\ \A j \in 1..(Len(q) - 1) : Tail(q)[i] = Tail(q)[j] => i = j
    BY <1>1, <1>2 DEF ToSet
  <2>2. i + 1 \in 1..Len(q) /\ 1 \in 1..Len(q) /\ i + 1 # 1
    BY <1>1
  <2>3. Head(q) # Tail(q)[i]
    BY <2>2, <1>3, <1>4, <1>6
  <2>4. ASSUME NEW j \in 1..(Len(q) - 1), Tail(q)[i] = Tail(q)[j]  PROVE i = j
    <3>1. j + 1 \in 1..Len(q)
      BY <1>1
    <3>2. i + 1 = j + 1
      BY <2>2, <2>4, <3>1, <1>3, <1>6
    <3> QED  BY <3>2
  <2> QED  BY <2>3, <2>4
<1> QED  BY <1>1, <1>5, <1>6

-----------------------------------------------------------------------------
(* The inductive invariant *)

\* Every set of rows the engine keeps track of, the history included.
HistoryOK ==
  /\ accepted \subseteq Rows /\ disk \subseteq Rows
  /\ target \in [Writers -> SUBSET Rows]
  /\ \A w \in Writers : target[w] \subseteq accepted

\* Where each task can be, and that only a task that is writing has a batch.
TasksInPlace ==
  /\ pc["loop"] \in {"idle", "batch", "thread", "done"}
  /\ \A c \in Callers : pc[c] \in {"idle", "joining", "joined", "batch", "thread"}
  /\ pc["stop"] \in {"idle", "joining", "joined", "draining", "batch", "thread", "done"}
  /\ \A w \in Writers : pc[w] \notin {"batch", "thread"} => batch[w] = {}

\* A row is accepted once, and the queue, the buffers and the batches hold it
\* once between them.
HeldOnce ==
  /\ \A i, j \in 1..Len(queue) : queue[i] = queue[j] => i = j
  /\ ToSet(queue) \subseteq accepted /\ ToSet(queue) \cap buffers = {}
  /\ buffers \subseteq accepted
  /\ \A w \in Writers : batch[w] \subseteq accepted /\ batch[w] \cap ToSet(queue) = {}

\* What a thread read of its partition's file covers the file until it replaces
\* it, unless another thread wrote that partition meanwhile.
ThreadsCover ==
  \A w \in Writers : pc[w] = "thread" =>
    /\ cur[w] \in Keys
    /\ \A r \in snap[w] : r.key = cur[w]
    /\ cur[w] \notin overlapped => of(disk, cur[w]) \subseteq snap[w]
    /\ \A v \in Writers \ {w} :
         pc[v] = "thread" /\ cur[v] = cur[w] => cur[w] \in overlapped

\* What each stage of _on_stop has emptied stays empty.
StopStages ==
  /\ pc["stop"] # "idle" => \A c \in Callers : pc[c] = "idle"
  /\ pc["stop"] \in {"joined", "draining", "batch", "thread", "done"} =>
       target["stop"] \cap ToSet(queue) = {}
  /\ pc["stop"] \in {"draining", "batch", "thread", "done"} => ~writer
  /\ pc["stop"] \in {"batch", "thread", "done"} => pc["loop"] = "done" /\ buffers = {}

StorageInv ==
  /\ StorageTypeOK /\ HistoryOK /\ TasksInPlace /\ HeldOnce
  /\ ThreadsCover /\ StopStages /\ RowsAccounted

-----------------------------------------------------------------------------
(* One lemma per action *)

\* A row put in the queue, or dropped: on_event.
LEMMA PutKeeps ==
  ASSUME StorageInv, NEW r \in Rows, on_event(r)
  PROVE  StorageInv'
<1>1. CASE UNCHANGED <<queue, accepted>>
  BY <1>1 DEF StorageInv, StorageTypeOK, HistoryOK, TasksInPlace, HeldOnce, ThreadsCover,
    StopStages, RowsAccounted, held, excused, on_event, threadVars
<1>2. CASE queue' = Append(queue, r) /\ accepted' = accepted \cup {r} /\ Len(queue) < StorageQueueSize
  <2>1. /\ queue' \in Seq(Rows) /\ Len(queue') = Len(queue) + 1 /\ Len(queue) \in Nat
        /\ ToSet(queue') = ToSet(queue) \cup {r}
    BY <1>2, AppendedRows DEF StorageInv, StorageTypeOK
  <2>2. r \notin accepted
    BY DEF on_event
  <2>3. \A i, j \in 1..Len(queue') : queue'[i] = queue'[j] => i = j
    <3>1. \A i \in 1..Len(queue) : queue'[i] = queue[i] /\ queue[i] \in ToSet(queue)
      BY <1>2 DEF ToSet, StorageInv, StorageTypeOK
    <3>2. queue'[Len(queue')] = r
      BY <1>2, <2>1 DEF StorageInv, StorageTypeOK
    <3>3. \A i \in 1..Len(queue') : i \in 1..Len(queue) \/ i = Len(queue')
      BY <2>1
    <3> QED  BY <3>1, <3>2, <3>3, <2>2 DEF StorageInv, HeldOnce
  <2>4. StorageTypeOK'
    BY <2>1, <1>2, StorageConstants DEF StorageInv, StorageTypeOK, on_event, threadVars
  <2>5. HistoryOK' /\ TasksInPlace' /\ ThreadsCover'
    BY <1>2 DEF StorageInv, HistoryOK, TasksInPlace, ThreadsCover, on_event, threadVars
  <2>6. HeldOnce'
    BY <2>1, <2>2, <2>3, <1>2 DEF StorageInv, HeldOnce, on_event, threadVars
  <2>7. StopStages'
    BY <2>1, <2>2 DEF StorageInv, HistoryOK, StopStages, Writers, on_event
  <2>8. RowsAccounted'
    BY <2>1, <1>2 DEF StorageInv, RowsAccounted, held, excused, on_event
  <2> QED  BY <2>4, <2>5, <2>6, <2>7, <2>8 DEF StorageInv
<1> QED  BY <1>1, <1>2 DEF on_event

\* An event of _writer_loop: the row leaves the queue for the buffers, a live
\* quote for nowhere.
LEMMA WriterKeeps ==
  ASSUME StorageInv, writer_loop
  PROVE  StorageInv'
<1>1. /\ Head(queue) \in Rows /\ queue' \in Seq(Rows) /\ Len(queue') = Len(queue) - 1
      /\ Len(queue) \in Nat
      /\ ToSet(queue) = ToSet(queue') \cup {Head(queue)}
      /\ Head(queue) \notin ToSet(queue')
      /\ \A i, j \in 1..Len(queue') : queue'[i] = queue'[j] => i = j
  BY TakenHead DEF StorageInv, StorageTypeOK, HeldOnce, writer_loop
<1>2. /\ buffers' \subseteq buffers \cup {Head(queue)} /\ buffers \subseteq buffers'
      /\ Head(queue).key \in QuoteKeys \/ Head(queue) \in buffers'
  BY DEF writer_loop
<1>3. Head(queue) \in accepted /\ Head(queue) \notin buffers
      /\ \A w \in Writers : Head(queue) \notin batch[w]
  BY <1>1 DEF StorageInv, HeldOnce
<1>4. StorageTypeOK'
  <2>1. \A w, v \in Writers : w # v => batch'[w] \cap (batch'[v] \cup buffers') = {}
    BY <1>2, <1>3 DEF StorageInv, StorageTypeOK, writer_loop, historyVars
  <2> QED  BY <2>1, <1>1, <1>2, StorageConstants DEF StorageInv, StorageTypeOK, writer_loop,
    threadVars
<1>5. HistoryOK' /\ TasksInPlace'
  BY DEF StorageInv, HistoryOK, TasksInPlace, Writers, writer_loop, historyVars
<1>6. HeldOnce'
  BY <1>1, <1>2, <1>3 DEF StorageInv, HeldOnce, writer_loop, historyVars
<1>7. ThreadsCover'
  BY DEF StorageInv, ThreadsCover, writer_loop, threadVars, historyVars
<1>8. StopStages'
  <2>1. pc'["stop"] = pc["stop"] \/ (pc["stop"] = "joining" /\ pc'["stop"] = "joined" /\ queue' = <<>>)
    BY DEF StorageInv, StorageTypeOK, Writers, writer_loop
  <2>2. \A c \in Callers : pc[c] = "idle" => pc'[c] = "idle"
    BY DEF Writers, writer_loop
  <2>3. pc["loop"] = "done" => pc'["loop"] = "done"
    BY DEF Writers, writer_loop
  <2>4. queue' = <<>> => ToSet(queue') = {}
    BY DEF ToSet
  <2>5. writer /\ UNCHANGED <<writer, target>>
    BY DEF writer_loop, historyVars
  <2> QED  BY <1>1, <2>1, <2>2, <2>3, <2>4, <2>5 DEF StorageInv, StopStages
<1>9. RowsAccounted'
  BY <1>1, <1>2 DEF StorageInv, RowsAccounted, held, excused, writer_loop, historyVars
<1> QED  BY <1>4, <1>5, <1>6, <1>7, <1>8, <1>9 DEF StorageInv

\* A tick of the flush loop: _flush_due.
LEMMA FlushDueKeeps ==
  ASSUME StorageInv, NEW due \in SUBSET Keys, flush_due(due)
  PROVE  StorageInv'
<1>1. StorageTypeOK'
  BY StorageConstants DEF StorageInv, StorageTypeOK, flush_due, threadVars
<1>2. HistoryOK'
  BY StorageConstants DEF StorageInv, HistoryOK, flush_due, historyVars
<1>3. TasksInPlace'
  BY StorageConstants DEF StorageInv, StorageTypeOK, TasksInPlace, flush_due
<1>4. HeldOnce'
  BY StorageConstants DEF StorageInv, HeldOnce, flush_due, historyVars
<1>5. ThreadsCover'
  BY StorageConstants DEF StorageInv, ThreadsCover, flush_due, threadVars, historyVars
<1>6. StopStages'
  BY StorageConstants DEF StorageInv, StopStages, flush_due, historyVars
<1>7. RowsAccounted'
  BY StorageConstants DEF StorageInv, StorageTypeOK, TasksInPlace, RowsAccounted, held, excused,
    Writers, flush_due, historyVars
<1> QED  BY <1>1, <1>2, <1>3, <1>4, <1>5, <1>6, <1>7 DEF StorageInv

\* The flush loop leaves.
LEMMA LoopExitsKeeps ==
  ASSUME StorageInv, loop_exits
  PROVE  StorageInv'
<1>1. StorageTypeOK'
  BY StorageConstants DEF StorageInv, StorageTypeOK, loop_exits, threadVars
<1>2. HistoryOK'
  BY StorageConstants DEF StorageInv, HistoryOK, loop_exits, historyVars
<1>3. TasksInPlace'
  BY StorageConstants DEF StorageInv, TasksInPlace, loop_exits
<1>4. HeldOnce'
  BY StorageConstants DEF StorageInv, HeldOnce, loop_exits, historyVars
<1>5. ThreadsCover'
  BY StorageConstants DEF StorageInv, ThreadsCover, loop_exits, threadVars, historyVars
<1>6. StopStages'
  BY StorageConstants DEF StorageInv, StopStages, loop_exits, historyVars
<1>7. RowsAccounted'
  BY StorageConstants DEF StorageInv, RowsAccounted, held, excused, loop_exits, historyVars
<1> QED  BY <1>1, <1>2, <1>3, <1>4, <1>5, <1>6, <1>7 DEF StorageInv

\* flush() and _on_stop begin.
LEMMA JoinKeeps ==
  ASSUME StorageInv, NEW w \in Writers, join(w), w = "stop" => \A c \in Callers : pc[c] = "idle", w # "stop" => w \in Callers /\ pc["stop"] = "idle"
  PROVE  StorageInv'
<1>1. StorageTypeOK'
  BY StorageConstants DEF StorageInv, StorageTypeOK, join, threadVars
<1>2. HistoryOK'
  BY StorageConstants DEF StorageInv, HistoryOK, join
<1>3. TasksInPlace'
  BY StorageConstants DEF StorageInv, TasksInPlace, join
<1>4. HeldOnce'
  BY StorageConstants DEF StorageInv, HeldOnce, join
<1>5. ThreadsCover'
  BY StorageConstants DEF StorageInv, ThreadsCover, join, threadVars
<1>6. StopStages'
  <2>1. queue = <<>> => ToSet(queue) = {}
    BY DEF ToSet
  <2> QED  BY <2>1, StorageConstants DEF StopStages, join
<1>7. RowsAccounted'
  BY StorageConstants DEF StorageInv, RowsAccounted, held, excused, join
<1> QED  BY <1>1, <1>2, <1>3, <1>4, <1>5, <1>6, <1>7 DEF StorageInv

\* _flush_all swaps the buffers out.
LEMMA FlushAllKeeps ==
  ASSUME StorageInv, NEW w \in Writers, flush_all(w)
  PROVE  StorageInv'
<1>1. StorageTypeOK'
  BY StorageConstants DEF StorageInv, StorageTypeOK, flush_all, threadVars
<1>2. HistoryOK'
  BY StorageConstants DEF StorageInv, HistoryOK, flush_all, historyVars
<1>3. TasksInPlace'
  BY StorageConstants DEF StorageInv, StorageTypeOK, TasksInPlace, flush_all
<1>4. HeldOnce'
  BY StorageConstants DEF StorageInv, HeldOnce, flush_all, historyVars
<1>5. ThreadsCover'
  BY StorageConstants DEF StorageInv, ThreadsCover, flush_all, threadVars, historyVars
<1>6. StopStages'
  BY StorageConstants DEF StorageInv, StopStages, flush_all, historyVars
<1>7. RowsAccounted'
  BY StorageConstants DEF StorageInv, StorageTypeOK, TasksInPlace, RowsAccounted, held, excused,
    flush_all, historyVars
<1> QED  BY <1>1, <1>2, <1>3, <1>4, <1>5, <1>6, <1>7 DEF StorageInv

\* An executor thread reads its file, or discards it.
LEMMA ReadKeeps ==
  ASSUME StorageInv, NEW w \in Writers, NEW k \in Keys, NEW corrupt \in BOOLEAN, read_existing(w, k, corrupt)
  PROVE  StorageInv'
<1>1. StorageTypeOK'
  BY StorageConstants DEF StorageInv, StorageTypeOK, HistoryOK, of, read_existing
<1>2. HistoryOK'
  BY StorageConstants DEF StorageInv, HistoryOK, read_existing
<1>3. TasksInPlace'
  BY StorageConstants DEF StorageInv, TasksInPlace, read_existing
<1>4. HeldOnce'
  BY StorageConstants DEF StorageInv, HeldOnce, read_existing
<1>5. ThreadsCover'
  BY StorageConstants DEF StorageInv, StorageTypeOK, ThreadsCover, of, read_existing
<1>6. StopStages'
  BY StorageConstants DEF StorageInv, StopStages, read_existing
<1>7. RowsAccounted'
  BY StorageConstants DEF StorageInv, RowsAccounted, held, excused, read_existing
<1> QED  BY <1>1, <1>2, <1>3, <1>4, <1>5, <1>6, <1>7 DEF StorageInv

\* A write ends.
LEMMA WriteKeeps ==
  ASSUME StorageInv, NEW w \in Writers, NEW ok \in BOOLEAN, write_done(w, ok)
  PROVE  StorageInv'
<1>1. StorageTypeOK'
  BY StorageConstants DEF StorageInv, StorageTypeOK, write_done
<1>2. HistoryOK'
  BY StorageConstants DEF StorageInv, StorageTypeOK, HistoryOK, of, write_done, merge
<1>3. TasksInPlace'
  BY StorageConstants DEF StorageInv, TasksInPlace, write_done
<1>4. HeldOnce'
  BY StorageConstants DEF StorageInv, HeldOnce, write_done
<1>5. ThreadsCover'
  BY StorageConstants DEF StorageInv, StorageTypeOK, ThreadsCover, of, write_done, merge
<1>6. StopStages'
  BY StorageConstants DEF StorageInv, StopStages, write_done
<1>7. RowsAccounted'
  BY StorageConstants DEF StorageInv, ThreadsCover, RowsAccounted, held, excused, of, write_done,
    merge
<1> QED  BY <1>1, <1>2, <1>3, <1>4, <1>5, <1>6, <1>7 DEF StorageInv

\* _write_pending returns.
LEMMA PendingDoneKeeps ==
  ASSUME StorageInv, NEW w \in Writers, write_pending_done(w)
  PROVE  StorageInv'
<1>1. StorageTypeOK'
  BY StorageConstants DEF StorageInv, StorageTypeOK, write_pending_done, threadVars
<1>2. HistoryOK'
  BY StorageConstants DEF StorageInv, HistoryOK, write_pending_done
<1>3. TasksInPlace'
  BY StorageConstants DEF StorageInv, TasksInPlace, write_pending_done
<1>4. HeldOnce'
  BY StorageConstants DEF StorageInv, HeldOnce, write_pending_done
<1>5. ThreadsCover'
  BY StorageConstants DEF StorageInv, ThreadsCover, write_pending_done, threadVars
<1>6. StopStages'
  BY StorageConstants DEF StorageInv, StopStages, write_pending_done
<1>7. RowsAccounted'
  BY StorageConstants DEF StorageInv, RowsAccounted, held, excused, write_pending_done
<1> QED  BY <1>1, <1>2, <1>3, <1>4, <1>5, <1>6, <1>7 DEF StorageInv

\* _on_stop after its join.
LEMMA StopDrainKeeps ==
  ASSUME StorageInv, stop_drain
  PROVE  StorageInv'
<1>1. StorageTypeOK'
  BY StorageConstants DEF StorageInv, StorageTypeOK, stop_drain, threadVars
<1>2. HistoryOK'
  BY StorageConstants DEF StorageInv, HistoryOK, stop_drain, historyVars
<1>3. TasksInPlace'
  BY StorageConstants DEF StorageInv, TasksInPlace, stop_drain
<1>4. HeldOnce'
  BY StorageConstants DEF StorageInv, HeldOnce, stop_drain, historyVars
<1>5. ThreadsCover'
  BY StorageConstants DEF StorageInv, ThreadsCover, stop_drain, threadVars, historyVars
<1>6. StopStages'
  BY StorageConstants DEF StorageInv, StopStages, stop_drain, historyVars
<1>7. RowsAccounted'
  BY StorageConstants DEF StorageInv, RowsAccounted, held, excused, stop_drain, historyVars
<1> QED  BY <1>1, <1>2, <1>3, <1>4, <1>5, <1>6, <1>7 DEF StorageInv

\* A step that changes nothing.
LEMMA StutterKeeps ==
  ASSUME StorageInv, UNCHANGED storageVars
  PROVE  StorageInv'
<1>1. StorageTypeOK'
  BY StorageConstants DEF StorageInv, StorageTypeOK, storageVars, threadVars
<1>2. HistoryOK'
  BY StorageConstants DEF StorageInv, HistoryOK, storageVars, historyVars
<1>3. TasksInPlace'
  BY StorageConstants DEF StorageInv, TasksInPlace, storageVars
<1>4. HeldOnce'
  BY StorageConstants DEF StorageInv, HeldOnce, storageVars, historyVars
<1>5. ThreadsCover'
  BY StorageConstants DEF StorageInv, ThreadsCover, storageVars, threadVars, historyVars
<1>6. StopStages'
  BY StorageConstants DEF StorageInv, StopStages, storageVars, historyVars
<1>7. RowsAccounted'
  BY StorageConstants DEF StorageInv, RowsAccounted, held, excused, storageVars, historyVars
<1> QED  BY <1>1, <1>2, <1>3, <1>4, <1>5, <1>6, <1>7 DEF StorageInv

-----------------------------------------------------------------------------
(* The theorems *)

\* The invariant holds when the engine starts: nothing is held anywhere.
LEMMA StorageInvInit == StorageInit => StorageInv
<1> SUFFICES ASSUME StorageInit  PROVE StorageInv
  OBVIOUS
<1>1. ToSet(queue) = {} /\ Len(queue) = 0
  BY DEF StorageInit, ToSet
<1>2. StorageTypeOK
  <2>1. queue \in Seq(Rows) /\ Len(queue) <= StorageQueueSize
    BY <1>1, StorageConstants DEF StorageInit
  <2>2. pc \in [Writers -> {"idle", "joining", "joined", "draining", "batch", "thread", "done"}]
    BY DEF StorageInit
  <2>3. batch \in [Writers -> SUBSET Rows] /\ snap \in [Writers -> SUBSET Rows]
        /\ cur \in [Writers -> Keys \cup {NoKey}]
    BY DEF StorageInit
  <2> QED  BY <2>1, <2>2, <2>3 DEF StorageInit, StorageTypeOK
<1>3. HistoryOK /\ RowsAccounted
  BY DEF StorageInit, HistoryOK, RowsAccounted
<1>4. TasksInPlace /\ ThreadsCover /\ StopStages
  BY DEF StorageInit, TasksInPlace, ThreadsCover, StopStages, Writers
<1>5. HeldOnce
  BY <1>1 DEF StorageInit, HeldOnce
<1> QED  BY <1>2, <1>3, <1>4, <1>5 DEF StorageInv

\* Every step of every task keeps it.
LEMMA StorageInvStep == StorageInv /\ [StorageNext]_storageVars => StorageInv'
<1> SUFFICES ASSUME StorageInv, [StorageNext]_storageVars  PROVE StorageInv'
  OBVIOUS
<1>1. CASE \E r \in Rows : on_event(r)
  BY <1>1, PutKeeps
<1>2. CASE writer_loop
  BY <1>2, WriterKeeps
<1>3. CASE \E due \in SUBSET Keys : flush_due(due)
  BY <1>3, FlushDueKeeps
<1>4. CASE loop_exits
  BY <1>4, LoopExitsKeeps
<1>5. CASE \E c \in Callers : flush(c)
  <2>1. PICK c \in Callers : pc["stop"] = "idle" /\ join(c)
    BY <1>5 DEF flush
  <2>2. c \in Writers /\ c # "stop"
    BY StorageConstants DEF Writers
  <2> QED  BY <2>1, <2>2, JoinKeeps
<1>6. CASE \E w \in Writers : flush_all(w)
  BY <1>6, FlushAllKeeps
<1>7. CASE \E w \in Writers : \E k \in Keys, corrupt \in BOOLEAN : read_existing(w, k, corrupt)
  BY <1>7, ReadKeeps
<1>8. CASE \E w \in Writers : \E ok \in BOOLEAN : write_done(w, ok)
  BY <1>8, WriteKeeps
<1>9. CASE \E w \in Writers : write_pending_done(w)
  BY <1>9, PendingDoneKeeps
<1>10. CASE stop
  <2>1. "stop" \in Writers
    BY DEF Writers
  <2> QED  BY <1>10, <2>1, JoinKeeps DEF stop
<1>11. CASE stop_drain
  BY <1>11, StopDrainKeeps
<1>12. CASE UNCHANGED storageVars
  BY <1>12, StutterKeeps
<1> QED
  BY <1>1, <1>2, <1>3, <1>4, <1>5, <1>6, <1>7, <1>8, <1>9, <1>10, <1>11, <1>12 DEF StorageNext

\* The invariant holds in every reachable state.
LEMMA StorageInvAlways == StorageSpec => []StorageInv
<1>1. StorageInit => StorageInv
  BY StorageInvInit
<1>2. StorageInv /\ [StorageNext]_storageVars => StorageInv'
  BY StorageInvStep
<1> QED  BY <1>1, <1>2, PTL DEF StorageSpec

\* No accepted row disappears and none is held twice, for any number of
\* partitions, rows, flush() callers and any size of the write queue.
THEOREM RowsKept == StorageSpec => []RowsAreKept
<1>1. StorageInv => RowsAreKept
  BY DEF StorageInv, RowsAreKept
<1> QED  BY <1>1, StorageInvAlways, PTL

\* What _on_stop promises: the rows accepted before it began are in the files
\* when it is over, but for those the engine has excused itself for.
THEOREM StopDurable == StorageSpec => []StopIsDurable
<1>1. StorageInv => StopIsDurable
  <2> SUFFICES ASSUME StorageInv, pc["stop"] = "done", NEW r \in target["stop"]
               PROVE  r \in disk \/ excused(r)
    BY DEF StopIsDurable
  <2>1. r \in accepted /\ r \notin ToSet(queue) /\ r \notin buffers
    BY DEF StorageInv, HistoryOK, StopStages, Writers
  <2>2. \A w \in Writers : batch[w] = {}
    BY DEF StorageInv, TasksInPlace, StopStages, Writers
  <2> QED  BY <2>1, <2>2 DEF StorageInv, RowsAccounted, held
<1> QED  BY <1>1, StorageInvAlways, PTL
=============================================================================
