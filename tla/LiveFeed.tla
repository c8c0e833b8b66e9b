------------------------------ MODULE LiveFeed ------------------------------
(***************************************************************************)
(* The live market data path up to the event bus: the Databento record     *)
(* thread with its bounded ingress queue and reconnects                    *)
(* (engines/live/adapters/databento.py), the ingress consumer on the event *)
(* loop, the handlers of LiveIngestionEngine (engines/live/engine.py) and  *)
(* IngestionMonitor (engines/live/monitor.py), the data-quality kill       *)
(* switch that position signals consult.                                   *)
(*                                                                         *)
(* The record thread and the event loop run in parallel and share the      *)
(* ingress queue and the instrument map; each queue and map access is      *)
(* atomic.  A bar is known by the minute it covers, a symbol stands for    *)
(* its instrument id too.  Time is counted in silence units: what the      *)
(* monitor tells apart is only below and above its two thresholds.         *)
(* Whether a bar reached the monitor within 250 ms of its close is an      *)
(* input.  register_adapter() wires only the skipped-records handler; the  *)
(* adapter's slow-reader and ingress-overload handlers stay None, so those *)
(* conditions change nothing here.                                         *)
(***************************************************************************)
EXTENDS Integers, Sequences, FiniteSets

CONSTANTS
  Symbols,
  IngressSize,       \* _INGRESS_QUEUE_MAXSIZE
  SilenceDegraded,   \* _SILENCE_DEGRADED_S, in silence units
  SilenceFailed,     \* _FAILED_S, in silence units
  CleanBarsNeeded,   \* _CLEAN_BARS_NEEDED
  MaxBar             \* bound: minutes the exchange publishes

ASSUME FeedConstants ==
  /\ IngressSize \in Nat \ {0}
  /\ SilenceDegraded \in Nat \ {0} /\ SilenceFailed \in Nat
  /\ SilenceDegraded < SilenceFailed
  /\ CleanBarsNeeded \in Nat \ {0}
  /\ MaxBar \in Nat

VARIABLES
  link,      \* the session: "up", "down" (record loop backing off) or "closed"
  announced, \* symbols whose mapping message the session has sent
  nextBar,   \* the minute each symbol's next bar covers
  ingress,   \* _ingress_queue
  mapped,    \* the symbols _instrument_id_to_ticker resolves
  quality,   \* _SymbolState.quality
  clean,     \* _SymbolState.consecutive_clean
  lastBar,   \* _SymbolState.last_bar_event_ts, 0 if none
  silence,   \* units since last_record_at, NoRecord if there is none
  rth,       \* regular trading hours
  dropped,   \* a record found the ingress queue full (history)
  handled,   \* the minutes whose bar the monitor got (history)
  late       \* the last of them whose bar came late, 0 if none (history)

feedVars    == <<link, announced, nextBar, ingress, dropped>>
monitorVars == <<quality, clean, lastBar, silence, handled, late>>
vars        == <<feedVars, mapped, rth, monitorVars>>

NoRecord  == -1
Qualities == {"CLEAN", "DEGRADED", "RECOVERING", "FAILED"}

Init ==
  /\ link = "up"
  /\ announced = {}
  /\ nextBar = [s \in Symbols |-> 1]
  /\ ingress = <<>>
  /\ mapped = {}
  /\ quality = [s \in Symbols |-> "CLEAN"]
  /\ clean = [s \in Symbols |-> 0]
  /\ lastBar = [s \in Symbols |-> 0]
  /\ silence = [s \in Symbols |-> NoRecord]
  /\ rth \in BOOLEAN
  /\ dropped = FALSE
  /\ handled = [s \in Symbols |-> {}]
  /\ late = [s \in Symbols |-> 0]

-----------------------------------------------------------------------------
(* Record thread *)

full == Len(ingress) >= IngressSize

\* put_nowait in the record loop: a record that finds the queue full is gone.
Put(rec) ==
  /\ ingress' = IF full THEN ingress ELSE Append(ingress, rec)
  /\ dropped' = (dropped \/ full)

\* The gateway's symbol mapping, sent for every subscription of a new session.
Announce(s) ==
  /\ link = "up" /\ s \notin announced
  /\ announced' = announced \cup {s}
  /\ Put([kind |-> "mapping", sym |-> s])
  /\ UNCHANGED <<link, nextBar, mapped, rth, monitorVars>>

\* A minute is over: its bar arrives, or no session is there to receive it.
MinuteBar(s) ==
  /\ link # "closed" /\ nextBar[s] <= MaxBar
  /\ nextBar' = [nextBar EXCEPT ![s] = @ + 1]
  /\ IF link = "up" /\ s \in announced
     THEN Put([kind |-> "bar", sym |-> s, min |-> nextBar[s]])
     ELSE UNCHANGED <<ingress, dropped>>
  /\ UNCHANGED <<link, announced, mapped, rth, monitorVars>>

\* A trade or a quote.
Tick(s) ==
  /\ link = "up" /\ s \in announced
  /\ Put([kind |-> "tick", sym |-> s])
  /\ UNCHANGED <<link, announced, nextBar, mapped, rth, monitorVars>>

\* The gateway skipped records of the symbols S, and says so.
Skipped(S) ==
  /\ link = "up"
  /\ nextBar' = [s \in Symbols |-> IF s \in S /\ nextBar[s] <= MaxBar
                                   THEN nextBar[s] + 1 ELSE nextBar[s]]
  /\ Put([kind |-> "skipped"])
  /\ UNCHANGED <<link, announced, mapped, rth, monitorVars>>

LinkLost ==
  /\ link = "up"
  /\ link' = "down"
  /\ UNCHANGED <<announced, nextBar, ingress, dropped, mapped, rth, monitorVars>>

\* _reconnect: the instrument map is cleared under the consumer's feet, while
\* records of the old session may still be queued; subscribing may fail.
reconnect(ok) ==
  /\ link = "down"
  /\ mapped' = {}
  /\ announced' = {}
  /\ link' = IF ok THEN "up" ELSE "down"
  /\ UNCHANGED <<nextBar, ingress, dropped, rth, monitorVars>>

disconnect ==
  /\ link # "closed"
  /\ link' = "closed"
  /\ UNCHANGED <<announced, nextBar, ingress, dropped, mapped, rth, monitorVars>>

-----------------------------------------------------------------------------
(* IngestionMonitor *)

is_signal_allowed(s) == quality[s] = "CLEAN"

\* _degrade on one symbol: FAILED and DEGRADED keep their quality.
degrade(s) ==
  /\ quality' = [quality EXCEPT ![s] = IF @ = "FAILED" THEN @ ELSE "DEGRADED"]
  /\ clean' = [clean EXCEPT ![s] = 0]

\* Variant: clean bars bring a failed symbol back.
record_clean_bar_Unsticky(s) ==
  LET n == clean[s] + 1
  IN  IF quality[s] = "CLEAN" THEN UNCHANGED <<quality, clean>>
      ELSE /\ quality' = [quality EXCEPT ![s] = IF n >= CleanBarsNeeded THEN "CLEAN"
                                                ELSE "RECOVERING"]
           /\ clean' = [clean EXCEPT ![s] = IF n >= CleanBarsNeeded THEN 0 ELSE n]

\* _record_clean_bar
record_clean_bar(s) ==
  LET n == clean[s] + 1
  IN  IF quality[s] \in {"CLEAN", "FAILED"} THEN UNCHANGED <<quality, clean>>
      ELSE /\ quality' = [quality EXCEPT ![s] = IF n >= CleanBarsNeeded THEN "CLEAN"
                                                ELSE "RECOVERING"]
           /\ clean' = [clean EXCEPT ![s] = IF n >= CleanBarsNeeded THEN 0 ELSE n]

\* Variant: one missing bar is tolerated.
bar_gap_Tolerant(s, min) == lastBar[s] # 0 /\ min > lastBar[s] + 2

\* The gap check of on_bar_received.
bar_gap(s, min) == lastBar[s] # 0 /\ min > lastBar[s] + 1

on_record_received(s) == silence' = [silence EXCEPT ![s] = 0]

on_bar_received(s, min, lag) ==
  /\ on_record_received(s)
  /\ lastBar' = [lastBar EXCEPT ![s] = min]
  /\ handled' = [handled EXCEPT ![s] = @ \cup {min}]
  /\ late' = [late EXCEPT ![s] = IF lag THEN min ELSE @]
  /\ IF lag \/ bar_gap(s, min) THEN degrade(s) ELSE record_clean_bar(s)

on_skipped_records ==
  /\ quality' = [s \in Symbols |-> "FAILED"]
  /\ UNCHANGED <<clean, lastBar, silence, handled, late>>

\* Variant: only a symbol that is degraded already can fail.
check_health_Lenient ==
  /\ link # "closed" /\ rth
  /\ LET failed == {s \in Symbols : silence[s] >= SilenceFailed /\ quality[s] = "DEGRADED"}
     IN  quality' = [s \in Symbols |-> IF s \in failed THEN "FAILED" ELSE quality[s]]
  /\ UNCHANGED <<clean, feedVars, mapped, rth, lastBar, silence, handled, late>>

\* The check of the health loop, once a second during regular hours.
check_health ==
  /\ link # "closed" /\ rth
  /\ LET failed == {s \in Symbols : silence[s] >= SilenceFailed}
         quiet  == {s \in Symbols \ failed :
                      silence[s] >= SilenceDegraded /\ quality[s] = "CLEAN"}
     IN  /\ quality' = [s \in Symbols |-> IF s \in failed THEN "FAILED"
                                          ELSE IF s \in quiet THEN "DEGRADED" ELSE quality[s]]
         /\ clean' = [s \in Symbols |-> IF s \in quiet THEN 0 ELSE clean[s]]
  /\ UNCHANGED <<feedVars, mapped, rth, lastBar, silence, handled, late>>

-----------------------------------------------------------------------------
(* Ingress consumer *)

\* _handle_symbol_mapping
handle_symbol_mapping(s) == mapped' = mapped \cup {s} /\ UNCHANGED monitorVars

\* _on_bar of the live engine for a completed one-minute bar.  The dashboard's
\* forming bar and the publication on the event bus are left out.
on_bar(s, min, lag) == on_bar_received(s, min, lag)

\* _on_trade and _on_quote of the live engine, as far as the monitor goes.
on_trade_or_quote(s) ==
  on_record_received(s) /\ UNCHANGED <<quality, clean, lastBar, handled, late>>

\* _dispatch_bar: data of an instrument that is not mapped is dropped without a word.
dispatch_bar(s, min, lag) ==
  /\ IF s \in mapped THEN on_bar(s, min, lag) ELSE UNCHANGED monitorVars
  /\ UNCHANGED mapped

\* _dispatch_quote and _dispatch_trade: a quote with an empty side and a trade that
\* is no auction match (standard is FALSE) are dropped too.
dispatch_tick(s, standard) ==
  /\ IF s \in mapped /\ standard THEN on_trade_or_quote(s) ELSE UNCHANGED monitorVars
  /\ UNCHANGED mapped

\* The ingress consumer takes the next record: _dispatch.
Dispatch(lag) ==
  /\ link # "closed" /\ ingress # <<>>
  /\ ingress' = Tail(ingress)
  /\ LET rec == Head(ingress)
     IN  \/ rec.kind = "mapping" /\ handle_symbol_mapping(rec.sym)
         \/ rec.kind = "skipped" /\ on_skipped_records /\ UNCHANGED mapped
         \/ rec.kind = "tick" /\ \E standard \in BOOLEAN : dispatch_tick(rec.sym, standard)
         \/ rec.kind = "bar" /\ dispatch_bar(rec.sym, rec.min, lag)
  /\ UNCHANGED <<link, announced, nextBar, dropped, rth>>

-----------------------------------------------------------------------------
(* Time *)

Elapse ==
  /\ link # "closed"
  /\ silence' = [s \in Symbols |-> IF silence[s] \in {NoRecord, SilenceFailed} THEN silence[s]
                                   ELSE silence[s] + 1]
  /\ UNCHANGED <<feedVars, mapped, rth, quality, clean, lastBar, handled, late>>

SessionBoundary ==
  /\ link # "closed"
  /\ rth' = ~rth
  /\ UNCHANGED <<feedVars, mapped, monitorVars>>

-----------------------------------------------------------------------------
Next ==
  \/ \E s \in Symbols : Announce(s) \/ MinuteBar(s) \/ Tick(s)
  \/ \E S \in SUBSET Symbols : Skipped(S)
  \/ LinkLost
  \/ \E ok \in BOOLEAN : reconnect(ok)
  \/ disconnect
  \/ \E lag \in BOOLEAN : Dispatch(lag)
  \/ check_health
  \/ Elapse
  \/ SessionBoundary

\* The event loop runs its two tasks for as long as the engine is up.
Fairness ==
  /\ WF_vars(check_health)
  /\ WF_vars(\E lag \in BOOLEAN : Dispatch(lag))

Spec == Init /\ [][Next]_vars /\ Fairness

-----------------------------------------------------------------------------
(* Properties *)

Minutes == 1 .. MaxBar

Records ==
  [kind : {"mapping", "tick"}, sym : Symbols] \cup [kind : {"skipped"}]
    \cup [kind : {"bar"}, sym : Symbols, min : Minutes]

\* Types; the ingress queue stays within its size, and consecutive_clean below
\* _CLEAN_BARS_NEEDED.
FeedTypeOK ==
  /\ link \in {"up", "down", "closed"}
  /\ announced \subseteq Symbols /\ mapped \subseteq Symbols
  /\ nextBar \in [Symbols -> 1 .. MaxBar + 1]
  /\ ingress \in Seq(Records) /\ Len(ingress) <= IngressSize
  /\ quality \in [Symbols -> Qualities]
  /\ clean \in [Symbols -> 0 .. CleanBarsNeeded - 1]
  /\ lastBar \in [Symbols -> 0 .. MaxBar]
  /\ silence \in [Symbols -> {NoRecord} \cup 0 .. SilenceFailed]
  /\ rth \in BOOLEAN /\ dropped \in BOOLEAN
  /\ handled \in [Symbols -> SUBSET Minutes] /\ late \in [Symbols -> 0 .. MaxBar]

\* FAILED is sticky: no bar, clean or not, no reconnect and no later check
\* brings a failed symbol back (_record_clean_bar, _degrade).
FailedIsSticky ==
  [][\A s \in Symbols : quality[s] = "FAILED" => quality'[s] = "FAILED"]_vars

\* Signals are allowed only on an unbroken run of bars: whichever way a bar got
\* lost (no session, gateway skip, full ingress queue, cleared instrument map),
\* the last bar and the _CLEAN_BARS_NEEDED before it have all reached the monitor.
SignalsNeedUnbrokenBars ==
  \A s \in Symbols : is_signal_allowed(s) =>
    \A b \in lastBar[s] - CleanBarsNeeded .. lastBar[s] :
      (\E first \in handled[s] : first <= b) => b \in handled[s]

\* Signals are allowed only once _CLEAN_BARS_NEEDED bars have come in time since
\* the last late one.
SignalsNeedTimelyBars ==
  \A s \in Symbols : is_signal_allowed(s) /\ late[s] # 0 =>
    Cardinality({h \in handled[s] : h > late[s]}) >= CleanBarsNeeded

silent(s) == silence[s] >= SilenceDegraded

\* A feed that stays silent during regular hours blocks signals.
SilenceBlocksSignals ==
  \A s \in Symbols :
    (is_signal_allowed(s) /\ silent(s) /\ rth)
      ~> (~is_signal_allowed(s) \/ ~silent(s) \/ ~rth \/ link = "closed")

\* Records dropped at the ingress queue fail the feed (on_ingress_overload).
DropsFailTheFeed ==
  dropped ~> (link = "closed" \/ \A s \in Symbols : quality[s] = "FAILED")

-----------------------------------------------------------------------------
(* The properties together, as a run checks them *)

\* Signals are allowed only on bars that can be trusted: none of the last ones
\* was lost in whatever way, and none came late.
SignalsNeedSoundBars == FeedTypeOK /\ SignalsNeedUnbrokenBars /\ SignalsNeedTimelyBars
=============================================================================
