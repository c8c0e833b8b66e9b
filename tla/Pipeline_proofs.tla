--------------------------- MODULE Pipeline_proofs ---------------------------
(***************************************************************************)
(* Proofs about the pipeline and the backtester, for sessions of any       *)
(* length, any prices, bars, histories, forming limits and cooldown:       *)
(*   the life of a setup only goes forward, and the session context tells  *)
(*   what the engine has active;                                           *)
(*   what triggers had been graded on an earlier bar, and two setups of a  *)
(*   type are the cooldown apart;                                          *)
(*   the tracker of a backtest enters on the engine's own trigger, one     *)
(*   position at a time, no setup twice.                                   *)
(*                                                                         *)
(* The setup engine's memory has an inductive invariant, EngineInv; each   *)
(* of the four operators a bar takes it through (session change, scan,     *)
(* advance, scoring) has a lemma that it keeps that invariant and takes    *)
(* the context forward.                                                    *)
(***************************************************************************)
EXTENDS Backtest, FiniteInduction

-----------------------------------------------------------------------------
(* One setup: what a bar makes of it *)

IsSetup(s) ==
  s = [type |-> s.type, state |-> s.state, bars |-> s.bars, snap |-> s.snap, ms |-> s.ms,
       entry |-> s.entry, stop |-> s.stop, target |-> s.target, grade |-> s.grade]

\* The types a detector can report.
Detected == SetupTypes \ (TrackedTypes \cup {"ORB_BREAKDOWN"})

\* A setup that is open: it has levels once confirmed, and a grade after that.
OpenSetup(s) ==
  /\ IsSetup(s) /\ s.type \in Detected
  /\ s.state \in {"FORMING", "CONFIRMED"}
  /\ s.state = "FORMING" => s.entry = None /\ s.grade = "none"

\* The bar touches the entry.
Reached(s, bar) == IF long(s.type) THEN Level(bar.high) >= s.entry ELSE Level(bar.low) <= s.entry

Levels(s) == <<s.entry, s.stop, s.target>>

\* What a bar may make of an open setup s.
FormedTo(s, k) ==
  /\ IsSetup(k) /\ k.type = s.type /\ k.grade = s.grade
  /\ k.state \in {"FORMING", "CONFIRMED", "INVALIDATED"}
  /\ k.state = "FORMING" => Levels(k) = Levels(s)

ConfirmedTo(s, k, reached) ==
  /\ IsSetup(k) /\ k.type = s.type /\ k.grade = s.grade /\ Levels(k) = Levels(s)
  /\ k.state \in {"CONFIRMED", "INVALIDATED", "TRIGGERED", "FAILED"}
  /\ reached => k.state \in {"TRIGGERED", "INVALIDATED"}

AdvancedTo(s, k, bar) ==
  /\ s.state = "FORMING" => FormedTo(s, k)
  /\ s.state = "CONFIRMED" => ConfirmedTo(s, k, Reached(s, bar))

\* A forming setup counts the bar, ends, or is confirmed with its levels.
LEMMA FormingMoves ==
  ASSUME NEW s, IsSetup(s), s.state = "FORMING", NEW sn, NEW invalid, NEW confirm,
         NEW entry, NEW stop, NEW target, NEW gate
  PROVE  FormedTo(s, Forming(s, sn, invalid, confirm, entry, stop, target, gate))
<1> DEFINE k == Forming(s, sn, invalid, confirm, entry, stop, target, gate)
           reject == gate /\ risk_width_rejection(entry, stop, sn)
<1>1. \/ invalid
      \/ ~invalid /\ confirm /\ reject
      \/ ~invalid /\ confirm /\ ~reject
      \/ ~invalid /\ ~confirm
  OBVIOUS
<1> HIDE DEF reject
<1>2. k = CASE invalid -> Move([s EXCEPT !.bars = @ + 1], "INVALIDATED")
            [] ~invalid /\ confirm /\ reject -> Move([s EXCEPT !.bars = @ + 1], "INVALIDATED")
            [] ~invalid /\ confirm /\ ~reject ->
                [[s EXCEPT !.bars = @ + 1] EXCEPT !.state = "CONFIRMED", !.entry = entry, !.stop = stop,
                                !.target = target]
            [] OTHER -> [s EXCEPT !.bars = @ + 1]
  BY DEF Forming, reject
<1> QED BY <1>1, <1>2 DEF FormedTo, IsSetup, Levels, Move

\* A confirmed setup is invalidated, triggered or stopped out, or stays.
LEMMA ConfirmedMoves ==
  ASSUME NEW s, IsSetup(s), s.state = "CONFIRMED", NEW sn, NEW side, NEW invalid,
         side = IF long(s.type) THEN "buy" ELSE "sell"
  PROVE  ConfirmedTo(s, Confirmed(s, sn, side, invalid), Reached(s, sn.bar))
BY DEF Confirmed, ConfirmedTo, Reached, Move, IsSetup, Levels

\* Advance, whatever its conditions and levels, makes of a setup what AdvancedTo says.
LEMMA AdvanceOf ==
  ASSUME NEW s, OpenSetup(s), NEW sn, NEW side, side = IF long(s.type) THEN "buy" ELSE "sell"
  PROVE  \A broken, invalid, confirm, entry, stop, target, gate :
           AdvancedTo(s, Advance(s, sn, side, broken, invalid, confirm, entry, stop, target, gate), sn.bar)
<1> TAKE broken, invalid, confirm, entry, stop, target, gate
<1> IsSetup(s)
  BY DEF OpenSetup
<1>2. CASE s.state = "CONFIRMED"
  BY <1>2, ConfirmedMoves DEF AdvancedTo, Advance
<1>3. CASE s.state = "FORMING"
  <2>1. FormedTo(s, Forming(s, sn, invalid, confirm, entry, stop, target, gate))
    BY <1>3, FormingMoves
  <2>2. Advance(s, sn, side, broken, invalid, confirm, entry, stop, target, gate)
         = Forming(s, sn, invalid, confirm, entry, stop, target, gate)
    BY <1>3 DEF Advance
  <2> QED BY <1>3, <2>1, <2>2 DEF AdvancedTo
<1> QED BY <1>2, <1>3 DEF OpenSetup

\* So does the advance_<type> of each type: all of them are Advance.
LEMMA AdvanceMoves ==
  ASSUME NEW s, OpenSetup(s), NEW sn, NEW ms
  PROVE  AdvancedTo(s, advance_state(s, sn, ms), sn.bar)
<1> DEFINE side == IF long(s.type) THEN "buy" ELSE "sell"
<1>0. \A broken, invalid, confirm, entry, stop, target, gate :
           AdvancedTo(s, Advance(s, sn, side, broken, invalid, confirm, entry, stop, target, gate), sn.bar)
  BY AdvanceOf
<1> HIDE DEF side
<1>1. CASE s.type = "VWAP_UNDERCUT_RECLAIM"
  <2>1. advance_state(s, sn, ms) = advance_vwap_undercut_reclaim(s, sn, ms)
    BY <1>1 DEF advance_state
  <2>2. side = "buy"
    BY <1>1 DEF side, long, ShortTypes
  <2>3. AdvancedTo(s, advance_vwap_undercut_reclaim(s, sn, ms), sn.bar)
    BY <1>0, <2>2, Zenon DEF advance_vwap_undercut_reclaim
  <2> QED BY <2>1, <2>3
<1>2. CASE s.type = "SWEEP_RECLAIM"
  <2>1. advance_state(s, sn, ms) = advance_sweep_reclaim(s, sn, ms)
    BY <1>2 DEF advance_state
  <2>2. side = "buy"
    BY <1>2 DEF side, long, ShortTypes
  <2>3. AdvancedTo(s, advance_sweep_reclaim(s, sn, ms), sn.bar)
    BY <1>0, <2>2, Zenon DEF advance_sweep_reclaim
  <2> QED BY <2>1, <2>3
<1>3. CASE s.type = "FAKE_BREAKDOWN"
  <2>1. advance_state(s, sn, ms) = advance_fake_breakdown(s, sn, ms)
    BY <1>3 DEF advance_state
  <2>2. side = "buy"
    BY <1>3 DEF side, long, ShortTypes
  <2>3. AdvancedTo(s, advance_fake_breakdown(s, sn, ms), sn.bar)
    BY <1>0, <2>2, Zenon DEF advance_fake_breakdown
  <2> QED BY <2>1, <2>3
<1>4. CASE s.type = "DEEP_EXHAUSTION_RECLAIM"
  <2>1. advance_state(s, sn, ms) = advance_deep_exhaustion_reclaim(s, sn, ms)
    BY <1>4 DEF advance_state
  <2>2. side = "buy"
    BY <1>4 DEF side, long, ShortTypes
  <2>3. AdvancedTo(s, advance_deep_exhaustion_reclaim(s, sn, ms), sn.bar)
    BY <1>0, <2>2, Zenon DEF advance_deep_exhaustion_reclaim
  <2> QED BY <2>1, <2>3
<1>5. CASE s.type = "HOD_BREAKOUT"
  <2>1. advance_state(s, sn, ms) = advance_hod_breakout(s, sn, ms)
    BY <1>5 DEF advance_state
  <2>2. side = "buy"
    BY <1>5 DEF side, long, ShortTypes
  <2>3. AdvancedTo(s, advance_hod_breakout(s, sn, ms), sn.bar)
    BY <1>0, <2>2, Zenon DEF advance_hod_breakout
  <2> QED BY <2>1, <2>3
<1>6. CASE s.type = "TREND_PULLBACK"
  <2>1. advance_state(s, sn, ms) = advance_trend_pullback(s, sn, ms)
    BY <1>6 DEF advance_state
  <2>2. side = "buy"
    BY <1>6 DEF side, long, ShortTypes
  <2>3. AdvancedTo(s, advance_trend_pullback(s, sn, ms), sn.bar)
    BY <1>0, <2>2, Zenon DEF advance_trend_pullback
  <2> QED BY <2>1, <2>3
<1>7. CASE s.type = "VWAP_RECLAIM"
  <2>1. advance_state(s, sn, ms) = advance_vwap_reclaim(s, sn, ms)
    BY <1>7 DEF advance_state
  <2>2. side = "buy"
    BY <1>7 DEF side, long, ShortTypes
  <2>3. AdvancedTo(s, advance_vwap_reclaim(s, sn, ms), sn.bar)
    BY <1>0, <2>2, Zenon DEF advance_vwap_reclaim
  <2> QED BY <2>1, <2>3
<1>8. CASE s.type = "ORB_BREAKOUT"
  <2>1. advance_state(s, sn, ms) = advance_orb_breakout(s, sn, ms)
    BY <1>8 DEF advance_state
  <2>2. side = "buy"
    BY <1>8 DEF side, long, ShortTypes
  <2>3. AdvancedTo(s, advance_orb_breakout(s, sn, ms), sn.bar)
    BY <1>0, <2>2, Zenon DEF advance_orb_breakout
  <2> QED BY <2>1, <2>3
<1>9. CASE s.type = "VWAP_REJECTION"
  <2>1. advance_state(s, sn, ms) = advance_vwap_rejection(s, sn, ms)
    BY <1>9 DEF advance_state
  <2>2. side = "sell"
    BY <1>9 DEF side, long, ShortTypes
  <2>3. AdvancedTo(s, advance_vwap_rejection(s, sn, ms), sn.bar)
    BY <1>0, <2>2, Zenon DEF advance_vwap_rejection
  <2> QED BY <2>1, <2>3
<1>10. CASE s.type = "VWAP_FAILED_RECLAIM_SHORT"
  <2>1. advance_state(s, sn, ms) = advance_vwap_failed_reclaim_short(s, sn, ms)
    BY <1>10 DEF advance_state
  <2>2. side = "sell"
    BY <1>10 DEF side, long, ShortTypes
  <2>3. AdvancedTo(s, advance_vwap_failed_reclaim_short(s, sn, ms), sn.bar)
    BY <1>0, <2>2, Zenon DEF advance_vwap_failed_reclaim_short
  <2> QED BY <2>1, <2>3
<1>11. CASE s.type = "TREND_PULLBACK_SHORT"
  <2>1. advance_state(s, sn, ms) = advance_trend_pullback_short(s, sn, ms)
    BY <1>11 DEF advance_state
  <2>2. side = "sell"
    BY <1>11 DEF side, long, ShortTypes
  <2>3. AdvancedTo(s, advance_trend_pullback_short(s, sn, ms), sn.bar)
    BY <1>0, <2>2, Zenon DEF advance_trend_pullback_short
  <2> QED BY <2>1, <2>3
<1>12. s.type \in Detected
  BY DEF OpenSetup
<1> QED
  BY <1>1, <1>2, <1>3, <1>4, <1>5, <1>6, <1>7, <1>8, <1>9, <1>10, <1>11, <1>12
  DEF Detected, SetupTypes, LongTypes, ShortTypes, TrackedTypes

-----------------------------------------------------------------------------
(* The engine's memory *)

IsEngine(e) ==
  e = [active |-> e.active, last_close |-> e.last_close, bar_count |-> e.bar_count,
       session |-> e.session, history |-> e.history, previous |-> e.previous,
       triggered |-> e.triggered]

\* Active setups are open, and the one of their type; ids give type and minute.
ActiveOpen(e) ==
  /\ \A id \in DOMAIN e.active : OpenSetup(e.active[id]) /\ e.active[id].type = id[1]
  /\ \A id, jd \in DOMAIN e.active : id[1] = jd[1] => id = jd

\* The context tells of each setup what the engine knows, or how it ended.
Tracks(e) ==
  /\ \A id \in DOMAIN e.active :
       id \in DOMAIN e.history /\ e.history[id] = history_entry(e.active[id])
  /\ \A id \in DOMAIN e.history \ DOMAIN e.active : e.history[id].state \in Terminal
  /\ \A id \in DOMAIN e.previous : e.previous[id].state \in Terminal

\* A setup opened on an earlier bar of the session, and closed on the same or a later.
Dated(e) ==
  /\ e.bar_count \in Nat
  /\ \A id \in DOMAIN e.history : id[1] \in SetupTypes /\ id[3] \in 0 .. e.bar_count - 1
  /\ \A id \in DOMAIN e.history \ DOMAIN e.active :
       e.last_close[id[1]] \in id[3] + 1 .. e.bar_count

Spaced(e) ==
  \A id, jd \in DOMAIN e.history :
    id # jd /\ id[1] = jd[1] => AbsDiff(id[3], jd[3]) >= CooldownBars

TriggersGraded(e) ==
  \A id \in DOMAIN e.history :
    e.history[id].state \in {"TRIGGERED", "FAILED"} => e.history[id].grade # "none"

EngineInv(e) ==
  IsEngine(e) /\ ActiveOpen(e) /\ Tracks(e) /\ Dated(e) /\ Spaced(e) /\ TriggersGraded(e)

\* Between two bars, what is confirmed is graded.
AllGraded(e) ==
  \A id \in DOMAIN e.active : e.active[id].state = "CONFIRMED" => e.active[id].grade # "none"

\* What a setup's entry h may become.
EntryForward(h, k) ==
  /\ Rank(h.state) <= Rank(k.state)
  /\ h.state \in Terminal => k = h
  /\ h.entry # None => <<k.entry, k.stop, k.target>> = <<h.entry, h.stop, h.target>>
  /\ h.grade # "none" => k.grade = h.grade

HistoryForward(H, K) ==
  \A id \in DOMAIN H : id \in DOMAIN K /\ EntryForward(H[id], K[id])

\* Two steps forward are a step forward.
LEMMA ForwardTwice ==
  ASSUME NEW H, NEW K, NEW L, HistoryForward(H, K), HistoryForward(K, L)
  PROVE  HistoryForward(H, L)
<1>1. ASSUME NEW h, NEW k, NEW l, EntryForward(h, k), EntryForward(k, l)
      PROVE  EntryForward(h, l)
  BY <1>1 DEF EntryForward, Rank
<1> QED BY <1>1 DEF HistoryForward

\* An entry that stays is one that goes forward.
LEMMA SameForward ==
  ASSUME NEW h PROVE EntryForward(h, h)
BY DEF EntryForward, Rank

\* The entries of the second win.
LEMMA OverwriteIs ==
  ASSUME NEW f, NEW g
  PROVE  /\ DOMAIN Overwrite(f, g) = DOMAIN f \cup DOMAIN g
         /\ \A x \in DOMAIN g : Overwrite(f, g)[x] = g[x]
         /\ \A x \in DOMAIN f \ DOMAIN g : Overwrite(f, g)[x] = f[x]
BY DEF Overwrite

\* Detectors report the types that have a life to follow.
LEMMA OnlyDetected ==
  ASSUME NEW t \in SetupTypes, NEW sn, sn.or_cross_down = FALSE, detector_reason(t, sn)
  PROVE  t \in Detected
<1>1. t \notin TrackedTypes
  BY DEF detector_reason, TrackedTypes
<1>2. CASE t = "ORB_BREAKDOWN"
  BY <1>2 DEF detector_reason, reason_orb_breakdown
<1> QED BY <1>1, <1>2 DEF Detected

\* Recording some setups changes the context only.
LEMMA RecordIs ==
  ASSUME NEW e, IsEngine(e), NEW changed
  PROVE  LET r == record_setups(e, changed) IN
         /\ IsEngine(r)
         /\ r.active = e.active /\ r.last_close = e.last_close /\ r.bar_count = e.bar_count
         /\ r.session = e.session /\ r.previous = e.previous /\ r.triggered = e.triggered
         /\ DOMAIN r.history = DOMAIN e.history \cup DOMAIN changed
         /\ \A id \in DOMAIN changed : r.history[id] = history_entry(changed[id])
         /\ \A id \in DOMAIN e.history \ DOMAIN changed : r.history[id] = e.history[id]
<1> DEFINE new == [id \in DOMAIN changed |-> history_entry(changed[id])]
           r == record_setups(e, changed)
<1>1. /\ r = [e EXCEPT !.history = Overwrite(e.history, new)]
      /\ DOMAIN new = DOMAIN changed /\ \A id \in DOMAIN changed : new[id] = history_entry(changed[id])
  BY DEF record_setups
<1> HIDE DEF new, r
<1>2. /\ IsEngine(r) /\ r.history = Overwrite(e.history, new)
      /\ r.active = e.active /\ r.last_close = e.last_close /\ r.bar_count = e.bar_count
      /\ r.session = e.session /\ r.previous = e.previous /\ r.triggered = e.triggered
  BY <1>1 DEF IsEngine
<1>3. /\ DOMAIN r.history = DOMAIN e.history \cup DOMAIN changed
      /\ \A id \in DOMAIN changed : r.history[id] = history_entry(changed[id])
      /\ \A id \in DOMAIN e.history \ DOMAIN changed : r.history[id] = e.history[id]
  <2>1. /\ DOMAIN Overwrite(e.history, new) = DOMAIN e.history \cup DOMAIN new
        /\ \A x \in DOMAIN new : Overwrite(e.history, new)[x] = new[x]
        /\ \A x \in DOMAIN e.history \ DOMAIN new : Overwrite(e.history, new)[x] = e.history[x]
    BY OverwriteIs, Zenon
  <2> QED BY <1>1, <1>2, <2>1, Zenon
<1> QED BY <1>2, <1>3 DEF r

\* A setup's entry shows its state, levels and grade.
LEMMA EntryShows ==
  ASSUME NEW s
  PROVE  LET h == history_entry(s) IN
         /\ h.type = s.type /\ h.state = s.state /\ h.grade = s.grade
         /\ h.entry = s.entry /\ h.stop = s.stop /\ h.target = s.target
BY DEF history_entry

\* The memory a bar starts from: the session's, or a new one, and one bar more.
Counted(e, key) == [roll_session_if_needed(e, key) EXCEPT !.bar_count = @ + 1]

\* The bar is counted in its session; a new session expires what is open and starts afresh.
LEMMA CountedInv ==
  ASSUME NEW e, EngineInv(e), AllGraded(e), NEW key
  PROVE  LET c == Counted(e, key) IN
         /\ EngineInv(c) /\ AllGraded(c) /\ c.session = key
         /\ \A id \in DOMAIN c.history : id[3] < c.bar_count - 1
         /\ c.bar_count = IF e.session = key THEN e.bar_count + 1 ELSE 1
         /\ e.session = key => c.history = e.history /\ c.active = e.active
<1> DEFINE c == Counted(e, key)
<1>1. CASE e.session = key
  <2>1. c = [e EXCEPT !.bar_count = e.bar_count + 1]
    BY <1>1 DEF Counted, roll_session_if_needed
  <2> HIDE DEF c
  <2>2. /\ IsEngine(c) /\ c.bar_count = e.bar_count + 1 /\ c.active = e.active
        /\ c.history = e.history /\ c.last_close = e.last_close /\ c.session = e.session
        /\ c.previous = e.previous
    BY <2>1 DEF EngineInv, IsEngine
  <2>3. Dated(c) /\ \A id \in DOMAIN c.history : id[3] < c.bar_count - 1
    BY <2>2 DEF EngineInv, Dated
  <2>4. ActiveOpen(c) /\ Tracks(c) /\ Spaced(c) /\ TriggersGraded(c) /\ AllGraded(c)
    BY <2>2 DEF EngineInv, ActiveOpen, Tracks, Spaced, TriggersGraded, AllGraded
  <2> QED BY <2>2, <2>3, <2>4, <1>1 DEF EngineInv, c
<1>2. CASE e.session # key
  <2> DEFINE gone == [id \in DOMAIN e.active |-> Move(e.active[id], "EXPIRED")]
             old  == IF e.session = None THEN e.previous ELSE record_setups(e, gone).history
  <2>1. c = [[NoSetups EXCEPT !.session = key, !.triggered = e.triggered, !.previous = old]
               EXCEPT !.bar_count = @ + 1]
    BY <1>2 DEF Counted, roll_session_if_needed
  <2>2. \A id \in DOMAIN old : old[id].state \in Terminal
    <3>1. CASE e.session = None
      BY <3>1 DEF EngineInv, Tracks
    <3>2. CASE e.session # None
      <4>1. ASSUME NEW id \in DOMAIN e.active PROVE history_entry(gone[id]).state = "EXPIRED"
        <5>1. gone[id] = Move(e.active[id], "EXPIRED") /\ IsSetup(e.active[id])
          BY DEF EngineInv, ActiveOpen, OpenSetup
        <5>2. gone[id].state = "EXPIRED"
          BY <5>1 DEF Move, IsSetup
        <5> QED BY <5>2, EntryShows
      <4> DEFINE H == record_setups(e, gone).history
      <4>2. /\ DOMAIN H = DOMAIN e.history \cup DOMAIN e.active
            /\ \A id \in DOMAIN e.active : H[id] = history_entry(gone[id])
            /\ \A id \in DOMAIN e.history \ DOMAIN e.active : H[id] = e.history[id]
        <5>1. IsEngine(e) /\ DOMAIN gone = DOMAIN e.active
          BY DEF EngineInv
        <5> HIDE DEF gone
        <5> QED BY <5>1, RecordIs
      <4> HIDE DEF H, gone
      <4>3. \A id \in DOMAIN H : H[id].state \in Terminal
        BY <4>1, <4>2 DEF EngineInv, Tracks, Terminal
      <4> QED BY <4>3, <3>2 DEF H
    <3> QED BY <3>1, <3>2
  <2> HIDE DEF old, c
  <2>3. /\ IsEngine(c) /\ c.bar_count = 1 /\ c.active = << >> /\ c.history = << >>
        /\ c.session = key /\ c.previous = old
    <3> DEFINE none == [t \in SetupTypes |-> None]
    <3>1. NoSetups = [active |-> << >>, last_close |-> none, bar_count |-> 0, session |-> None,
                      history |-> << >>, previous |-> << >>, triggered |-> 0]
      BY DEF NoSetups
    <3> HIDE DEF none
    <3>2. c = [active |-> << >>, last_close |-> none, bar_count |-> 0 + 1, session |-> key,
               history |-> << >>, previous |-> old, triggered |-> e.triggered]
      BY <2>1, <3>1
    <3> QED BY <3>2 DEF IsEngine
  <2>4. DOMAIN c.active = {} /\ DOMAIN c.history = {}
    BY <2>3
  <2>5. /\ Dated(c) /\ ActiveOpen(c) /\ Tracks(c) /\ Spaced(c) /\ TriggersGraded(c) /\ AllGraded(c)
    BY <2>2, <2>3, <2>4 DEF Dated, ActiveOpen, Tracks, Spaced, TriggersGraded, AllGraded
  <2> QED BY <2>3, <2>4, <2>5, <1>2 DEF EngineInv, c
<1> QED BY <1>1, <1>2

\* What a scan leaves: what was active is as it was, and the session goes on.
Scanned(before, after) ==
  /\ EngineInv(after) /\ AllGraded(after) /\ HistoryForward(before.history, after.history)
  /\ after.session = before.session /\ after.bar_count = before.bar_count
  /\ \A id \in DOMAIN before.active :
       id \in DOMAIN after.active /\ after.active[id] = before.active[id]

\* The scan opens setups of idle, cooled-down types, one each, and leaves the rest.
LEMMA ScanInv ==
  ASSUME NEW e, EngineInv(e), AllGraded(e), NEW sn, NEW ms, sn.or_cross_down = FALSE,
         sn.bar.minute = e.bar_count - 1, e.bar_count > 0,
         \A id \in DOMAIN e.history : id[3] < e.bar_count - 1
  PROVE  Scanned(e, scan_for_setups(e, sn, ms))
<1> DEFINE new == {t \in SetupTypes :
                     /\ ~has_active(e, t) /\ cooled_down(e, t)
                     /\ sn.session_phase \in RthPhases
                     /\ detector_reason(t, sn)}
           Id(t) == <<t, sn.bar.session, sn.bar.minute>>
           ids == {Id(t) : t \in new}
           opened == [id \in ids |-> open_setup(id[1], sn, ms)]
           g == [e EXCEPT !.active = Overwrite(@, opened)]
           f == scan_for_setups(e, sn, ms)
           m == e.bar_count
<1>1. f = record_setups(g, opened)
  BY DEF scan_for_setups
<1>2. \A t \in new : /\ t \in Detected /\ t \in SetupTypes
                     /\ ~has_active(e, t) /\ cooled_down(e, t)
  BY OnlyDetected
<1>3. \A id \in ids : /\ id[1] \in new /\ id[3] = m - 1 /\ id = Id(id[1])
                      /\ id \notin DOMAIN e.history
  <2> HIDE DEF new
  <2>1. ASSUME NEW t \in new PROVE Id(t)[1] = t /\ Id(t)[3] = m - 1
    OBVIOUS
  <2>2. ASSUME NEW id \in ids PROVE id[1] \in new /\ id[3] = m - 1 /\ id = Id(id[1])
    BY <2>1
  <2>3. ASSUME NEW id \in ids, id \in DOMAIN e.history PROVE FALSE
    <3>1. id[3] = m - 1 /\ id[3] < m - 1
      BY <2>3, <2>2
    <3> QED BY <3>1 DEF EngineInv, Dated
  <2> QED BY <2>2, <2>3
<1>4. DOMAIN opened = ids /\ \A id \in ids : opened[id] = open_setup(id[1], sn, ms)
  OBVIOUS
<1> HIDE DEF new, Id, ids, opened, f, m
<1>5. /\ DOMAIN Overwrite(e.active, opened) = DOMAIN e.active \cup ids
      /\ \A id \in ids : Overwrite(e.active, opened)[id] = opened[id]
      /\ \A id \in DOMAIN e.active \ ids : Overwrite(e.active, opened)[id] = e.active[id]
  <2>1. /\ DOMAIN Overwrite(e.active, opened) = DOMAIN e.active \cup DOMAIN opened
        /\ \A x \in DOMAIN opened : Overwrite(e.active, opened)[x] = opened[x]
        /\ \A x \in DOMAIN e.active \ DOMAIN opened : Overwrite(e.active, opened)[x] = e.active[x]
    BY OverwriteIs, Zenon
  <2> QED BY <1>4, <2>1, Zenon
<1>6. /\ IsEngine(g) /\ g.active = Overwrite(e.active, opened)
      /\ g.last_close = e.last_close /\ g.bar_count = e.bar_count /\ g.session = e.session
      /\ g.history = e.history /\ g.previous = e.previous
  BY DEF EngineInv, IsEngine
<1> HIDE DEF g
<1>7. /\ IsEngine(f) /\ f.active = g.active
      /\ f.last_close = e.last_close /\ f.bar_count = e.bar_count /\ f.session = e.session
      /\ f.previous = e.previous
      /\ DOMAIN f.history = DOMAIN e.history \cup ids
      /\ \A id \in ids : f.history[id] = history_entry(opened[id])
      /\ \A id \in DOMAIN e.history \ ids : f.history[id] = e.history[id]
  BY <1>1, <1>4, <1>6, RecordIs
<1>8. /\ \A id \in DOMAIN e.active : id \in DOMAIN f.active /\ f.active[id] = e.active[id]
      /\ DOMAIN f.active = DOMAIN e.active \cup ids
      /\ \A id \in ids : f.active[id] = opened[id]
      /\ \A id \in DOMAIN e.history : f.history[id] = e.history[id]
  BY <1>3, <1>5, <1>6, <1>7 DEF EngineInv, Tracks
<1>9. \A id \in ids : /\ OpenSetup(opened[id]) /\ opened[id].type = id[1]
                      /\ opened[id].state = "FORMING"
  BY <1>2, <1>3, <1>4 DEF open_setup, OpenSetup, IsSetup
<1>10. ActiveOpen(f)
  <2>1. \A id \in DOMAIN f.active : OpenSetup(f.active[id]) /\ f.active[id].type = id[1]
    BY <1>8, <1>9 DEF EngineInv, ActiveOpen
  <2>2. ASSUME NEW id \in DOMAIN e.active, NEW jd \in ids, id[1] = jd[1] PROVE FALSE
    <3>1. e.active[id].type = jd[1]
      BY <2>2 DEF EngineInv, ActiveOpen
    <3> QED BY <3>1, <1>2, <1>3 DEF has_active
  <2>3. \A id, jd \in ids : id[1] = jd[1] => id = jd
    BY <1>3, Zenon
  <2> QED BY <2>1, <2>2, <2>3, <1>8 DEF EngineInv, ActiveOpen
<1>11. Tracks(f)
  BY <1>7, <1>8 DEF EngineInv, Tracks
<1>12. Dated(f)
  <2>1. \A id \in DOMAIN f.history : id[1] \in SetupTypes /\ id[3] \in 0 .. f.bar_count - 1
    BY <1>2, <1>3, <1>7 DEF EngineInv, Dated, m
  <2> QED BY <2>1, <1>7, <1>8 DEF EngineInv, Dated
<1>13. Spaced(f)
  <2>1. ASSUME NEW id \in DOMAIN e.history, NEW jd \in ids, id[1] = jd[1]
        PROVE  AbsDiff(id[3], jd[3]) >= CooldownBars /\ AbsDiff(jd[3], id[3]) >= CooldownBars
    <3>1. id \notin DOMAIN e.active
      BY <2>1, <1>2, <1>3 DEF EngineInv, ActiveOpen, has_active
    <3>2. PICK closed \in Int : closed = e.last_close[id[1]]
      BY <3>1 DEF EngineInv, Dated
    <3>3. PICK opens \in Int : opens = id[3]
      BY DEF EngineInv, Dated
    <3>4. closed >= opens + 1 /\ m \in Int /\ opens >= 0 /\ opens < m - 1
      BY <3>1, <3>2, <3>3 DEF EngineInv, Dated, m
    <3>5. m - closed >= CooldownBars
      BY <2>1, <1>2, <1>3, <3>2, <3>4 DEF cooled_down, None, m
    <3>6. jd[3] = m - 1
      BY <1>3
    <3>7. m - 1 - opens >= CooldownBars
      BY <3>4, <3>5, SetupAssumption
    <3> QED BY <3>3, <3>4, <3>6, <3>7, SetupAssumption DEF AbsDiff
  <2>2. \A id, jd \in ids : id[1] = jd[1] => id = jd
    BY <1>3, Zenon
  <2> QED BY <2>1, <2>2, <1>7 DEF EngineInv, Spaced
<1>14. TriggersGraded(f) /\ AllGraded(f)
  <2>1. \A id \in ids : f.history[id].state = "FORMING"
    BY <1>7, <1>9, EntryShows
  <2> QED BY <2>1, <1>7, <1>8, <1>9 DEF EngineInv, TriggersGraded, AllGraded
<1>15. HistoryForward(e.history, f.history)
  BY <1>7, <1>8, SameForward DEF HistoryForward
<1> QED BY <1>7, <1>8, <1>10, <1>11, <1>12, <1>13, <1>14, <1>15 DEF EngineInv, Scanned, f

\* What a bar makes of the active setups: each goes forward, those that end leave,
\* and one whose entry was touched ends.
LEMMA UpdateInv ==
  ASSUME NEW e, EngineInv(e), AllGraded(e), NEW sn, NEW ms
  PROVE  LET g == update_active_setups(e, sn, ms) IN
         /\ EngineInv(g) /\ HistoryForward(e.history, g.history)
         /\ g.session = e.session /\ g.bar_count = e.bar_count
         /\ \A id \in DOMAIN e.active :
              e.active[id].state = "CONFIRMED" /\ Reached(e.active[id], sn.bar) =>
                /\ id \notin DOMAIN g.active /\ id \in DOMAIN g.history
                /\ g.history[id].state \in {"TRIGGERED", "INVALIDATED"}
<1> DEFINE upd     == [id \in DOMAIN e.active |-> advance_state(e.active[id], sn, ms)]
           changed == {id \in DOMAIN upd : upd[id].state # e.active[id].state}
           ended   == {id \in DOMAIN upd : upd[id].state \in Terminal}
           fired   == {id \in changed : upd[id].state = "TRIGGERED"}
           r       == record_setups(e, Restrict(upd, changed))
           kept    == Restrict(upd, DOMAIN upd \ ended)
           close   == [t \in SetupTypes |->
                         IF \E id \in ended : upd[id].type = t THEN e.bar_count
                                                               ELSE r.last_close[t]]
           g       == update_active_setups(e, sn, ms)
           A       == DOMAIN e.active
<1>1. g = [r EXCEPT !.active = kept, !.triggered = r.triggered + Cardinality(fired),
                    !.last_close = close]
  BY DEF update_active_setups
<1>2. ASSUME NEW id \in A
      PROVE  /\ OpenSetup(e.active[id]) /\ e.active[id].type = id[1]
             /\ AdvancedTo(e.active[id], upd[id], sn.bar)
             /\ id \in DOMAIN e.history /\ e.history[id] = history_entry(e.active[id])
  <2>1. OpenSetup(e.active[id]) /\ e.active[id].type = id[1]
    BY DEF EngineInv, ActiveOpen
  <2>2. upd[id] = advance_state(e.active[id], sn, ms)
    OBVIOUS
  <2>3. AdvancedTo(e.active[id], upd[id], sn.bar)
    BY <2>1, <2>2, AdvanceMoves
  <2> QED BY <2>1, <2>3 DEF EngineInv, Tracks
<1>3. DOMAIN upd = A
  OBVIOUS
<1>4. /\ changed \subseteq A /\ ended \subseteq A
      /\ \A id \in A : /\ id \in changed <=> upd[id].state # e.active[id].state
                       /\ id \in ended <=> upd[id].state \in Terminal
  BY <1>3
<1>5. /\ DOMAIN Restrict(upd, changed) = changed
      /\ \A id \in changed : Restrict(upd, changed)[id] = upd[id]
      /\ DOMAIN kept = A \ ended /\ \A id \in A \ ended : kept[id] = upd[id]
  BY <1>3 DEF Restrict
<1>6. \A t \in SetupTypes :
        /\ (\E id \in ended : upd[id].type = t) => close[t] = e.bar_count
        /\ ~(\E id \in ended : upd[id].type = t) => close[t] = r.last_close[t]
  OBVIOUS
<1> HIDE DEF upd, changed, ended, fired, kept, close, g, A
<1>7. /\ IsEngine(r)
      /\ r.active = e.active /\ r.last_close = e.last_close /\ r.bar_count = e.bar_count
      /\ r.session = e.session /\ r.previous = e.previous
      /\ DOMAIN r.history = DOMAIN e.history \cup changed
      /\ \A id \in changed : r.history[id] = history_entry(upd[id])
      /\ \A id \in DOMAIN e.history \ changed : r.history[id] = e.history[id]
  <2> DEFINE some == Restrict(upd, changed)
  <2>1. DOMAIN some = changed /\ \A id \in changed : some[id] = upd[id]
    BY <1>5
  <2> HIDE DEF some
  <2>2. r = record_setups(e, some) /\ IsEngine(e)
    BY DEF some, EngineInv
  <2> HIDE DEF r
  <2> QED BY <2>1, <2>2, RecordIs
<1> HIDE DEF r
<1>8. /\ IsEngine(g) /\ g.active = kept /\ g.last_close = close /\ g.history = r.history
      /\ g.bar_count = r.bar_count /\ g.session = r.session /\ g.previous = r.previous
  BY <1>1, <1>7 DEF IsEngine
<1>9. /\ DOMAIN g.active = A \ ended /\ \A id \in A \ ended : g.active[id] = upd[id]
      /\ DOMAIN g.history = DOMAIN e.history
      /\ \A id \in changed : g.history[id] = history_entry(upd[id])
      /\ \A id \in DOMAIN e.history \ changed : g.history[id] = e.history[id]
  BY <1>2, <1>4, <1>5, <1>7, <1>8
\* What the context says of an active setup after the bar.
<1>10. ASSUME NEW id \in A
       PROVE  /\ g.history[id] = history_entry(upd[id])
              /\ id \in ended => id \in changed
              /\ id \notin ended => OpenSetup(upd[id])
              /\ upd[id].type = id[1]
              /\ EntryForward(e.history[id], g.history[id])
              /\ upd[id].state \in {"TRIGGERED", "FAILED"} => upd[id].grade # "none"
  <2> DEFINE s == e.active[id]
             k == upd[id]
  <2>1. OpenSetup(s) /\ AdvancedTo(s, k, sn.bar) /\ s.type = id[1] /\ e.history[id] = history_entry(s)
    BY <1>2
  <2>2. s.state = "CONFIRMED" => s.grade # "none"
    BY DEF AllGraded, A
  <2>3. id \in changed <=> k.state # s.state
    BY <1>4
  <2>4. id \in ended <=> k.state \in Terminal
    BY <1>4
  <2>5. id \in changed => g.history[id] = history_entry(k)
    BY <1>9
  <2>6. id \notin changed => g.history[id] = history_entry(s)
    BY <1>9, <1>2
  <2> HIDE DEF s, k
  <2>7. CASE s.state = "FORMING"
    <3>1. FormedTo(s, k) /\ s.entry = None /\ s.grade = "none"
      BY <2>1, <2>7 DEF AdvancedTo, OpenSetup
    <3>2. id \in ended => id \in changed
      BY <2>3, <2>4, <2>7 DEF Terminal
    <3>3. k.type = id[1] /\ k.grade = s.grade /\ k.state \notin {"TRIGGERED", "FAILED"}
      BY <2>1, <3>1 DEF FormedTo
    <3>4. id \notin ended => OpenSetup(k)
      BY <2>1, <2>4, <3>1 DEF FormedTo, OpenSetup, Terminal, Levels
    <3>5. g.history[id] = history_entry(k)
      <4>1. CASE id \notin changed
        <5>1. history_entry(k) = history_entry(s)
          BY <4>1, <2>3, <2>7, <3>1 DEF FormedTo, Levels, history_entry
        <5> QED BY <5>1, <4>1, <2>6
      <4> QED BY <4>1, <2>5
    <3>6. EntryForward(history_entry(s), history_entry(k))
      BY <3>1, <2>7, EntryShows DEF FormedTo, EntryForward, Rank, Terminal
    <3> QED BY <2>1, <3>2, <3>3, <3>4, <3>5, <3>6 DEF s, k
  <2>8. CASE s.state = "CONFIRMED"
    <3>1. /\ IsSetup(k) /\ k.type = s.type /\ k.grade = s.grade /\ Levels(k) = Levels(s)
          /\ k.state \in {"CONFIRMED", "INVALIDATED", "TRIGGERED", "FAILED"}
      BY <2>1, <2>8 DEF AdvancedTo, ConfirmedTo
    <3>2. id \in ended => id \in changed
      BY <2>3, <2>4, <2>8 DEF Terminal
    <3>3. k.type = id[1] /\ k.grade # "none"
      BY <2>1, <2>2, <2>8, <3>1
    <3>4. id \notin ended => OpenSetup(k)
      BY <2>1, <2>4, <3>1 DEF OpenSetup, Terminal
    <3>5. g.history[id] = history_entry(k)
      <4>1. CASE id \notin changed
        <5>1. history_entry(k) = history_entry(s)
          BY <4>1, <2>3, <2>8, <3>1 DEF Levels, history_entry
        <5> QED BY <5>1, <4>1, <2>6
      <4> QED BY <4>1, <2>5
    <3>6. EntryForward(history_entry(s), history_entry(k))
      BY <3>1, <2>8, EntryShows DEF EntryForward, Rank, Terminal, Levels
    <3> QED BY <2>1, <3>2, <3>3, <3>4, <3>5, <3>6 DEF s, k
  <2> QED BY <2>1, <2>7, <2>8 DEF OpenSetup
<1>11. ActiveOpen(g)
  BY <1>9, <1>10, <1>2 DEF EngineInv, ActiveOpen, A
<1>12. Tracks(g)
  <2>1. \A id \in ended : g.history[id].state \in Terminal
    BY <1>4, <1>10, EntryShows
  <2>2. \A id \in DOMAIN g.history \ A : g.history[id].state \in Terminal
    BY <1>4, <1>9 DEF EngineInv, Tracks, A
  <2>3. \A id \in DOMAIN g.active : id \in DOMAIN g.history /\ g.history[id] = history_entry(g.active[id])
    BY <1>2, <1>9, <1>10
  <2> QED BY <1>7, <1>8, <1>9, <2>1, <2>2, <2>3 DEF EngineInv, Tracks
<1>13. Dated(g)
  <2>1. \A id \in DOMAIN g.history : id[1] \in SetupTypes /\ id[3] \in 0 .. g.bar_count - 1
    BY <1>7, <1>8, <1>9 DEF EngineInv, Dated
  <2>2. ASSUME NEW id \in DOMAIN g.history \ DOMAIN g.active
        PROVE  g.last_close[id[1]] \in id[3] + 1 .. g.bar_count
    <3>1. id[1] \in SetupTypes /\ id[3] \in 0 .. e.bar_count - 1 /\ e.bar_count \in Nat
      BY <2>1, <1>7, <1>8 DEF EngineInv, Dated
    <3>2. CASE \E jd \in ended : upd[jd].type = id[1]
      <4>1. g.last_close[id[1]] = e.bar_count
        BY <3>1, <3>2, <1>6, <1>8
      <4> QED BY <4>1, <3>1, <1>7, <1>8
    <3>3. CASE ~ \E jd \in ended : upd[jd].type = id[1]
      <4>1. id \notin A
        BY <3>3, <1>9, <1>10, <1>4
      <4>2. e.last_close[id[1]] \in id[3] + 1 .. e.bar_count
        BY <4>1, <1>9 DEF EngineInv, Dated, A
      <4> QED BY <3>1, <3>3, <4>2, <1>6, <1>7, <1>8
    <3> QED BY <3>2, <3>3
  <2> QED BY <2>1, <2>2, <1>7, <1>8 DEF EngineInv, Dated
<1>14. Spaced(g)
  BY <1>9 DEF EngineInv, Spaced
<1>15. TriggersGraded(g)
  <2>1. ASSUME NEW id \in A, g.history[id].state \in {"TRIGGERED", "FAILED"}
        PROVE  g.history[id].grade # "none"
    BY <2>1, <1>10, EntryShows
  <2>2. ASSUME NEW id \in DOMAIN g.history \ A, g.history[id].state \in {"TRIGGERED", "FAILED"}
        PROVE  g.history[id].grade # "none"
    BY <2>2, <1>4, <1>9 DEF EngineInv, TriggersGraded
  <2> QED BY <2>1, <2>2 DEF TriggersGraded
<1>16. HistoryForward(e.history, g.history)
  BY <1>4, <1>9, <1>10, SameForward DEF HistoryForward
<1>17. ASSUME NEW id \in A, e.active[id].state = "CONFIRMED", Reached(e.active[id], sn.bar)
       PROVE  /\ id \notin DOMAIN g.active /\ id \in DOMAIN g.history
              /\ g.history[id].state \in {"TRIGGERED", "INVALIDATED"}
  <2>1. upd[id].state \in {"TRIGGERED", "INVALIDATED"}
    BY <1>17, <1>2 DEF AdvancedTo, ConfirmedTo
  <2>2. id \in ended
    BY <2>1, <1>4 DEF Terminal
  <2> QED BY <2>1, <2>2, <1>2, <1>9, <1>10, EntryShows
<1> QED
  BY <1>7, <1>8, <1>11, <1>12, <1>13, <1>14, <1>15, <1>16, <1>17 DEF EngineInv, A, g

-----------------------------------------------------------------------------
(* Grading *)

\* The rubric always gives a grade.
LEMMA GradeGiven ==
  ASSUME NEW s, NEW sn, NEW flow
  PROVE  compute(s, sn, flow) # "none"
<1> DEFINE G == {"C", "B", "A", "A_PLUS", "SSS"}
<1>1. ASSUME NEW x PROVE grade_from_score(x) \in G
  BY DEF grade_from_score
<1>2. ASSUME NEW x \in G, NEW y \in G PROVE apply_cap(x, y) \in G
  BY <1>2 DEF apply_cap
<1>3. compute(s, sn, flow) \in G
  <2> DEFINE short == s.type \in ShortTypes
             score == IF short THEN score_short(s, sn, flow) ELSE score_long(s, sn, flow)
             g     == grade_from_score(score)
             typed == IF s.type = "VWAP_REJECTION" THEN apply_cap(g, "A") ELSE g
             bias  == IF s.ms.live_bias = (IF short THEN "BULLISH" ELSE "BEARISH")
                      THEN apply_cap(typed, "A") ELSE typed
             last  == IF ~short /\ flow.known /\ flow.v_reversal THEN apply_cap(bias, "B") ELSE bias
  <2>1. compute(s, sn, flow) = last
    BY DEF compute
  <2>2. g \in G
    BY <1>1
  <2> HIDE DEF g
  <2>3. typed \in G
    BY <2>2, <1>2
  <2> HIDE DEF typed
  <2>4. bias \in G
    BY <2>3, <1>2
  <2> HIDE DEF bias
  <2>5. last \in G
    BY <2>4, <1>2
  <2> QED BY <2>1, <2>5
<1> QED BY <1>3

\* Grading leaves everything but the grades of the ungraded confirmed setups.
LEMMA ScoreInv ==
  ASSUME NEW e, EngineInv(e), NEW sn, NEW flow
  PROVE  LET p == scoring_process_bar(e, sn, flow) IN
         /\ EngineInv(p) /\ AllGraded(p) /\ HistoryForward(e.history, p.history)
         /\ p.session = e.session /\ p.bar_count = e.bar_count
         /\ DOMAIN p.active = DOMAIN e.active /\ DOMAIN p.history = DOMAIN e.history
         /\ \A id \in DOMAIN e.history \ DOMAIN e.active : p.history[id] = e.history[id]
         /\ \A id \in DOMAIN e.active : e.active[id].grade # "none" => p.active[id] = e.active[id]
<1> DEFINE due    == {id \in DOMAIN e.active :
                        e.active[id].state = "CONFIRMED" /\ e.active[id].grade = "none"}
           grades == [id \in due |-> compute(e.active[id], sn, flow)]
           patch  == [id \in DOMAIN grades \cap DOMAIN e.active |->
                        [e.active[id] EXCEPT !.grade = grades[id]]]
           g == [e EXCEPT !.active = Overwrite(@, patch)]
           p == scoring_process_bar(e, sn, flow)
           A == DOMAIN e.active
<1>1. p = record_setups(g, patch)
  BY DEF scoring_process_bar, patch_setup_scores
<1>2. /\ DOMAIN patch = due /\ due \subseteq A
      /\ \A id \in due : patch[id] = [e.active[id] EXCEPT !.grade = compute(e.active[id], sn, flow)]
      /\ \A id \in A : id \in due <=> e.active[id].state = "CONFIRMED" /\ e.active[id].grade = "none"
  OBVIOUS
<1> HIDE DEF due, patch, g, p, A
<1>3. \A id \in A : /\ OpenSetup(e.active[id]) /\ e.active[id].type = id[1]
                    /\ id \in DOMAIN e.history /\ e.history[id] = history_entry(e.active[id])
  BY DEF EngineInv, ActiveOpen, Tracks, A
\* A graded setup is the same setup with its grade.
<1>4. ASSUME NEW id \in due
      PROVE  /\ OpenSetup(patch[id]) /\ patch[id].type = id[1] /\ patch[id].state = "CONFIRMED"
             /\ patch[id].grade # "none"
             /\ EntryForward(history_entry(e.active[id]), history_entry(patch[id]))
  <2> DEFINE s == e.active[id]
             k == patch[id]
  <2>1. PICK gr : gr = compute(s, sn, flow)
    OBVIOUS
  <2>2. gr # "none" /\ k = [s EXCEPT !.grade = gr]
    BY <1>2, <2>1, GradeGiven
  <2>3. OpenSetup(s) /\ s.type = id[1] /\ s.state = "CONFIRMED" /\ s.grade = "none"
    BY <1>2, <1>3
  <2> HIDE DEF s, k
  <2>4. /\ IsSetup(k) /\ k.type = s.type /\ k.state = s.state /\ Levels(k) = Levels(s) /\ k.grade = gr
    BY <2>2, <2>3 DEF OpenSetup, IsSetup, Levels
  <2>5. OpenSetup(k)
    BY <2>3, <2>4 DEF OpenSetup
  <2>6. EntryForward(history_entry(s), history_entry(k))
    BY <2>3, <2>4, EntryShows DEF EntryForward, Levels, Terminal, Rank
  <2> QED BY <2>2, <2>3, <2>4, <2>5, <2>6 DEF s, k
<1>5. /\ DOMAIN Overwrite(e.active, patch) = A
      /\ \A id \in due : Overwrite(e.active, patch)[id] = patch[id]
      /\ \A id \in A \ due : Overwrite(e.active, patch)[id] = e.active[id]
  <2>1. /\ DOMAIN Overwrite(e.active, patch) = DOMAIN e.active \cup DOMAIN patch
        /\ \A x \in DOMAIN patch : Overwrite(e.active, patch)[x] = patch[x]
        /\ \A x \in DOMAIN e.active \ DOMAIN patch : Overwrite(e.active, patch)[x] = e.active[x]
    BY OverwriteIs, Zenon
  <2>2. A \cup due = A
    BY <1>2
  <2> QED BY <1>2, <2>1, <2>2, Zenon DEF A
<1>6. /\ IsEngine(g) /\ g.active = Overwrite(e.active, patch)
      /\ g.last_close = e.last_close /\ g.bar_count = e.bar_count /\ g.session = e.session
      /\ g.history = e.history /\ g.previous = e.previous
  BY DEF EngineInv, IsEngine, g
<1>7. /\ IsEngine(p) /\ p.active = g.active
      /\ p.last_close = e.last_close /\ p.bar_count = e.bar_count /\ p.session = e.session
      /\ p.previous = e.previous
      /\ DOMAIN p.history = DOMAIN e.history \cup due
      /\ \A id \in due : p.history[id] = history_entry(patch[id])
      /\ \A id \in DOMAIN e.history \ due : p.history[id] = e.history[id]
  BY <1>1, <1>2, <1>6, RecordIs
<1>8. /\ DOMAIN p.active = A /\ DOMAIN p.history = DOMAIN e.history
      /\ \A id \in due : p.active[id] = patch[id]
      /\ \A id \in A \ due : p.active[id] = e.active[id]
  BY <1>2, <1>3, <1>5, <1>6, <1>7
<1>9. ActiveOpen(p)
  BY <1>3, <1>4, <1>8 DEF EngineInv, ActiveOpen, A
<1>10. Tracks(p)
  BY <1>2, <1>3, <1>7, <1>8 DEF EngineInv, Tracks, A
<1>11. Dated(p)
  BY <1>7, <1>8 DEF EngineInv, Dated, A
<1>12. Spaced(p)
  BY <1>8 DEF EngineInv, Spaced
<1>13. TriggersGraded(p)
  <2>1. \A id \in due : p.history[id].grade # "none"
    BY <1>4, <1>7, EntryShows
  <2> QED BY <2>1, <1>7, <1>8 DEF EngineInv, TriggersGraded
<1>14. AllGraded(p)
  BY <1>2, <1>4, <1>8 DEF AllGraded
<1>15. HistoryForward(e.history, p.history)
  <2>1. ASSUME NEW id \in DOMAIN e.history PROVE EntryForward(e.history[id], p.history[id])
    <3>1. CASE id \in due
      BY <3>1, <1>2, <1>3, <1>4, <1>7
    <3>2. CASE id \notin due
      BY <3>2, <1>7, SameForward
    <3> QED BY <3>1, <3>2
  <2> QED BY <2>1, <1>8 DEF HistoryForward
<1>16. \A id \in DOMAIN e.history \ A : p.history[id] = e.history[id]
  BY <1>2, <1>7
<1>17. \A id \in A : e.active[id].grade # "none" => p.active[id] = e.active[id]
  BY <1>2, <1>8
<1> QED
  BY <1>7, <1>8, <1>9, <1>10, <1>11, <1>12, <1>13, <1>14, <1>15, <1>16, <1>17 DEF EngineInv, A, p

-----------------------------------------------------------------------------
(* The session of the features *)

HasSession(s) == "session" \in DOMAIN s

SameSession(s, t) == HasSession(t) /\ t.session = s.session

\* What each part of the bar update makes of the session: the reset sets it, the rest keep it.
LEMMA ResetSession ==
  ASSUME NEW s, HasSession(s), NEW key
  PROVE  HasSession(reset_session(s, key)) /\ reset_session(s, key).session = key
BY DEF reset_session, HasSession

\* Volume, VWAP and the opening range.
LEMMA AccumulateSession ==
  ASSUME NEW s, HasSession(s), NEW bar, NEW phase
  PROVE  SameSession(s, accumulate(s, bar, phase))
BY DEF accumulate, HasSession, SameSession

\* The sides of VWAP and its touches.
LEMMA SideSession ==
  ASSUME NEW s, HasSession(s), NEW bar
  PROVE  SameSession(s, vwap_side(s, bar)) /\ SameSession(s, vwap_touch(s, bar))
<1>1. SameSession(s, vwap_side(s, bar))
  <2> DEFINE v     == vwap(s)
             above == bar.close >= v
             dev   == ((bar.close - v) * 10000) \div v
             up    == s.prev_side = "below" /\ above
             down  == s.prev_side = "above" /\ ~above
             shrinking == s.prev_dev > 0 /\ dev < s.prev_dev /\ dev > 0
  <2>1. vwap_side(s, bar) =
          [s EXCEPT
            !.bars_above_vwap = IF above THEN @ + 1 ELSE 0,
            !.bars_below_vwap = IF above THEN 0 ELSE @ + 1,
            !.vwap_cross_up = up, !.vwap_cross_down = down,
            !.bars_below_vwap_at_cross = IF up THEN s.bars_below_vwap ELSE @,
            !.bars_above_vwap_at_cross = IF down THEN s.bars_above_vwap ELSE @,
            !.prev_side = IF above THEN "above" ELSE "below",
            !.vwap_deviation_shrinking = shrinking,
            !.prev_dev = dev]
    BY DEF vwap_side
  <2> HIDE DEF above, dev, up, down, shrinking
  <2> QED BY <2>1 DEF HasSession, SameSession
<1>2. SameSession(s, vwap_touch(s, bar))
  BY DEF vwap_touch, HasSession, SameSession
<1> QED BY <1>1, <1>2

\* Flags, extremes and averages.
LEMMA FlagsSession ==
  ASSUME NEW s, HasSession(s), NEW bar
  PROVE  /\ SameSession(s, no_vwap_flags(s)) /\ SameSession(s, clear_flags(s))
         /\ SameSession(s, extremes(s, bar)) /\ SameSession(s, averages(s, bar))
<1>1. SameSession(s, no_vwap_flags(s))
  BY DEF no_vwap_flags, HasSession, SameSession
<1>2. SameSession(s, clear_flags(s))
  BY DEF clear_flags, no_vwap_flags, HasSession, SameSession
<1>3. SameSession(s, extremes(s, bar))
  BY DEF extremes, HasSession, SameSession
<1>4. SameSession(s, averages(s, bar))
  BY DEF averages, HasSession, SameSession
<1> QED BY <1>1, <1>2, <1>3, <1>4

\* After a bar, the feature engine is in the session of the bar.
LEMMA UpdateSession ==
  ASSUME NEW s, HasSession(s), NEW bar
  PROVE  HasSession(update_state(s, bar)) /\ update_state(s, bar).session = bar.session
<1> DEFINE phase  == session_phase(bar.minute)
           rolled == IF s.session # bar.session THEN reset_session(s, bar.session) ELSE s
           active == phase \in RthPhases \/ (IsFutures /\ phase # "CLOSED")
           acc    == accumulate(rolled, bar, phase)
           sided  == IF vwap(acc) > 0 THEN vwap_touch(vwap_side(acc, bar), bar)
                                      ELSE no_vwap_flags(acc)
           last   == IF active THEN extremes(sided, bar) ELSE clear_flags(rolled)
<1>1. HasSession(rolled) /\ rolled.session = bar.session
  BY ResetSession
<1> HIDE DEF rolled, phase, active
<1>2. HasSession(acc) /\ acc.session = bar.session
  BY <1>1, AccumulateSession DEF SameSession
<1> HIDE DEF acc
<1>3. HasSession(sided) /\ sided.session = bar.session
  <2>1. SameSession(acc, vwap_side(acc, bar)) /\ SameSession(acc, no_vwap_flags(acc))
    BY <1>2, SideSession, FlagsSession
  <2>2. SameSession(vwap_side(acc, bar), vwap_touch(vwap_side(acc, bar), bar))
    BY <2>1, SideSession DEF SameSession
  <2> QED BY <1>2, <2>1, <2>2 DEF SameSession
<1> HIDE DEF sided
<1>4. HasSession(last) /\ last.session = bar.session
  BY <1>1, <1>3, FlagsSession DEF SameSession
<1> HIDE DEF last
<1>5. update_state(s, bar) = averages(last, bar)
  BY DEF update_state, last, sided, acc, active, rolled, phase
<1> QED BY <1>4, <1>5, FlagsSession DEF SameSession

\* A trade or a quote starts no session.
LEMMA TradeSession ==
  ASSUME NEW s, HasSession(s), NEW p, NEW bid, NEW ask
  PROVE  SameSession(s, record_trade(s, p)) /\ SameSession(s, handle_quote(s, bid, ask))
<1>1. SameSession(s, record_trade(s, p))
  BY DEF record_trade, HasSession, SameSession
<1>2. SameSession(s, handle_quote(s, bid, ask))
  BY DEF handle_quote, HasSession, SameSession
<1> QED BY <1>1, <1>2

\* A snapshot is of its bar, and says nothing of a cross of the opening range.
LEMMA SnapshotIs ==
  ASSUME NEW f, NEW h, NEW bar
  PROVE  build_snapshot(f, h, bar).bar = bar /\ build_snapshot(f, h, bar).or_cross_down = FALSE
<1>1. build_snapshot(f, h, bar).bar = bar
  BY DEF build_snapshot
<1>2. build_snapshot(f, h, bar).or_cross_down = FALSE
  BY DEF build_snapshot
<1> QED BY <1>1, <1>2

-----------------------------------------------------------------------------
(* A bar through the pipeline *)

\* What a bar of the same session does to the setups of before.
Followed(before, after, bar) ==
  /\ HistoryForward(before.history, after.history)
  /\ \A id \in DOMAIN before.active :
       before.active[id].state = "CONFIRMED" /\ Reached(before.active[id], bar) =>
         /\ id \notin DOMAIN after.active /\ id \in DOMAIN after.history
         /\ after.history[id].state \in {"TRIGGERED", "INVALIDATED"}

\* The five stages on one bar, the next of its session or the first of another.
LEMMA ProcessStep ==
  ASSUME HasSession(feat), EngineInv(setups), AllGraded(setups),
         NEW bar, NEW flow, NEW tick, process(bar, flow, tick),
         bar.minute = IF bar.session = setups.session THEN setups.bar_count ELSE 0
  PROVE  /\ HasSession(feat') /\ feat'.session = bar.session
         /\ EngineInv(setups') /\ AllGraded(setups')
         /\ setups'.session = bar.session /\ setups'.bar_count = bar.minute + 1
         /\ bar.session = setups.session => Followed(setups, setups', bar)
         /\ \A id \in output'.scored :
              /\ id \in DOMAIN setups'.active /\ setups'.active[id].state = "CONFIRMED"
              /\ setups'.active[id].grade # "none"
<1>1. PICK f, h, m, ms, sn :
        /\ f = update_state(feat, bar) /\ h = flush_pending(htf)
        /\ sn = build_snapshot(f, h, bar) /\ m = classify(market, sn) /\ ms = market_state(m, sn)
  OBVIOUS
<1>2. PICK e : e = setup_process_bar(setups, sn, ms)
  OBVIOUS
<1>3. /\ feat' = f /\ setups' = scoring_process_bar(e, sn, flow)
      /\ output' = [snap |-> sn, handled |-> handled,
                     scored |-> {id \in DOMAIN e.active : e.active[id].grade # "none"}]
  BY <1>1, <1>2 DEF process
<1>4. HasSession(f) /\ f.session = bar.session
  BY <1>1, UpdateSession
<1>5. sn.bar = bar /\ sn.or_cross_down = FALSE
  <2>1. build_snapshot(f, h, bar).bar = bar /\ build_snapshot(f, h, bar).or_cross_down = FALSE
    BY SnapshotIs, Zenon
  <2> QED BY <1>1, <2>1, Zenon
<1>6. PICK c, d : /\ c = Counted(setups, bar.session) /\ d = scan_for_setups(c, sn, ms)
                  /\ e = update_active_setups(d, sn, ms)
  BY <1>2, <1>5 DEF setup_process_bar, Counted
<1>7. /\ EngineInv(c) /\ AllGraded(c) /\ c.session = bar.session
      /\ \A id \in DOMAIN c.history : id[3] < c.bar_count - 1
      /\ c.bar_count = IF setups.session = bar.session THEN setups.bar_count + 1 ELSE 1
      /\ setups.session = bar.session => c.history = setups.history /\ c.active = setups.active
  BY <1>6, CountedInv
<1>8. c.bar_count = bar.minute + 1 /\ bar.minute \in Nat
  BY <1>7 DEF EngineInv, Dated
<1>9. /\ EngineInv(d) /\ AllGraded(d) /\ HistoryForward(c.history, d.history)
      /\ d.session = c.session /\ d.bar_count = c.bar_count
      /\ \A id \in DOMAIN c.active : id \in DOMAIN d.active /\ d.active[id] = c.active[id]
  <2>1. sn.bar.minute = c.bar_count - 1 /\ c.bar_count > 0
    BY <1>5, <1>8
  <2>2. /\ EngineInv(c) /\ AllGraded(c) /\ sn.or_cross_down = FALSE
        /\ \A id \in DOMAIN c.history : id[3] < c.bar_count - 1
    BY <1>5, <1>7
  <2>3. Scanned(c, scan_for_setups(c, sn, ms))
    BY <2>1, <2>2, ScanInv, Zenon
  <2> QED BY <1>6, <2>3 DEF Scanned
<1>10. /\ EngineInv(e) /\ HistoryForward(d.history, e.history)
       /\ e.session = d.session /\ e.bar_count = d.bar_count
       /\ \A id \in DOMAIN d.active :
            d.active[id].state = "CONFIRMED" /\ Reached(d.active[id], bar) =>
              /\ id \notin DOMAIN e.active /\ id \in DOMAIN e.history
              /\ e.history[id].state \in {"TRIGGERED", "INVALIDATED"}
  BY <1>5, <1>6, <1>9, UpdateInv
<1>11. PICK p : p = scoring_process_bar(e, sn, flow)
  OBVIOUS
<1>12. /\ EngineInv(p) /\ AllGraded(p) /\ HistoryForward(e.history, p.history)
       /\ p.session = e.session /\ p.bar_count = e.bar_count
       /\ DOMAIN p.active = DOMAIN e.active /\ DOMAIN p.history = DOMAIN e.history
       /\ \A id \in DOMAIN e.history \ DOMAIN e.active : p.history[id] = e.history[id]
       /\ \A id \in DOMAIN e.active : e.active[id].grade # "none" => p.active[id] = e.active[id]
  BY <1>10, <1>11, ScoreInv
<1>13. setups' = p
  BY <1>3, <1>11
<1>14. ASSUME bar.session = setups.session PROVE Followed(setups, p, bar)
  <2>1. HistoryForward(c.history, e.history)
    BY <1>9, <1>10, ForwardTwice
  <2>2. HistoryForward(c.history, p.history)
    BY <2>1, <1>12, ForwardTwice
  <2>3. c.history = setups.history /\ c.active = setups.active
    BY <1>7, <1>14
  <2>4. ASSUME NEW id \in DOMAIN setups.active, setups.active[id].state = "CONFIRMED",
               Reached(setups.active[id], bar)
        PROVE  /\ id \notin DOMAIN p.active /\ id \in DOMAIN p.history
               /\ p.history[id].state \in {"TRIGGERED", "INVALIDATED"}
    <3>1. id \in DOMAIN d.active /\ d.active[id] = setups.active[id]
      BY <2>3, <2>4, <1>9
    <3>2. /\ id \notin DOMAIN e.active /\ id \in DOMAIN e.history
          /\ e.history[id].state \in {"TRIGGERED", "INVALIDATED"}
      BY <3>1, <2>4, <1>10
    <3> QED BY <3>2, <1>12
  <2> QED BY <2>2, <2>3, <2>4 DEF Followed
<1>15. ASSUME NEW id \in output'.scored
       PROVE  id \in DOMAIN p.active /\ p.active[id].state = "CONFIRMED" /\ p.active[id].grade # "none"
  <2>1. id \in DOMAIN e.active /\ e.active[id].grade # "none"
    BY <1>3
  <2>2. e.active[id].state = "CONFIRMED"
    BY <2>1, <1>10 DEF EngineInv, ActiveOpen, OpenSetup
  <2> QED BY <2>1, <2>2, <1>12
<1>16. p.session = bar.session /\ p.bar_count = bar.minute + 1
  BY <1>7, <1>8, <1>9, <1>10, <1>12
<1> QED
  BY <1>3, <1>4, <1>12, <1>13, <1>14, <1>15, <1>16

-----------------------------------------------------------------------------
(* The pipeline *)

\* Feature engine, setup engine and tape are in the same session, at the same bar.
PInv ==
  /\ HasSession(feat) /\ feat.session \in {None} \cup Nat
  /\ IsSeq(tape) /\ (tape = << >> <=> feat.session = None)
  /\ tape # << >> => tape[Len(tape)].minute \in Nat
  /\ EngineInv(setups) /\ AllGraded(setups)
  /\ setups.session = feat.session /\ setups.bar_count = NextMinute

\* What holds of a bar that went through the pipeline.
BarShows(bar) ==
  /\ bar.session = setups.session => Followed(setups, setups', bar)
  /\ setups'.session = bar.session
  /\ tape' # << >> /\ tape'[Len(tape')] = bar
  /\ \A id \in output'.scored :
       /\ id \in DOMAIN setups'.active /\ setups'.active[id].state = "CONFIRMED"
       /\ setups'.active[id].grade # "none"

\* The engines start empty.
LEMMA PInvInit == Init => PInv
<1> SUFFICES ASSUME Init PROVE PInv
  OBVIOUS
<1>1. HasSession(feat) /\ feat.session = None
  <2>1. feat = FreshState
    BY DEF Init
  <2>2. FreshState.session = None /\ HasSession(FreshState)
    BY ResetSession, Zenon DEF FreshState, HasSession
  <2> QED BY <2>1, <2>2
<1>2. tape = << >> /\ setups = NoSetups
  BY DEF Init
<1>3. setups.session = None /\ setups.bar_count = 0 /\ NextMinute = 0
  BY <1>2 DEF NoSetups, NextMinute
<1>4. EngineInv(NoSetups) /\ AllGraded(NoSetups)
  <2>1. IsEngine(NoSetups) /\ NoSetups.bar_count = 0
    BY DEF IsEngine, NoSetups
  <2>2. /\ DOMAIN NoSetups.active = {} /\ DOMAIN NoSetups.history = {}
        /\ DOMAIN NoSetups.previous = {}
    BY DEF NoSetups
  <2> QED
    BY <2>1, <2>2 DEF EngineInv, ActiveOpen, Tracks, Dated, Spaced, TriggersGraded, AllGraded
<1> QED BY <1>1, <1>2, <1>3, <1>4, SeqShort DEF PInv

\* A bar of the session, or the first of another.
LEMMA BarStep ==
  ASSUME PInv, NEW bar, NEW flow, NEW tick, process(bar, flow, tick),
         \/ bar.session = Session /\ bar.minute = NextMinute /\ tape' = Append(tape, bar)
         \/ bar.session = Session + 1 /\ bar.minute = 0 /\ tape' = <<bar>>
  PROVE  PInv' /\ BarShows(bar)
<1>1. bar.minute = (IF bar.session = setups.session THEN setups.bar_count ELSE 0)
      /\ bar.session \in Nat /\ bar.minute \in Nat
  BY DEF PInv, EngineInv, Dated, Session, NextMinute, None
<1>2. /\ HasSession(feat') /\ feat'.session = bar.session
      /\ EngineInv(setups') /\ AllGraded(setups')
      /\ setups'.session = bar.session /\ setups'.bar_count = bar.minute + 1
      /\ bar.session = setups.session => Followed(setups, setups', bar)
      /\ \A id \in output'.scored :
           /\ id \in DOMAIN setups'.active /\ setups'.active[id].state = "CONFIRMED"
           /\ setups'.active[id].grade # "none"
  BY <1>1, ProcessStep DEF PInv
<1>3. IsSeq(tape') /\ tape' # << >> /\ tape'[Len(tape')] = bar
  <2>1. CASE tape' = Append(tape, bar)
    BY <2>1, SeqAppend, SeqShort, SeqShape DEF PInv
  <2>2. CASE tape' = <<bar>>
    BY <2>2, SeqShort
  <2> QED BY <2>1, <2>2
<1>4. NextMinute' = bar.minute + 1
  BY <1>3 DEF NextMinute
<1>5. PInv'
  BY <1>1, <1>2, <1>3, <1>4 DEF PInv, None
<1> QED BY <1>2, <1>3, <1>5 DEF BarShows

\* Trades and quotes stay in the session.
LEMMA TicksStep ==
  ASSUME PInv, SameSession(feat, feat'), UNCHANGED <<tape, setups>>
  PROVE  PInv'
BY DEF PInv, SameSession, NextMinute

\* A bar of the session.
LEMMA BarTakes ==
  ASSUME NEW shape, PInv, Bar(shape)
  PROVE  /\ PInv' /\ BarShows(MakeBar(shape, price, Session, NextMinute))
         /\ tape' = Append(tape, MakeBar(shape, price, Session, NextMinute))
<1> DEFINE bar == MakeBar(shape, price, Session, NextMinute)
<1>1. bar.session = Session /\ bar.minute = NextMinute
  BY DEF MakeBar
<1>2. process(bar, shape.flow, shape.tick) /\ tape' = Append(tape, bar)
  BY DEF Bar
<1> HIDE DEF bar
<1>3. PInv' /\ BarShows(bar)
  BY <1>1, <1>2, BarStep
<1> QED BY <1>2, <1>3 DEF bar

\* The first bar of another session.
LEMMA RollTakes ==
  ASSUME PInv, Roll
  PROVE  /\ PInv'
         /\ \E bar : BarShows(bar) /\ bar.session = Session + 1 /\ bar.minute = 0 /\ tape' = <<bar>>
<1> DEFINE first == opening.bars[1]
           bar == MakeBar(first, price + Gap, Session + 1, 0)
<1>1. bar.session = Session + 1 /\ bar.minute = 0
  BY DEF MakeBar
<1>2. process(bar, first.flow, first.tick) /\ tape' = <<bar>>
  BY DEF Roll
<1> HIDE DEF bar, first
<1>3. PInv' /\ BarShows(bar)
  BY <1>1, <1>2, BarStep
<1> QED BY <1>1, <1>2, <1>3

\* The steps that take no bar through the pipeline.
Others ==
  \/ HtfBar
  \/ \E shape \in Shapes : Trades(shape)
  \/ \E p : BadPrint(p)
  \/ UNCHANGED vars

\* They leave the setups and the tape alone.
LEMMA OtherTakes ==
  ASSUME PInv, Others
  PROVE  PInv' /\ UNCHANGED <<setups, tape>>
<1>1. ASSUME NEW shape, Trades(shape) PROVE PInv' /\ UNCHANGED <<setups, tape>>
  <2>1. PICK f, g, k, p, q, r, s, t, u :
          /\ f = handle_quote(feat, p, q) /\ g = record_trade(f, r)
          /\ k = handle_quote(g, s, t) /\ feat' = record_trade(k, u)
    BY <1>1 DEF Trades
  <2>2. SameSession(feat, f)
    BY <2>1, TradeSession DEF PInv
  <2>3. SameSession(f, g)
    BY <2>1, <2>2, TradeSession DEF SameSession
  <2>4. SameSession(g, k)
    BY <2>1, <2>3, TradeSession DEF SameSession
  <2>5. SameSession(k, feat')
    BY <2>1, <2>4, TradeSession DEF SameSession
  <2>6. SameSession(feat, feat') /\ UNCHANGED <<tape, setups>>
    BY <1>1, <2>2, <2>3, <2>4, <2>5 DEF SameSession, Trades
  <2> QED BY <2>6, TicksStep
<1>2. ASSUME NEW p, BadPrint(p) PROVE PInv' /\ UNCHANGED <<setups, tape>>
  <2>1. SameSession(feat, feat') /\ UNCHANGED <<tape, setups>>
    BY <1>2, TradeSession DEF BadPrint, PInv
  <2> QED BY <2>1, TicksStep
<1>3. ASSUME HtfBar \/ UNCHANGED vars PROVE PInv' /\ UNCHANGED <<setups, tape>>
  <2>1. UNCHANGED <<feat, tape, setups>>
    BY <1>3 DEF HtfBar, vars
  <2> QED BY <2>1 DEF PInv, NextMinute
<1> QED BY <1>1, <1>2, <1>3 DEF Others

\* What a step may do to the context of a session that goes on.
Forward == setups'.session = setups.session => HistoryForward(setups.history, setups'.history)

\* Each kind of step of the pipeline.
LEMMA NextKeeps ==
  ASSUME PInv, [Next]_vars
  PROVE  PInv' /\ Forward
<1>1. ASSUME NEW shape \in Shapes, Bar(shape) PROVE PInv' /\ Forward
  BY <1>1, BarTakes DEF BarShows, Forward, Followed
<1>2. ASSUME Roll PROVE PInv' /\ Forward
  BY <1>2, RollTakes DEF BarShows, Forward, Followed
<1>3. ASSUME UNCHANGED <<setups, tape>> PROVE Forward
  BY <1>3, SameForward DEF Forward, HistoryForward, EntryForward
<1>4. ASSUME Others PROVE PInv' /\ Forward
  BY <1>3, <1>4, OtherTakes
<1>5. \/ \E shape \in Shapes : Bar(shape)
      \/ Roll
      \/ Others
  BY DEF Next, Others
<1> QED BY <1>1, <1>2, <1>4, <1>5

\* The invariant holds throughout.
LEMMA PipelineKeeps == Spec => []PInv
<1>1. PInv /\ [Next]_vars => PInv'
  BY NextKeeps
<1> QED BY PInvInit, <1>1, PTL DEF Spec

\* What is active is recorded as it is and what is recorded as open is active; two
\* setups of a type are the cooldown apart, though a setup may end on the bar that opened
\* it; and scoring has graded what is confirmed before a bar can trigger it.
THEOREM SetupsConsistent == Spec => []SetupsAreConsistent
<1>1. PInv => SetupsAreConsistent
  BY DEF PInv, EngineInv, ActiveOpen, Tracks, Spaced, TriggersGraded, SetupsAreConsistent,
         HistoryTracksActive, CooldownSpacing, EveryTriggerIsGraded
<1> QED BY PipelineKeeps, <1>1, PTL

\* Within a session the context loses no setup, no setup goes back or leaves a terminal
\* state, and its levels and its grade stay as they were given: _advance_state,
\* _record_setups and the scoring engine's patch agree about it on every bar.
THEOREM LifecycleGoesForward == Spec => LifecycleForward
<1>1. ASSUME PInv, [Next]_vars
      PROVE  [setups'.session = setups.session =>
                \A id \in DOMAIN setups.history :
                  LET h == setups.history[id]
                      k == setups'.history[id] IN
                  /\ id \in DOMAIN setups'.history
                  /\ Rank(h.state) <= Rank(k.state)
                  /\ h.state \in Terminal => k = h
                  /\ h.entry # None => <<k.entry, k.stop, k.target>> = <<h.entry, h.stop, h.target>>
                  /\ h.grade # "none" => k.grade = h.grade]_vars
  BY <1>1, NextKeeps DEF Forward, HistoryForward, EntryForward
<1> QED BY PipelineKeeps, <1>1, PTL DEF Spec, LifecycleForward

-----------------------------------------------------------------------------
(* The backtester *)

\* A backtest only watches: what it feeds the engines is a run of the pipeline.
THEOREM BacktestRunsThePipeline == BacktestSpec => Spec
<1>1. BacktestInit => Init
  BY DEF BacktestInit
<1>2. [BacktestNext]_<<vars, tracker>> => [Next]_vars
  BY DEF BacktestNext, BacktestBar, NextSession, Next
<1> QED BY <1>1, <1>2, PTL DEF BacktestSpec, Spec

\* A pending setup is the engine's, confirmed and graded.
Offered(s) ==
  /\ s.id \in DOMAIN setups.active
  /\ setups.active[s.id].state = "CONFIRMED" /\ setups.active[s.id].grade # "none"
  /\ s.type = setups.active[s.id].type /\ s.entry = setups.active[s.id].entry

OffersInv == \A s \in pending : Offered(s)

\* The output's setups that qualify are pending as the engine has them.
LEMMA QualifyingOffered ==
  ASSUME NEW bar, BarShows(bar), on_pipeline_output
  PROVE  OffersInv'
<1> SUFFICES ASSUME NEW s \in qualifying(output'.scored, setups'.active)
             PROVE  Offered(s)'
  BY DEF on_pipeline_output, OffersInv
<1>1. PICK id \in output'.scored :
        s = [id |-> id, type |-> setups'.active[id].type, grade |-> setups'.active[id].grade,
             entry |-> setups'.active[id].entry, stop |-> setups'.active[id].stop,
             target |-> setups'.active[id].target]
  BY DEF qualifying
<1>2. s.id = id /\ s.type = setups'.active[id].type /\ s.entry = setups'.active[id].entry
  BY <1>1
<1> QED BY <1>2 DEF Offered, BarShows

\* A session that goes on, or has not begun.
LEMMA BeforeTheFirst ==
  ASSUME PInv, setups.session # Session
  PROVE  DOMAIN setups.history = {} /\ DOMAIN setups.active = {}
<1>1. feat.session = None /\ tape = << >>
  BY DEF PInv, Session
<1>2. setups.bar_count = 0
  BY <1>1 DEF PInv, NextMinute
<1>3. DOMAIN setups.history = {}
  BY <1>2 DEF PInv, EngineInv, Dated
<1> QED BY <1>3 DEF PInv, EngineInv, Tracks

\* The bar that touches a pending setup ends it in the engine.
LEMMA OfferedEnds ==
  ASSUME PInv, NEW bar, BarShows(bar), bar.session = Session, NEW s, Offered(s),
         IF long(s.type) THEN Level(bar.high) >= s.entry ELSE Level(bar.low) <= s.entry
  PROVE  /\ s.id \notin DOMAIN setups'.active /\ s.id \in DOMAIN setups'.history
         /\ setups'.history[s.id].state \in {"TRIGGERED", "INVALIDATED"}
<1>1. setups.session = Session
  BY BeforeTheFirst DEF Offered
<1>2. Reached(setups.active[s.id], bar)
  BY DEF Reached, Offered
<1> QED BY <1>1, <1>2 DEF BarShows, Followed, Offered

\* What the tracker enters on a bar was pending, and ends on that bar.
LEMMA EntersAtTrigger ==
  ASSUME PInv, OffersInv, NEW bar, BarShows(bar), bar.session = Session, pre_bar(bar),
         position = NoPosition, position' # NoPosition
  PROVE  /\ position'.id \in DOMAIN setups.active
         /\ setups.active[position'.id].state = "CONFIRMED"
         /\ setups.active[position'.id].grade # "none"
         /\ position'.id \notin DOMAIN setups'.active
         /\ setups'.history[position'.id].state \in {"TRIGGERED", "INVALIDATED"}
<1>1. PICK s \in foremost(touched(bar)) :
        position' = [id |-> s.id, type |-> s.type, entry |-> s.entry, stop |-> s.stop,
                     target |-> s.target, at |-> bar.minute, held |-> 0]
  BY DEF pre_bar
<1>2. position'.id = s.id
  BY <1>1
<1>3. /\ s \in pending
      /\ IF long(s.type) THEN Level(bar.high) >= s.entry ELSE Level(bar.low) <= s.entry
  BY <1>1 DEF foremost, touched
<1>4. Offered(s)
  BY <1>3 DEF OffersInv
<1>5. /\ s.id \notin DOMAIN setups'.active
      /\ setups'.history[s.id].state \in {"TRIGGERED", "INVALIDATED"}
  BY <1>3, <1>4, OfferedEnds
<1> QED BY <1>2, <1>4, <1>5 DEF Offered

\* Each kind of step of a backtest.
LEMMA OffersStep ==
  ASSUME PInv, OffersInv, [BacktestNext]_<<vars, tracker>>
  PROVE  PInv' /\ OffersInv'
<1>1. ASSUME NEW shape \in Shapes, BacktestBar(shape) PROVE PInv' /\ OffersInv'
  BY <1>1, BarTakes, QualifyingOffered DEF BacktestBar
<1>2. ASSUME NextSession PROVE PInv' /\ OffersInv'
  BY <1>2, RollTakes, QualifyingOffered DEF NextSession
<1>3. ASSUME Others, UNCHANGED tracker PROVE PInv' /\ OffersInv'
  BY <1>3, OtherTakes DEF OffersInv, Offered, tracker
<1>4. \/ \E shape \in Shapes : BacktestBar(shape)
      \/ NextSession
      \/ Others /\ UNCHANGED tracker
  BY DEF BacktestNext, Others
<1> QED BY <1>1, <1>2, <1>3, <1>4

\* Both invariants hold throughout a backtest.
LEMMA BacktestKeeps == BacktestSpec => [](PInv /\ OffersInv)
<1>1. BacktestInit => PInv /\ OffersInv
  BY PInvInit DEF BacktestInit, OffersInv
<1>2. PInv /\ OffersInv /\ [BacktestNext]_<<vars, tracker>> => (PInv /\ OffersInv)'
  BY OffersStep
<1> QED BY <1>1, <1>2, PTL DEF BacktestSpec

\* on_pipeline_output keeps setups of the last output only, so that what a bar can enter is
\* what the engines had confirmed and graded before it, and the bar that touches the entry
\* takes the setup out of the engine.
THEOREM EntersAtTheTrigger == BacktestSpec => EntersWithTheEngine
<1>1. ASSUME PInv, OffersInv, [BacktestNext]_<<vars, tracker>>
      PROVE  [position = NoPosition /\ position' # NoPosition =>
                LET id == position'.id IN
                /\ id \in DOMAIN setups.active
                /\ setups.active[id].state = "CONFIRMED" /\ setups.active[id].grade # "none"
                /\ id \notin DOMAIN setups'.active
                /\ setups'.history[id].state \in {"TRIGGERED", "INVALIDATED"}]_<<vars, tracker>>
  <2> SUFFICES ASSUME position = NoPosition, position' # NoPosition
               PROVE  LET id == position'.id IN
                      /\ id \in DOMAIN setups.active
                      /\ setups.active[id].state = "CONFIRMED" /\ setups.active[id].grade # "none"
                      /\ id \notin DOMAIN setups'.active
                      /\ setups'.history[id].state \in {"TRIGGERED", "INVALIDATED"}
    OBVIOUS
  <2>1. PICK shape \in Shapes : BacktestBar(shape)
    BY <1>1 DEF BacktestNext, NextSession, tracker
  <2> DEFINE bar == MakeBar(shape, price, Session, NextMinute)
  <2>2. bar.session = Session
    BY DEF MakeBar
  <2> HIDE DEF bar
  <2>3. BarShows(bar) /\ tape' = Append(tape, bar)
    BY <1>1, <2>1, BarTakes DEF BacktestBar, bar
  <2>4. pre_bar(bar)
    BY <2>1, <2>3 DEF BacktestBar, BarShows
  <2> QED BY <1>1, <2>2, <2>3, <2>4, EntersAtTrigger
<1> QED BY BacktestKeeps, <1>1, PTL DEF BacktestSpec, EntersWithTheEngine

-----------------------------------------------------------------------------
(* The trades of a session *)

IsPosition(p) ==
  p = [id |-> p.id, type |-> p.type, entry |-> p.entry, stop |-> p.stop, target |-> p.target,
       at |-> p.at, held |-> p.held]

\* The setup ended in the session that goes on.
Ended(id) == id \in DOMAIN setups.history /\ id \notin DOMAIN setups.active

\* A trade of the holding time or less.
Timed(g) ==
  /\ g.entered \in Nat /\ g.held \in Nat /\ g.held <= MaxHoldBars
  /\ g.exited = g.entered + g.held

\* The open position was entered after all that was closed, on a setup of its own, and its
\* bars are counted to the last one.
PositionInv ==
  position # NoPosition =>
    /\ IsPosition(position) /\ position.at \in Nat /\ position.held \in Nat
    /\ position.held < MaxHoldBars
    /\ position.at + position.held = NextMinute - 1
    /\ Ended(position.id)
    /\ \A i \in DOMAIN signals :
         signals[i].exited < position.at /\ signals[i].setup # position.id

SignalsInv ==
  /\ IsSeq(signals)
  /\ \A i \in DOMAIN signals :
       Timed(signals[i]) /\ signals[i].exited < NextMinute /\ Ended(signals[i].setup)
  /\ \A i \in 1 .. Len(signals) - 1 : signals[i].exited < signals[i + 1].entered
  /\ \A i, j \in DOMAIN signals : i # j => signals[i].setup # signals[j].setup
  /\ \A g \in Range(unfinished) : Timed(g)

TradesInv == PositionInv /\ SignalsInv

\* A signal tells of the position and of the bar that closed it.
LEMMA SignalIs ==
  ASSUME NEW pos, NEW bar, NEW exit
  PROVE  LET g == signal(pos, bar, exit) IN
         g.setup = pos.id /\ g.entered = pos.at /\ g.exited = bar.minute /\ g.held = pos.held
BY DEF signal

\* A position no bar closes is within the holding time.
LEMMA HeldOn ==
  ASSUME NEW pos, pos.held \in Nat, NEW bar, simulate_exit(pos, bar).reason = "none"
  PROVE  pos.held < MaxHoldBars
<1>1. pos.held >= MaxHoldBars =>
        simulate_exit(pos, bar).reason \in {"stop_hit_gap", "stop_hit", "target_hit", "timeout"}
  BY DEF simulate_exit
<1> QED BY <1>1, BacktestAssumption

\* What ended in a session stays so.
LEMMA EndedStays ==
  ASSUME PInv, PInv', NEW bar, BarShows(bar), bar.session = Session, NEW id, Ended(id)
  PROVE  id \in DOMAIN setups'.history /\ id \notin DOMAIN setups'.active
<1>1. bar.session = setups.session
  BY BeforeTheFirst DEF Ended
<1>2. id \in DOMAIN setups'.history /\ EntryForward(setups.history[id], setups'.history[id])
  BY <1>1 DEF BarShows, Followed, HistoryForward, Ended
<1>3. setups.history[id].state \in Terminal
  BY DEF PInv, EngineInv, Tracks, Ended
<1>4. setups'.history[id].state \in Terminal
  BY <1>2, <1>3 DEF EntryForward
<1>5. ASSUME id \in DOMAIN setups'.active PROVE FALSE
  <2>1. /\ setups'.history[id] = history_entry(setups'.active[id])
        /\ setups'.active[id].state \in {"FORMING", "CONFIRMED"}
    BY <1>5 DEF PInv, EngineInv, Tracks, ActiveOpen, OpenSetup
  <2>2. setups'.history[id].state = setups'.active[id].state
    BY <2>1, EntryShows
  <2> QED BY <1>4, <2>1, <2>2 DEF Terminal
<1> QED BY <1>2, <1>5

\* The tracker on a bar: it holds, exits, enters, or has nothing to do.
LEMMA TradesOnBar ==
  ASSUME MaxHoldBars # 0, PInv, PInv', OffersInv, TradesInv, NEW bar, BarShows(bar),
         bar.session = Session, bar.minute = NextMinute, pre_bar(bar), UNCHANGED unfinished
  PROVE  TradesInv'
<1>1. NextMinute \in Nat /\ NextMinute' = NextMinute + 1 /\ MaxHoldBars \in Nat
  BY BacktestAssumption DEF PInv, EngineInv, Dated, BarShows, NextMinute
<1>2. \A id : Ended(id) => Ended(id)'
  BY EndedStays DEF Ended
<1>3. ASSUME UNCHANGED signals PROVE SignalsInv'
  BY <1>1, <1>2, <1>3 DEF TradesInv, SignalsInv, Timed
<1>4. CASE position # NoPosition
  <2> DEFINE pos  == [position EXCEPT !.held = @ + 1]
             exit == simulate_exit(pos, bar)
  <2>1. /\ IsPosition(pos) /\ pos.id = position.id /\ pos.at = position.at
        /\ pos.held = position.held + 1
    BY <1>4 DEF TradesInv, PositionInv, IsPosition
  <2>2. \/ exit.reason = "none" /\ position' = pos /\ UNCHANGED signals
        \/ position' = NoPosition /\ signals' = Append(signals, signal(pos, bar, exit))
    BY <1>4 DEF pre_bar
  <2> HIDE DEF pos, exit
  <2>3. /\ pos.at \in Nat /\ pos.held \in Nat /\ pos.held <= MaxHoldBars
        /\ pos.at + pos.held = bar.minute /\ Ended(pos.id)
        /\ \A i \in DOMAIN signals : signals[i].exited < pos.at /\ signals[i].setup # pos.id
    BY <1>1, <1>4, <2>1 DEF TradesInv, PositionInv
  <2>4. CASE exit.reason = "none" /\ position' = pos /\ UNCHANGED signals
    <3>1. pos.held < MaxHoldBars
      BY <2>3, <2>4, HeldOn DEF exit
    <3>2. PositionInv'
      BY <1>1, <1>2, <2>1, <2>3, <2>4, <3>1 DEF PositionInv
    <3> QED BY <1>3, <2>4, <3>2 DEF TradesInv
  <2>5. CASE position' = NoPosition /\ signals' = Append(signals, signal(pos, bar, exit))
    <3>1. PICK g : g = signal(pos, bar, exit)
      OBVIOUS
    <3>2. g.setup = pos.id /\ g.entered = pos.at /\ g.exited = bar.minute /\ g.held = pos.held
      BY <3>1, SignalIs
    <3>3. /\ IsSeq(signals') /\ Len(signals') = Len(signals) + 1 /\ Len(signals) \in Nat
          /\ DOMAIN signals' = 1 .. Len(signals) + 1 /\ DOMAIN signals = 1 .. Len(signals)
          /\ signals'[Len(signals) + 1] = g
          /\ \A i \in 1 .. Len(signals) : signals'[i] = signals[i]
      BY <2>5, <3>1, SeqAppend, SeqShape DEF TradesInv, SignalsInv
    <3>4. Timed(g) /\ g.exited < NextMinute' /\ Ended(g.setup)'
      BY <1>1, <1>2, <2>3, <3>2 DEF Timed
    <3>5. \A i \in DOMAIN signals : signals[i].exited < g.entered /\ signals[i].setup # g.setup
      BY <2>3, <3>2
    <3>6. (\A i \in DOMAIN signals :
             Timed(signals[i]) /\ signals[i].exited < NextMinute /\ Ended(signals[i].setup))'
      <4>1. \A i \in DOMAIN signals :
              /\ Timed(signals[i]) /\ signals[i].exited < NextMinute'
              /\ signals[i].setup \in DOMAIN setups'.history
              /\ signals[i].setup \notin DOMAIN setups'.active
        BY <1>1, <1>2 DEF TradesInv, SignalsInv, Timed, Ended
      <4> QED BY <3>3, <3>4, <4>1 DEF Ended
    <3>7. \A i \in 1 .. Len(signals') - 1 : signals'[i].exited < signals'[i + 1].entered
      BY <3>3, <3>5 DEF TradesInv, SignalsInv
    <3>8. \A i, j \in DOMAIN signals' : i # j => signals'[i].setup # signals'[j].setup
      BY <3>3, <3>5 DEF TradesInv, SignalsInv
    <3>9. \A t \in Range(unfinished') : Timed(t)
      BY DEF TradesInv, SignalsInv
    <3>10. SignalsInv'
      BY <3>3, <3>6, <3>7, <3>8, <3>9 DEF SignalsInv, Timed
    <3> QED BY <2>5, <3>10 DEF TradesInv, PositionInv
  <2> QED BY <2>2, <2>4, <2>5
<1>5. CASE position = NoPosition
  <2>1. UNCHANGED signals
    BY <1>5 DEF pre_bar
  <2>2. CASE position' # NoPosition
    <3>1. PICK s \in foremost(touched(bar)) :
            position' = [id |-> s.id, type |-> s.type, entry |-> s.entry, stop |-> s.stop,
                         target |-> s.target, at |-> bar.minute, held |-> 0]
      BY <1>5, <2>2 DEF pre_bar
    <3>2. /\ s \in pending
          /\ IF long(s.type) THEN Level(bar.high) >= s.entry ELSE Level(bar.low) <= s.entry
      BY <3>1 DEF foremost, touched
    <3>3. Offered(s)
      BY <3>2 DEF OffersInv
    <3>4. s.id \notin DOMAIN setups'.active /\ s.id \in DOMAIN setups'.history
      BY <3>2, <3>3, OfferedEnds
    <3>5. /\ IsPosition(position') /\ position'.id = s.id
          /\ position'.at = NextMinute /\ position'.held = 0
      BY <3>1 DEF IsPosition
    <3>6. \A i \in DOMAIN signals : signals[i].exited < NextMinute /\ signals[i].setup # s.id
      BY <3>3 DEF TradesInv, SignalsInv, Ended, Offered
    <3>7. PositionInv'
      BY <1>1, <2>1, <3>4, <3>5, <3>6 DEF PositionInv, Ended
    <3> QED BY <1>3, <2>1, <3>7 DEF TradesInv
  <2>3. CASE position' = NoPosition
    BY <1>3, <2>1, <2>3 DEF TradesInv, PositionInv
  <2> QED BY <2>2, <2>3
<1> QED BY <1>4, <1>5

\* The end of a session closes what is open on its last bar, and forgets the rest.
LEMMA TradesOnNextSession ==
  ASSUME MaxHoldBars # 0, PInv, TradesInv, NextSession
  PROVE  TradesInv'
<1>1. position' = NoPosition /\ signals' = << >>
  BY DEF NextSession
<1>2. \A g \in Range(unfinished') : Timed(g)
  <2>1. CASE position = NoPosition
    <3>1. unfinished' = << >>
      BY <2>1 DEF NextSession, close_remaining
    <3> QED BY <3>1 DEF Range
  <2>2. CASE position # NoPosition
    <3>1. PICK bar, exit : /\ bar = tape[Len(tape)]
                           /\ exit = [price |-> Level(bar.close), reason |-> "session_end"]
                           /\ unfinished' = <<signal(position, bar, exit)>>
      BY <2>2 DEF NextSession, close_remaining
    <3>2. bar.minute = NextMinute - 1
      <4>1. tape # << >> /\ NextMinute \in Nat
        <5>1. setups.session = Session
          BY <2>2, BeforeTheFirst DEF TradesInv, PositionInv, Ended
        <5> QED BY <5>1 DEF PInv, EngineInv, Dated, Session, None
      <4>2. tape[Len(tape)].minute \in Int
        BY <4>1 DEF PInv
      <4> QED BY <4>1, <4>2, <3>1 DEF NextMinute
    <3>3. Timed(signal(position, bar, exit))
      BY <2>2, <3>2, SignalIs, BacktestAssumption DEF TradesInv, PositionInv, Timed
    <3> QED BY <3>1, <3>3 DEF Range
  <2> QED BY <2>1, <2>2
<1>3. IsSeq(signals') /\ Len(signals') = 0 /\ DOMAIN signals' = {}
  BY <1>1, SeqShort, SeqShape
<1>4. SignalsInv'
  BY <1>2, <1>3 DEF SignalsInv, Timed
<1> QED BY <1>1, <1>4 DEF TradesInv, PositionInv

\* The trades of a tracker follow one another, no setup is traded twice, and each is closed
\* within max_hold_bars: what ends in the engine is never offered again, because the
\* pending list is replaced by every output.  With max_hold_bars zero a trade would still
\* be held for the one bar after its entry.
THEOREM TradesFollowOneAnother ==
  ASSUME MaxHoldBars # 0
  PROVE  BacktestSpec => []TradesFollow
<1>1. BacktestInit => PInv /\ OffersInv /\ TradesInv
  <2> SUFFICES ASSUME BacktestInit PROVE PInv /\ OffersInv /\ TradesInv
    OBVIOUS
  <2>1. IsSeq(signals) /\ Len(signals) = 0 /\ DOMAIN signals = {} /\ Range(unfinished) = {}
    BY SeqShort, SeqShape DEF BacktestInit, Range
  <2> QED BY <2>1, PInvInit DEF BacktestInit, OffersInv, TradesInv, PositionInv, SignalsInv
<1>2. PInv /\ OffersInv /\ TradesInv /\ [BacktestNext]_<<vars, tracker>>
        => (PInv /\ OffersInv /\ TradesInv)'
  <2> SUFFICES ASSUME PInv, OffersInv, TradesInv, [BacktestNext]_<<vars, tracker>>
               PROVE  TradesInv'
    BY OffersStep
  <2>1. ASSUME NEW shape \in Shapes, BacktestBar(shape) PROVE TradesInv'
    <3> DEFINE bar == MakeBar(shape, price, Session, NextMinute)
    <3>1. bar.session = Session /\ bar.minute = NextMinute
      BY DEF MakeBar
    <3> HIDE DEF bar
    <3>2. PInv' /\ BarShows(bar)
      BY <2>1, BarTakes DEF BacktestBar, bar
    <3>3. pre_bar(bar) /\ UNCHANGED unfinished
      BY <2>1, <3>2 DEF BacktestBar, BarShows
    <3> QED BY <3>1, <3>2, <3>3, TradesOnBar
  <2>2. ASSUME NextSession PROVE TradesInv'
    BY <2>2, TradesOnNextSession
  <2>3. ASSUME Others, UNCHANGED tracker PROVE TradesInv'
    <3>1. UNCHANGED <<setups, tape, position, signals, unfinished>>
      BY <2>3, OtherTakes DEF tracker
    <3> QED BY <3>1 DEF TradesInv, PositionInv, SignalsInv, Timed, Ended, NextMinute
  <2>4. \/ \E shape \in Shapes : BacktestBar(shape)
        \/ NextSession
        \/ Others /\ UNCHANGED tracker
    BY DEF BacktestNext, Others
  <2> QED BY <2>1, <2>2, <2>3, <2>4
<1>3. TradesInv => TradesFollow
  BY DEF TradesInv, SignalsInv, Timed, TradesFollow, Closed, Range
<1> QED BY <1>1, <1>2, <1>3, PTL DEF BacktestSpec
==============================================================================
