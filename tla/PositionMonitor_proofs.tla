----------------------- MODULE PositionMonitor_proofs -----------------------
(***************************************************************************)
(* Proofs about the shadow position monitor: its signals form cycles and   *)
(* its positions see every change of thesis whatever is handled while a    *)
(* bar's handler is suspended; excursions and sweeps are what the prices   *)
(* were; and no connected client has missed a signal.  For any symbols,    *)
(* setups, clients, scripts, prices and minutes of any length.             *)
(***************************************************************************)
EXTENDS PositionMonitor, FiniteInduction

(* Types *)

Ids == UNION {{s.id : s \in Setups[sym]} : sym \in Symbols}
Reasons == {"stop_hit", "target_hit", "thesis_invalidated", "timeout", "none"}

Positions ==
  [setup : Ids, buy : BOOLEAN, entry : Int, stop : Int, target : Int, thesis : Theses \cup {"none"},
   held : 0 .. TimeoutBars, mfe : Nat, mae : Nat, invalidated : BOOLEAN, shown : SUBSET Int]

Signals ==
  [type : {"would_enter", "would_hold", "would_exit"}, sym : Symbols, setup : Ids, pnl : Int,
   mfe : Nat, mae : Nat, reason : Reasons, outputs : Nat]

S1Bars == [kind : {"S1"}, sym : Symbols, at : Nat, high : Nat, low : Nat, close : Nat]
M1Bars == [kind : {"M1"}, at : Nat, low : Nat]
Bars == S1Bars \cup M1Bars
Trades == [size : Nat, side : {"buy", "sell"}]

States ==
  [open : Int, buy : Int, sell : Int, trades : Int, high : Int, low : Int, swept : BOOLEAN,
   sweep_at : Int, sweep_delta : Int, recovery_delta : Int, recovery_seconds : Int,
   absorption : BOOLEAN, elapsed : Nat]

FlowEngines == [state : States, window : Nat \cup {None}, prior_low : Nat \cup {None}]

-----------------------------------------------------------------------------
(* The invariant: the monitor *)

\* The position's exit has been published and is not recorded yet.
Closing(sym) == task.phase = "published" /\ task.exit /\ task.sym = sym

MonitorTyped ==
  /\ \A sym \in Symbols : pending_setups[sym] \subseteq Setups[sym]
  /\ pending_setups = [sym \in Symbols |-> pending_setups[sym]]
  /\ positions \in [Symbols -> Positions \cup {NoPosition}]
  /\ thesis \in [Symbols -> Theses \cup {"none"}]
  /\ recently_exited \subseteq Ids
  /\ task \in [phase : {"idle", "published", "casting"}, sym : Symbols \cup {"none"}, exit : BOOLEAN]
  /\ task.phase = "published" => task.sym \in Symbols
  /\ task.phase = "published" /\ task.exit => positions[task.sym] # NoPosition
  /\ signals \in Seq(Signals) /\ outputs \in Nat
  /\ s1Bars \in Seq(S1Bars) /\ second \in [Symbols -> Nat]
  /\ \A sym \in Symbols : second[sym] <= Seconds[sym]

\* q[i] is the last signal of a symbol.
LastOf(q, i, sym) ==
  i \in 1 .. Len(q) /\ q[i].sym = sym /\ \A j \in i + 1 .. Len(q) : q[j].sym # sym

\* A position is open exactly from its entry's signal to its exit's, and a little
\* longer: until the handler comes back from publishing the exit.
OpenSinceEntry ==
  \A sym \in Symbols :
    /\ positions[sym] = NoPosition =>
         \A i \in 1 .. Len(signals) : LastOf(signals, i, sym) => signals[i].type = "would_exit"
    /\ positions[sym] # NoPosition =>
         /\ \E i \in 1 .. Len(signals) : LastOf(signals, i, sym)
         /\ \A i \in 1 .. Len(signals) : LastOf(signals, i, sym) =>
              /\ signals[i].setup = positions[sym].setup
              /\ signals[i].type = "would_exit" <=> Closing(sym)
         /\ ~Closing(sym) => positions[sym].held < TimeoutBars

\* A setup whose exit was published on the current output is blocked, or about to be.
ExitsAreBlocked ==
  \A i \in 1 .. Len(signals) :
    /\ signals[i].outputs <= outputs
    /\ signals[i].type = "would_exit" /\ signals[i].outputs = outputs =>
         \/ signals[i].setup \in recently_exited
         \/ \E sym \in Symbols : Closing(sym) /\ positions[sym].setup = signals[i].setup

MonitorInv ==
  /\ MonitorTyped /\ OpenSinceEntry /\ ExitsAreBlocked
  /\ SignalsCycle /\ ReentryNeedsOutput /\ ThesisChangeIsSeen /\ ExcursionsCoverPrices

-----------------------------------------------------------------------------
(* The invariant: the clients *)

Casts == [todo : SUBSET Clients, dead : SUBSET Clients, closing : BOOLEAN]

Busy(x) == x.todo # {} \/ x.closing

Manners ==
  /\ cast \in [flow : Casts, signal : Casts] /\ missed \subseteq Clients
  /\ client \in [Clients -> {"new", "open", "closed"}]
  /\ \A b \in {"flow", "signal"} : /\ ~Busy(cast[b]) => cast[b].dead = {}
                                   /\ \A c \in cast[b].todo : client[c] # "new"
  /\ \A c \in missed : client[c] # "new"
  /\ Busy(cast.flow) => task.phase = "casting"

ClientInv == Manners /\ NoSilentGap

-----------------------------------------------------------------------------
(* The invariant: the intrabar engines *)

\* The last one-second bar the engine e has handled, -1 before the first.
LastAt(e) == IF e.window = None THEN -1 ELSE (MinuteSeconds * e.window) + e.state.elapsed

EndsMinute(at) == (at + 1) % MinuteSeconds = 0

\* The second a bar leads up to: what follows it is that second's bar, or, at the end
\* of a minute, the minute's bar.
Follows(c, b) ==
  IF b.kind = "S1" /\ EndsMinute(b.at) THEN c.kind = "M1" /\ c.at = b.at
  ELSE c.kind = "S1" /\ c.at = b.at + 1

\* The bars of the queue q follow one another, from the last second handled on.
Adjacent(q, last) ==
  /\ IF q[1].kind = "M1" THEN q[1].at = last /\ EndsMinute(last) ELSE q[1].at = last + 1
  /\ \A i \in 1 .. Len(q) - 1 : Follows(q[i + 1], q[i])

\* The bars queued for an engine join what it has handled to what will come.
Joined(q, next, last) ==
  IF q = << >> THEN next = last + 1
  ELSE /\ Adjacent(q, last) /\ next = q[Len(q)].at + 1
       /\ q[Len(q)].kind = "S1" => ~EndsMinute(q[Len(q)].at)

FeedTyped ==
  /\ minuteLow \in [Symbols -> Nat]
  /\ intraBars \in [Symbols -> Seq(Bars)]
  /\ intraTrades \in [Symbols -> Seq(Trades)]
  /\ engine \in [Symbols -> FlowEngines] /\ window \in [Symbols -> Seq(S1Bars)]

\* The state of a minute under way counts the bars since its first, and its sweep is
\* that of its running low; at the end of a minute while its bar waits (m1).
Measured(e, w, m1) ==
  LET s == e.state
  IN  /\ s.elapsed = Len(w) /\ s.elapsed < MinuteSeconds
      /\ \A i \in 1 .. Len(w) : s.low <= w[i].low
      /\ IF s.elapsed = 0 THEN s.low = None /\ ~s.swept ELSE s.low \in Nat
      /\ e.window = None => s.elapsed = 0
      /\ (s.elapsed > 0 /\ (s.elapsed < MinuteSeconds - 1 \/ m1)) =>
           (s.swept <=> e.prior_low # None /\ s.low < e.prior_low)

FeedInv ==
  /\ FeedTyped
  /\ \A sym \in Symbols : /\ Joined(intraBars[sym], second[sym], LastAt(engine[sym]))
                           /\ Measured(engine[sym], window[sym], m1_queued(sym))

-----------------------------------------------------------------------------
(* No connected client has missed a signal *)

\* Before the first client connects.
LEMMA ClientInvInit == Init => ClientInv
<1> SUFFICES ASSUME Init  PROVE ClientInv
  OBVIOUS
<1>1. /\ client = [c \in Clients |-> "new"] /\ missed = {}
      /\ cast = [flow |-> NoCast, signal |-> NoCast]
  BY DEF Init
<1> QED  BY <1>1 DEF ClientInv, Manners, NoSilentGap, NoCast, Casts, Busy

\* The receivers of a broadcast are connected.
LEMMA ReceiversOpen ==
  ASSUME NEW sym
  PROVE  receivers(sym) \in SUBSET Clients /\ \A c \in receivers(sym) : client[c] = "open"
  BY DEF receivers

\* A broadcast of the flow begins; or of a signal, which leaves out nobody it is for.
LEMMA BroadcastKeeps ==
  ASSUME ClientInv, NEW sym, cast' = [cast EXCEPT !.flow = [cast.flow EXCEPT !.todo = receivers(sym)]],
         client' = client, missed' = missed, ~Busy(cast.flow),
         receivers(sym) # {} => task'.phase = "casting"
  PROVE  ClientInv'
<1> DEFINE R == receivers(sym)
<1>1. /\ cast'.signal = cast.signal /\ cast'.flow.todo = R /\ cast'.flow.dead = cast.flow.dead
      /\ cast'.flow.closing = cast.flow.closing
      /\ cast' \in [flow : Casts, signal : Casts]
  BY ReceiversOpen DEF ClientInv, Manners, Casts
<1>2. \A c \in R : client[c] = "open"
  BY ReceiversOpen
<1>3. R # {} => task'.phase = "casting"
  OBVIOUS
<1> HIDE DEF R
<1> QED  BY <1>1, <1>2, <1>3 DEF ClientInv, Manners, NoSilentGap, Busy

LEMMA SignalKeeps ==
  ASSUME ClientInv, on_position_signal
  PROVE  ClientInv'
<1> DEFINE R == receivers(signals[delivered + 1].sym)
<1>1. /\ cast.signal = NoCast /\ cast' = [cast EXCEPT !.signal = [cast.signal EXCEPT !.todo = R]]
      /\ client' = client /\ task' = task
  BY DEF on_position_signal, monitorVars
<1>2. /\ cast'.flow = cast.flow /\ cast'.signal.todo = R /\ cast'.signal.dead = {}
      /\ ~cast'.signal.closing /\ cast' \in [flow : Casts, signal : Casts]
      /\ cast.signal.dead = {}
  <2> DEFINE sent == [cast.signal EXCEPT !.todo = R]
  <2>1. /\ cast.signal.dead = {} /\ ~cast.signal.closing
    BY <1>1 DEF NoCast
  <2>2. cast \in [flow : Casts, signal : Casts] /\ R \in SUBSET Clients
    BY ReceiversOpen DEF ClientInv, Manners
  <2> HIDE DEF R
  <2>3. sent \in Casts /\ sent.todo = R /\ sent.dead = {} /\ ~sent.closing
    BY <2>1, <2>2 DEF Casts
  <2>4. cast' = [cast EXCEPT !.signal = sent]
    BY <1>1
  <2> HIDE DEF sent
  <2> QED  BY <2>1, <2>2, <2>3, <2>4
<1>3. missed' = missed
  <2>1. missed' = missed \cup {c \in Clients : client[c] = "open" /\ c \notin cast'.signal.todo
              /\ ClientKey[c] \in {signals[delivered'].sym, Root[signals[delivered'].sym]}}
    BY DEF on_position_signal
  <2>2. delivered' = delivered + 1
    BY DEF on_position_signal
  <2> QED  BY <1>2, <2>1, <2>2 DEF receivers, symbol_broadcast_keys
<1>4. \A c \in R : client[c] = "open"
  BY ReceiversOpen
<1> HIDE DEF R
<1> QED  BY <1>1, <1>2, <1>3, <1>4 DEF ClientInv, Manners, NoSilentGap, Busy

\* The loop over the failed clients: one is discarded, or the broadcast is over.
LEMMA DropKeeps ==
  ASSUME ClientInv, NEW b \in {"flow", "signal"}, NEW dead \in SUBSET Clients, drop_next(b, dead),
         Busy(cast[b]), cast[b].dead \subseteq dead,
         missed' \subseteq Clients, \A x \in missed' : client[x] # "new",
         \A x \in missed' \ missed : b = "signal" /\ x \in dead
  PROVE  ClientInv' /\ (task' = task \/ (b = "flow" /\ task' = Idle))
<1>1. PICK left \in Casts : /\ cast' = [cast EXCEPT ![b] = left] /\ left.todo = {}
                            /\ left.dead \subseteq dead /\ (~left.closing => left.dead = {})
                            /\ \A x \in dead \ left.dead : client'[x] = "closed"
                            /\ ~left.closing => task' = IF b = "flow" THEN Idle ELSE task
                            /\ left.closing => task' = task
                            /\ client' = client \/ \E d \in Clients : client' = discard(d)
  <2>1. CASE dead = {}
    <3>1. NoCast \in Casts /\ NoCast.todo = {} /\ NoCast.dead = {} /\ NoCast.closing = FALSE
      BY DEF NoCast, Casts
    <3> QED  BY <2>1, <3>1 DEF drop_next
  <2>2. CASE dead # {}
    <3>1. PICK d \in dead : /\ client' = discard(d) /\ task' = task
                            /\ cast' = [cast EXCEPT ![b] = [todo |-> {}, dead |-> dead \ {d}, closing |-> TRUE]]
      BY <2>2 DEF drop_next
    <3> DEFINE left == [todo |-> {}, dead |-> dead \ {d}, closing |-> TRUE]
    <3>2. left \in Casts /\ left.todo = {} /\ left.dead = dead \ {d} /\ left.closing = TRUE
      BY DEF Casts
    <3>3. client'[d] = "closed"
      BY <3>1 DEF discard, ClientInv, Manners
    <3> QED  BY <3>1, <3>2, <3>3
  <2> QED  BY <2>1, <2>2
<1>2. /\ cast' \in [flow : Casts, signal : Casts] /\ cast'[b] = left
      /\ \A x \in {"flow", "signal"} \ {b} : cast'[x] = cast[x]
  BY <1>1 DEF ClientInv, Manners
<1>3. /\ client' \in [Clients -> {"new", "open", "closed"}]
      /\ \A x \in Clients : client'[x] = client[x] \/ client'[x] = "closed"
  BY <1>1 DEF discard, ClientInv, Manners
<1>4. Manners'
  <2>1. \A x \in missed' : client'[x] # "new"
    BY <1>3
  <2>2. \A x \in {"flow", "signal"} : /\ ~Busy(cast'[x]) => cast'[x].dead = {}
                                      /\ \A d \in cast'[x].todo : client'[d] # "new"
    <3> SUFFICES ASSUME NEW x \in {"flow", "signal"}
                 PROVE  /\ ~Busy(cast'[x]) => cast'[x].dead = {}
                        /\ \A d \in cast'[x].todo : client'[d] # "new"
      OBVIOUS
    <3>1. CASE x = b
      BY <1>1, <1>2, <3>1 DEF Busy
    <3>2. CASE x # b
      <4>1. /\ ~Busy(cast[x]) => cast[x].dead = {}
            /\ \A d \in cast[x].todo : d \in Clients /\ client[d] # "new"
        BY DEF ClientInv, Manners, Casts
      <4> QED  BY <1>2, <1>3, <3>2, <4>1
    <3> QED  BY <3>1, <3>2
  <2>3. Busy(cast'.flow) => task'.phase = "casting"
    <3>1. CASE b = "flow"
      BY <1>1, <1>2, <3>1 DEF ClientInv, Manners, Busy
    <3>2. CASE b = "signal"
      BY <1>1, <1>2, <3>2 DEF ClientInv, Manners
    <3> QED  BY <3>1, <3>2
  <2> QED  BY <1>2, <1>3, <2>1, <2>2, <2>3 DEF Manners, Busy
<1>5. NoSilentGap'
  <2> SUFFICES ASSUME NEW x \in Clients, client'[x] = "open", x \in missed'
               PROVE  x \in cast'.signal.dead
    BY DEF NoSilentGap
  <2>1. client[x] = "open"
    BY <1>3
  <2>2. x \in missed => x \in cast.signal.dead
    BY <2>1 DEF ClientInv, NoSilentGap
  <2>3. CASE b = "signal"
    BY <1>1, <1>2, <2>2, <2>3
  <2>4. CASE b = "flow"
    BY <1>2, <2>2, <2>4
  <2> QED  BY <2>3, <2>4
<1>6. task' = task \/ (b = "flow" /\ task' = Idle)
  BY <1>1 DEF Casts
<1> QED  BY <1>4, <1>5, <1>6 DEF ClientInv

\* A send, in success or failure, before the last and the last; or a socket has closed.
LEMMA SendKeeps ==
  ASSUME ClientInv, NEW b \in {"flow", "signal"},
         close_ends(b) \/ \E c \in Clients, ok \in BOOLEAN : send_json(b, c, ok)
  PROVE  ClientInv' /\ Busy(cast[b]) /\ (task' = task \/ (b = "flow" /\ task' = Idle))
<1>1. CASE close_ends(b)
  <2>1. /\ drop_next(b, cast[b].dead) /\ missed' = missed /\ Busy(cast[b])
    BY <1>1 DEF close_ends, Busy
  <2>2. cast[b].dead \in SUBSET Clients /\ missed \subseteq Clients /\ \A x \in missed : client[x] # "new"
    BY DEF ClientInv, Manners, Casts
  <2> QED  BY <2>1, <2>2, DropKeeps
<1>2. ASSUME NEW c \in Clients, NEW ok \in BOOLEAN, send_json(b, c, ok)
      PROVE  ClientInv' /\ Busy(cast[b]) /\ (task' = task \/ (b = "flow" /\ task' = Idle))
  <2> DEFINE dead == cast[b].dead \cup (IF ok THEN {} ELSE {c})
  <2>1. /\ c \in cast[b].todo /\ Busy(cast[b])
        /\ missed' = IF b = "signal" /\ ~ok THEN missed \cup {c} ELSE missed
        /\ IF cast[b].todo = {c} THEN drop_next(b, dead)
           ELSE /\ cast' = [cast EXCEPT ![b].todo = @ \ {c}, ![b].dead = dead]
                /\ client' = client /\ task' = task
    BY <1>2 DEF send_json, Busy
  <2>2. /\ dead \in SUBSET Clients /\ cast[b] \in Casts /\ missed \subseteq Clients
        /\ client[c] # "new" /\ \A x \in missed : client[x] # "new"
    BY <2>1 DEF ClientInv, Manners, Casts
  <2>3. /\ missed' \subseteq Clients /\ \A x \in missed' : client[x] # "new"
        /\ \A x \in missed' \ missed : b = "signal" /\ x \in dead
    BY <2>1, <2>2
  <2>4. CASE cast[b].todo = {c}
    <3> HIDE DEF dead
    <3>1. cast[b].dead \subseteq dead
      BY DEF dead
    <3> QED  BY <2>1, <2>2, <2>3, <2>4, <3>1, DropKeeps
  <2>5. CASE cast[b].todo # {c}
    <3> DEFINE left == [cast[b] EXCEPT !.todo = cast[b].todo \ {c}, !.dead = dead]
    <3>1. /\ left \in Casts /\ left.todo = cast[b].todo \ {c} /\ left.dead = dead
          /\ left.todo # {} /\ left.todo \subseteq cast[b].todo
      BY <2>1, <2>2, <2>5 DEF Casts
    <3>2. cast' = [cast EXCEPT ![b] = left]
      BY <2>1, <2>5
    <3> HIDE DEF left
    <3>3. /\ cast' \in [flow : Casts, signal : Casts] /\ cast'[b] = left
          /\ \A x \in {"flow", "signal"} \ {b} : cast'[x] = cast[x]
      BY <3>1, <3>2 DEF ClientInv, Manners
    <3>4. client' = client /\ task' = task
      BY <2>1, <2>5
    <3>5. Manners'
      BY <2>1, <2>3, <3>1, <3>3, <3>4 DEF ClientInv, Manners, Busy
    <3>6. NoSilentGap'
      BY <2>1, <2>2, <3>1, <3>3, <3>4 DEF ClientInv, Manners, NoSilentGap
    <3> QED  BY <2>1, <3>4, <3>5, <3>6 DEF ClientInv
  <2> QED  BY <2>4, <2>5
<1> QED  BY <1>1, <1>2

\* Every step keeps it.
LEMMA ClientInvStep == MonitorTyped /\ ClientInv /\ [Next]_vars => ClientInv'
<1> SUFFICES ASSUME MonitorTyped, ClientInv, [Next]_vars  PROVE ClientInv'
  OBVIOUS
<1>1. ASSUME UNCHANGED <<client, missed, cast>>, task' = task  PROVE ClientInv'
  BY <1>1 DEF ClientInv, Manners, NoSilentGap, Busy
<1>2. ASSUME NEW sym \in Symbols,
             \/ \E shape \in Shapes[second[sym]] : Publish(sym, shape)
             \/ on_intrabar_bar(sym) \/ on_intrabar_trade(sym)
             \/ \E scored \in SUBSET Setups[sym] : on_pipeline_output(sym, scored)
             \/ \E new \in Theses : on_thesis(sym, new)
             \/ \E side \in -1 .. 1 : on_quote(sym, side)
             \/ quality_changes(sym)
      PROVE  ClientInv'
  <2>1. UNCHANGED <<client, missed, cast>> /\ task' = task
    BY <1>2 DEF Publish, on_intrabar_bar, on_intrabar_trade, on_pipeline_output, on_thesis, on_quote,
                quality_changes, clientVars, monitorVars
  <2> QED  BY <1>1, <2>1
<1>3. CASE on_s1_bar
  BY <1>3 DEF on_s1_bar, clientVars, ClientInv, Manners, NoSilentGap, Busy
<1>4. CASE resume_s1_bar
  <2>1. /\ task.phase = "published" /\ client' = client /\ missed' = missed
        /\ cast' = [cast EXCEPT !.flow = [cast.flow EXCEPT !.todo = receivers(task.sym)]]
        /\ task' = IF receivers(task.sym) = {} THEN Idle ELSE [task EXCEPT !.phase = "casting"]
    BY <1>4 DEF resume_s1_bar, broadcast_intrabar
  <2>2. receivers(task.sym) # {} => task'.phase = "casting"
    BY <2>1 DEF MonitorTyped
  <2>3. ~Busy(cast.flow)
    BY <2>1 DEF ClientInv, Manners
  <2> QED  BY <2>1, <2>2, <2>3, BroadcastKeeps
<1>5. CASE on_position_signal
  BY <1>5, SignalKeeps
<1>6. ASSUME NEW c \in Clients, connect(c) \/ disconnect(c)  PROVE ClientInv'
  <2>1. task' = task /\ missed' = missed /\ cast' = cast
    BY <1>6 DEF connect, disconnect, monitorVars
  <2>2. /\ client' \in [Clients -> {"new", "open", "closed"}]
        /\ \A d \in Clients : /\ client'[d] = "new" => client[d] = "new"
                              /\ client'[d] = "open" => client[d] = "open" \/ client[d] = "new"
    BY <1>6 DEF connect, disconnect, ClientInv, Manners
  <2>3. Manners'
    BY <2>1, <2>2 DEF ClientInv, Manners, Casts, Busy
  <2>4. NoSilentGap'
    BY <2>1, <2>2 DEF ClientInv, Manners, NoSilentGap
  <2> QED  BY <2>3, <2>4 DEF ClientInv
<1>7. ASSUME NEW b \in {"flow", "signal"},
             close_ends(b) \/ \E c \in Clients, ok \in BOOLEAN : send_json(b, c, ok)
      PROVE  ClientInv'
  BY <1>7, SendKeeps
<1>8. CASE UNCHANGED vars
  BY <1>1, <1>8 DEF vars, clientVars, monitorVars
<1> QED  BY <1>2, <1>3, <1>4, <1>5, <1>6, <1>7, <1>8, Zenon DEF Next

-----------------------------------------------------------------------------
(* The monitor: operators *)

\* The best candidate is one of them.
LEMMA BestIsOne ==
  ASSUME NEW sym \in Symbols, NEW S \in SUBSET Setups[sym], S # {}
  PROVE  best_of(S) \in S
<1>1. \A s \in S : s.grade \in Nat /\ s.id \in Nat
  BY MonitorAssumption
<1> DEFINE G == {s.grade : s \in S}
<1>2. PICK g \in G : \A h \in G : g <= h
  <2>1. G \in SUBSET Nat /\ G # {}
    BY <1>1
  <2> HIDE DEF G
  <2> QED  BY <2>1, LeastNat
<1> DEFINE I == {s.id : s \in {t \in S : t.grade = g}}
<1>3. PICK i \in I : \A j \in I : i <= j
  <2>1. I \in SUBSET Nat /\ I # {}
    BY <1>1, <1>2
  <2> HIDE DEF I
  <2> QED  BY <2>1, LeastNat
<1>4. PICK s \in S : s.grade = g /\ s.id = i
  BY <1>3
<1>5. \A o \in S : s.grade < o.grade \/ (s.grade = o.grade /\ s.id <= o.id)
  <2> SUFFICES ASSUME NEW o \in S  PROVE s.grade < o.grade \/ (s.grade = o.grade /\ s.id <= o.id)
    OBVIOUS
  <2>1. g <= o.grade
    BY <1>2
  <2>2. o.grade = g => i <= o.id
    BY <1>3
  <2> HIDE DEF G, I
  <2> QED  BY <1>1, <1>4, <2>1, <2>2
<1> HIDE DEF G, I
<1> QED  BY <1>5, Zenon DEF best_of

\* The excursions of a position are those of the prices it was shown.
Covers(p) ==
  /\ \A x \in p.shown : -p.mae <= gain(p, x) /\ gain(p, x) <= p.mfe
  /\ p.mfe > 0 => \E x \in p.shown : gain(p, x) = p.mfe
  /\ p.mae > 0 => \E x \in p.shown : gain(p, x) = -p.mae

\* A bar shown to a position.
LEMMA HeldOnce ==
  ASSUME NEW p \in Positions, p.held < TimeoutBars, NEW price \in Nat, NEW h, h = held_one_more(p, price)
  PROVE  /\ h \in Positions /\ h.held = p.held + 1 /\ h.setup = p.setup /\ h.thesis = p.thesis
         /\ h.invalidated = p.invalidated /\ price \in h.shown
         /\ Covers(p) => Covers(h)
         /\ gain(h, price) \in Int
<1> DEFINE x == gain(p, price)
<1>1. x \in Int /\ p.held \in 0 .. TimeoutBars /\ p.mfe \in Nat /\ p.mae \in Nat /\ TimeoutBars \in Nat
  BY MonitorAssumption DEF Positions, gain
<1>2. h = [p EXCEPT !.held = p.held + 1, !.mfe = IF x > p.mfe THEN x ELSE p.mfe,
                    !.mae = IF x < -p.mae THEN -x ELSE p.mae, !.shown = p.shown \cup {price}]
  BY DEF held_one_more
<1>3. h \in Positions
  <2>1. /\ p.held + 1 \in 0 .. TimeoutBars /\ (IF x > p.mfe THEN x ELSE p.mfe) \in Nat
        /\ (IF x < -p.mae THEN -x ELSE p.mae) \in Nat
    BY <1>1
  <2>2. p.shown \cup {price} \in SUBSET Int
    BY DEF Positions
  <2> HIDE DEF x
  <2> QED  BY <1>2, <2>1, <2>2 DEF Positions
<1>4. /\ h.held = p.held + 1 /\ h.setup = p.setup /\ h.thesis = p.thesis /\ h.invalidated = p.invalidated
      /\ h.shown = p.shown \cup {price} /\ h.buy = p.buy /\ h.entry = p.entry
      /\ h.mfe = IF x > p.mfe THEN x ELSE p.mfe
      /\ h.mae = IF x < -p.mae THEN -x ELSE p.mae
  BY <1>2 DEF Positions
<1>5. \A y : gain(h, y) = gain(p, y)
  BY <1>4 DEF gain
<1>6. \A y \in p.shown : gain(p, y) \in Int
  BY DEF Positions, gain
<1>7. ASSUME Covers(p)  PROVE Covers(h)
  <2>1. \A y \in h.shown : -h.mae <= gain(h, y) /\ gain(h, y) <= h.mfe
    BY <1>1, <1>4, <1>5, <1>6, <1>7 DEF Covers
  <2>2. h.mfe > 0 => \E y \in h.shown : gain(h, y) = h.mfe
    BY <1>1, <1>4, <1>5, <1>6, <1>7 DEF Covers
  <2>3. h.mae > 0 => \E y \in h.shown : gain(h, y) = -h.mae
    BY <1>1, <1>4, <1>5, <1>6, <1>7 DEF Covers
  <2> QED  BY <2>1, <2>2, <2>3 DEF Covers
<1> QED  BY <1>1, <1>3, <1>4, <1>5, <1>7

\* A position that has been held for its time is closed.
LEMMA WhyExit ==
  ASSUME NEW p \in Positions, NEW price \in Nat
  PROVE  exit_reason(p, price) \in Reasons /\ (exit_reason(p, price) = "none" => p.held < TimeoutBars)
  BY MonitorAssumption DEF exit_reason, Reasons, Positions

\* A signal of a position.
LEMMA SignalTyped ==
  ASSUME MonitorTyped, NEW sym \in Symbols, NEW p \in Positions, NEW price \in Nat,
         NEW type \in {"would_enter", "would_hold", "would_exit"}, NEW why \in Reasons
  PROVE  signal(type, sym, p, price, why) \in Signals
<1>1. gain(p, price) \in Int
  BY DEF Positions, gain
<1> QED  BY <1>1 DEF signal, Signals, Positions, MonitorTyped

\* A setup that may be entered, and the position it opens.
LEMMA NewPosition ==
  ASSUME MonitorTyped, NEW sym \in Symbols, NEW price \in Nat, entry_candidates(sym, price) # {},
         NEW s, s = best_of(entry_candidates(sym, price)), NEW p, p = open_position(sym, s, price)
  PROVE  /\ p \in Positions /\ p.setup \notin recently_exited /\ p.held = 0
         /\ p.thesis = thesis[sym] /\ Covers(p)
<1>1. entry_candidates(sym, price) \in SUBSET Setups[sym]
  BY DEF entry_candidates, MonitorTyped
<1>2. s \in entry_candidates(sym, price)
  BY <1>1, BestIsOne
<1>3. s \in Setups[sym] /\ s.id \notin recently_exited
  BY <1>1, <1>2 DEF entry_candidates, may_enter
<1>4. s.id \in Ids /\ s.buy \in BOOLEAN /\ s.stop \in Int /\ s.target \in Int
  BY <1>3, MonitorAssumption DEF Ids
<1>5. 0 \in 0 .. TimeoutBars /\ thesis[sym] \in Theses \cup {"none"}
  BY MonitorAssumption DEF MonitorTyped
<1>6. p \in Positions
  BY <1>4, <1>5 DEF open_position, Positions
<1> QED  BY <1>3, <1>6 DEF open_position, Covers

\* A position is not the absence of one.
LEMMA PositionIsOne == \A p \in Positions : p # NoPosition
<1> SUFFICES ASSUME NEW p \in Positions, p = NoPosition  PROVE FALSE
  OBVIOUS
<1>1. DOMAIN p = {"setup"}
  BY DEF NoPosition
<1>2. "held" \in DOMAIN p
  BY DEF Positions
<1> QED  BY <1>1, <1>2

-----------------------------------------------------------------------------
(* The monitor: the sequence of signals *)

\* The last signal of each symbol once another is published.
LEMMA LastAppend ==
  ASSUME NEW q \in Seq(Signals), NEW s \in Signals, NEW i, NEW sym
  PROVE  LastOf(Append(q, s), i, sym) <=> IF sym = s.sym THEN i = Len(q) + 1 ELSE LastOf(q, i, sym)
<1> DEFINE r == Append(q, s)
<1>1. Len(r) = Len(q) + 1 /\ r[Len(q) + 1] = s /\ Len(q) \in Nat
  OBVIOUS
<1>2. \A j \in 1 .. Len(q) : r[j] = q[j]
  OBVIOUS
<1> HIDE DEF r
<1>3. CASE sym = s.sym
  BY <1>1, <1>2, <1>3 DEF LastOf
<1>4. CASE sym # s.sym
  BY <1>1, <1>2, <1>4 DEF LastOf
<1> QED  BY <1>3, <1>4 DEF r

\* Before signal i of the sequence q, the position of its symbol was open since signal j.
OpenFrom(q, i, j) ==
  /\ j \in 1 .. Len(q) /\ j < i /\ q[j].sym = q[i].sym /\ q[j].type # "would_exit"
  /\ \A k \in 1 .. Len(q) : q[k].sym = q[i].sym => k <= j \/ k >= i

\* Signal i is in its place: an entry if and only if no position was open.
InCycle(q, i) ==
  /\ (\A j : ~OpenFrom(q, i, j)) => q[i].type = "would_enter"
  /\ \A j : OpenFrom(q, i, j) => q[i].type # "would_enter" /\ q[i].setup = q[j].setup

Cycles(q) == \A i \in 1 .. Len(q) : InCycle(q, i)

LEMMA CyclesSame == MonitorTyped => (SignalsCycle <=> Cycles(signals))
<1> SUFFICES ASSUME MonitorTyped  PROVE SignalsCycle <=> Cycles(signals)
  OBVIOUS
<1> DEFINE mine(i) == {j \in DOMAIN signals : signals[j].sym = signals[i].sym}
           open(i) == {j \in mine(i) : /\ j < i /\ signals[j].type # "would_exit"
                                       /\ \A k \in mine(i) : k <= j \/ k >= i}
<1>1. DOMAIN signals = 1 .. Len(signals)
  BY DEF MonitorTyped
<1>2. \A i, j : j \in open(i) <=> OpenFrom(signals, i, j)
  BY <1>1 DEF OpenFrom
<1>3. SignalsCycle <=> \A i \in 1 .. Len(signals) :
        IF open(i) = {} THEN signals[i].type = "would_enter"
        ELSE \A j \in open(i) : signals[i].type # "would_enter" /\ signals[i].setup = signals[j].setup
  BY <1>1 DEF SignalsCycle
<1> HIDE DEF open
<1>4. \A i : (IF open(i) = {} THEN signals[i].type = "would_enter"
        ELSE \A j \in open(i) : signals[i].type # "would_enter" /\ signals[i].setup = signals[j].setup)
        <=> InCycle(signals, i)
  BY <1>2 DEF InCycle
<1> QED  BY <1>3, <1>4 DEF Cycles

LEMMA CyclesNext == MonitorTyped' /\ Cycles(signals)' => SignalsCycle'
<1>1. MonitorTyped /\ Cycles(signals) => SignalsCycle
  BY CyclesSame
<1> QED  BY <1>1, PTL

\* A signal published in its place keeps the cycles.
LEMMA CyclesAppend ==
  ASSUME NEW q \in Seq(Signals), NEW s \in Signals, Cycles(q),
         (\A j : LastOf(q, j, s.sym) => q[j].type = "would_exit") => s.type = "would_enter",
         \A j : LastOf(q, j, s.sym) /\ q[j].type # "would_exit" =>
                  s.type # "would_enter" /\ s.setup = q[j].setup
  PROVE  Cycles(Append(q, s))
<1> DEFINE r == Append(q, s)
<1>1. Len(r) = Len(q) + 1 /\ r[Len(q) + 1] = s /\ Len(q) \in Nat
  OBVIOUS
<1>2. \A j \in 1 .. Len(q) : r[j] = q[j]
  OBVIOUS
<1> HIDE DEF r
<1>3. ASSUME NEW i \in 1 .. Len(q)  PROVE InCycle(r, i)
  <2>1. \A j : OpenFrom(r, i, j) <=> OpenFrom(q, i, j)
    <3> SUFFICES ASSUME NEW j  PROVE OpenFrom(r, i, j) <=> OpenFrom(q, i, j)
      OBVIOUS
    <3>1. OpenFrom(r, i, j) => OpenFrom(q, i, j)
      BY <1>1, <1>2 DEF OpenFrom
    <3>2. OpenFrom(q, i, j) => OpenFrom(r, i, j)
      BY <1>1, <1>2 DEF OpenFrom
    <3> QED  BY <3>1, <3>2
  <2>2. \A j : OpenFrom(q, i, j) => r[j] = q[j]
    BY <1>2 DEF OpenFrom
  <2> QED  BY <1>2, <2>1, <2>2 DEF InCycle, Cycles
<1>4. InCycle(r, Len(q) + 1)
  <2>1. \A j : OpenFrom(r, Len(q) + 1, j) <=> LastOf(q, j, s.sym) /\ q[j].type # "would_exit"
    <3> SUFFICES ASSUME NEW j
                 PROVE  OpenFrom(r, Len(q) + 1, j) <=> LastOf(q, j, s.sym) /\ q[j].type # "would_exit"
      OBVIOUS
    <3>1. OpenFrom(r, Len(q) + 1, j) => LastOf(q, j, s.sym) /\ q[j].type # "would_exit"
      BY <1>1, <1>2 DEF OpenFrom, LastOf
    <3>2. LastOf(q, j, s.sym) /\ q[j].type # "would_exit" => OpenFrom(r, Len(q) + 1, j)
      BY <1>1, <1>2 DEF OpenFrom, LastOf
    <3> QED  BY <3>1, <3>2
  <2>2. \A j : LastOf(q, j, s.sym) => r[j] = q[j]
    BY <1>2 DEF LastOf
  <2> QED  BY <1>1, <2>1, <2>2 DEF InCycle
<1> QED  BY <1>1, <1>3, <1>4 DEF Cycles, r

-----------------------------------------------------------------------------
(* The monitor: its steps *)

Unrecorded == UNCHANGED <<pending_setups, positions, thesis, recently_exited, task, signals, outputs>>

\* Steps that leave the positions and the signals alone.
LEMMA QuietKeeps ==
  ASSUME MonitorInv, Unrecorded, s1Bars' \in Seq(S1Bars), second' \in [Symbols -> Nat],
         \A sym \in Symbols : second'[sym] <= Seconds[sym]
  PROVE  MonitorInv'
<1>1. /\ pending_setups' = pending_setups /\ positions' = positions /\ thesis' = thesis
      /\ recently_exited' = recently_exited /\ task' = task /\ signals' = signals /\ outputs' = outputs
  BY DEF Unrecorded
<1>2. MonitorTyped'
  BY <1>1 DEF MonitorInv, MonitorTyped
<1>3. OpenSinceEntry'
  BY <1>1 DEF MonitorInv, OpenSinceEntry, LastOf, Closing
<1>4. ExitsAreBlocked'
  BY <1>1 DEF MonitorInv, ExitsAreBlocked, Closing
<1>5. SignalsCycle' /\ ReentryNeedsOutput' /\ ThesisChangeIsSeen'
  BY <1>1 DEF MonitorInv, SignalsCycle, ReentryNeedsOutput, ThesisChangeIsSeen
<1>6. ExcursionsCoverPrices'
  BY <1>1 DEF MonitorInv, ExcursionsCoverPrices, gain
<1> QED  BY <1>2, <1>3, <1>4, <1>5, <1>6 DEF MonitorInv

\* A second of the feed.
LEMMA PublishKeeps ==
  ASSUME MonitorInv, NEW sym \in Symbols, second[sym] < Seconds[sym],
         NEW shape \in Shapes[second[sym]], Publish(sym, shape)
  PROVE  MonitorInv'
<1> DEFINE bar == [kind |-> "S1", sym |-> sym, at |-> second[sym], high |-> shape.close,
                   low |-> shape.close - shape.dip, close |-> shape.close]
<1>1. second[sym] \in 0 .. Seconds[sym] - 1 /\ Seconds[sym] \in Nat
  BY MonitorAssumption DEF MonitorInv, MonitorTyped
<1>2. shape.close \in Nat /\ shape.dip \in 0 .. shape.close
  BY <1>1, MonitorAssumption
<1>3. bar \in S1Bars
  BY <1>1, <1>2 DEF S1Bars
<1>4. s1Bars' = Append(s1Bars, bar) /\ second' = [second EXCEPT ![sym] = second[sym] + 1] /\ Unrecorded
  BY DEF Publish, monitorVars, Unrecorded
<1> HIDE DEF bar
<1>5. s1Bars' \in Seq(S1Bars)
  BY <1>3, <1>4 DEF MonitorInv, MonitorTyped
<1>6. second' \in [Symbols -> Nat] /\ \A s \in Symbols : second'[s] <= Seconds[s]
  BY <1>1, <1>4 DEF MonitorInv, MonitorTyped
<1> QED  BY <1>4, <1>5, <1>6, QuietKeeps

\* Steps that touch nothing of the monitor's record.
LEMMA OtherKeeps ==
  ASSUME MonitorInv, Unrecorded, UNCHANGED <<s1Bars, second>>
  PROVE  MonitorInv'
<1>1. s1Bars' \in Seq(S1Bars) /\ second' \in [Symbols -> Nat] /\ \A s \in Symbols : second'[s] <= Seconds[s]
  BY DEF MonitorInv, MonitorTyped
<1> QED  BY <1>1, QuietKeeps

\* A pipeline output lifts the block: every exit so far was on an earlier output.
LEMMA OutputKeeps ==
  ASSUME MonitorInv, NEW sym \in Symbols, NEW scored \in SUBSET Setups[sym], on_pipeline_output(sym, scored)
  PROVE  MonitorInv'
<1>1. /\ outputs' = outputs + 1 /\ recently_exited' = {} /\ positions' = positions /\ thesis' = thesis
      /\ task' = task /\ signals' = signals /\ s1Bars' = s1Bars /\ second' = second
      /\ pending_setups' = [pending_setups EXCEPT ![sym] = {s \in scored : qualifies(s)}]
  BY DEF on_pipeline_output, feedVars
<1>2. MonitorTyped'
  <2>1. {s \in scored : qualifies(s)} \subseteq Setups[sym]
    OBVIOUS
  <2>2. /\ \A y \in Symbols : pending_setups'[y] \subseteq Setups[y]
        /\ pending_setups' = [y \in Symbols |-> pending_setups'[y]]
    <3>1. pending_setups = [y \in Symbols |-> pending_setups[y]]
      BY DEF MonitorInv, MonitorTyped
    <3>2. \A y \in Symbols : pending_setups'[y] =
             IF y = sym THEN {s \in scored : qualifies(s)} ELSE pending_setups[y]
      BY <1>1, <3>1
    <3>3. \A y \in Symbols : pending_setups[y] \subseteq Setups[y]
      BY DEF MonitorInv, MonitorTyped
    <3> QED  BY <1>1, <2>1, <3>1, <3>2, <3>3
  <2>3. outputs' \in Nat
    BY <1>1 DEF MonitorInv, MonitorTyped
  <2> QED  BY <1>1, <2>2, <2>3 DEF MonitorInv, MonitorTyped
<1>3. OpenSinceEntry'
  BY <1>1 DEF MonitorInv, OpenSinceEntry, LastOf, Closing
<1>4. ExitsAreBlocked'
  <2>1. \A i \in 1 .. Len(signals) : signals[i].outputs \in Nat /\ signals[i].outputs <= outputs
    <3>1. \A i \in 1 .. Len(signals) : signals[i] \in Signals
      BY DEF MonitorInv, MonitorTyped
    <3> QED  BY <3>1 DEF MonitorInv, ExitsAreBlocked, Signals
  <2>2. outputs \in Nat
    BY DEF MonitorInv, MonitorTyped
  <2>3. \A i \in 1 .. Len(signals) : signals[i].outputs <= outputs' /\ signals[i].outputs # outputs'
    BY <1>1, <2>1, <2>2
  <2> QED  BY <1>1, <2>3 DEF ExitsAreBlocked
<1>5. SignalsCycle' /\ ReentryNeedsOutput' /\ ThesisChangeIsSeen'
  BY <1>1 DEF MonitorInv, SignalsCycle, ReentryNeedsOutput, ThesisChangeIsSeen
<1>6. ExcursionsCoverPrices'
  BY <1>1 DEF MonitorInv, ExcursionsCoverPrices, gain
<1> QED  BY <1>2, <1>3, <1>4, <1>5, <1>6 DEF MonitorInv

\* What a position keeps when its thesis changes.
Marked(p, o) ==
  /\ p = NoPosition <=> o = NoPosition
  /\ o # NoPosition => /\ p.setup = o.setup /\ p.held = o.held /\ p.thesis = o.thesis
                       /\ o.invalidated => p.invalidated
                       /\ p.shown = o.shown /\ p.mfe = o.mfe /\ p.mae = o.mae
                       /\ p.buy = o.buy /\ p.entry = o.entry

\* A new thesis marks the position it contradicts.
LEMMA ThesisKeeps ==
  ASSUME MonitorInv, NEW sym \in Symbols, NEW new \in Theses, on_thesis(sym, new)
  PROVE  MonitorInv'
<1>1. /\ thesis' = [thesis EXCEPT ![sym] = new]
      /\ positions' = IF invalidates(sym, new) THEN [positions EXCEPT ![sym] = [positions[sym] EXCEPT !.invalidated = TRUE]]
                      ELSE positions
      /\ pending_setups' = pending_setups /\ recently_exited' = recently_exited /\ outputs' = outputs
      /\ task' = task /\ signals' = signals /\ s1Bars' = s1Bars /\ second' = second
  BY DEF on_thesis, feedVars
<1> DEFINE marked == [positions[sym] EXCEPT !.invalidated = TRUE]
<1>2. /\ positions \in [Symbols -> Positions \cup {NoPosition}]
      /\ thesis \in [Symbols -> Theses \cup {"none"}]
  BY DEF MonitorInv, MonitorTyped
<1>3. ASSUME invalidates(sym, new)
      PROVE  marked \in Positions /\ Marked(marked, positions[sym]) /\ marked.invalidated
  <2>1. positions[sym] \in Positions
    BY <1>2, <1>3 DEF invalidates
  <2>2. marked \in Positions
    BY <2>1 DEF Positions
  <2>3. marked # NoPosition
    BY <2>2, PositionIsOne
  <2> QED  BY <1>3, <2>1, <2>2, <2>3 DEF invalidates, Marked, Positions
<1>4. positions' \in [Symbols -> Positions \cup {NoPosition}]
  <2> HIDE DEF marked
  <2> QED  BY <1>1, <1>2, <1>3 DEF marked
<1>5. \A y \in Symbols : Marked(positions'[y], positions[y])
  <2> SUFFICES ASSUME NEW y \in Symbols  PROVE Marked(positions'[y], positions[y])
    OBVIOUS
  <2>1. Marked(positions[y], positions[y])
    BY DEF Marked
  <2>2. positions'[y] = IF invalidates(sym, new) /\ y = sym THEN marked ELSE positions[y]
    BY <1>1, <1>2
  <2> HIDE DEF marked
  <2> QED  BY <1>3, <2>1, <2>2
<1>6. thesis' \in [Symbols -> Theses \cup {"none"}]
  BY <1>1, <1>2
<1>7. MonitorTyped'
  BY <1>1, <1>4, <1>5, <1>6 DEF MonitorInv, MonitorTyped, Marked
<1>8. OpenSinceEntry'
  BY <1>1, <1>5 DEF MonitorInv, OpenSinceEntry, LastOf, Closing, Marked
<1>9. ExitsAreBlocked'
  <2>1. \A y \in Symbols : Closing(y) => positions[y] # NoPosition
    BY DEF Closing, MonitorInv, MonitorTyped
  <2> QED  BY <1>1, <1>5, <2>1 DEF MonitorInv, ExitsAreBlocked, Closing, Marked
<1>10. ThesisChangeIsSeen'
  <2> SUFFICES ASSUME NEW y \in Symbols, positions'[y] # NoPosition, positions'[y].thesis # "none",
                      thesis'[y] # positions'[y].thesis
               PROVE  positions'[y].invalidated
    BY DEF ThesisChangeIsSeen
  <2>1. /\ positions[y] # NoPosition /\ positions'[y].thesis = positions[y].thesis
        /\ positions[y].invalidated => positions'[y].invalidated
    BY <1>5 DEF Marked
  <2>2. CASE y = sym
    <3>1. invalidates(sym, new)
      BY <1>1, <1>2, <2>1, <2>2 DEF invalidates
    <3> HIDE DEF marked
    <3>2. positions'[y] = marked
      BY <1>1, <1>2, <2>2, <3>1 DEF marked
    <3> QED  BY <1>3, <3>1, <3>2
  <2>3. CASE y # sym
    <3>1. thesis'[y] = thesis[y]
      BY <1>1, <1>2, <2>3
    <3> QED  BY <2>1, <3>1 DEF MonitorInv, ThesisChangeIsSeen
  <2> QED  BY <2>2, <2>3
<1>11. SignalsCycle' /\ ReentryNeedsOutput'
  BY <1>1 DEF MonitorInv, SignalsCycle, ReentryNeedsOutput
<1>12. ExcursionsCoverPrices'
  BY <1>1, <1>5 DEF MonitorInv, ExcursionsCoverPrices, gain, Marked
<1> QED  BY <1>7, <1>8, <1>9, <1>10, <1>11, <1>12 DEF MonitorInv

\* The position p of the symbol is published with the signal s.
Published(sym, p, s, exit) ==
  /\ task.phase = "idle" /\ p \in Positions /\ s \in Signals /\ exit \in BOOLEAN
  /\ s.sym = sym /\ s.setup = p.setup /\ s.outputs = outputs
  /\ exit <=> s.type = "would_exit"
  /\ positions[sym] = NoPosition => s.type = "would_enter" /\ p.setup \notin recently_exited
  /\ positions[sym] # NoPosition => s.type # "would_enter" /\ p.setup = positions[sym].setup
  /\ ~exit => p.held < TimeoutBars
  /\ (p.thesis # "none" /\ thesis[sym] # p.thesis) => p.invalidated
  /\ Covers(p)
  /\ exit => -s.mae <= s.pnl /\ s.pnl <= s.mfe

LEMMA PublishedKeeps ==
  ASSUME MonitorInv, NEW sym \in Symbols, NEW p, NEW s, NEW exit, Published(sym, p, s, exit),
         positions' = [positions EXCEPT ![sym] = p], signals' = Append(signals, s),
         task' = [phase |-> "published", sym |-> sym, exit |-> exit], s1Bars' \in Seq(S1Bars),
         UNCHANGED <<second, pending_setups, thesis, recently_exited, outputs>>
  PROVE  MonitorInv'
<1>1. /\ positions \in [Symbols -> Positions \cup {NoPosition}] /\ signals \in Seq(Signals) /\ outputs \in Nat
      /\ positions'[sym] = p /\ \A y \in Symbols \ {sym} : positions'[y] = positions[y]
      /\ task.phase = "idle" /\ p \in Positions /\ s \in Signals
  BY DEF MonitorInv, MonitorTyped, Published
<1>2. p # NoPosition
  BY <1>1, PositionIsOne
<1>3. /\ \A y \in Symbols : ~Closing(y)
      /\ \A y \in Symbols : Closing(y)' <=> y = sym /\ exit
  BY <1>1 DEF Closing, Published
<1>4. \A i, y : LastOf(signals', i, y) <=> IF y = sym THEN i = Len(signals) + 1 ELSE LastOf(signals, i, y)
  BY <1>1, LastAppend DEF Published
<1>5. /\ Len(signals') = Len(signals) + 1 /\ Len(signals) \in Nat /\ signals'[Len(signals) + 1] = s
      /\ \A i \in 1 .. Len(signals) : signals'[i] = signals[i] /\ signals[i] \in Signals
      /\ signals' \in Seq(Signals)
  BY <1>1
<1>6. MonitorTyped'
  <2>1. positions' \in [Symbols -> Positions \cup {NoPosition}]
    BY <1>1
  <2>2. /\ task' \in [phase : {"idle", "published", "casting"}, sym : Symbols \cup {"none"}, exit : BOOLEAN]
        /\ task'.sym = sym
    BY DEF Published
  <2> QED  BY <1>1, <1>2, <1>5, <2>1, <2>2 DEF MonitorInv, MonitorTyped
<1>7. OpenSinceEntry'
  <2>1. ASSUME NEW y \in Symbols \ {sym}
        PROVE  /\ positions'[y] = NoPosition =>
                    \A i \in 1 .. Len(signals') : LastOf(signals', i, y) => signals'[i].type = "would_exit"
               /\ positions'[y] # NoPosition =>
                    /\ \E i \in 1 .. Len(signals') : LastOf(signals', i, y)
                    /\ \A i \in 1 .. Len(signals') : LastOf(signals', i, y) =>
                         /\ signals'[i].setup = positions'[y].setup
                         /\ signals'[i].type # "would_exit"
                    /\ positions'[y].held < TimeoutBars
    <3>1. \A i : LastOf(signals', i, y) <=> LastOf(signals, i, y)
      BY <1>4
    <3>2. \A i : LastOf(signals, i, y) => i \in 1 .. Len(signals) /\ i \in 1 .. Len(signals') /\ signals'[i] = signals[i]
      BY <1>5 DEF LastOf
    <3>3. positions'[y] = positions[y] /\ ~Closing(y)
      BY <1>1, <1>3
    <3> QED  BY <3>1, <3>2, <3>3 DEF MonitorInv, OpenSinceEntry
  <2>2. /\ \A i : LastOf(signals', i, sym) <=> i = Len(signals) + 1
        /\ Len(signals) + 1 \in 1 .. Len(signals')
    BY <1>4, <1>5
  <2>3. \A i \in 1 .. Len(signals') : LastOf(signals', i, sym) =>
          /\ signals'[i].setup = positions'[sym].setup
          /\ signals'[i].type = "would_exit" <=> Closing(sym)'
    BY <1>1, <1>3, <1>5, <2>2 DEF Published
  <2>4. ~Closing(sym)' => positions'[sym].held < TimeoutBars
    BY <1>1, <1>3 DEF Published
  <2> QED  BY <1>1, <1>2, <1>3, <2>1, <2>2, <2>3, <2>4 DEF OpenSinceEntry
<1>8. ExitsAreBlocked'
  <2>1. ASSUME NEW i \in 1 .. Len(signals)
        PROVE  /\ signals'[i].outputs <= outputs'
               /\ signals'[i].type = "would_exit" /\ signals'[i].outputs = outputs' =>
                    signals'[i].setup \in recently_exited'
    BY <1>3, <1>5 DEF MonitorInv, ExitsAreBlocked
  <2>2. LET t == signals'[Len(signals) + 1]
        IN  /\ t.outputs <= outputs'
            /\ t.type = "would_exit" => Closing(sym)' /\ positions'[sym].setup = t.setup
    BY <1>1, <1>3, <1>5 DEF Published
  <2> QED  BY <1>5, <2>1, <2>2 DEF ExitsAreBlocked
<1>9. SignalsCycle'
  <2>1. Cycles(signals)
    BY CyclesSame DEF MonitorInv
  <2>2. (\A j : LastOf(signals, j, sym) => signals[j].type = "would_exit") => s.type = "would_enter"
    <3>1. CASE positions[sym] = NoPosition
      BY <3>1 DEF Published
    <3>2. CASE positions[sym] # NoPosition
      BY <1>3, <3>2 DEF MonitorInv, OpenSinceEntry
    <3> QED  BY <3>1, <3>2
  <2>3. ASSUME NEW j, LastOf(signals, j, sym), signals[j].type # "would_exit"
        PROVE  s.type # "would_enter" /\ s.setup = signals[j].setup
    <3>1. j \in 1 .. Len(signals)
      BY <2>3 DEF LastOf
    <3>2. positions[sym] # NoPosition /\ signals[j].setup = positions[sym].setup
      BY <2>3, <3>1 DEF MonitorInv, OpenSinceEntry
    <3> QED  BY <3>2 DEF Published
  <2>4. Cycles(signals')
    <3>1. s.sym = sym
      BY DEF Published
    <3> QED  BY <1>1, <2>1, <2>2, <2>3, <3>1, CyclesAppend
  <2> QED  BY <1>6, <2>4, CyclesNext
<1>10. ReentryNeedsOutput'
  <2>1. DOMAIN signals = 1 .. Len(signals) /\ DOMAIN signals' = 1 .. Len(signals) + 1
    BY <1>1, <1>5
  <2>2. ASSUME NEW i \in 1 .. Len(signals), signals[i].type = "would_exit", s.type = "would_enter",
               signals[i].setup = s.setup
        PROVE  signals[i].outputs < s.outputs
    <3>1. s.setup \notin recently_exited /\ s.outputs = outputs
      BY <2>2 DEF Published
    <3>2. signals[i].outputs # outputs /\ signals[i].outputs <= outputs
      BY <1>3, <2>2, <3>1 DEF MonitorInv, ExitsAreBlocked
    <3>3. signals[i].outputs \in Nat
      BY <1>5 DEF Signals
    <3> QED  BY <1>1, <3>1, <3>2, <3>3
  <2>3. SUFFICES ASSUME NEW i \in 1 .. Len(signals) + 1, NEW j \in 1 .. Len(signals) + 1, i < j,
                        signals'[i].type = "would_exit", signals'[j].type = "would_enter",
                        signals'[i].setup = signals'[j].setup
                 PROVE  signals'[i].outputs < signals'[j].outputs
    BY <2>1 DEF ReentryNeedsOutput
  <2>4. i \in 1 .. Len(signals) /\ signals'[i] = signals[i]
    BY <1>5, <2>3
  <2>5. CASE j = Len(signals) + 1
    BY <1>5, <2>2, <2>3, <2>4, <2>5
  <2>6. CASE j # Len(signals) + 1
    <3>1. j \in 1 .. Len(signals) /\ signals'[j] = signals[j]
      BY <1>5, <2>3, <2>6
    <3>2. (i < j /\ signals[i].type = "would_exit" /\ signals[j].type = "would_enter"
            /\ signals[i].setup = signals[j].setup) => signals[i].outputs < signals[j].outputs
      BY <2>1, <2>4, <3>1 DEF MonitorInv, ReentryNeedsOutput
    <3> QED  BY <2>3, <2>4, <3>1, <3>2
  <2> QED  BY <2>5, <2>6
<1>11. ThesisChangeIsSeen'
  BY <1>1 DEF MonitorInv, ThesisChangeIsSeen, Published
<1>12. ExcursionsCoverPrices'
  <2>1. \A y \in Symbols : positions'[y] # NoPosition => Covers(positions'[y])
    <3>1. \A y \in Symbols : positions[y] # NoPosition => Covers(positions[y])
      BY DEF MonitorInv, ExcursionsCoverPrices, Covers
    <3>2. Covers(p)
      BY DEF Published
    <3> QED  BY <1>1, <3>1, <3>2
  <2>2. DOMAIN signals = 1 .. Len(signals) /\ DOMAIN signals' = 1 .. Len(signals) + 1
    BY <1>1, <1>5
  <2>3. \A i \in DOMAIN signals' : signals'[i].type = "would_exit" =>
            -signals'[i].mae <= signals'[i].pnl /\ signals'[i].pnl <= signals'[i].mfe
    BY <1>5, <2>2 DEF MonitorInv, ExcursionsCoverPrices, Published
  <2> QED  BY <2>1, <2>3 DEF ExcursionsCoverPrices, Covers, gain
<1> QED  BY <1>6, <1>7, <1>8, <1>9, <1>10, <1>11, <1>12 DEF MonitorInv

\* A one-second bar up to where its handler is suspended.
LEMMA BarKeeps ==
  ASSUME MonitorInv, on_s1_bar
  PROVE  MonitorInv'
<1> DEFINE bar == Head(s1Bars)
           sym == bar.sym
           held == held_one_more(positions[sym], bar.close)
           why == exit_reason(held, bar.close)
           best == best_of(entry_candidates(sym, bar.close))
           new == open_position(sym, best, bar.close)
<1>1. /\ task.phase = "idle" /\ s1Bars # << >> /\ s1Bars' = Tail(s1Bars)
      /\ UNCHANGED <<second, pending_setups, thesis, recently_exited, outputs>>
  BY DEF on_s1_bar
<1>2. /\ bar \in S1Bars /\ sym \in Symbols /\ bar.close \in Nat /\ s1Bars' \in Seq(S1Bars)
  <2>1. s1Bars \in Seq(S1Bars)
    BY DEF MonitorInv, MonitorTyped
  <2>2. bar \in S1Bars /\ s1Bars' \in Seq(S1Bars)
    BY <1>1, <2>1
  <2> QED  BY <2>2 DEF S1Bars
<1>3. /\ positions \in [Symbols -> Positions \cup {NoPosition}] /\ thesis \in [Symbols -> Theses \cup {"none"}]
      /\ ~Closing(sym)
  BY <1>1 DEF MonitorInv, MonitorTyped, Closing
<1>4. CASE /\ positions[sym] # NoPosition
           /\ positions' = [positions EXCEPT ![sym] = held]
           /\ emit(signal(IF why = "none" THEN "would_hold" ELSE "would_exit", sym, held, bar.close, why), why # "none")
  <2> DEFINE s == signal(IF why = "none" THEN "would_hold" ELSE "would_exit", sym, held, bar.close, why)
  <2>1. /\ positions[sym] \in Positions /\ positions[sym].held < TimeoutBars /\ Covers(positions[sym])
        /\ (positions[sym].thesis # "none" /\ thesis[sym] # positions[sym].thesis) => positions[sym].invalidated
    BY <1>2, <1>3, <1>4 DEF MonitorInv, OpenSinceEntry, ExcursionsCoverPrices, Covers, ThesisChangeIsSeen
  <2>2. /\ held \in Positions /\ held.setup = positions[sym].setup /\ held.thesis = positions[sym].thesis
        /\ held.invalidated = positions[sym].invalidated /\ bar.close \in held.shown
        /\ Covers(held) /\ gain(held, bar.close) \in Int
    BY <1>2, <2>1, HeldOnce
  <2> HIDE DEF held, bar
  <2>3. why \in Reasons /\ (why = "none" => held.held < TimeoutBars)
    BY <1>2, <2>2, WhyExit
  <2> HIDE DEF why
  <2>4. s \in Signals
    BY <1>2, <2>2, <2>3, SignalTyped DEF MonitorInv
  <2>5. /\ s.sym = sym /\ s.setup = held.setup /\ s.outputs = outputs
        /\ s.type = IF why = "none" THEN "would_hold" ELSE "would_exit"
        /\ s.pnl = gain(held, bar.close) /\ s.mae = held.mae /\ s.mfe = held.mfe
    BY DEF signal
  <2>6. -s.mae <= s.pnl /\ s.pnl <= s.mfe
    BY <2>2, <2>5 DEF Covers
  <2> HIDE DEF s, sym
  <2>7. Published(sym, held, s, why # "none")
    BY <1>1, <1>4, <2>1, <2>2, <2>3, <2>4, <2>5, <2>6 DEF Published
  <2>8. /\ signals' = Append(signals, s) /\ task' = [phase |-> "published", sym |-> sym, exit |-> (why # "none")]
        /\ positions' = [positions EXCEPT ![sym] = held]
    BY <1>4, <2>5 DEF emit, s
  <2> QED  BY <1>1, <1>2, <2>7, <2>8, PublishedKeeps
<1>5. CASE UNCHANGED <<positions, signals, task>>
  BY <1>1, <1>2, <1>5, QuietKeeps DEF Unrecorded, MonitorInv, MonitorTyped
<1>6. CASE /\ positions[sym] = NoPosition /\ entry_candidates(sym, bar.close) # {}
           /\ positions' = [positions EXCEPT ![sym] = new]
           /\ emit(signal("would_enter", sym, new, bar.close, "none"), FALSE)
  <2> DEFINE s == signal("would_enter", sym, new, bar.close, "none")
  <2>1. /\ new \in Positions /\ new.setup \notin recently_exited /\ new.held = 0
        /\ new.thesis = thesis[sym] /\ Covers(new)
    BY <1>2, <1>6, NewPosition DEF MonitorInv
  <2> HIDE DEF new, bar
  <2>2. s \in Signals
    BY <1>2, <2>1, SignalTyped DEF MonitorInv, Reasons
  <2>3. s.sym = sym /\ s.setup = new.setup /\ s.outputs = outputs /\ s.type = "would_enter"
    BY DEF signal
  <2>4. 0 < TimeoutBars
    BY MonitorAssumption
  <2> HIDE DEF s, sym
  <2>5. Published(sym, new, s, FALSE)
    BY <1>1, <1>6, <2>1, <2>2, <2>3, <2>4 DEF Published
  <2>6. /\ signals' = Append(signals, s) /\ task' = [phase |-> "published", sym |-> sym, exit |-> FALSE]
        /\ positions' = [positions EXCEPT ![sym] = new]
    BY <1>6, <2>3 DEF emit, s
  <2> QED  BY <1>1, <1>2, <2>5, <2>6, PublishedKeeps
<1>7. CASE /\ UNCHANGED <<positions, signals>>
           /\ task' = [phase |-> "published", sym |-> sym, exit |-> FALSE]
  <2>1. \A y \in Symbols : ~Closing(y) /\ ~Closing(y)'
    BY <1>1, <1>7 DEF Closing
  <2>2. MonitorTyped'
    BY <1>1, <1>2, <1>7 DEF MonitorInv, MonitorTyped
  <2>3. OpenSinceEntry'
    BY <1>7, <2>1 DEF MonitorInv, OpenSinceEntry, LastOf
  <2>4. ExitsAreBlocked'
    BY <1>1, <1>7, <2>1 DEF MonitorInv, ExitsAreBlocked
  <2>5. SignalsCycle' /\ ReentryNeedsOutput' /\ ThesisChangeIsSeen'
    BY <1>1, <1>7 DEF MonitorInv, SignalsCycle, ReentryNeedsOutput, ThesisChangeIsSeen
  <2>6. ExcursionsCoverPrices'
    BY <1>7 DEF MonitorInv, ExcursionsCoverPrices, gain
  <2> QED  BY <2>2, <2>3, <2>4, <2>5, <2>6 DEF MonitorInv
<1> QED  BY <1>4, <1>5, <1>6, <1>7 DEF on_s1_bar

\* Back from publishing: an exit that was published is recorded.
LEMMA ResumeKeeps ==
  ASSUME MonitorInv, resume_s1_bar
  PROVE  MonitorInv'
<1> DEFINE sym == task.sym
<1>1. /\ task.phase = "published" /\ sym \in Symbols
      /\ recently_exited' = IF task.exit THEN recently_exited \cup {positions[sym].setup} ELSE recently_exited
      /\ positions' = IF task.exit THEN [positions EXCEPT ![sym] = NoPosition] ELSE positions
      /\ UNCHANGED <<second, s1Bars, pending_setups, thesis, signals, outputs>>
  BY DEF resume_s1_bar, feedVars, forget_position, MonitorInv, MonitorTyped
<1>2. /\ task' \in [phase : {"idle", "published", "casting"}, sym : Symbols \cup {"none"}, exit : BOOLEAN]
      /\ task'.phase # "published"
  <2>1. task \in [phase : {"idle", "published", "casting"}, sym : Symbols \cup {"none"}, exit : BOOLEAN]
    BY DEF MonitorInv, MonitorTyped
  <2>2. task' = IF receivers(task.sym) = {} THEN Idle ELSE [task EXCEPT !.phase = "casting"]
    BY DEF resume_s1_bar, broadcast_intrabar
  <2> QED  BY <2>1, <2>2 DEF Idle
<1>3. positions \in [Symbols -> Positions \cup {NoPosition}]
  BY DEF MonitorInv, MonitorTyped
<1>4. /\ \A y \in Symbols : Closing(y) <=> y = sym /\ task.exit
      /\ \A y \in Symbols : ~Closing(y)'
  BY <1>1, <1>2 DEF Closing
<1>5. /\ positions' \in [Symbols -> Positions \cup {NoPosition}]
      /\ \A y \in Symbols : IF Closing(y) THEN positions'[y] = NoPosition ELSE positions'[y] = positions[y]
  BY <1>1, <1>3, <1>4
<1>6. \A y \in Symbols : Closing(y) => positions[y] \in Positions
  BY <1>1, <1>3, <1>4 DEF MonitorInv, MonitorTyped
<1>7. MonitorTyped'
  <2>1. recently_exited' \subseteq Ids
    BY <1>1, <1>4, <1>6 DEF MonitorInv, MonitorTyped, Positions
  <2> QED  BY <1>1, <1>2, <1>5, <2>1 DEF MonitorInv, MonitorTyped
<1>8. OpenSinceEntry'
  <2> HIDE DEF sym
  <2>1. ASSUME NEW y \in Symbols
        PROVE  /\ positions'[y] = NoPosition =>
                    \A i \in 1 .. Len(signals) : LastOf(signals, i, y) => signals[i].type = "would_exit"
               /\ positions'[y] # NoPosition =>
                    /\ \E i \in 1 .. Len(signals) : LastOf(signals, i, y)
                    /\ \A i \in 1 .. Len(signals) : LastOf(signals, i, y) =>
                         /\ signals[i].setup = positions'[y].setup
                         /\ signals[i].type # "would_exit"
                    /\ positions'[y].held < TimeoutBars
    <3>1. CASE Closing(y)
      BY <1>5, <1>6, <3>1, PositionIsOne DEF MonitorInv, OpenSinceEntry
    <3>2. CASE ~Closing(y)
      BY <1>5, <3>2 DEF MonitorInv, OpenSinceEntry
    <3> QED  BY <3>1, <3>2
  <2>2. signals' = signals
    BY <1>1
  <2> QED  BY <1>4, <2>1, <2>2 DEF OpenSinceEntry, LastOf
<1>9. ExitsAreBlocked'
  BY <1>1, <1>4 DEF MonitorInv, ExitsAreBlocked
<1>10. SignalsCycle' /\ ReentryNeedsOutput'
  BY <1>1 DEF MonitorInv, SignalsCycle, ReentryNeedsOutput
<1>11. ThesisChangeIsSeen'
  BY <1>1, <1>5 DEF MonitorInv, ThesisChangeIsSeen
<1>12. ExcursionsCoverPrices'
  BY <1>1, <1>5 DEF MonitorInv, ExcursionsCoverPrices, gain
<1> QED  BY <1>7, <1>8, <1>9, <1>10, <1>11, <1>12 DEF MonitorInv

\* A send or a close: the broadcast of the flow ends the bar that is casting, no other.
LEMMA CastKeeps ==
  ASSUME MonitorInv, ClientInv, NEW b \in {"flow", "signal"},
         close_ends(b) \/ \E c \in Clients, ok \in BOOLEAN : send_json(b, c, ok)
  PROVE  MonitorInv'
<1>1. /\ UNCHANGED <<second, s1Bars, pending_setups, positions, thesis, recently_exited, signals, outputs>>
      /\ task' = Idle \/ task' = task
      /\ task' # task => b = "flow" /\ Busy(cast[b])
  BY SendKeeps DEF send_json, close_ends, feedVars
<1>2. CASE task' = task
  BY <1>1, <1>2, OtherKeeps DEF Unrecorded
<1>3. CASE task' # task
  <2>1. task.phase = "casting" /\ task' = Idle
    BY <1>1, <1>3 DEF ClientInv, Manners
  <2>2. \A y \in Symbols : ~Closing(y) /\ ~Closing(y)'
    BY <2>1 DEF Closing, Idle
  <2>3. MonitorTyped'
    BY <1>1, <2>1 DEF MonitorInv, MonitorTyped, Idle
  <2>4. OpenSinceEntry'
    BY <1>1, <2>2 DEF MonitorInv, OpenSinceEntry, LastOf
  <2>5. ExitsAreBlocked'
    BY <1>1, <2>2 DEF MonitorInv, ExitsAreBlocked
  <2>6. SignalsCycle' /\ ReentryNeedsOutput' /\ ThesisChangeIsSeen'
    BY <1>1 DEF MonitorInv, SignalsCycle, ReentryNeedsOutput, ThesisChangeIsSeen
  <2>7. ExcursionsCoverPrices'
    BY <1>1 DEF MonitorInv, ExcursionsCoverPrices, gain
  <2> QED  BY <2>3, <2>4, <2>5, <2>6, <2>7 DEF MonitorInv
<1> QED  BY <1>2, <1>3

\* Before the first bar.
LEMMA MonitorInvInit == Init => MonitorInv
<1> SUFFICES ASSUME Init  PROVE MonitorInv
  OBVIOUS
<1>1. /\ positions = [s \in Symbols |-> NoPosition] /\ signals = << >> /\ task = Idle /\ s1Bars = << >>
      /\ outputs = 0 /\ recently_exited = {} /\ thesis = [s \in Symbols |-> "none"]
      /\ pending_setups = [s \in Symbols |-> {}] /\ second = [s \in Symbols |-> 0]
  BY DEF Init
<1>2. \A s \in Symbols : 0 <= Seconds[s]
  BY MonitorAssumption
<1>3. MonitorTyped
  BY <1>1, <1>2 DEF MonitorTyped, Idle
<1>4. 1 .. Len(signals) = {} /\ DOMAIN signals = {}
  BY <1>1
<1>5. OpenSinceEntry /\ ExitsAreBlocked
  BY <1>1, <1>4 DEF OpenSinceEntry, ExitsAreBlocked
<1>6. SignalsCycle /\ ReentryNeedsOutput
  BY <1>4 DEF SignalsCycle, ReentryNeedsOutput
<1>7. ThesisChangeIsSeen /\ ExcursionsCoverPrices
  BY <1>1, <1>4 DEF ThesisChangeIsSeen, ExcursionsCoverPrices
<1> QED  BY <1>3, <1>5, <1>6, <1>7 DEF MonitorInv

\* Every step keeps it.
LEMMA MonitorInvStep == MonitorInv /\ ClientInv /\ [Next]_vars => MonitorInv'
<1> SUFFICES ASSUME MonitorInv, ClientInv, [Next]_vars  PROVE MonitorInv'
  OBVIOUS
<1>1. ASSUME NEW sym \in Symbols, second[sym] < Seconds[sym],
             \E shape \in Shapes[second[sym]] : Publish(sym, shape)
      PROVE  MonitorInv'
  BY <1>1, PublishKeeps
<1>2. ASSUME NEW sym \in Symbols,
             \/ on_intrabar_bar(sym) \/ on_intrabar_trade(sym)
             \/ \E side \in -1 .. 1 : on_quote(sym, side)
             \/ quality_changes(sym)
      PROVE  MonitorInv'
  <2>1. Unrecorded /\ UNCHANGED <<s1Bars, second>>
    BY <1>2 DEF Unrecorded, on_intrabar_bar, on_intrabar_trade, on_quote, quality_changes, monitorVars, feedVars
  <2> QED  BY <2>1, OtherKeeps
<1>3. ASSUME NEW sym \in Symbols, \E scored \in SUBSET Setups[sym] : on_pipeline_output(sym, scored)
      PROVE  MonitorInv'
  BY <1>3, OutputKeeps
<1>4. ASSUME NEW sym \in Symbols, \E new \in Theses : on_thesis(sym, new)  PROVE MonitorInv'
  BY <1>4, ThesisKeeps
<1>5. CASE on_s1_bar
  BY <1>5, BarKeeps
<1>6. CASE resume_s1_bar
  BY <1>6, ResumeKeeps
<1>7. CASE on_position_signal
  <2>1. Unrecorded /\ UNCHANGED <<s1Bars, second>>
    BY <1>7 DEF Unrecorded, on_position_signal, monitorVars, feedVars
  <2> QED  BY <2>1, OtherKeeps
<1>8. ASSUME NEW c \in Clients, connect(c) \/ disconnect(c)  PROVE MonitorInv'
  <2>1. Unrecorded /\ UNCHANGED <<s1Bars, second>>
    BY <1>8 DEF Unrecorded, connect, disconnect, monitorVars, feedVars
  <2> QED  BY <2>1, OtherKeeps
<1>9. ASSUME NEW b \in {"flow", "signal"},
             close_ends(b) \/ \E c \in Clients, ok \in BOOLEAN : send_json(b, c, ok)
      PROVE  MonitorInv'
  BY <1>9, CastKeeps
<1>10. CASE UNCHANGED vars
  <2>1. Unrecorded /\ UNCHANGED <<s1Bars, second>>
    BY <1>10 DEF Unrecorded, vars, monitorVars, feedVars
  <2> QED  BY <2>1, OtherKeeps
<1> QED  BY <1>1, <1>2, <1>3, <1>4, <1>5, <1>6, <1>7, <1>8, <1>9, <1>10, Zenon DEF Next

\* The monitor and its clients, always.
LEMMA MonitorAlways == Spec => [](MonitorInv /\ ClientInv)
<1>1. Init => MonitorInv /\ ClientInv
  BY MonitorInvInit, ClientInvInit
<1>2. (MonitorInv /\ ClientInv) /\ [Next]_vars => (MonitorInv /\ ClientInv)'
  BY MonitorInvStep, ClientInvStep DEF MonitorInv
<1> QED  BY <1>1, <1>2, PTL DEF Spec

\* The record of shadow trades is orderly, whatever outputs, theses, quotes and
\* data-quality changes are handled while a bar's handler is suspended: for each
\* symbol one entry, holds and one exit of the same setup, no second entry of a
\* setup on the output it exited on, no change of thesis missed and no position
\* held longer than its timeout.
THEOREM OrderlyTrades == Spec => []ShadowTradesAreOrderly
<1>1. MonitorInv /\ ClientInv => ShadowTradesAreOrderly
  <2> SUFFICES ASSUME MonitorInv, ClientInv  PROVE ShadowTradesAreOrderly
    OBVIOUS
  <2>1. \A sym \in Symbols : second[sym] \in 0 .. Seconds[sym]
    BY MonitorAssumption DEF MonitorInv, MonitorTyped
  <2>2. \A sym \in Symbols : positions[sym] = NoPosition \/ positions[sym].held \in 0 .. TimeoutBars
    BY DEF MonitorInv, MonitorTyped, Positions
  <2>3. MonitorTypeOK
    BY <2>1, <2>2 DEF MonitorTypeOK, MonitorInv, MonitorTyped, ClientInv, Manners, Ids
  <2> QED  BY <2>3 DEF ShadowTradesAreOrderly, MonitorInv
<1> QED  BY <1>1, MonitorAlways, PTL

\* A client that is still connected has received every signal of its symbol
\* broadcast since it connected: whatever the number of clients and symbols, a
\* send that fails or times out costs the client its connection.
THEOREM NoGap == Spec => []NoSilentGap
<1>1. MonitorInv /\ ClientInv => NoSilentGap
  BY DEF ClientInv
<1> QED  BY <1>1, MonitorAlways, PTL

-----------------------------------------------------------------------------
(* The intrabar engines: the clock *)

\* The second after r of minute q: the next minute's first, or of the same minute.
LEMMA NextSecond ==
  ASSUME NEW q \in Nat, NEW r \in 0 .. MinuteSeconds - 1, NEW at, at = (MinuteSeconds * q) + r
  PROVE  /\ at \in Nat
         /\ EndsMinute(at) <=> r = MinuteSeconds - 1
         /\ MinuteOf(at + 1) = IF r = MinuteSeconds - 1 THEN q + 1 ELSE q
         /\ MinuteSeconds * (q + 1) = (MinuteSeconds * q) + MinuteSeconds
<1> DEFINE m == MinuteSeconds
<1>1. m \in Nat \ {0}
  BY IntrabarAssumption
<1> HIDE DEF m
<1>2. m * (q + 1) = (m * q) + m /\ m * q \in Nat
  BY <1>1, SMTT(30)
<1>3. CASE r = m - 1
  <2>1. at + 1 = (m * (q + 1)) + 0
    BY <1>1, <1>2, <1>3 DEF m
  <2>2. 0 \in 0 .. m - 1 /\ q + 1 \in Nat
    BY <1>1
  <2>3. (at + 1) \div m = q + 1 /\ (at + 1) % m = 0
    BY <1>1, <2>1, <2>2, DivMod
  <2> QED  BY <1>1, <1>2, <1>3, <2>3 DEF m, EndsMinute, MinuteOf
<1>4. CASE r # m - 1
  <2>1. at + 1 = (m * q) + (r + 1) /\ r + 1 \in 0 .. m - 1 /\ r + 1 # 0
    BY <1>1, <1>2, <1>4 DEF m
  <2>2. (at + 1) \div m = q /\ (at + 1) % m = r + 1
    BY <1>1, <2>1, DivMod
  <2> QED  BY <1>1, <1>2, <1>4, <2>1, <2>2 DEF m, EndsMinute, MinuteOf
<1> QED  BY <1>3, <1>4 DEF m

\* The first second of all.
LEMMA FirstSecond == MinuteOf(0) = 0 /\ MinuteSeconds * 0 = 0
<1>1. MinuteSeconds \in Nat \ {0} /\ 0 \in 0 .. MinuteSeconds - 1
  BY IntrabarAssumption
<1>2. MinuteSeconds * 0 = 0
  BY <1>1
<1>3. ((MinuteSeconds * 0) + 0) \div MinuteSeconds = 0
  BY <1>1, DivMod
<1> QED  BY <1>2, <1>3 DEF MinuteOf

-----------------------------------------------------------------------------
(* The intrabar engines: handlers *)

\* A trade changes volumes only.
LEMMA TradeKept ==
  ASSUME NEW e \in FlowEngines, NEW t \in Trades, NEW f, f = intrabar_on_trade(e, t)
  PROVE  /\ f \in FlowEngines /\ f.window = e.window /\ f.prior_low = e.prior_low
         /\ f.state.elapsed = e.state.elapsed /\ f.state.low = e.state.low
         /\ f.state.swept = e.state.swept
<1> DEFINE s == e.state
           phase == IF t.side = "buy" THEN t.size ELSE -t.size
           buy == IF t.side = "buy" THEN s.buy + t.size ELSE s.buy
           sell == IF t.side = "sell" THEN s.sell + t.size ELSE s.sell
           recovery == IF s.swept THEN s.recovery_delta + phase ELSE s.recovery_delta
           sweep == IF s.swept THEN s.sweep_delta ELSE s.sweep_delta + phase
           n == [s EXCEPT !.buy = buy, !.sell = sell, !.trades = s.trades + 1,
                          !.recovery_delta = recovery, !.sweep_delta = sweep]
<1>1. f = [e EXCEPT !.state = n]
  BY DEF intrabar_on_trade
<1>2. s \in States /\ phase \in Int /\ t.size \in Int
  BY DEF FlowEngines, Trades
<1> HIDE DEF s, phase
<1>3. n \in States /\ n.elapsed = s.elapsed /\ n.low = s.low /\ n.swept = s.swept
  <2>1. buy \in Int /\ sell \in Int /\ s.trades + 1 \in Int /\ recovery \in Int /\ sweep \in Int
    BY <1>2 DEF States
  <2> HIDE DEF buy, sell, recovery, sweep
  <2> QED  BY <1>2, <2>1 DEF States
<1> HIDE DEF n
<1> QED  BY <1>1, <1>3 DEF FlowEngines, s

\* A bar of the minute under way.
LEMMA Advanced ==
  ASSUME NEW s \in States, NEW bar \in S1Bars, NEW prior \in Nat \cup {None}, NEW n, n = advance(s, bar, prior)
  PROVE  /\ n \in States /\ n.elapsed = s.elapsed + 1
         /\ n.low = IF s.low = None \/ bar.low < s.low THEN bar.low ELSE s.low
         /\ n.swept <=>
              (s.swept \/ ((s.low = None \/ bar.low < s.low) /\ prior # None /\ bar.low < prior))
<1> DEFINE lower  == s.low = None \/ bar.low < s.low
           sweeps == lower /\ prior # None /\ bar.low < prior /\ ~s.swept
           since  == IF sweeps THEN bar.at ELSE s.sweep_at
           high   == IF s.high = None \/ bar.high > s.high THEN bar.high ELSE s.high
           low    == IF lower THEN bar.low ELSE s.low
           swept  == s.swept \/ sweeps
           secs   == IF (s.swept \/ sweeps) /\ bar.at > since THEN s.recovery_seconds + 1 ELSE s.recovery_seconds
           next   == [s EXCEPT !.high = high, !.low = low, !.swept = swept, !.sweep_at = since,
                               !.elapsed = s.elapsed + 1, !.recovery_seconds = secs]
<1>1. n = IF next.swept /\ next.recovery_seconds > 0 /\ next.recovery_seconds % AbsorptionEvery = 0
          THEN update_absorption_signal(next) ELSE next
  BY DEF advance
<1>2. /\ bar.low \in Nat /\ bar.high \in Nat /\ bar.at \in Nat /\ s.low \in Int /\ s.high \in Int
      /\ s.swept \in BOOLEAN /\ s.sweep_at \in Int /\ s.recovery_seconds \in Int /\ s.elapsed \in Nat
  BY DEF S1Bars, States
<1>3. high \in Int /\ low \in Int /\ swept \in BOOLEAN /\ since \in Int /\ secs \in Int /\ s.elapsed + 1 \in Nat
  BY <1>2
<1>4. swept <=>
        (s.swept \/ ((s.low = None \/ bar.low < s.low) /\ prior # None /\ bar.low < prior))
  OBVIOUS
<1>5. low = IF s.low = None \/ bar.low < s.low THEN bar.low ELSE s.low
  OBVIOUS
<1> HIDE DEF high, low, swept, since, secs
<1>6. next \in States /\ next.elapsed = s.elapsed + 1 /\ next.low = low /\ next.swept = swept
  BY <1>3 DEF States
<1> HIDE DEF next
<1>7. LET u == update_absorption_signal(next)
      IN  u \in States /\ u.elapsed = next.elapsed /\ u.low = next.low /\ u.swept = next.swept
  <2>1. \A b \in BOOLEAN :
          LET u == [next EXCEPT !.absorption = b]
          IN  u \in States /\ u.elapsed = next.elapsed /\ u.low = next.low /\ u.swept = next.swept
    BY <1>6 DEF States
  <2>2. \/ update_absorption_signal(next) = next
        \/ \E b \in BOOLEAN : update_absorption_signal(next) = [next EXCEPT !.absorption = b]
    BY DEF update_absorption_signal
  <2> QED  BY <1>6, <2>1, <2>2
<1> QED  BY <1>1, <1>4, <1>5, <1>6, <1>7

\* A one-second bar follows what the engine has handled.
LEMMA SecondHandled ==
  ASSUME NEW e \in FlowEngines, NEW w \in Seq(S1Bars), NEW m1, Measured(e, w, m1),
         NEW bar \in S1Bars, bar.at = LastAt(e) + 1, NEW f, f = intrabar_on_bar(e, bar),
         NEW v, v = IF e.window # MinuteOf(bar.at) THEN << >> ELSE Append(w, bar), NEW m2
  PROVE  f \in FlowEngines /\ v \in Seq(S1Bars) /\ LastAt(f) = bar.at /\ Measured(f, v, m2)
<1> DEFINE s == e.state
<1>1. /\ s \in States /\ e.window \in Nat \cup {None} /\ e.prior_low \in Nat \cup {None}
      /\ MinuteSeconds \in Nat \ {0} /\ bar.at \in Nat /\ bar.low \in Nat /\ bar.kind = "S1"
      /\ s.elapsed \in Nat
  BY IntrabarAssumption DEF FlowEngines, States, S1Bars
<1>2. f = process_s1_bar(e, bar)
  BY <1>1 DEF intrabar_on_bar
<1>3. CASE e.window # MinuteOf(bar.at)
  <2> DEFINE q == MinuteOf(bar.at)
             n == IntrabarState(q)
  <2>1. f = [e EXCEPT !.window = q, !.state = n] /\ v = << >>
    BY <1>2, <1>3 DEF process_s1_bar, opens_window
  <2>2. q \in Nat /\ bar.at = MinuteSeconds * q
    <3>1. CASE e.window = None
      <4>1. bar.at = 0
        BY <3>1 DEF LastAt, None
      <4> QED  BY <4>1, FirstSecond
    <3>2. CASE e.window # None
      <4>1. /\ e.window \in Nat /\ s.elapsed \in 0 .. MinuteSeconds - 1
            /\ LastAt(e) = (MinuteSeconds * e.window) + s.elapsed
        BY <1>1, <3>2 DEF LastAt, Measured
      <4> HIDE DEF q, s
      <4>2. /\ MinuteOf(LastAt(e) + 1) = IF s.elapsed = MinuteSeconds - 1 THEN e.window + 1 ELSE e.window
            /\ MinuteSeconds * (e.window + 1) = (MinuteSeconds * e.window) + MinuteSeconds
        <5> DEFINE u == e.window
                   r == s.elapsed
                   at == LastAt(e)
        <5>1. u \in Nat /\ r \in 0 .. MinuteSeconds - 1 /\ at = (MinuteSeconds * u) + r
          BY <4>1
        <5> HIDE DEF u, r, at
        <5>2. /\ MinuteOf(at + 1) = IF r = MinuteSeconds - 1 THEN u + 1 ELSE u
              /\ MinuteSeconds * (u + 1) = (MinuteSeconds * u) + MinuteSeconds
          BY <5>1, NextSecond
        <5> QED  BY <5>2 DEF u, r, at
      <4>3. s.elapsed = MinuteSeconds - 1 /\ q = e.window + 1
        BY <1>3, <4>2 DEF q
      <4> DEFINE x == MinuteSeconds * e.window
                 y == MinuteSeconds * q
      <4>4. x \in Int /\ LastAt(e) = x + (MinuteSeconds - 1) /\ y = x + MinuteSeconds
        BY <1>1, <4>1, <4>2, <4>3
      <4> HIDE DEF x, y
      <4>5. bar.at = y
        BY <1>1, <4>4
      <4> QED  BY <4>1, <4>3, <4>5 DEF y
    <3> QED  BY <3>1, <3>2
  <2> HIDE DEF q
  <2>3. n \in States /\ n.elapsed = 0 /\ n.low = None /\ ~n.swept
    BY <2>2 DEF IntrabarState, States, None
  <2> HIDE DEF n
  <2>4. f \in FlowEngines /\ f.window = q /\ f.state = n
    BY <2>1, <2>2, <2>3 DEF FlowEngines
  <2>5. LastAt(f) = bar.at
    BY <1>1, <2>2, <2>3, <2>4 DEF LastAt, None
  <2>6. Measured(f, v, m2)
    <3>1. Len(v) = 0 /\ f.window # None
      BY <2>1, <2>2, <2>4 DEF None
    <3> HIDE DEF s
    <3> QED  BY <1>1, <2>3, <2>4, <3>1 DEF Measured
  <2> QED  BY <2>1, <2>4, <2>5, <2>6
<1>4. CASE e.window = MinuteOf(bar.at)
  <2> DEFINE n == advance(s, bar, e.prior_low)
  <2>1. f = [e EXCEPT !.state = n] /\ v = Append(w, bar)
    BY <1>2, <1>4 DEF process_s1_bar, opens_window
  <2>2. /\ n \in States /\ n.elapsed = s.elapsed + 1
        /\ n.low = IF s.low = None \/ bar.low < s.low THEN bar.low ELSE s.low
        /\ n.swept <=>
             (s.swept \/ ((s.low = None \/ bar.low < s.low) /\ e.prior_low # None /\ bar.low < e.prior_low))
    <3> DEFINE prior == e.prior_low
    <3>1. s \in States /\ prior \in Nat \cup {None} /\ n = advance(s, bar, prior)
      BY <1>1
    <3> HIDE DEF s, prior, n
    <3>2. /\ n \in States /\ n.elapsed = s.elapsed + 1
          /\ n.low = IF s.low = None \/ bar.low < s.low THEN bar.low ELSE s.low
          /\ n.swept <=>
               (s.swept \/ ((s.low = None \/ bar.low < s.low) /\ prior # None /\ bar.low < prior))
      BY <3>1, Advanced
    <3> QED  BY <3>2 DEF prior
  <2> HIDE DEF n
  <2>3. f \in FlowEngines /\ f.window = e.window /\ f.state = n /\ f.prior_low = e.prior_low
    BY <2>1, <2>2 DEF FlowEngines
  <2>4. e.window # None
    <3>1. CASE e.window = None
      <4>1. bar.at = 0
        BY <3>1 DEF LastAt, None
      <4> QED  BY <1>4, <3>1, <4>1, FirstSecond DEF None
    <3> QED  BY <3>1
  <2>5. /\ e.window \in Nat /\ s.elapsed \in 0 .. MinuteSeconds - 1
        /\ LastAt(e) = (MinuteSeconds * e.window) + s.elapsed
    BY <1>1, <2>4 DEF LastAt, Measured
  <2>6. s.elapsed # MinuteSeconds - 1
    <3>1. MinuteOf(bar.at) = IF s.elapsed = MinuteSeconds - 1 THEN e.window + 1 ELSE e.window
      <4> DEFINE u == e.window
                 r == s.elapsed
                 at == LastAt(e)
      <4>1. u \in Nat /\ r \in 0 .. MinuteSeconds - 1 /\ at = (MinuteSeconds * u) + r /\ bar.at = at + 1
        BY <2>5
      <4> HIDE DEF u, r, at
      <4>2. MinuteOf(at + 1) = IF r = MinuteSeconds - 1 THEN u + 1 ELSE u
        BY <4>1, NextSecond
      <4> QED  BY <4>1, <4>2 DEF u, r
    <3> QED  BY <1>4, <2>5, <3>1
  <2>7. LastAt(f) = bar.at
    <3> DEFINE x == MinuteSeconds * e.window
    <3>1. x \in Int /\ LastAt(e) = x + s.elapsed /\ LastAt(f) = x + n.elapsed
      BY <1>1, <2>3, <2>4, <2>5 DEF LastAt
    <3> HIDE DEF x, s
    <3> QED  BY <1>1, <2>2, <3>1
  <2>8. v \in Seq(S1Bars) /\ Len(v) = Len(w) + 1 /\ v[Len(w) + 1] = bar /\ \A i \in 1 .. Len(w) : v[i] = w[i]
    BY <2>1
  <2>9. \A i \in 1 .. Len(w) : w[i].low \in Nat
    <3>1. \A i \in 1 .. Len(w) : w[i] \in S1Bars
      OBVIOUS
    <3> QED  BY <3>1 DEF S1Bars
  <2>10. /\ s.elapsed = Len(w) /\ \A i \in 1 .. Len(w) : s.low <= w[i].low
         /\ IF s.elapsed = 0 THEN s.low = None /\ ~s.swept ELSE s.low \in Nat
         /\ (s.elapsed > 0 /\ s.elapsed < MinuteSeconds - 1) =>
              (s.swept <=> (e.prior_low # None /\ s.low < e.prior_low))
    BY DEF Measured
  <2> HIDE DEF s
  <2>11. n.low \in Nat /\ n.low <= bar.low /\ (s.elapsed = 0 \/ n.low <= s.low)
    BY <1>1, <2>2, <2>10 DEF None
  <2>12. \A i \in 1 .. Len(v) : n.low <= v[i].low
    <3> SUFFICES ASSUME NEW i \in 1 .. Len(v)  PROVE n.low <= v[i].low
      OBVIOUS
    <3>1. CASE i = Len(w) + 1
      BY <2>8, <2>11, <3>1
    <3>2. CASE i # Len(w) + 1
      <4>1. i \in 1 .. Len(w) /\ v[i] = w[i] /\ s.elapsed # 0
        BY <2>8, <2>10, <3>2
      <4> QED  BY <2>9, <2>10, <2>11, <4>1
    <3> QED  BY <3>1, <3>2
  <2>13. n.swept <=> (e.prior_low # None /\ n.low < e.prior_low)
    <3>1. CASE s.elapsed = 0
      BY <2>2, <2>10, <3>1
    <3>2. CASE s.elapsed # 0
      <4>1. s.swept <=> (e.prior_low # None /\ s.low < e.prior_low)
        BY <1>1, <2>5, <2>6, <2>10, <3>2
      <4>2. s.low \in Nat /\ s.low # None
        BY <2>10, <3>2 DEF None
      <4>3. n.low = IF bar.low < s.low THEN bar.low ELSE s.low
        BY <2>2, <4>2
      <4>4. n.swept <=> (s.swept \/ (bar.low < s.low /\ e.prior_low # None /\ bar.low < e.prior_low))
        BY <2>2, <4>2
      <4> QED  BY <1>1, <4>1, <4>2, <4>3, <4>4 DEF None
    <3> QED  BY <3>1, <3>2
  <2>14. n.elapsed = Len(v) /\ n.elapsed < MinuteSeconds /\ n.elapsed # 0
    BY <1>1, <2>2, <2>5, <2>6, <2>8, <2>10
  <2>15. Measured(f, v, m2)
    BY <2>3, <2>4, <2>11, <2>12, <2>13, <2>14 DEF Measured
  <2> QED  BY <2>3, <2>7, <2>8, <2>15
<1> QED  BY <1>3, <1>4

\* A minute's bar comes after its last second: the minute is over.
LEMMA MinuteHandled ==
  ASSUME NEW e \in FlowEngines, NEW w \in Seq(S1Bars), NEW m1, Measured(e, w, m1),
         NEW bar \in M1Bars, bar.at = LastAt(e), EndsMinute(bar.at), NEW f, f = intrabar_on_bar(e, bar)
  PROVE  f \in FlowEngines /\ LastAt(f) = bar.at /\ Measured(f, w, FALSE)
<1>1. /\ bar.kind = "M1" /\ bar.low \in Nat /\ bar.at \in Nat /\ MinuteSeconds \in Nat \ {0}
      /\ e.window \in Nat \cup {None} /\ e.state.elapsed \in Nat
  BY IntrabarAssumption DEF M1Bars, FlowEngines, States
<1>2. f = [e EXCEPT !.prior_low = bar.low]
  BY <1>1 DEF intrabar_on_bar, set_prior_bar_low
<1>3. f \in FlowEngines /\ f.state = e.state /\ f.window = e.window
  BY <1>1, <1>2 DEF FlowEngines
<1>4. LastAt(f) = bar.at
  BY <1>3 DEF LastAt
<1>5. /\ e.window \in Nat /\ e.state.elapsed \in 0 .. MinuteSeconds - 1
      /\ LastAt(e) = (MinuteSeconds * e.window) + e.state.elapsed
  BY <1>1 DEF LastAt, Measured, None
<1>6. e.state.elapsed = MinuteSeconds - 1
  <2> DEFINE q == e.window
             r == e.state.elapsed
             at == LastAt(e)
  <2>1. q \in Nat /\ r \in 0 .. MinuteSeconds - 1 /\ at = (MinuteSeconds * q) + r /\ EndsMinute(at)
    BY <1>5
  <2> HIDE DEF q, r, at
  <2>2. r = MinuteSeconds - 1
    BY <2>1, NextSecond
  <2> QED  BY <2>2 DEF r
<1>7. Measured(f, w, FALSE)
  BY <1>1, <1>3, <1>6 DEF Measured
<1> QED  BY <1>3, <1>4, <1>7

\* A trade changes nothing that is measured.
LEMMA TradeHandled ==
  ASSUME NEW e \in FlowEngines, NEW w, NEW m1, Measured(e, w, m1), NEW t \in Trades,
         NEW f, f = intrabar_on_trade(e, t)
  PROVE  f \in FlowEngines /\ LastAt(f) = LastAt(e) /\ Measured(f, w, m1)
<1>1. /\ f \in FlowEngines /\ f.window = e.window /\ f.prior_low = e.prior_low
      /\ f.state.elapsed = e.state.elapsed /\ f.state.low = e.state.low /\ f.state.swept = e.state.swept
  BY TradeKept
<1> QED  BY <1>1 DEF LastAt, Measured

-----------------------------------------------------------------------------
(* The intrabar engines: their queues *)

\* r is the queue q with a bar behind it.
Extends(r, q, bar) == r = Append(q, bar)

\* What follows of it for the seconds it leads through.
Extended(r, q, bar, last) ==
  /\ r \in Seq(Bars) /\ r # << >> /\ Adjacent(r, last) /\ r[Len(r)] = bar
  /\ r[1].kind = "M1" => q # << >>
  /\ q # << >> => r[1] = q[1]

\* A second published behind the queue.
LEMMA SecondJoins ==
  ASSUME NEW q \in Seq(Bars), NEW next \in Nat, NEW last, Joined(q, next, last),
         NEW bar \in S1Bars, bar.at = next, NEW r, Extends(r, q, bar)
  PROVE  Extended(r, q, bar, last)
<1>1. /\ r \in Seq(Bars) /\ Len(r) = Len(q) + 1 /\ Len(q) \in Nat /\ r[Len(q) + 1] = bar
      /\ \A i \in 1 .. Len(q) : r[i] = q[i]
  BY DEF Bars, Extends
<1>2. bar.kind = "S1"
  BY DEF S1Bars
<1>3. CASE q = << >>
  <2>1. Len(q) = 0 /\ Len(r) = 1 /\ r[1] = bar /\ r # << >>
    <3>1. Len(<< >>) = 0
      OBVIOUS
    <3>2. Len(q) = 0
      BY <1>3, <3>1, Zenon
    <3>3. Len(r) = 1 /\ r[1] = bar
      BY <1>1, <3>2
    <3>4. r = << >> => Len(r) = 0
      BY <3>1, Zenon
    <3> QED  BY <3>2, <3>3, <3>4
  <2> QED  BY <1>1, <1>2, <1>3, <2>1 DEF Adjacent, Joined, Extended
<1>4. CASE q # << >>
  <2>1. Len(q) > 0 /\ r[1] = q[1] /\ r # << >> /\ Len(r) - 1 = Len(q)
    BY <1>1, <1>4
  <2>2. Adjacent(q, last) /\ bar.at = q[Len(q)].at + 1 /\ (q[Len(q)].kind = "S1" => ~EndsMinute(q[Len(q)].at))
    BY <1>4 DEF Joined
  <2>3. \A i \in 1 .. Len(q) : Follows(r[i + 1], r[i])
    <3> SUFFICES ASSUME NEW i \in 1 .. Len(q)  PROVE Follows(r[i + 1], r[i])
      OBVIOUS
    <3>1. CASE i = Len(q)
      BY <1>1, <1>2, <2>1, <2>2, <3>1 DEF Follows
    <3>2. CASE i # Len(q)
      <4>1. i \in 1 .. Len(q) - 1 /\ r[i] = q[i] /\ r[i + 1] = q[i + 1]
        BY <1>1, <3>2
      <4> QED  BY <2>2, <4>1 DEF Adjacent
    <3> QED  BY <3>1, <3>2
  <2>4. Adjacent(r, last)
    BY <2>1, <2>2, <2>3 DEF Adjacent
  <2> QED  BY <1>1, <1>4, <2>1, <2>4 DEF Extended
<1> QED  BY <1>3, <1>4

\* The minute's bar behind its last second.
LEMMA MinuteJoins ==
  ASSUME NEW q \in Seq(Bars), q # << >>, NEW last, Adjacent(q, last), q[Len(q)].kind = "S1",
         EndsMinute(q[Len(q)].at), NEW bar \in M1Bars, bar.at = q[Len(q)].at, NEW r, Extends(r, q, bar)
  PROVE  Extended(r, q, bar, last)
<1>1. /\ r \in Seq(Bars) /\ Len(r) = Len(q) + 1 /\ Len(q) \in Nat /\ Len(q) > 0 /\ r[Len(q) + 1] = bar
      /\ \A i \in 1 .. Len(q) : r[i] = q[i]
  BY DEF Bars, Extends
<1>2. bar.kind = "M1"
  BY DEF M1Bars
<1>3. r[1] = q[1] /\ r # << >> /\ Len(r) - 1 = Len(q)
  BY <1>1
<1>4. \A i \in 1 .. Len(q) : Follows(r[i + 1], r[i])
  <2> SUFFICES ASSUME NEW i \in 1 .. Len(q)  PROVE Follows(r[i + 1], r[i])
    OBVIOUS
  <2>1. CASE i = Len(q)
    BY <1>1, <1>2, <2>1 DEF Follows
  <2>2. CASE i # Len(q)
    <3>1. i \in 1 .. Len(q) - 1 /\ r[i] = q[i] /\ r[i + 1] = q[i + 1]
      BY <1>1, <2>2
    <3> QED  BY <3>1 DEF Adjacent
  <2> QED  BY <2>1, <2>2
<1> QED  BY <1>1, <1>3, <1>4 DEF Adjacent, Extended

\* The first bar of the queue is handled.
LEMMA HeadHandled ==
  ASSUME NEW q \in Seq(Bars), q # << >>, NEW next, NEW last, Joined(q, next, last),
         NEW r, r = Tail(q), NEW now, now = Head(q).at
  PROVE  /\ r \in Seq(Bars) /\ Joined(r, next, now)
         /\ Head(q).kind = "M1" => r = << >> \/ r[1].kind = "S1"
<1>1. /\ r \in Seq(Bars) /\ Len(r) = Len(q) - 1 /\ Len(q) \in Nat /\ Len(q) > 0 /\ Head(q) = q[1]
      /\ \A i \in 1 .. Len(r) : r[i] = q[i + 1]
  OBVIOUS
<1>2. Adjacent(q, last) /\ next = q[Len(q)].at + 1 /\ (q[Len(q)].kind = "S1" => ~EndsMinute(q[Len(q)].at))
  BY DEF Joined
<1>3. CASE r = << >>
  <2>1. Len(r) = 0
    <3>1. Len(<< >>) = 0
      OBVIOUS
    <3> QED  BY <1>3, <3>1, Zenon
  <2>2. Len(q) = 1
    BY <1>1, <2>1
  <2> QED  BY <1>1, <1>2, <1>3, <2>2 DEF Joined
<1>4. CASE r # << >>
  <2>1. Len(r) > 0 /\ r[1] = q[2] /\ r[Len(r)] = q[Len(q)] /\ 1 \in 1 .. Len(q) - 1
    BY <1>1, <1>4
  <2>2. Follows(q[2], q[1])
    <3>1. Follows(q[1 + 1], q[1])
      BY <1>2, <2>1 DEF Adjacent
    <3> QED  BY <3>1
  <2>3. IF r[1].kind = "M1" THEN r[1].at = now /\ EndsMinute(now) ELSE r[1].at = now + 1
    BY <1>1, <2>1, <2>2 DEF Follows
  <2>4. \A i \in 1 .. Len(r) - 1 : Follows(r[i + 1], r[i])
    <3> SUFFICES ASSUME NEW i \in 1 .. Len(r) - 1  PROVE Follows(r[i + 1], r[i])
      OBVIOUS
    <3>1. i + 1 \in 1 .. Len(q) - 1 /\ r[i] = q[i + 1] /\ r[i + 1] = q[(i + 1) + 1]
      BY <1>1
    <3> QED  BY <1>2, <3>1 DEF Adjacent
  <2>5. Adjacent(r, now)
    BY <2>3, <2>4 DEF Adjacent
  <2>6. Head(q).kind = "M1" => r[1].kind = "S1"
    BY <1>1, <2>1, <2>2 DEF Follows
  <2> QED  BY <1>1, <1>2, <1>4, <2>1, <2>5, <2>6 DEF Joined
<1> QED  BY <1>3, <1>4

-----------------------------------------------------------------------------
(* The intrabar engines: steps *)

\* What is kept for one symbol.
SymbolMeasured(sym) ==
  /\ Joined(intraBars[sym], second[sym], LastAt(engine[sym]))
  /\ Measured(engine[sym], window[sym], m1_queued(sym))

\* A second of the feed joins the queue.
LEMMA PublishMeasures ==
  ASSUME MonitorTyped, FeedInv, NEW sym \in Symbols, second[sym] < Seconds[sym],
         NEW shape \in Shapes[second[sym]], Publish(sym, shape)
  PROVE  FeedInv'
<1> DEFINE at == second[sym]
           bar == [kind |-> "S1", sym |-> sym, at |-> at, high |-> shape.close,
                   low |-> shape.close - shape.dip, close |-> shape.close]
           low == IF at % MinuteSeconds = 0 \/ bar.low < minuteLow[sym] THEN bar.low ELSE minuteLow[sym]
           min == [kind |-> "M1", at |-> at, low |-> low]
           m1  == IF (at + 1) % MinuteSeconds = 0 THEN <<min>> ELSE << >>
           trades == IF shape.side = "none" THEN << >> ELSE <<[size |-> LargeTrade, side |-> shape.side]>>
           q == intraBars[sym]
           r == Append(q, bar)
<1>1. /\ second \in [Symbols -> Nat] /\ minuteLow \in [Symbols -> Nat] /\ intraBars \in [Symbols -> Seq(Bars)]
      /\ intraTrades \in [Symbols -> Seq(Trades)] /\ engine \in [Symbols -> FlowEngines]
      /\ window \in [Symbols -> Seq(S1Bars)]
  BY DEF MonitorTyped, FeedInv, FeedTyped
<1>2. /\ second' = [second EXCEPT ![sym] = at + 1] /\ minuteLow' = [minuteLow EXCEPT ![sym] = low]
      /\ intraTrades' = [intraTrades EXCEPT ![sym] = intraTrades[sym] \o trades]
      /\ intraBars' = [intraBars EXCEPT ![sym] = (q \o <<bar>>) \o m1]
      /\ engine' = engine /\ window' = window
  BY DEF Publish
<1>3. shape.close \in Nat /\ shape.dip \in 0 .. shape.close /\ shape.side \in {"buy", "sell", "none"}
  <2>1. at \in 0 .. Seconds[sym] - 1
    BY <1>1, MonitorAssumption
  <2> QED  BY <2>1, MonitorAssumption
<1>4. bar \in S1Bars /\ bar.at = at /\ low \in Nat /\ min \in M1Bars /\ min.at = at /\ min.kind = "M1" /\ bar.kind = "S1"
  <2>1. bar.low \in Nat /\ shape.close - shape.dip \in Nat
    BY <1>3
  <2>2. low \in Nat
    BY <1>1, <2>1
  <2> HIDE DEF low
  <2> QED  BY <1>1, <1>3, <2>1, <2>2 DEF S1Bars, M1Bars
<1>5. intraTrades[sym] \o trades \in Seq(Trades)
  <2>1. LargeTrade \in Nat
    BY IntrabarAssumption
  <2>2. trades \in Seq(Trades)
    <3>1. CASE shape.side = "none"
      BY <3>1
    <3>2. CASE shape.side # "none"
      <4>1. [size |-> LargeTrade, side |-> shape.side] \in Trades
        BY <1>3, <2>1, <3>2 DEF Trades
      <4> QED  BY <3>2, <4>1
    <3> QED  BY <3>1, <3>2
  <2> HIDE DEF trades
  <2> QED  BY <1>1, <2>2
<1> HIDE DEF trades, low
<1>6. Extended(r, q, bar, LastAt(engine[sym]))
  <2> DEFINE last == LastAt(engine[sym])
  <2>1. q \in Seq(Bars) /\ at \in Nat /\ Joined(q, at, last) /\ Extends(r, q, bar)
    BY <1>1, <1>4 DEF FeedInv, Extends
  <2> HIDE DEF q, at, bar, last, r
  <2> QED  BY <1>4, <2>1, SecondJoins DEF last
<1>7. /\ intraBars'[sym] \in Seq(Bars) /\ Joined(intraBars'[sym], at + 1, LastAt(engine[sym]))
      /\ intraBars'[sym] # << >> /\ intraBars'[sym][1] = r[1]
  <2>1. r = q \o <<bar>> /\ intraBars'[sym] = r \o m1
    <3>1. q \in Seq(Bars)
      BY <1>1
    <3> HIDE DEF q, bar, m1
    <3>2. r = q \o <<bar>>
      BY <3>1, <1>4 DEF Bars
    <3> QED  BY <1>1, <1>2, <3>2
  <2> HIDE DEF r, bar, min, q
  <2>2. CASE EndsMinute(at)
    <3>1. intraBars'[sym] = Append(r, min)
      <4>1. m1 = <<min>>
        BY <2>2 DEF EndsMinute
      <4> HIDE DEF m1
      <4>2. min \in Bars
        BY <1>4 DEF Bars
      <4> QED  BY <1>6, <2>1, <4>1, <4>2 DEF Extended
    <3> DEFINE t == Append(r, min)
    <3>2. Extended(t, r, min, LastAt(engine[sym]))
      <4> DEFINE last == LastAt(engine[sym])
      <4>1. /\ r \in Seq(Bars) /\ r # << >> /\ Adjacent(r, last)
            /\ r[Len(r)].kind = "S1" /\ EndsMinute(r[Len(r)].at) /\ min.at = r[Len(r)].at
            /\ Extends(t, r, min)
        BY <1>4, <1>6, <2>2 DEF Extends, Extended
      <4> HIDE DEF at, last, t
      <4> QED  BY <1>4, <4>1, MinuteJoins DEF last
    <3> HIDE DEF t, at
    <3> QED  BY <1>4, <1>6, <3>1, <3>2 DEF Joined, Extended, t
  <2>3. CASE ~EndsMinute(at)
    <3>1. m1 = << >>
      BY <2>3 DEF EndsMinute
    <3> HIDE DEF m1, at
    <3>2. intraBars'[sym] = r
      BY <1>6, <2>1, <3>1 DEF Extended
    <3> QED  BY <1>4, <1>6, <2>3, <3>2 DEF Joined, Extended
  <2> QED  BY <2>2, <2>3
<1> HIDE DEF bar, min, m1, r
<1>8. FeedTyped'
  <2>1. intraBars' \in [Symbols -> Seq(Bars)]
    BY <1>1, <1>2, <1>7
  <2> QED  BY <1>1, <1>2, <1>4, <1>5, <2>1 DEF FeedTyped
<1>9. ASSUME NEW y \in Symbols  PROVE SymbolMeasured(y)'
  <2>1. SymbolMeasured(y)
    BY DEF FeedInv, SymbolMeasured
  <2>2. CASE y # sym
    <3>1. intraBars'[y] = intraBars[y] /\ second'[y] = second[y]
      BY <1>1, <1>2, <2>2
    <3> QED  BY <1>2, <2>1, <3>1 DEF SymbolMeasured, m1_queued
  <2>3. CASE y = sym
    <3>1. second'[sym] = at + 1
      BY <1>1, <1>2
    <3>2. m1_queued(sym)' = m1_queued(sym)
      <4>1. q \in Seq(Bars) /\ intraBars'[sym] \in Seq(Bars)
        BY <1>1, <1>7
      <4>2. q # << >> => Head(q) = q[1]
        BY <4>1
      <4>3. Head(intraBars'[sym]) = r[1]
        BY <1>7, <4>1
      <4> HIDE DEF r
      <4> QED  BY <1>6, <1>7, <4>2, <4>3 DEF m1_queued, Extended
    <3>3. Joined(intraBars'[sym], second'[sym], LastAt(engine'[sym]))
      BY <1>2, <1>7, <3>1
    <3>4. Measured(engine'[sym], window'[sym], m1_queued(sym)')
      BY <1>2, <2>1, <2>3, <3>2 DEF SymbolMeasured
    <3> QED  BY <2>3, <3>3, <3>4 DEF SymbolMeasured
  <2> QED  BY <2>2, <2>3
<1> QED  BY <1>8, <1>9 DEF FeedInv, SymbolMeasured

\* A bar of a symbol is handled by its intrabar engine.
LEMMA BarMeasures ==
  ASSUME MonitorTyped, FeedInv, NEW sym \in Symbols, on_intrabar_bar(sym)
  PROVE  FeedInv'
<1> DEFINE q == intraBars[sym]
           bar == Head(q)
           e == engine[sym]
           w == window[sym]
           f == intrabar_on_bar(e, bar)
           v == IF bar.kind = "M1" THEN w ELSE IF e.window # MinuteOf(bar.at) THEN << >> ELSE Append(w, bar)
<1>1. /\ intraBars \in [Symbols -> Seq(Bars)] /\ intraTrades \in [Symbols -> Seq(Trades)]
      /\ engine \in [Symbols -> FlowEngines] /\ window \in [Symbols -> Seq(S1Bars)]
      /\ minuteLow \in [Symbols -> Nat]
  BY DEF FeedInv, FeedTyped
<1>2. /\ q # << >> /\ intraBars' = [intraBars EXCEPT ![sym] = Tail(q)]
      /\ engine' = [engine EXCEPT ![sym] = f] /\ window' = [window EXCEPT ![sym] = v]
      /\ second' = second /\ minuteLow' = minuteLow /\ intraTrades' = intraTrades
  BY DEF on_intrabar_bar
<1>3. SymbolMeasured(sym) /\ q \in Seq(Bars) /\ e \in FlowEngines /\ w \in Seq(S1Bars)
  BY <1>1 DEF FeedInv, SymbolMeasured
<1>4. /\ Tail(q) \in Seq(Bars) /\ Joined(Tail(q), second[sym], bar.at)
      /\ bar.kind = "M1" => Tail(q) = << >> \/ Tail(q)[1].kind = "S1"
  <2>1. Joined(q, second[sym], LastAt(e))
    BY <1>3 DEF SymbolMeasured
  <2> HIDE DEF q, e
  <2> QED  BY <1>2, <1>3, <2>1, HeadHandled
<1>5. /\ bar \in Bars
      /\ IF bar.kind = "M1" THEN bar.at = LastAt(e) /\ EndsMinute(LastAt(e)) ELSE bar.at = LastAt(e) + 1
  <2>1. bar \in Bars /\ bar = q[1]
    BY <1>2, <1>3
  <2>2. Adjacent(q, LastAt(e))
    BY <1>2, <1>3 DEF SymbolMeasured, Joined
  <2> QED  BY <2>1, <2>2 DEF Adjacent
<1>6. Measured(e, w, m1_queued(sym))
  BY <1>3 DEF SymbolMeasured
<1>7. /\ f \in FlowEngines /\ v \in Seq(S1Bars) /\ LastAt(f) = bar.at
      /\ Measured(f, v, m1_queued(sym)')
  <2> HIDE DEF q, e, w, bar
  <2>1. CASE bar.kind = "M1"
    <3>1. bar \in M1Bars /\ v = w
      BY <1>5, <2>1 DEF Bars, S1Bars
    <3>2. f \in FlowEngines /\ LastAt(f) = bar.at /\ Measured(f, w, FALSE)
      <4> HIDE DEF v
      <4> QED  BY <1>3, <1>5, <1>6, <2>1, <3>1, MinuteHandled
    <3>3. ~m1_queued(sym)'
      <4>1. intraBars'[sym] = Tail(q)
        BY <1>1, <1>2
      <4>2. Tail(q) # << >> => Head(Tail(q)) = Tail(q)[1]
        BY <1>4
      <4> HIDE DEF f, v
      <4> QED  BY <1>4, <2>1, <4>1, <4>2 DEF m1_queued
    <3>4. m1_queued(sym)' = FALSE
      BY <3>3 DEF m1_queued
    <3> HIDE DEF f, v
    <3> QED  BY <1>3, <3>1, <3>2, <3>4
  <2>2. CASE bar.kind # "M1"
    <3>1. bar \in S1Bars /\ v = IF e.window # MinuteOf(bar.at) THEN << >> ELSE Append(w, bar)
      BY <1>5, <2>2 DEF Bars, M1Bars
    <3> DEFINE z == m1_queued(sym)'
    <3> HIDE DEF v, z
    <3>2. /\ f \in FlowEngines /\ v \in Seq(S1Bars) /\ LastAt(f) = bar.at /\ Measured(f, v, z)
      BY <1>3, <1>5, <1>6, <2>2, <3>1, SecondHandled
    <3> QED  BY <3>2 DEF z
  <2> QED  BY <2>1, <2>2
<1> HIDE DEF f, v, bar
<1>8. FeedTyped'
  BY <1>1, <1>2, <1>4, <1>7 DEF FeedTyped
<1>9. ASSUME NEW y \in Symbols  PROVE SymbolMeasured(y)'
  <2>1. CASE y # sym
    <3>1. /\ intraBars'[y] = intraBars[y] /\ second'[y] = second[y] /\ engine'[y] = engine[y]
          /\ window'[y] = window[y]
      BY <1>1, <1>2, <2>1
    <3>2. SymbolMeasured(y)
      BY DEF FeedInv, SymbolMeasured
    <3> QED  BY <3>1, <3>2 DEF SymbolMeasured, m1_queued
  <2>2. CASE y = sym
    <3>1. intraBars'[sym] = Tail(q) /\ second'[sym] = second[sym] /\ engine'[sym] = f /\ window'[sym] = v
      BY <1>1, <1>2
    <3> QED  BY <1>4, <1>7, <2>2, <3>1 DEF SymbolMeasured
  <2> QED  BY <2>1, <2>2
<1> QED  BY <1>8, <1>9 DEF FeedInv, SymbolMeasured

\* A trade of a symbol.
LEMMA TradeMeasures ==
  ASSUME MonitorTyped, FeedInv, NEW sym \in Symbols, on_intrabar_trade(sym)
  PROVE  FeedInv'
<1> DEFINE e == engine[sym]
           t == Head(intraTrades[sym])
           f == intrabar_on_trade(e, t)
<1>1. /\ intraBars \in [Symbols -> Seq(Bars)] /\ intraTrades \in [Symbols -> Seq(Trades)]
      /\ engine \in [Symbols -> FlowEngines] /\ window \in [Symbols -> Seq(S1Bars)]
      /\ minuteLow \in [Symbols -> Nat]
  BY DEF FeedInv, FeedTyped
<1>2. /\ intraTrades[sym] # << >> /\ intraTrades' = [intraTrades EXCEPT ![sym] = Tail(intraTrades[sym])]
      /\ engine' = [engine EXCEPT ![sym] = f] /\ window' = window /\ intraBars' = intraBars
      /\ second' = second /\ minuteLow' = minuteLow
  BY DEF on_intrabar_trade
<1>3. t \in Trades /\ Tail(intraTrades[sym]) \in Seq(Trades) /\ e \in FlowEngines
  <2>1. intraTrades[sym] \in Seq(Trades)
    BY <1>1
  <2> QED  BY <1>1, <1>2, <2>1
<1>4. SymbolMeasured(sym)
  BY DEF FeedInv, SymbolMeasured
<1>5. f \in FlowEngines /\ LastAt(f) = LastAt(e) /\ Measured(f, window[sym], m1_queued(sym))
  <2>1. Measured(e, window[sym], m1_queued(sym))
    BY <1>4 DEF SymbolMeasured
  <2> HIDE DEF e, t
  <2> QED  BY <1>3, <2>1, TradeHandled
<1> HIDE DEF f, t
<1>6. FeedTyped'
  BY <1>1, <1>2, <1>3, <1>5 DEF FeedTyped
<1>7. ASSUME NEW y \in Symbols  PROVE SymbolMeasured(y)'
  <2>1. CASE y # sym
    <3>1. engine'[y] = engine[y]
      BY <1>1, <1>2, <2>1
    <3>2. SymbolMeasured(y)
      BY DEF FeedInv, SymbolMeasured
    <3> QED  BY <1>2, <3>1, <3>2 DEF SymbolMeasured, m1_queued
  <2>2. CASE y = sym
    <3>1. engine'[sym] = f
      BY <1>1, <1>2
    <3> QED  BY <1>2, <1>4, <1>5, <2>2, <3>1 DEF SymbolMeasured, m1_queued
  <2> QED  BY <2>1, <2>2
<1> QED  BY <1>6, <1>7 DEF FeedInv, SymbolMeasured

\* Before the first second.
LEMMA FeedInvInit == Init => FeedInv
<1> SUFFICES ASSUME Init  PROVE FeedInv
  OBVIOUS
<1>1. /\ second = [s \in Symbols |-> 0] /\ minuteLow = [s \in Symbols |-> 0]
      /\ intraBars = [s \in Symbols |-> << >>] /\ intraTrades = [s \in Symbols |-> << >>]
      /\ engine = [s \in Symbols |-> NewEngine] /\ window = [s \in Symbols |-> << >>]
  BY DEF Init
<1>2. NewEngine \in FlowEngines /\ LastAt(NewEngine) = -1
  BY DEF NewEngine, FlowEngines, States, IntrabarState, LastAt, None
<1>3. FeedTyped
  <2>1. << >> \in Seq(Bars) /\ << >> \in Seq(Trades) /\ << >> \in Seq(S1Bars)
    OBVIOUS
  <2> QED  BY <1>1, <1>2, <2>1 DEF FeedTyped
<1>4. Joined(<< >>, 0, -1)
  BY DEF Joined
<1>5. Measured(NewEngine, << >>, FALSE)
  <2>1. MinuteSeconds > 0 /\ Len(<< >>) = 0
    BY IntrabarAssumption
  <2> QED  BY <2>1 DEF Measured, NewEngine, IntrabarState
<1>6. ASSUME NEW y \in Symbols  PROVE m1_queued(y) = FALSE
  BY <1>1 DEF m1_queued
<1> QED  BY <1>1, <1>2, <1>3, <1>4, <1>5, <1>6 DEF FeedInv

\* Every step keeps it.
LEMMA FeedInvStep == MonitorTyped /\ FeedInv /\ [Next]_vars => FeedInv'
<1> SUFFICES ASSUME MonitorTyped, FeedInv, [Next]_vars  PROVE FeedInv'
  OBVIOUS
<1>1. ASSUME NEW sym \in Symbols, second[sym] < Seconds[sym],
             \E shape \in Shapes[second[sym]] : Publish(sym, shape)
      PROVE  FeedInv'
  BY <1>1, PublishMeasures
<1>2. ASSUME NEW sym \in Symbols, on_intrabar_bar(sym)  PROVE FeedInv'
  BY <1>2, BarMeasures
<1>3. ASSUME NEW sym \in Symbols, on_intrabar_trade(sym)  PROVE FeedInv'
  BY <1>3, TradeMeasures
<1>4. ASSUME UNCHANGED <<second, minuteLow, intraBars, intraTrades, engine, window>>  PROVE FeedInv'
  BY <1>4 DEF FeedInv, FeedTyped, m1_queued
<1>5. ASSUME NEW sym \in Symbols,
             \/ \E scored \in SUBSET Setups[sym] : on_pipeline_output(sym, scored)
             \/ \E new \in Theses : on_thesis(sym, new)
             \/ \E side \in -1 .. 1 : on_quote(sym, side)
             \/ quality_changes(sym)
      PROVE  FeedInv'
  BY <1>4, <1>5 DEF on_pipeline_output, on_thesis, on_quote, quality_changes, feedVars
<1>6. CASE on_s1_bar
  BY <1>4, <1>6 DEF on_s1_bar
<1>7. CASE resume_s1_bar \/ on_position_signal
  BY <1>4, <1>7 DEF resume_s1_bar, on_position_signal, feedVars
<1>8. ASSUME NEW c \in Clients, connect(c) \/ disconnect(c)  PROVE FeedInv'
  BY <1>4, <1>8 DEF connect, disconnect, feedVars
<1>9. ASSUME NEW b \in {"flow", "signal"},
             close_ends(b) \/ \E c \in Clients, ok \in BOOLEAN : send_json(b, c, ok)
      PROVE  FeedInv'
  BY <1>4, <1>9 DEF send_json, close_ends, feedVars
<1>10. CASE UNCHANGED vars
  BY <1>4, <1>10 DEF vars, feedVars
<1> QED  BY <1>1, <1>2, <1>3, <1>5, <1>6, <1>7, <1>8, <1>9, <1>10, Zenon DEF Next

\* What is measured is what the prices were: a position's excursions are those of
\* every price it was shown and the profit of its exit lies between them; and before
\* the end of a minute its sweep is marked exactly when the low of its seconds, the
\* first left out, is below the last completed minute's.
THEOREM PricesMeasured == Spec => []PricesAreMeasured
<1>1. FeedInv => SweepIsNewLow
  <2> SUFFICES ASSUME FeedInv, NEW sym \in Symbols
               PROVE  LET e == engine[sym]
                          s == e.state
                      IN  /\ s.elapsed = Len(window[sym]) /\ s.elapsed < MinuteSeconds
                          /\ \A i \in DOMAIN window[sym] : s.low <= window[sym][i].low
                          /\ (s.elapsed > 0 /\ (s.elapsed < MinuteSeconds - 1 \/ m1_queued(sym))) =>
                              (s.swept <=> e.prior_low # None /\ s.low < e.prior_low)
    BY DEF SweepIsNewLow
  <2>1. Measured(engine[sym], window[sym], m1_queued(sym))
    BY DEF FeedInv
  <2>2. DOMAIN window[sym] = 1 .. Len(window[sym])
    BY DEF FeedInv, FeedTyped
  <2> QED  BY <2>1, <2>2 DEF Measured
<1>2. MonitorInv => ExcursionsCoverPrices /\ MonitorTyped
  BY DEF MonitorInv
<1>3. Init => FeedInv
  BY FeedInvInit
<1>4. MonitorTyped /\ FeedInv /\ [Next]_vars => FeedInv'
  BY FeedInvStep
<1>5. ExcursionsCoverPrices /\ SweepIsNewLow => PricesAreMeasured
  BY DEF PricesAreMeasured
<1> QED  BY <1>1, <1>2, <1>3, <1>4, <1>5, MonitorAlways, PTL DEF Spec
=============================================================================
