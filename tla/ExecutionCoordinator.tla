------------------------ MODULE ExecutionCoordinator ------------------------
(***************************************************************************)
(* The hot-key execution subsystem: ExecutionCoordinator                   *)
(* (engines/execution/coordinator.py) with the evaluator (v1_risk.py), the *)
(* idempotency store (stores.py), the status table (state_machines.py),    *)
(* the readiness gate (readiness.py), the market projector (projector.py)  *)
(* and the paper router.                                                   *)
(*                                                                         *)
(* submit_intent, confirm_intent and cancel_intent await only the journal  *)
(* and submit_bracket, none of which suspends, so each is one atomic step. *)
(* What interleaves is: repeated and concurrent API calls, the router's    *)
(* coroutines and their callbacks, the passing of the 10 s confirmation    *)
(* window, market updates and the kill switch.                             *)
(*                                                                         *)
(* An intent stands for the bracket compiled from it: plans and intents    *)
(* have the same identifiers (sends counts submissions, so a second        *)
(* bracket for an intent would be seen).                                   *)
(***************************************************************************)
EXTENDS PaperRouter, Integers, FiniteSetsExt

CONSTANTS
  Keys,          \* idempotency keys a client may send
  Quantities,    \* contract quantities a client may send
  MaxContracts,  \* V1RiskEvaluator._max_contracts
  Accounts,      \* account ids RiskEngine has a context for
  Regimes,       \* TrendState values the market engine may report
  NoIntent,      \* no intent registered under a key
  RoPrefix       \* "ro", what a fill's symbol is derived to

ASSUME ExecutionConstants ==
  /\ Quantities \subseteq Nat \ {0}
  /\ MaxContracts \in Nat
  /\ Regimes \subseteq {"UP", "DOWN", "RANGE"}
  /\ NoIntent \notin Plans
  /\ RoPrefix \notin Instruments

Intents == Plans

VARIABLES
  fresh,      \* _readiness.market_data_fresh (the other five are set at wiring)
  market,     \* projector: instrument -> latest MarketContextSnapshot
  account,    \* RiskEngine: account -> "ok" | "halted" | "breached"
  idempotency,\* idempotency store: key -> intent
  req,        \* what each intent asks for
  status,     \* _intent_status
  pending,    \* _pending: intents awaiting confirmation
  elapsed,    \* pending intents whose 10 s window has passed
  positions,  \* _positions: symbol -> signed quantity
  working,    \* _working_orders
  reply,      \* last response given for an intent
  sends       \* submit_bracket() calls made for an intent (history)

coordVars == <<idempotency, req, status, pending, elapsed, working, reply, sends>>
envVars   == <<fresh, market, account>>
vars      == <<routerVars, coordVars, envVars, positions>>

-----------------------------------------------------------------------------
(* Data *)

Actions == {"OPEN_LONG", "OPEN_SHORT", "FLATTEN", "REVERSE_LONG"}
Opening == {"OPEN_LONG", "OPEN_SHORT"}

Requests == [key : Keys, inst : Instruments, action : Actions, qty : Quantities]
NoRequest == [action |-> "none"]

Snapshots == [above_vwap : BOOLEAN, regime : Regimes, quality : {"CLEAN"}]
NoMarket  == [regime |-> "none"]

Statuses == {"VALIDATING", "AWAITING_CONFIRMATION", "CONFIRMED", "PLANNING", "PLAN_READY",
             "SUBMITTING", "ACTIVE", "COMPLETED", "CANCELLED", "EXPIRED", "REJECTED", "FAILED"}
Replies  == Statuses \cup {"none", "ERROR"}

INTENT_TERMINAL_STATES == {"COMPLETED", "CANCELLED", "EXPIRED", "REJECTED", "FAILED"}

\* Variant: PLAN_READY cannot wait for a confirmation.
IntentTransitions_NoAwait(s) ==
  CASE s = "VALIDATING" -> {"REJECTED", "PLANNING"}
    [] s = "PLANNING"   -> {"PLAN_READY", "REJECTED"}
    [] s = "PLAN_READY" -> {"SUBMITTING", "REJECTED"}
    [] s = "SUBMITTING" -> {"ACTIVE", "FAILED"}
    [] OTHER            -> {}

\* _INTENT_TRANSITIONS; terminal states have no successor.
IntentTransitions(s) ==
  CASE s = "VALIDATING"            -> {"REJECTED", "AWAITING_CONFIRMATION", "PLANNING"}
    [] s = "AWAITING_CONFIRMATION" -> {"CONFIRMED", "EXPIRED", "CANCELLED"}
    [] s = "CONFIRMED"             -> {"PLANNING"}
    [] s = "PLANNING"              -> {"PLAN_READY", "REJECTED"}
    [] s = "PLAN_READY"            -> {"SUBMITTING", "AWAITING_CONFIRMATION", "REJECTED"}
    [] s = "SUBMITTING"            -> {"ACTIVE", "FAILED", "CANCELLED"}
    [] s = "ACTIVE"                -> {"COMPLETED", "CANCELLED", "FAILED"}
    [] OTHER                       -> {}

\* _update_status: a transition that is not in the table is logged and
\* dropped; there is no check at all when the current status is terminal.
update_status(cur, new) ==
  IF cur # "none" /\ cur \notin INTENT_TERMINAL_STATES /\ new \notin IntentTransitions(cur)
  THEN cur
  ELSE new

-----------------------------------------------------------------------------
(* Exposure and risk evaluation *)

\* A working order carries the runtime_order_id; the Order and the Execution
\* the router reports carry an order_id of their own, a fresh UUID.
runtime_order_id(i) == <<"ro", i>>
order_id(i)         == <<"uuid", i>>

\* Variant: the fill carries the instrument, its working order stays.
FillSymbol_Instrument(i) == req[i].inst

\* The symbol of a fill is runtime_order_id.split("-")[0], always "ro".
FillSymbol(i) == RoPrefix

Signed(side, qty) == IF side = "BUY" THEN qty ELSE -qty

SignedQty(w) == Signed(w.side, w.qty)

Abs(n) == IF n < 0 THEN -n ELSE n

\* ExecutionSnapshot.effective_exposure: filled plus working entry quantity.
effective_exposure(inst) ==
  positions[inst] + MapThenSumSet(SignedQty, {w \in working : w.inst = inst})

\* _account_state_fn: daily_state("default") is None unless RiskEngine has an
\* account of that id; the AttributeError is swallowed and the fallback is a
\* snapshot that is never halted.
account_snapshot ==
  IF "default" \in Accounts THEN account["default"] ELSE "ok"

\* V1RiskEvaluator._resolve_price: the side of the entry order.
EntrySide(r) == IF r.action = "OPEN_LONG" THEN "BUY" ELSE "SELL"

\* Variant: only the filled position counts.
HardRisk_FilledOnly(r) ==
  \/ account_snapshot \in {"halted", "breached"}
  \/ r.action \notin Opening \cup {"FLATTEN"}
  \/ r.action \in Opening /\ Abs(positions[r.inst]) + r.qty > MaxContracts
  \/ r.action = "FLATTEN" /\ positions[r.inst] = 0

\* The hard checks of evaluate: any of them rejects the plan.
HardRisk(r) ==
  \/ account_snapshot \in {"halted", "breached"}
  \/ r.action \notin Opening \cup {"FLATTEN"}
  \/ market[r.inst].quality = "FAILED"
  \/ r.action \in Opening /\ Abs(effective_exposure(r.inst)) + r.qty > MaxContracts
  \/ r.action = "FLATTEN" /\ effective_exposure(r.inst) = 0

\* The contextual checks: any of them asks for a confirmation.
SoftRisk(r) ==
  LET m == market[r.inst]
  IN  \/ m.quality = "DEGRADED"
      \/ r.action = "OPEN_LONG"  /\ (~m.above_vwap \/ m.regime = "DOWN")
      \/ r.action = "OPEN_SHORT" /\ (m.above_vwap \/ m.regime = "UP")

\* V1RiskEvaluator.evaluate: the decision of the plan.
evaluate(r) ==
  IF HardRisk(r) THEN "REJECTED"
  ELSE IF SoftRisk(r) THEN "APPROVED_WITH_MODIFICATIONS" ELSE "APPROVED"

-----------------------------------------------------------------------------
(* API calls *)

Init ==
  /\ RouterInit
  /\ fresh = FALSE
  /\ market = [inst \in Instruments |-> NoMarket]
  /\ account = [a \in Accounts |-> "ok"]
  /\ idempotency = [k \in Keys |-> NoIntent]
  /\ req = [i \in Intents |-> NoRequest]
  /\ status = [i \in Intents |-> "none"]
  /\ pending = {}
  /\ elapsed = {}
  /\ positions = [s \in Instruments \cup {RoPrefix} |-> 0]
  /\ working = {}
  /\ reply = [i \in Intents |-> "none"]
  /\ sends = [i \in Intents |-> 0]

\* Variant: every key looks new.
is_new_key_Unchecked(k) == TRUE

\* assert_not_duplicate_intent
is_new_key(k) == idempotency[k] = NoIntent

\* Variant: the pending entry stays behind.
drop_pending_Forgotten(i) == UNCHANGED <<pending, elapsed>>

\* del self._pending[intent_id]
drop_pending(i) ==
  /\ pending' = pending \ {i}
  /\ elapsed' = elapsed \ {i}

\* _plan_response: for an amber plan confirmation_expires_at is computed as
\* now.replace(second=now.second + 10), a ValueError in the last ten seconds
\* of every minute.
plan_response(s, decision, late) ==
  IF decision = "APPROVED_WITH_MODIFICATIONS" /\ late THEN "ERROR" ELSE s

\* _submit_plan.  accepted: the router took the bracket (it raised otherwise).
submit_plan(i, r, cur, decision, accepted, late) ==
  \/ /\ accepted
     /\ submit_bracket(i)
     /\ sends' = [sends EXCEPT ![i] = @ + 1]
     /\ working' = working \cup {[id |-> runtime_order_id(i), inst |-> r.inst,
                                 side |-> EntrySide(r), qty |-> r.qty]}
     /\ status' = [status EXCEPT ![i] = update_status(update_status(cur, "SUBMITTING"), "ACTIVE")]
     /\ reply' = [reply EXCEPT ![i] = plan_response("ACTIVE", decision, late)]
  \/ /\ ~accepted
     /\ status' = [status EXCEPT ![i] = update_status(update_status(cur, "SUBMITTING"), "FAILED")]
     /\ reply' = [reply EXCEPT ![i] = "FAILED"]
     /\ UNCHANGED <<routerVars, working, sends>>

\* submit_intent, refused by the readiness gate: nothing is registered.
SubmitNotReady(i) ==
  /\ reply[i] = "none"
  /\ ~fresh
  /\ reply' = [reply EXCEPT ![i] = "REJECTED"]
  /\ UNCHANGED <<routerVars, envVars, positions, idempotency, req, status, pending, elapsed,
                 working, sends>>

\* submit_intent with a key seen before: the original intent's status.
SubmitDuplicate(k) ==
  /\ fresh
  /\ ~is_new_key(k)
  /\ reply' = [reply EXCEPT ![idempotency[k]] = status[idempotency[k]]]
  /\ UNCHANGED <<routerVars, envVars, positions, idempotency, req, status, pending, elapsed,
                 working, sends>>

\* submit_intent with a new key, to its end.
SubmitIntent(i, r, accepted, late) ==
  LET planned == update_status(update_status(update_status("none", "VALIDATING"),
                                             "PLANNING"), "PLAN_READY")
      decision == evaluate(r)
  IN  /\ reply[i] = "none"
      /\ fresh
      /\ is_new_key(r.key)
      /\ idempotency' = [idempotency EXCEPT ![r.key] = i]
      /\ req' = [req EXCEPT ![i] = r]
      /\ \/ /\ market[r.inst] = NoMarket
            /\ status' = [status EXCEPT ![i] = update_status("VALIDATING", "REJECTED")]
            /\ reply' = [reply EXCEPT ![i] = "REJECTED"]
            /\ UNCHANGED <<routerVars, pending, working, sends>>
         \/ /\ market[r.inst] # NoMarket
            /\ decision = "REJECTED"
            /\ status' = [status EXCEPT ![i] = update_status(planned, "REJECTED")]
            /\ reply' = [reply EXCEPT ![i] = "REJECTED"]
            /\ UNCHANGED <<routerVars, pending, working, sends>>
         \/ /\ market[r.inst] # NoMarket
            /\ decision = "APPROVED_WITH_MODIFICATIONS"
            /\ status' = [status EXCEPT ![i] = update_status(planned, "AWAITING_CONFIRMATION")]
            /\ pending' = pending \cup {i}
            /\ reply' = [reply EXCEPT ![i] =
                            plan_response("AWAITING_CONFIRMATION", decision, late)]
            /\ UNCHANGED <<routerVars, working, sends>>
         \/ /\ market[r.inst] # NoMarket
            /\ decision = "APPROVED"
            /\ submit_plan(i, r, planned, decision, accepted, late)
            /\ UNCHANGED pending
      /\ UNCHANGED <<envVars, positions, elapsed>>

\* confirm_intent for an intent that is not (or no longer) pending.
ConfirmUnknown(i) ==
  /\ reply[i] # "none"
  /\ i \notin pending
  /\ reply' = [reply EXCEPT ![i] = "REJECTED"]
  /\ UNCHANGED <<routerVars, envVars, positions, idempotency, req, status, pending, elapsed,
                 working, sends>>

\* confirm_intent after the window: is_expired() is asked only here.
ConfirmExpired(i) ==
  /\ i \in pending \cap elapsed
  /\ drop_pending(i)
  /\ status' = [status EXCEPT ![i] = update_status(@, "EXPIRED")]
  /\ reply' = [reply EXCEPT ![i] = "EXPIRED"]
  /\ UNCHANGED <<routerVars, envVars, positions, idempotency, req, working, sends>>

\* confirm_intent within the window: revalidate with fresh snapshots, submit.
\* The readiness gate is not consulted again.
ConfirmIntent(i, accepted, late) ==
  LET r == req[i]
      confirmed == update_status(status[i], "CONFIRMED")
      decision  == evaluate(r)
  IN  /\ i \in pending \ elapsed
      /\ drop_pending(i)
      /\ \/ /\ market[r.inst] = NoMarket \/ account_snapshot = "halted"
            /\ status' = [status EXCEPT ![i] = update_status(@, "REJECTED")]
            /\ reply' = [reply EXCEPT ![i] = "REJECTED"]
            /\ UNCHANGED <<routerVars, working, sends>>
         \/ /\ market[r.inst] # NoMarket
            /\ account_snapshot # "halted"
            /\ decision = "REJECTED"
            /\ status' = [status EXCEPT ![i] = update_status(confirmed, "REJECTED")]
            /\ reply' = [reply EXCEPT ![i] = "REJECTED"]
            /\ UNCHANGED <<routerVars, working, sends>>
         \/ /\ market[r.inst] # NoMarket
            /\ account_snapshot # "halted"
            /\ decision # "REJECTED"
            /\ submit_plan(i, r, confirmed, decision, accepted, late)
      /\ UNCHANGED <<envVars, positions, idempotency, req>>

\* cancel_intent: drops a pending intent, otherwise only reports the status.
CancelIntent(i) ==
  /\ reply[i] # "none"
  /\ drop_pending(i)
  /\ status' = IF i \in pending
               THEN [status EXCEPT ![i] = update_status(@, "CANCELLED")]
               ELSE status
  /\ reply' = [reply EXCEPT ![i] = IF status'[i] = "none" THEN "CANCELLED" ELSE status'[i]]
  /\ UNCHANGED <<routerVars, envVars, positions, idempotency, req, working, sends>>

-----------------------------------------------------------------------------
(* Router callbacks: each runs inside the router's own step *)

\* _on_order_update and _on_fill both drop the working order whose
\* runtime_order_id is the reported order_id.
drop_working(i) ==
  working' = {w \in working : w.id # order_id(i)}

\* _on_fill: the position of the fill's symbol moves by the signed quantity.
on_fill(i) ==
  LET delta == Signed(EntrySide(req[i]), req[i].qty)
  IN  positions' = [positions EXCEPT ![FillSymbol(i)] = @ + delta]

EntryAccepted(i) ==
  /\ AcceptEntry(i)
  /\ UNCHANGED <<coordVars, envVars, positions>>

EntryFilled(i) ==
  /\ FillEntry(i)
  /\ drop_working(i)
  /\ on_fill(i)
  /\ UNCHANGED <<envVars, idempotency, req, status, pending, elapsed, reply, sends>>

StopActivated(i) ==
  /\ ActivateStop(i)
  /\ UNCHANGED <<coordVars, envVars, positions>>

RouterTask(i) == EntryAccepted(i) \/ EntryFilled(i) \/ StopActivated(i)

-----------------------------------------------------------------------------
(* Environment *)

\* End of the bootstrap sequence: the last readiness flag is set, once.
BootstrapReady ==
  /\ ~fresh
  /\ fresh' = TRUE
  /\ UNCHANGED <<routerVars, coordVars, positions, market, account>>

\* MarketStateProjector._on_market_state: a new snapshot, always marked CLEAN.
MarketState(inst, snap) ==
  /\ snap # market[inst]
  /\ market' = [market EXCEPT ![inst] = snap]
  /\ UNCHANGED <<routerVars, coordVars, positions, fresh, account>>

\* The kill switch trips, the realized loss passes the limit, or a new day
\* resets the account (RiskEngine).
AccountChanges(a, s) ==
  /\ account[a] # s
  /\ account' = [account EXCEPT ![a] = s]
  /\ UNCHANGED <<routerVars, coordVars, positions, fresh, market>>

\* Ten seconds pass for a pending intent (time.monotonic() > _expiry_ts).
WindowElapses(i) ==
  /\ i \in pending \ elapsed
  /\ elapsed' = elapsed \cup {i}
  /\ UNCHANGED <<routerVars, envVars, positions, idempotency, req, status, pending, working,
                 reply, sends>>

-----------------------------------------------------------------------------
ApiCall ==
  \/ \E i \in Intents : \/ SubmitNotReady(i)
                        \/ ConfirmUnknown(i)
                        \/ ConfirmExpired(i)
                        \/ CancelIntent(i)
  \/ \E i \in Intents, accepted, late \in BOOLEAN :
       \/ \E r \in Requests : SubmitIntent(i, r, accepted, late)
       \/ ConfirmIntent(i, accepted, late)
  \/ \E k \in Keys : SubmitDuplicate(k)

Environment ==
  \/ BootstrapReady
  \/ \E inst \in Instruments, snap \in Snapshots : MarketState(inst, snap)
  \/ \E a \in Accounts, s \in {"ok", "halted", "breached"} : AccountChanges(a, s)
  \/ \E i \in Intents : WindowElapses(i)

Next ==
  \/ ApiCall
  \/ \E i \in Intents : RouterTask(i)
  \/ Environment

\* asyncio runs every ready coroutine and time passes; callers, the feed and
\* the risk engine owe nothing.
Fairness ==
  \A i \in Intents : WF_vars(RouterTask(i)) /\ WF_vars(WindowElapses(i))

Spec == Init /\ [][Next]_vars /\ Fairness

-----------------------------------------------------------------------------
(* Invariants *)

\* Types; only a pending intent has a confirmation window that ran out.
TypeOK ==
  /\ RouterTypeOK
  /\ fresh \in BOOLEAN
  /\ market \in [Instruments -> Snapshots \cup {NoMarket}]
  /\ account \in [Accounts -> {"ok", "halted", "breached"}]
  /\ idempotency \in [Keys -> Intents \cup {NoIntent}]
  /\ req \in [Intents -> Requests \cup {NoRequest}]
  /\ status \in [Intents -> Statuses \cup {"none"}]
  /\ pending \subseteq Intents
  /\ elapsed \subseteq pending
  /\ positions \in [Instruments \cup {RoPrefix} -> Int]
  /\ working \subseteq [id : {"ro"} \X Intents, inst : Instruments, side : {"BUY", "SELL"},
                       qty : Quantities]
  /\ reply \in [Intents -> Replies]
  /\ sends \in [Intents -> Nat]

\* Invariant 3 of invariants.py: however often a command is posted, confirmed
\* or cancelled, in whatever order, its idempotency key yields at most one
\* bracket at the broker.
OneOrderPerKey ==
  \A i, j \in Intents :
    /\ sends[i] <= 1
    /\ (i # j /\ sends[i] > 0 /\ sends[j] > 0) => req[i].key # req[j].key

\* An intent still held for confirmation is the registered owner of its key,
\* shows AWAITING_CONFIRMATION and has nothing at the broker: the confirm and
\* cancel endpoints, the poll and the retry of the POST agree about it.
HeldIntentIsConsistent ==
  \A i \in pending :
    /\ status[i] = "AWAITING_CONFIRMATION"
    /\ idempotency[req[i].key] = i
    /\ sends[i] = 0
    /\ task[i] = "idle"

\* Invariant 5 of invariants.py: the exposure the evaluator works with counts
\* every bracket sent for the instrument exactly once, filled or not.  (It
\* holds although fills are booked under another symbol: the working order of
\* a filled entry is never dropped either.)
ExposureCountsEveryBracket ==
  \A inst \in Instruments :
    effective_exposure(inst) =
      MapThenSumSet(LAMBDA i : Signed(EntrySide(req[i]), req[i].qty),
                    {i \in Intents : sends[i] > 0 /\ req[i].inst = inst})

-----------------------------------------------------------------------------
(* Action properties *)

\* max_contracts: sending an opening bracket never takes the instrument's
\* exposure past the limit, also when several amber intents were approved
\* against the same exposure and are confirmed one after the other.
OpeningStaysWithinLimit ==
  [][\A i \in Intents, inst \in Instruments :
       (sends'[i] > sends[i] /\ req'[i].action \in Opening /\ req'[i].inst = inst)
         => Abs(effective_exposure(inst)') <= MaxContracts]_vars

-----------------------------------------------------------------------------
(* Refinement *)

\* The phase of a key in OrderOnce: read off the store, the pending map and
\* the brackets sent.
phase ==
  [k \in Keys |->
     IF idempotency[k] = NoIntent THEN "unseen"
     ELSE IF sends[idempotency[k]] > 0 THEN "sent"
     ELSE IF idempotency[k] \in pending THEN "held"
     ELSE "closed"]

Abstract == INSTANCE OrderOnce WITH phase <- phase

\* The coordinator implements OrderOnce: a command that was answered with a
\* rejection, expiry, cancellation or failure is never sent afterwards, and
\* one that was sent is never sent again.
ImplementsOrderOnce == Abstract!Spec

-----------------------------------------------------------------------------
(* Liveness *)

\* Every bracket that was sent ends with its protective stop at the broker.
ProtectionArrives ==
  \A i \in Intents : (sends[i] > 0) ~> (orderStatus[<<i, "stop">>] = "ACCEPTED")

-----------------------------------------------------------------------------
(* What the repository's documents say, checked against the code *)

\* v1_risk.py: "Positive = long -> sell to flatten; negative = short -> buy to
\* flatten": a FLATTEN brings the instrument's exposure closer to zero.
FlattenReducesExposure ==
  [][\A i \in Intents, inst \in Instruments :
       (sends'[i] > sends[i] /\ req'[i].action = "FLATTEN" /\ req'[i].inst = inst)
         => Abs(effective_exposure(inst)') < Abs(effective_exposure(inst))]_vars

\* invariants.py: "Hard risk cannot be bypassed by UI override.": while the kill
\* switch of any account is on, or its loss limit is breached, no bracket is sent,
\* not even by confirming an intent that was approved before. With the account ids
\* of config/accounts.toml account_snapshot never sees a kill switch, and
\* ExecutionCoordinator_killswitch.cfg refutes it.
KillSwitchBlocksOrders ==
  [][(\E a \in Accounts : account[a] # "ok") => sends' = sends]_vars

\* trade_intents.py: a submitted intent is answered with a status.
EveryCallIsAnswered ==
  \A i \in Intents : reply[i] # "ERROR"

-----------------------------------------------------------------------------
(* The properties together, as a run checks them *)

\* What rests at the broker is what the evaluator counts: a stop only behind a
\* filled entry, and every bracket sent exactly once in the exposure, while fill,
\* order and stop callbacks of several brackets interleave.
BrokerStateIsCounted == StopFollowsFill /\ ExposureCountsEveryBracket
=============================================================================
