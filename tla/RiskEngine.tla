----------------------------- MODULE RiskEngine -----------------------------
(***************************************************************************)
(* The automatic trading path's last gate: RiskEngine                      *)
(* (engines/risk/engine.py) with the OrderEngine calls it awaits.          *)
(*                                                                         *)
(* Three tasks share the account contexts: the worker of the SETUP         *)
(* subscription, the worker of the ORDER_UPDATE subscription and the       *)
(* broker sync loop.  Each handles one thing at a time and may be          *)
(* suspended where it awaits the broker connection (placing an order,      *)
(* reading the account summary, each order of a flatten); everything       *)
(* between two awaits is one step.                                         *)
(*                                                                         *)
(* Money is an integer number of units.  A setup's levels are an input;    *)
(* the side of its plan is left out, no rule here looks at it.             *)
(***************************************************************************)
EXTENDS Integers, FiniteSets, FiniteSetsExt

CONSTANTS
  Accounts,         \* configured account ids
  DefaultAccount,   \* settings.risk.default_account_id
  ReportedAccounts, \* account ids that order updates may carry
  FlattenAccounts,  \* accounts with kill_switch_flatten
  Symbols,
  Setups,           \* triggered setups (one plan each)
  Levels,           \* [entry, stop, target] a setup may have, NoLevel for a missing one
  Prices, Quantities,  \* of reported fills
  PnLs,             \* <<realized, unrealized>> figures the broker may report
  LossLimit,        \* daily_loss_limit
  PlanRisk,         \* dollar_risk of one plan
  MaxOpen,          \* max_open_positions
  Activation,       \* profit_protect_activation
  GivebackNum, GivebackDen,  \* profit_protect_giveback_pct
  MaxFills, MaxDay, \* bounds: fills reported, trading days
  NoSetup, NoAccount, NoPosition, NoLevel

ASSUME RiskConstants ==
  /\ FlattenAccounts \subseteq Accounts
  /\ Prices \subseteq Nat /\ Quantities \subseteq Nat \ {0}
  /\ PnLs \subseteq Int \X Int
  /\ LossLimit \in Nat \ {0} /\ PlanRisk \in Nat /\ MaxOpen \in Nat /\ Activation \in Nat
  /\ GivebackNum \in Nat /\ GivebackDen \in Nat \ {0}
  /\ NoAccount \notin Accounts /\ NoSetup \notin Setups
  /\ IsFiniteSet(Symbols)
  /\ NoPosition \notin [qty : Nat, avg : Nat, side : {"BUY", "SELL"}]
  /\ \A l \in Levels : {l.entry, l.stop, l.target} \subseteq Nat \cup {NoLevel}

Tasks == {"fill", "sync"}   \* the tasks that may halt an account
Sides == {"BUY", "SELL"}

VARIABLES
  today,      \* the CME session date
  date,       \* DailyRiskState.date
  realized, unrealized, high,   \* DailyRiskState P&L and its high-water mark
  halted,     \* DailyRiskState.is_halted
  open,       \* DailyRiskState.open_positions
  book,       \* account -> symbol -> _PositionEntry
  plan,       \* setup whose plan is awaiting the broker in submit_plan
  seen,       \* setups already handled
  late,       \* entry orders placed since the account was halted (history)
  syncing,    \* account the sync loop is at, and whether its P&L is written
  left,       \* accounts the sync loop has still to visit in this round
  flatten,    \* task -> flatten in progress
  fills       \* fills reported so far (bound)

money == <<realized, unrealized, high, halted, open, book, date>>
riskVars  == <<today, money, plan, seen, late, syncing, left, flatten, fills>>

\* No flatten, or: cancelling open orders, then sending the closing orders for
\* the snapshot of positions it took.
NoFlatten == [stage |-> "none"]
Idle == [acct |-> NoAccount, stage |-> "idle"]

RiskInit ==
  /\ today = 0
  /\ date = [a \in Accounts |-> 0]
  /\ realized = [a \in Accounts |-> 0]
  /\ unrealized = [a \in Accounts |-> 0]
  /\ high = [a \in Accounts |-> 0]
  /\ halted = [a \in Accounts |-> FALSE]
  /\ open = [a \in Accounts |-> 0]
  /\ book = [a \in Accounts |-> [s \in Symbols |-> NoPosition]]
  /\ plan = NoSetup
  /\ seen = {}
  /\ late = [a \in Accounts |-> 0]
  /\ syncing = Idle
  /\ left \in {Accounts, {}}    \* _on_start seeds the figures if the broker is there
  /\ flatten = [t \in Tasks |-> NoFlatten]
  /\ fills = 0

-----------------------------------------------------------------------------
(* Rules *)

current_pnl(a) == realized[a] + unrealized[a]

remaining_risk(a) == Max({0, LossLimit + realized[a]})

\* _check_kill_switch on realized r, unrealized u and high-water mark h.
kill_switch(r, u, h) ==
  \/ r + u <= -LossLimit
  \/ h >= Activation /\ (h - (r + u)) * GivebackDen >= h * GivebackNum

\* The account's figures call for a halt.
breached(a) == kill_switch(realized[a], unrealized[a], high[a])

\* _apply_fill: the new position entry and the realized P&L of a fill.  What a
\* closing fill has beyond the position is dropped.
apply_fill(pos, side, qty, price) ==
  LET closed == Min({qty, pos.qty})
      gain   == IF pos.side = "BUY" THEN price - pos.avg ELSE pos.avg - price
  IN  IF pos = NoPosition
      THEN [pos |-> [qty |-> qty, avg |-> price, side |-> side], realized |-> 0]
      ELSE IF pos.side # side
      THEN [pos |-> IF pos.qty = closed THEN NoPosition ELSE [pos EXCEPT !.qty = @ - closed],
            realized |-> gain * closed]
      ELSE [pos |-> [pos EXCEPT !.qty = @ + qty,
                                !.avg = (pos.avg * pos.qty + price * qty) \div (pos.qty + qty)],
            realized |-> 0]

-----------------------------------------------------------------------------
(* SETUP worker *)

\* Variant: the kill switch is not consulted.
may_plan_Halted(a) == PlanRisk <= remaining_risk(a) /\ open[a] < MaxOpen

\* The kill switch and _check_daily_limits.
may_plan(a) ==
  /\ ~halted[a]
  /\ PlanRisk <= remaining_risk(a)
  /\ open[a] < MaxOpen

Distance(x, y) == IF x > y THEN x - y ELSE y - x

\* _evaluate's own checks: no level is missing, the risk buys at least one unit, and
\* the reward is at least twice the risk.
viable(l) ==
  LET risk_per_share == Distance(l.entry, l.stop)
  IN  /\ NoLevel \notin {l.entry, l.stop, l.target}
      /\ risk_per_share # 0 /\ PlanRisk \div risk_per_share >= 1
      /\ Distance(l.target, l.entry) >= 2 * risk_per_share

\* _handle_setup for a triggered setup with levels l; active: _get_setup finds it.
HandleSetup(s, active, l) ==
  /\ plan = NoSetup
  /\ s \notin seen
  /\ seen' = seen \cup {s}
  /\ plan' = IF DefaultAccount \in Accounts /\ active /\ viable(l) /\ may_plan(DefaultAccount)
             THEN s ELSE NoSetup
  /\ UNCHANGED <<today, money, late, syncing, left, flatten, fills>>

\* OrderEngine.submit_plan goes on once the broker connection is there; a
\* failure is logged.  Nothing is checked again.
PlaceOrder(ok) ==
  /\ plan # NoSetup
  /\ plan' = NoSetup
  /\ late' = IF ok /\ halted[DefaultAccount] THEN [late EXCEPT ![DefaultAccount] = @ + 1]
             ELSE late
  /\ UNCHANGED <<today, money, seen, syncing, left, flatten, fills>>

-----------------------------------------------------------------------------
(* Halting and flattening *)

\* The end of a P&L update by task t: _check_kill_switch on the new figures
\* and _trigger_halt, up to the first await of _flatten_account.
check_halt(t, a) ==
  IF kill_switch(realized'[a], unrealized'[a], high'[a]) /\ ~halted[a]
  THEN /\ halted' = [halted EXCEPT ![a] = TRUE]
       /\ late' = [late EXCEPT ![a] = 0]
       /\ flatten' = IF a \in FlattenAccounts
                     THEN [flatten EXCEPT ![t] = [stage |-> "cancel", acct |-> a,
                                                  day |-> date'[a], todo |-> {}]]
                     ELSE flatten
  ELSE UNCHANGED <<halted, late, flatten>>

\* _flatten_account: open orders are cancelled, then the positions are listed.
FlattenCancel(t) ==
  /\ flatten[t].stage = "cancel"
  /\ LET a == flatten[t].acct
         todo == {[sym |-> s, qty |-> book[a][s].qty,
                   side |-> IF book[a][s].side = "BUY" THEN "SELL" ELSE "BUY"] :
                     s \in {x \in Symbols : book[a][x] # NoPosition}}
     IN  flatten' = [flatten EXCEPT ![t] = IF todo = {} THEN NoFlatten
                                           ELSE [@ EXCEPT !.stage = "close", !.todo = todo]]
  /\ UNCHANGED <<today, money, plan, seen, late, syncing, left, fills>>

\* cancel_order() raises: the halt stands, nothing is closed.
FlattenFails(t) ==
  /\ flatten[t].stage = "cancel"
  /\ flatten' = [flatten EXCEPT ![t] = NoFlatten]
  /\ UNCHANGED <<today, money, plan, seen, late, syncing, left, fills>>

\* submit_close_order for one listed position, whatever happened to it since.
FlattenClose(t) ==
  /\ flatten[t].stage = "close"
  /\ \E c \in flatten[t].todo :
       LET rest == flatten[t].todo \ {c}
       IN  flatten' = [flatten EXCEPT ![t] = IF rest = {} THEN NoFlatten
                                             ELSE [@ EXCEPT !.todo = rest]]
  /\ UNCHANGED <<today, money, plan, seen, late, syncing, left, fills>>

-----------------------------------------------------------------------------
(* ORDER_UPDATE worker *)

\* _handle_order_update for a FILLED event of the given account.
HandleFill(a, sym, side, qty, price) ==
  /\ flatten["fill"] = NoFlatten
  /\ fills < MaxFills
  /\ IF a \notin Accounts THEN UNCHANGED <<money, late, flatten, fills>>
     ELSE LET f == apply_fill(book[a][sym], side, qty, price)
          IN  /\ fills' = fills + 1
              /\ book' = [book EXCEPT ![a][sym] = f.pos]
              /\ open' = [open EXCEPT ![a] =
                            IF book[a][sym] = NoPosition THEN @ + 1
                            ELSE IF f.pos = NoPosition THEN Max({0, @ - 1}) ELSE @]
              /\ realized' = [realized EXCEPT ![a] = @ + f.realized]
              /\ high' = [high EXCEPT ![a] = Max({@, realized'[a] + unrealized[a]})]
              /\ UNCHANGED <<unrealized, date>>
              /\ check_halt("fill", a)
  /\ UNCHANGED <<today, plan, seen, syncing, left>>

-----------------------------------------------------------------------------
(* Broker sync loop *)

\* Variant: the position book survives the day.
rollover_KeepsBook(S) ==
  /\ date' = [a \in Accounts |-> today]
  /\ realized' = [a \in Accounts |-> IF a \in S THEN 0 ELSE realized[a]]
  /\ unrealized' = [a \in Accounts |-> IF a \in S THEN 0 ELSE unrealized[a]]
  /\ high' = [a \in Accounts |-> IF a \in S THEN 0 ELSE high[a]]
  /\ open' = [a \in Accounts |-> IF a \in S THEN 0 ELSE open[a]]
  /\ halted' = [a \in Accounts |-> halted[a] /\ a \notin S]
  /\ UNCHANGED book

\* The daily reset of the accounts S in _check_day_rollover.
rollover(S) ==
  /\ date' = [a \in Accounts |-> today]
  /\ realized' = [a \in Accounts |-> IF a \in S THEN 0 ELSE realized[a]]
  /\ unrealized' = [a \in Accounts |-> IF a \in S THEN 0 ELSE unrealized[a]]
  /\ high' = [a \in Accounts |-> IF a \in S THEN 0 ELSE high[a]]
  /\ open' = [a \in Accounts |-> IF a \in S THEN 0 ELSE open[a]]
  /\ halted' = [a \in Accounts |-> halted[a] /\ a \notin S]
  /\ book' = [a \in Accounts |-> IF a \in S THEN [s \in Symbols |-> NoPosition] ELSE book[a]]

\* The 30 s sleep ends: _check_day_rollover, then, with the broker connected,
\* _sync_broker_pnl starts on the accounts.
SyncRound(connected) ==
  /\ syncing = Idle /\ left = {} /\ flatten["sync"] = NoFlatten
  /\ rollover({a \in Accounts : date[a] # today})
  /\ left' = IF connected THEN Accounts ELSE {}
  /\ UNCHANGED <<today, plan, seen, late, syncing, flatten, fills>>

\* The broker's figures replace the account's; the kill switch is checked only
\* after the account summary has been read too.
SyncPnl(a, r, u) ==
  /\ syncing = Idle /\ a \in left /\ flatten["sync"] = NoFlatten
  /\ left' = left \ {a}
  /\ realized' = [realized EXCEPT ![a] = r]
  /\ unrealized' = [unrealized EXCEPT ![a] = u]
  /\ high' = [high EXCEPT ![a] = Max({@, r + u})]
  /\ syncing' = [acct |-> a, stage |-> "summary"]
  /\ UNCHANGED <<today, date, halted, open, book, plan, seen, late, flatten, fills>>

\* get_daily_pnl() raises: the account is skipped in this round.
SyncPnlFails(a) ==
  /\ syncing = Idle /\ a \in left /\ flatten["sync"] = NoFlatten
  /\ left' = left \ {a}
  /\ UNCHANGED <<today, money, plan, seen, late, syncing, flatten, fills>>

\* Variant: only fills are held against the kill switch.
SyncSummary_NoCheck ==
  /\ syncing.stage = "summary"
  /\ syncing' = Idle
  /\ UNCHANGED <<today, money, plan, seen, late, left, flatten, fills>>

\* The summary is stored; the kill switch is checked on the figures as they are
\* now, with the fills that came in meanwhile.
SyncSummary ==
  /\ syncing.stage = "summary"
  /\ syncing' = Idle
  /\ UNCHANGED <<date, realized, unrealized, high, open, book>>
  /\ check_halt("sync", syncing.acct)
  /\ UNCHANGED <<today, plan, seen, left, fills>>

\* get_account_summary() raises: the rest of the account's sync is skipped.
SyncSummaryFails ==
  /\ syncing.stage = "summary"
  /\ syncing' = Idle
  /\ UNCHANGED <<today, money, plan, seen, late, left, flatten, fills>>

NewDay ==
  /\ today < MaxDay
  /\ today' = today + 1
  /\ UNCHANGED <<money, plan, seen, late, syncing, left, flatten, fills>>

-----------------------------------------------------------------------------
Flatten(t) == FlattenCancel(t) \/ FlattenFails(t) \/ FlattenClose(t)

SyncTask ==
  \/ \E c \in BOOLEAN : SyncRound(c)
  \/ \E a \in Accounts, f \in PnLs : SyncPnl(a, f[1], f[2])
  \/ \E a \in Accounts : SyncPnlFails(a)
  \/ SyncSummary
  \/ SyncSummaryFails
  \/ Flatten("sync")

RiskNext ==
  \/ \E s \in Setups, active \in BOOLEAN, l \in Levels : HandleSetup(s, active, l)
  \/ \E ok \in BOOLEAN : PlaceOrder(ok)
  \/ \E a \in ReportedAccounts, sym \in Symbols, side \in Sides, q \in Quantities, p \in Prices :
       HandleFill(a, sym, side, q, p)
  \/ Flatten("fill")
  \/ SyncTask
  \/ NewDay

\* The sync loop keeps running, and a broker that is lost again and again is
\* also reached again and again, for a whole account's sync.
RiskFairness ==
  /\ WF_riskVars(SyncTask)
  /\ SF_riskVars(SyncRound(TRUE))
  /\ \A a \in Accounts : SF_riskVars(\E f \in PnLs : SyncPnl(a, f[1], f[2]))
  /\ SF_riskVars(SyncSummary)

RiskSpec == RiskInit /\ [][RiskNext]_riskVars /\ RiskFairness

-----------------------------------------------------------------------------
(* Properties *)

Positions == [qty : Nat \ {0}, avg : Nat, side : Sides]

\* Types; in particular every position entry has a positive quantity.
RiskTypeOK ==
  /\ today \in Nat
  /\ date \in [Accounts -> Nat]
  /\ realized \in [Accounts -> Int] /\ unrealized \in [Accounts -> Int]
  /\ high \in [Accounts -> Int]
  /\ halted \in [Accounts -> BOOLEAN]
  /\ open \in [Accounts -> Nat]
  /\ book \in [Accounts -> [Symbols -> Positions \cup {NoPosition}]]
  /\ plan \in Setups \cup {NoSetup}
  /\ seen \subseteq Setups
  /\ late \in [Accounts -> Nat]
  /\ syncing \in [acct : Accounts, stage : {"summary"}] \cup {Idle}
  /\ left \subseteq Accounts
  /\ fills \in Nat

\* open_positions, which max_open_positions is checked against, counts the
\* entries of the position book, through fills, closes and day rollovers.
OpenCountMatchesBook ==
  \A a \in Accounts : open[a] = Cardinality({s \in Symbols : book[a][s] # NoPosition})

\* The high-water mark of profit protection is never below the current P&L nor
\* below zero, whether the figures came from fills, the broker or a new day.
HighWaterCovers ==
  \A a \in Accounts : high[a] >= current_pnl(a) /\ high[a] >= 0

\* A halt lets at most the one entry through whose plan was already waiting
\* for the broker connection; no setup handled afterwards is placed.
AtMostOneLateEntry ==
  \A a \in Accounts : halted[a] => late[a] <= 1

\* An account is not flattened by both tasks for the same halt: two flattens
\* in progress belong to different trading days.
OneFlattenPerHalt ==
  (flatten["fill"] # NoFlatten /\ flatten["sync"] # NoFlatten
     /\ flatten["fill"].acct = flatten["sync"].acct)
    => flatten["fill"].day # flatten["sync"].day

\* The kill switch triggers when the loss floor or the giveback is breached:
\* an account whose figures stay breached is halted.
BreachHalts ==
  \A a \in Accounts : (breached(a) /\ ~halted[a]) ~> (halted[a] \/ ~breached(a))

-----------------------------------------------------------------------------
(* The properties together, as a run checks them *)

\* The figures the kill switch works with add up over fills, closes, broker
\* figures and rollovers: the position book with its count, and the high-water
\* mark with the P&L.
BookAddsUp == RiskTypeOK /\ OpenCountMatchesBook /\ HighWaterCovers

\* A halt is acted on once and at once, whichever of the two tasks sees the
\* breach: one flatten a day, and at most one entry that was already on its way.
HaltIsActedOnOnce == AtMostOneLateEntry /\ OneFlattenPerHalt
=============================================================================
