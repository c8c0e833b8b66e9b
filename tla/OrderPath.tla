------------------------------ MODULE OrderPath ------------------------------
(***************************************************************************)
(* From the order engine to the broker: OrderEngine (engines/order/        *)
(* engine.py), the IBKR broker adapter (engines/order/adapters/ibkr.py)    *)
(* and the shared IBKR connection (engines/ibkr/connection.py).            *)
(*                                                                         *)
(* A call that needs the broker first awaits the connection, which is      *)
(* opened lazily, under a lock, with retries; what follows up to the next  *)
(* await is one step.  The broker reports through callbacks on the session *)
(* the order was placed on; each callback is a task of the event loop, and *)
(* so is each update it hands to the order engine: the loop runs them in   *)
(* the order they were created.  The broker's identifier of an order       *)
(* (permId) comes asynchronously and is polled for.                        *)
(***************************************************************************)
EXTENDS Integers, Sequences, FiniteSets

CONSTANTS
    Orders,             \* orders that plans and flattens submit
    MaxAttempts,        \* max_attempts of _connect_with_retry
    MaxPolls,           \* polls of _map_perm_id, 20 in the code
    MaxSessions,        \* bound: sessions opened
    MaxReports,         \* bound: status reports of an order
    Start,              \* the call of _on_start
    Cancels             \* the calls of cancel_order

ASSUME OrderPathAssumption ==
    /\ {MaxAttempts, MaxPolls, MaxSessions, MaxReports} \subseteq Nat \ {0}
    /\ Start \notin Orders /\ Cancels \cap (Orders \cup {Start}) = {} /\ IsFiniteSet(Orders)

Calls == {Start} \cup Orders \cup Cancels    \* an order's call is its submission

VARIABLES
    gateway,            \* whether TWS accepts connections
    ib,                 \* _ib: number of the session, 0 for none
    alive,              \* sessions that are connected
    sessions,           \* number of sessions opened so far
    pc,                 \* per call: "new", "waiting", "connecting", "sleeping", "done" or "failed"
    attempt,            \* per call, its attempt to connect, 0 when it is not connecting
    stopped,            \* whether stop() has been called
    cancel_id,          \* per call of cancel_order, the broker id it was given
    attached,           \* sessions the adapter's handlers are registered on
    atBroker,               \* per order, its status at the broker
    trade,              \* per order, [session, perm, status] of its Trade object
    polls,              \* per order, polls left of _map_perm_id, 0 when it has ended
    perm_to_ours,       \* _perm_to_ours, as a set of pairs
    ready,              \* tasks of the event loop: callbacks and updates
    orders,             \* _orders: per order, [status, broker_id]
    orders_submitted, orders_filled,
    reports,            \* per order, number of status reports
    lost                \* history: orders whose last report did not reach the engine

connVars == <<gateway, ib, alive, sessions, pc, attempt, stopped, cancel_id>>
orderVars == <<orders, orders_submitted, orders_filled>>
brokerVars == <<atBroker, trade, reports, lost>>
vars == <<connVars, attached, brokerVars, polls, perm_to_ours, ready, orderVars>>

None == 0
NoTrade == [session |-> 0, perm |-> 0, status |-> "none"]
NoOrder == [status |-> "none", broker_id |-> None]

-----------------------------------------------------------------------------
(* The connection *)

is_connected == ib \in alive

Holding(c) == pc[c] \in {"connecting", "sleeping"}

\* Mutant: a second caller does not wait for the lock.
lock_free_always(c) == TRUE

lock_free(c) == \A d \in Calls : ~Holding(d)

\* The caller takes the lock and either finds the session up or connects.
get(c) ==
    /\ pc[c] = "waiting" /\ lock_free(c) /\ ~is_connected
    /\ pc' = [pc EXCEPT ![c] = "connecting"]
    /\ attempt' = [attempt EXCEPT ![c] = 1]
    /\ UNCHANGED <<gateway, ib, alive, sessions, stopped, cancel_id, attached, brokerVars, polls, perm_to_ours, ready,
                   orderVars>>

\* Mutant: the caller never gives up, nor its lock.
give_up_never(c) == pc

give_up(c) == [pc EXCEPT ![c] = "failed"]

attempts_left(c) == attempt[c] < MaxAttempts

\* _connect fails, the gateway being down or still holding the client id: the caller sleeps and tries again, or raises.
connect_fails(c) ==
    /\ pc[c] = "connecting"
    /\ pc' = IF attempts_left(c) THEN [pc EXCEPT ![c] = "sleeping"] ELSE give_up(c)
    /\ attempt' = IF attempts_left(c) THEN attempt ELSE [attempt EXCEPT ![c] = 0]
    /\ UNCHANGED <<gateway, ib, alive, sessions, stopped, cancel_id, attached, brokerVars, polls, perm_to_ours, ready,
                   orderVars>>

retry(c) ==
    /\ pc[c] = "sleeping"
    /\ pc' = [pc EXCEPT ![c] = "connecting"]
    /\ attempt' = [attempt EXCEPT ![c] = @ + 1]
    /\ UNCHANGED <<gateway, ib, alive, sessions, stopped, cancel_id, attached, brokerVars, polls, perm_to_ours, ready,
                   orderVars>>

\* The gateway starts or stops answering, and drops the session when it does.
gateway_changes ==
    /\ gateway' = ~gateway
    /\ gateway => sessions < MaxSessions
    /\ alive' = IF gateway THEN {} ELSE alive
    /\ UNCHANGED <<ib, sessions, pc, attempt, stopped, cancel_id, attached, brokerVars, polls, perm_to_ours, ready,
                   orderVars>>

-----------------------------------------------------------------------------
(* What a caller does with the session it gets *)

\* _emit_update follows each of these with the event of the new state.
record(o, r) == orders' = [orders EXCEPT ![o] = r]

\* submit_plan and submit_close_order once the adapter has returned the order.
store_submitted(o) ==
    /\ record(o, [status |-> "pending", broker_id |-> None])
    /\ orders_submitted' = orders_submitted + 1

\* IBKRBrokerAdapter.connect: the handlers are registered on this session.
register_handlers(session) ==
    /\ attached' = attached \cup {session}
    /\ UNCHANGED <<brokerVars, polls, perm_to_ours, ready, orderVars>>

\* submit_order, and the order is stored: there is no await in between.
place_order(o, session) ==
    /\ atBroker' = [atBroker EXCEPT ![o] = "PendingSubmit"]
    /\ trade' = [trade EXCEPT ![o] = [session |-> session, perm |-> 0, status |-> "PendingSubmit"]]
    /\ polls' = [polls EXCEPT ![o] = MaxPolls]
    /\ store_submitted(o)
    /\ UNCHANGED <<attached, reports, lost, perm_to_ours, ready, orders_filled>>

\* IBKRBrokerAdapter.cancel_order: an id that is not mapped is not found; the broker
\* takes the request for an order that is open.
cancel_at_broker(c) ==
    LET found == {m[2] : m \in {n \in perm_to_ours : n[1] = cancel_id[c]}}
    IN  /\ atBroker' = [o \in Orders |-> IF o \in found /\ atBroker[o] \in {"PreSubmitted", "Submitted"}
                                         THEN "PendingCancel" ELSE atBroker[o]]
        /\ UNCHANGED <<attached, trade, reports, lost, polls, perm_to_ours, ready, orderVars>>

use(c, session) ==
    /\ pc' = [pc EXCEPT ![c] = "done"]
    /\ \/ c = Start /\ register_handlers(session)
       \/ c \in Orders /\ place_order(c, session)
       \/ c \in Cancels /\ cancel_at_broker(c)

\* get returns the session that is up.
get_connected(c) ==
    /\ pc[c] = "waiting" /\ lock_free(c) /\ is_connected
    /\ use(c, ib)
    /\ UNCHANGED <<gateway, ib, alive, sessions, attempt, stopped, cancel_id>>

\* _connect succeeds: a new IB object, with no handlers.
connect_succeeds(c) ==
    /\ pc[c] = "connecting" /\ gateway /\ sessions < MaxSessions
    /\ sessions' = sessions + 1 /\ ib' = sessions + 1 /\ alive' = alive \cup {sessions + 1}
    /\ attempt' = [attempt EXCEPT ![c] = 0]
    /\ use(c, sessions + 1)
    /\ UNCHANGED <<gateway, stopped, cancel_id>>

\* stop() of the order engine and of the connection, whatever the callers are at, a
\* start() included.  The connection does not take the lock: a caller that waits or is
\* connecting goes on and leaves a session behind.
stop ==
    /\ ~stopped /\ stopped' = TRUE
    /\ attached' = IF is_connected THEN attached \ {ib} ELSE attached
    /\ alive' = alive \ {ib} /\ ib' = 0
    /\ UNCHANGED <<gateway, sessions, pc, attempt, cancel_id, brokerVars, polls, perm_to_ours, ready, orderVars>>

begin(c) ==
    /\ pc[c] = "new" /\ ~stopped
    /\ pc' = [pc EXCEPT ![c] = "waiting"]
    /\ UNCHANGED <<gateway, ib, alive, sessions, attempt, stopped, attached, brokerVars, polls, perm_to_ours,
                   ready, orderVars>>

\* start() of the order engine, submit_plan or submit_close_order is called.
call(c) ==
    /\ c \notin Cancels
    /\ c \in Orders => pc[Start] \in {"done", "failed"}
    /\ begin(c) /\ UNCHANGED cancel_id

\* cancel_order of the engine: without a broker id nothing is asked of the broker.
cancel_order(o) ==
    \E c \in Cancels :
        /\ orders[o].broker_id # None
        /\ cancel_id' = [cancel_id EXCEPT ![c] = orders[o].broker_id]
        /\ begin(c)

-----------------------------------------------------------------------------
(* The broker and its callbacks *)

Following(s) ==
    CASE s = "PendingSubmit" -> {"PreSubmitted", "Inactive"}
      [] s = "PreSubmitted"  -> {"PreSubmitted", "Submitted", "Filled"}
      [] s = "Submitted"     -> {"Submitted", "Filled"}
      [] s = "PendingCancel" -> {"PendingCancel", "Cancelled", "Filled"}
      [] s = "Filled"        -> {"Filled"}
      [] OTHER               -> {}

PermOf(o) == CHOOSE f \in [Orders -> 1 .. Cardinality(Orders)] : \A a, b \in Orders : f[a] = f[b] => a = b

\* The order's status advances, or is reported once more.  The session hears of
\* it while it is up, and its callback is created if the handlers are on it.
broker_reports(o, status) ==
    LET heard == trade[o].session \in alive
        told  == heard /\ trade[o].session \in attached
    IN  /\ status \in Following(atBroker[o]) /\ reports[o] < MaxReports
        /\ reports' = [reports EXCEPT ![o] = @ + 1]
        /\ atBroker' = [atBroker EXCEPT ![o] = status]
        /\ trade' = IF heard THEN [trade EXCEPT ![o].status = status] ELSE trade
        /\ ready' = IF told THEN Append(ready, [kind |-> "status", order |-> o]) ELSE ready
        /\ lost' = IF told THEN lost \ {o} ELSE lost \cup {o}
        /\ UNCHANGED <<connVars, attached, polls, perm_to_ours, orderVars>>

\* The broker's identifier reaches the Trade object.
assign_perm(o) ==
    /\ trade[o].session \in alive /\ trade[o].perm = 0
    /\ trade' = [trade EXCEPT ![o].perm = PermOf(o)[o]]
    /\ UNCHANGED <<connVars, attached, atBroker, reports, lost, polls, perm_to_ours, ready, orderVars>>

perm_known(o) == trade[o].perm # 0

\* _map_perm_id: one poll.
map_perm_id(o) ==
    /\ polls[o] > 0
    /\ IF perm_known(o)
       THEN /\ perm_to_ours' = {m \in perm_to_ours : m[1] # trade[o].perm} \cup {<<trade[o].perm, o>>}
            /\ polls' = [polls EXCEPT ![o] = 0]
       ELSE /\ polls' = [polls EXCEPT ![o] = @ - 1]
            /\ UNCHANGED perm_to_ours
    /\ UNCHANGED <<connVars, attached, brokerVars, ready, orderVars>>

\* _IBKR_STATUS_MAP
our_status(s) ==
    CASE s \in {"PendingSubmit", "PendingCancel"} -> "pending"
      [] s = "PreSubmitted" -> "submitted"
      [] s = "Submitted"    -> "accepted"
      [] s = "Filled"       -> "filled"
      [] s = "Cancelled"    -> "cancelled"
      [] s = "Inactive"     -> "rejected"

hand_over(tasks, u) == Append(tasks, u)

\* _handle_order_status: reads the Trade as it is now, and gives up when its
\* identifier is not mapped yet.
handle_order_status ==
    LET o  == Head(ready).order
        to == {m \in perm_to_ours : m[1] = trade[o].perm}
    IN  /\ ready # << >> /\ Head(ready).kind = "status"
        /\ IF to = {}
           THEN ready' = Tail(ready) /\ lost' = lost \cup {o}
           ELSE /\ ready' = hand_over(Tail(ready), [kind |-> "update",
                                order |-> (CHOOSE m \in to : TRUE)[2],
                                status |-> our_status(trade[o].status), broker_id |-> trade[o].perm])
                /\ UNCHANGED lost
        /\ UNCHANGED <<connVars, attached, atBroker, trade, reports, polls, perm_to_ours, orderVars>>

\* _on_order_update
on_order_update ==
    LET u == Head(ready)
    IN  /\ ready # << >> /\ u.kind = "update"
        /\ ready' = Tail(ready)
        /\ record(u.order, [status |-> u.status, broker_id |-> u.broker_id])
        /\ orders_filled' = IF u.status = "filled" THEN orders_filled + 1 ELSE orders_filled
        /\ UNCHANGED <<connVars, attached, brokerVars, polls, perm_to_ours, orders_submitted>>

-----------------------------------------------------------------------------
Init ==
    /\ gateway \in BOOLEAN /\ ib = 0 /\ alive = {} /\ sessions = 0
    /\ pc = [c \in Calls |-> "new"] /\ attempt = [c \in Calls |-> 0] /\ attached = {} /\ stopped = FALSE
    /\ cancel_id = [c \in Cancels |-> None]
    /\ atBroker = [o \in Orders |-> "none"] /\ trade = [o \in Orders |-> NoTrade]
    /\ polls = [o \in Orders |-> 0] /\ perm_to_ours = {} /\ ready = << >>
    /\ orders = [o \in Orders |-> NoOrder] /\ orders_submitted = 0 /\ orders_filled = 0
    /\ reports = [o \in Orders |-> 0] /\ lost = {}

Next ==
    \/ gateway_changes \/ stop \/ handle_order_status \/ on_order_update
    \/ \E c \in Calls :
        call(c) \/ get(c) \/ get_connected(c) \/ connect_fails(c) \/ connect_succeeds(c) \/ retry(c)
    \/ \E o \in Orders :
        \/ cancel_order(o) \/ assign_perm(o) \/ map_perm_id(o)
        \/ atBroker[o] # "none" /\ \E status \in Following(atBroker[o]) : broker_reports(o, status)

\* A free lock is taken, an attempt to connect ends (it has a timeout) and a pause between
\* two attempts is over in time.
Fairness ==
    \A c \in Calls : WF_vars(get(c) \/ get_connected(c))
                     /\ WF_vars(connect_fails(c) \/ connect_succeeds(c) \/ retry(c))

Spec == Init /\ [][Next]_vars /\ Fairness

-----------------------------------------------------------------------------
(* Properties *)

\* The type invariant.
OrderPathTypeOK ==
    /\ ib \in 0 .. MaxSessions /\ alive \subseteq 1 .. MaxSessions /\ attached \subseteq 1 .. MaxSessions
    /\ \A c \in Calls : attempt[c] \in 0 .. MaxAttempts
    /\ \A o \in Orders : polls[o] \in 0 .. MaxPolls /\ reports[o] \in 0 .. MaxReports
    /\ orders_submitted = Cardinality({o \in Orders : orders[o] # NoOrder})

\* However many callers need the broker at once, there is one session, the one
\* the connection hands out: TWS refuses a second one with the same client id.
OneSession == alive \subseteq {ib}

\* What the engine knows of an order is about that order: its broker id is the
\* one the broker gave it, and its status one it has not got ahead of.
UpdatesMatchOrder ==
    \A o \in Orders :
        /\ orders[o].broker_id \in {None, PermOf(o)[o]}
        /\ orders[o].status = "filled" => atBroker[o] = "Filled"
        /\ orders[o].status = "cancelled" => atBroker[o] = "Cancelled"
        /\ orders[o].status \in {"submitted", "accepted"} => atBroker[o] # "PendingSubmit"
        /\ orders[o].status = "none" <=> atBroker[o] = "none"

\* With no task pending the engine shows the broker's last report of an order,
\* so a final status is never undone by an earlier one, unless that report was made
\* while the session was down or without handlers, or was handled before the order's
\* identifier was mapped.
LossHasCause ==
    ready = << >> =>
        \A o \in Orders : (reports[o] > 0 /\ o \notin lost) => orders[o].status = our_status(trade[o].status)

\* Every call that needs the broker ends, in success or failure, however the
\* gateway comes and goes: one caller retries at a time and gives the lock up.
CallsEnd == \A c \in Calls : (pc[c] = "waiting") ~> (pc[c] \in {"done", "failed"})

\* The adapter "routes orders to IBKR via ib_insync and tracks their lifecycle":
\* no order is placed on a session its handlers are not registered on.
OrdersAreTracked ==
    [][\A o \in Orders : trade[o] = NoTrade /\ trade'[o] # NoTrade => trade'[o].session \in attached]_vars

-----------------------------------------------------------------------------
(* The properties together, as a run checks them *)

\* The engine's orders are the broker's: one session carries them, what is known
\* of an order is about it, and a report is only lost for a cause that is known.
EngineFollowsBroker == OrderPathTypeOK /\ OneSession /\ UpdatesMatchOrder /\ LossHasCause
=============================================================================
