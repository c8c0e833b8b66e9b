----------------------------- MODULE PaperRouter -----------------------------
(***************************************************************************)
(* The simulated broker behind the execution subsystem                     *)
(* (engines/execution/paper_router.py).                                    *)
(*                                                                         *)
(* One bracket (entry, stop, target) is submitted per plan.  A coroutine   *)
(* per bracket sleeps, reports the entry ACCEPTED, sleeps, reports it      *)
(* FILLED and starts a second coroutine that sleeps and activates the      *)
(* stop.  Every stretch of code between two sleeps is one atomic step of   *)
(* the asyncio loop, and so one action here; cancel() may run between any  *)
(* two of them.  Targets are registered but never activated.               *)
(***************************************************************************)
EXTENDS Naturals

CONSTANTS
  Plans,        \* the plans that may be submitted (one bracket each)
  Instruments   \* the instrument ids a caller may name

VARIABLES
  task,        \* where the coroutine of a plan's bracket sleeps
  orderStatus, \* _orders: runtime_order_id -> Order.status, or "none"
  cancelled    \* _cancelled: runtime_order_ids ever passed to cancel()

routerVars == <<task, orderStatus, cancelled>>

Roles == {"entry", "stop", "target"}

\* The runtime_order_ids of the orders of all brackets.
Orders == Plans \X Roles

OrderStatuses == {"none", "ACCEPTED", "FILLED", "CANCELLED"}

\* "idle": submit_bracket() not called; "entry" / "fill": asleep before the
\* entry is accepted / filled; "stop": the bracket child task is asleep.
TaskStates == {"idle", "entry", "fill", "stop", "done"}

\* Order.is_terminal restricted to the statuses the paper router produces.
is_terminal(s) == s \in {"FILLED", "CANCELLED"}

RouterInit ==
  /\ task = [p \in Plans |-> "idle"]
  /\ orderStatus = [o \in Orders |-> "none"]
  /\ cancelled = {}

(***************************************************************************)
(* Actions.  The status callbacks are awaited inside these steps and never *)
(* suspend; ExecutionCoordinator adds their effect to the same action.     *)
(***************************************************************************)

\* submit_bracket(): the identities are made, the fill task is created.
submit_bracket(p) ==
  /\ task' = [task EXCEPT ![p] = "entry"]
  /\ UNCHANGED <<orderStatus, cancelled>>

\* First wake-up of _simulate_entry_fill: a cancelled entry is abandoned.
AcceptEntry(p) ==
  /\ task[p] = "entry"
  /\ <<p, "entry">> \notin cancelled
  /\ orderStatus' = [orderStatus EXCEPT ![<<p, "entry">>] = "ACCEPTED"]
  /\ task' = [task EXCEPT ![p] = "fill"]
  /\ UNCHANGED cancelled

AbandonEntry(p) ==
  /\ task[p] = "entry"
  /\ <<p, "entry">> \in cancelled
  /\ task' = [task EXCEPT ![p] = "done"]
  /\ UNCHANGED <<orderStatus, cancelled>>

\* Variant: the stop task is not created.
FillEntry_NoStop(p) ==
  /\ task[p] = "fill"
  /\ orderStatus' = [orderStatus EXCEPT ![<<p, "entry">>] = "FILLED"]
  /\ task' = [task EXCEPT ![p] = "done"]
  /\ UNCHANGED cancelled

\* Second wake-up: FILLED is written whatever happened during the sleep,
\* the fill callbacks run and the stop task is created.
FillEntry(p) ==
  /\ task[p] = "fill"
  /\ orderStatus' = [orderStatus EXCEPT ![<<p, "entry">>] = "FILLED"]
  /\ task' = [task EXCEPT ![p] = "stop"]
  /\ UNCHANGED cancelled

\* _activate_bracket_child for the stop.
ActivateStop(p) ==
  /\ task[p] = "stop"
  /\ orderStatus' = IF <<p, "stop">> \in cancelled
                    THEN orderStatus
                    ELSE [orderStatus EXCEPT ![<<p, "stop">>] = "ACCEPTED"]
  /\ task' = [task EXCEPT ![p] = "done"]
  /\ UNCHANGED cancelled

\* cancel(runtime_order_id): remembered always, applied to an ACCEPTED order.
cancel(o) ==
  /\ cancelled' = cancelled \cup {o}
  /\ orderStatus' = IF orderStatus[o] = "ACCEPTED"
                    THEN [orderStatus EXCEPT ![o] = "CANCELLED"]
                    ELSE orderStatus
  /\ UNCHANGED task

\* _make_order() gives every order this symbol, whatever its instrument.
OrderSymbol(o) == "PAPER"

\* flatten(instrument_id): cancels every live order whose symbol matches; it
\* submits nothing and leaves the bracket tasks alone.
flatten(inst) ==
  LET live == {o \in Orders : /\ OrderSymbol(o) = inst
                             /\ orderStatus[o] # "none"
                             /\ ~is_terminal(orderStatus[o])}
  IN  /\ cancelled' = cancelled \cup live
      /\ orderStatus' = [o \in Orders |-> IF o \in live /\ orderStatus[o] = "ACCEPTED"
                                          THEN "CANCELLED" ELSE orderStatus[o]]
      /\ UNCHANGED task

\* The steps of a bracket's own coroutines.
BracketStep(p) ==
  \/ AcceptEntry(p)
  \/ AbandonEntry(p)
  \/ FillEntry(p)
  \/ ActivateStop(p)

\* A client submits each plan once and may cancel or flatten at any time.
RouterNext ==
  \/ \E p \in Plans : task[p] = "idle" /\ submit_bracket(p)
  \/ \E p \in Plans : BracketStep(p)
  \/ \E o \in Orders : o \notin cancelled /\ task[o[1]] # "idle" /\ cancel(o)
  \/ \E inst \in Instruments : flatten(inst)

RouterSpec ==
  /\ RouterInit
  /\ [][RouterNext]_routerVars
  /\ \A p \in Plans : WF_routerVars(BracketStep(p))

RouterTypeOK ==
  /\ task \in [Plans -> TaskStates]
  /\ orderStatus \in [Orders -> OrderStatuses]
  /\ cancelled \subseteq Orders

(***************************************************************************)
(* Properties.                                                             *)
(***************************************************************************)

\* A stop rests at the broker only for an entry that filled, and never for an
\* entry that was cancelled in time: a stop without its position would open
\* one.  (_simulate_entry_fill's order of callbacks and child task, and the
\* _cancelled check before ACCEPTED.)
StopFollowsFill ==
  \A p \in Plans :
    orderStatus[<<p, "stop">>] # "none" =>
      /\ orderStatus[<<p, "entry">>] = "FILLED"
      /\ task[p] = "done"

\* An entry cancelled while its task still sleeps before ACCEPTED never
\* becomes an order at the broker, whatever the task and cancel() interleave.
EarlyCancelHolds ==
  [][\A p \in Plans :
       (task[p] = "entry" /\ <<p, "entry">> \in cancelled)
         => orderStatus'[<<p, "entry">>] = "none" /\ task'[p] \in {"entry", "done"}]_routerVars

\* Every submitted bracket comes to rest: abandoned before acceptance, or
\* filled with its stop active unless that stop was itself cancelled.
BracketSettles ==
  \A p \in Plans :
    (task[p] = "entry") ~>
      \/ task[p] = "done" /\ orderStatus[<<p, "entry">>] = "none"
      \/ /\ orderStatus[<<p, "entry">>] = "FILLED"
         /\ orderStatus[<<p, "stop">>] = "ACCEPTED" \/ <<p, "stop">> \in cancelled
=============================================================================
