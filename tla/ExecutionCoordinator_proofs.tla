--------------------- MODULE ExecutionCoordinator_proofs ---------------------
(***************************************************************************)
(* Proofs about ExecutionCoordinator, for every set of intents, keys,      *)
(* instruments and accounts: type correctness, one bracket per idempotency *)
(* key, consistency of held intents, the refinement of OrderOnce, the      *)
(* exposure as a sum over what has been sent (sums over finite sets come   *)
(* from FiniteInduction), and the hard risk checks of every sending.       *)
(***************************************************************************)
EXTENDS ExecutionCoordinator, FiniteInduction

\* A key names the intent it was registered for and that intent carries the
\* key; an intent with a request has a status and has been answered.
Registered ==
  /\ \A k \in Keys : idempotency[k] # NoIntent =>
       /\ req[idempotency[k]] # NoRequest
       /\ req[idempotency[k]].key = k
  /\ \A i \in Intents : req[i] # NoRequest =>
       /\ idempotency[req[i].key] = i
       /\ status[i] # "none"
       /\ reply[i] # "none"

\* Brackets belong to intents with a request, held ones have none.
Bracketed ==
  /\ \A i \in Intents : task[i] # "idle" => sends[i] > 0
  /\ \A i \in Intents : sends[i] > 0 => req[i] # NoRequest
  /\ \A i \in Intents : sends[i] <= 1

Held ==
  \A i \in pending : /\ req[i] # NoRequest
                     /\ status[i] = "AWAITING_CONFIRMATION"
                     /\ sends[i] = 0

IInv == TypeOK /\ Registered /\ Bracketed /\ Held

-----------------------------------------------------------------------------
\* The mark of an intent without a request is not a request.
LEMMA NoRequestFact == NoRequest \notin Requests
  BY DEF NoRequest, Requests, Actions

\* A status that is written is a status, and a written intent keeps one.
LEMMA UpdateStatusType ==
  ASSUME NEW cur \in Statuses \cup {"none"}, NEW new \in Statuses
  PROVE  update_status(cur, new) \in Statuses /\ update_status(cur, new) # "none"
  BY DEF update_status, Statuses

\* The chain of updates of submit_intent reaches PLAN_READY, from which an
\* intent can be parked.
LEMMA PlannedStatus ==
  /\ update_status(update_status(update_status("none", "VALIDATING"), "PLANNING"),
                   "PLAN_READY") = "PLAN_READY"
  /\ update_status("PLAN_READY", "AWAITING_CONFIRMATION") = "AWAITING_CONFIRMATION"
  BY DEF update_status, IntentTransitions, INTENT_TERMINAL_STATES

\* The answer of a post is one of the answers.
LEMMA PlanResponseType ==
  ASSUME NEW s \in Statuses, NEW d, NEW late
  PROVE  plan_response(s, d, late) \in Replies \ {"none"}
  BY DEF plan_response, Replies, Statuses

\* The invariant holds before the first call.
LEMMA InitIInv == Init => IInv
  <1> SUFFICES ASSUME Init PROVE IInv
    OBVIOUS
  <1>1. RouterTypeOK
    BY DEF Init, RouterInit, RouterTypeOK, TaskStates, OrderStatuses
  <1>2. TypeOK
    <2>1. market \in [Instruments -> Snapshots \cup {NoMarket}]
      BY DEF Init
    <2>2. req \in [Intents -> Requests \cup {NoRequest}]
      BY DEF Init
    <2>3. /\ status \in [Intents -> Statuses \cup {"none"}]
          /\ reply \in [Intents -> Replies]
          /\ sends \in [Intents -> Nat]
      BY DEF Init, Replies
    <2>4. fresh \in BOOLEAN
      BY DEF Init
    <2>5. /\ account \in [Accounts -> {"ok", "halted", "breached"}]
          /\ idempotency \in [Keys -> Intents \cup {NoIntent}]
          /\ positions \in [Instruments \cup {RoPrefix} -> Int]
      BY DEF Init
    <2>6. pending = {} /\ elapsed = {} /\ working = {}
      BY DEF Init
    <2> QED
      BY <1>1, <2>1, <2>2, <2>3, <2>4, <2>5, <2>6 DEF TypeOK
  <1>3. Registered /\ Held
    BY DEF Init, Registered, Held
  <1>4. Bracketed
    BY DEF Init, RouterInit, Bracketed, Intents
  <1> QED
    BY <1>2, <1>3, <1>4 DEF IInv

-----------------------------------------------------------------------------
(* One lemma per action, or per group of actions that disturb the same part *)

USE DEF Intents

\* A post the readiness gate refuses keeps the invariant.
LEMMA SubmitNotReadyIInv ==
  ASSUME IInv, NEW i \in Intents, SubmitNotReady(i)
  PROVE  IInv'
  <1>1. TypeOK'
    BY DEF IInv, TypeOK, RouterTypeOK, SubmitNotReady, routerVars, envVars, Replies, Statuses
  <1>2. Registered'
    BY DEF IInv, TypeOK, Registered, SubmitNotReady, routerVars, envVars
  <1>3. Bracketed' /\ Held'
    BY DEF IInv, Bracketed, Held, SubmitNotReady, routerVars, envVars
  <1> QED
    BY <1>1, <1>2, <1>3 DEF IInv

\* A post under a key that is taken answers with the first intent's status.
LEMMA SubmitDuplicateIInv ==
  ASSUME IInv, NEW k \in Keys, SubmitDuplicate(k)
  PROVE  IInv'
  <1>0. /\ idempotency[k] \in Intents
        /\ status[idempotency[k]] \in Statuses
        /\ status[idempotency[k]] # "none"
    BY DEF IInv, TypeOK, Registered, SubmitDuplicate, is_new_key
  <1>1. TypeOK'
    BY <1>0 DEF IInv, TypeOK, RouterTypeOK, SubmitDuplicate, routerVars, envVars, Replies
  <1>2. Registered'
    BY <1>0 DEF IInv, TypeOK, Registered, SubmitDuplicate, routerVars, envVars
  <1>3. Bracketed' /\ Held'
    BY DEF IInv, Bracketed, Held, SubmitDuplicate, routerVars, envVars
  <1> QED
    BY <1>1, <1>2, <1>3 DEF IInv

\* A confirm of an intent that is not pending is refused.
LEMMA ConfirmUnknownIInv ==
  ASSUME IInv, NEW i \in Intents, ConfirmUnknown(i)
  PROVE  IInv'
  <1>1. TypeOK'
    BY DEF IInv, TypeOK, RouterTypeOK, ConfirmUnknown, routerVars, envVars, Replies, Statuses
  <1>2. Registered'
    BY DEF IInv, TypeOK, Registered, ConfirmUnknown, routerVars, envVars
  <1>3. Bracketed' /\ Held'
    BY DEF IInv, Bracketed, Held, ConfirmUnknown, routerVars, envVars
  <1> QED
    BY <1>1, <1>2, <1>3 DEF IInv

\* A confirm after the window takes the intent off the pending ones.
LEMMA ConfirmExpiredIInv ==
  ASSUME IInv, NEW i \in Intents, ConfirmExpired(i)
  PROVE  IInv'
  <1>0. update_status(status[i], "EXPIRED") \in Statuses \ {"none"}
    BY UpdateStatusType DEF IInv, TypeOK, Statuses
  <1>1. TypeOK'
    BY <1>0 DEF IInv, TypeOK, RouterTypeOK, ConfirmExpired, drop_pending, routerVars, envVars,
                Replies, Statuses
  <1>2. Registered'
    BY <1>0 DEF IInv, TypeOK, Registered, ConfirmExpired, drop_pending
  <1>3. Bracketed' /\ Held'
    BY <1>0 DEF IInv, TypeOK, Bracketed, Held, ConfirmExpired, drop_pending, routerVars
  <1> QED
    BY <1>1, <1>2, <1>3 DEF IInv

\* A cancel takes the intent off the pending ones.
LEMMA CancelIntentIInv ==
  ASSUME IInv, NEW i \in Intents, CancelIntent(i)
  PROVE  IInv'
  <1>0. update_status(status[i], "CANCELLED") \in Statuses \ {"none"}
    BY UpdateStatusType DEF IInv, TypeOK, Statuses
  <1>1. /\ status' \in [Intents -> Statuses \cup {"none"}]
        /\ \A j \in Intents : j # i => status'[j] = status[j]
        /\ status[i] # "none" => status'[i] # "none"
    BY <1>0 DEF IInv, TypeOK, CancelIntent
  <1>2. /\ reply' \in [Intents -> Replies]
        /\ reply'[i] # "none"
        /\ \A j \in Intents : j # i => reply'[j] = reply[j]
    BY <1>1 DEF IInv, TypeOK, CancelIntent, Replies, Statuses
  <1>3. TypeOK'
    BY <1>1, <1>2 DEF IInv, TypeOK, RouterTypeOK, CancelIntent, drop_pending, routerVars, envVars
  <1>4. Registered'
    BY <1>1, <1>2 DEF IInv, TypeOK, Registered, CancelIntent
  <1>5. Bracketed' /\ Held'
    BY <1>1 DEF IInv, TypeOK, Bracketed, Held, CancelIntent, drop_pending, routerVars
  <1> QED
    BY <1>3, <1>4, <1>5 DEF IInv

\* What submit_plan(i, ...) may do to the variables it writes: at most one
\* bracket is sent, and only this intent's status and reply change.
PlanEffect(i) ==
  /\ RouterTypeOK'
  /\ task' \in {task, [task EXCEPT ![i] = "entry"]}
  /\ sends' \in [Intents -> Nat]
  /\ \/ sends' = sends /\ task' = task
     \/ sends' = [sends EXCEPT ![i] = @ + 1]
  /\ working' \subseteq [id : {"ro"} \X Intents, inst : Instruments,
                          side : {"BUY", "SELL"}, qty : Quantities]
  /\ status' \in [Intents -> Statuses \cup {"none"}]
  /\ status'[i] # "none"
  /\ \A j \in Intents : j # i => status'[j] = status[j]
  /\ reply' \in [Intents -> Replies]
  /\ reply'[i] # "none"
  /\ \A j \in Intents : j # i => reply'[j] = reply[j]

\* A step of submit_plan for an intent that is not held and has no bracket.
LEMMA SubmitPlanIInv ==
  ASSUME TypeOK,
         NEW i \in Intents, NEW r \in Requests, NEW cur \in Statuses, NEW d,
         NEW accepted \in BOOLEAN, NEW late \in BOOLEAN,
         submit_plan(i, r, cur, d, accepted, late)
  PROVE  PlanEffect(i)
  <1> DEFINE submitting == update_status(cur, "SUBMITTING")
  <1>1. submitting \in Statuses
    BY UpdateStatusType DEF Statuses
  <1>2. /\ update_status(submitting, "ACTIVE") \in Statuses \ {"none"}
        /\ update_status(submitting, "FAILED") \in Statuses \ {"none"}
    BY <1>1, UpdateStatusType DEF Statuses
  <1>3. plan_response("ACTIVE", d, late) \in Replies \ {"none"}
    BY PlanResponseType DEF Statuses
  <1> HIDE DEF submitting
  <1>4. CASE accepted
    <2>1. /\ submit_bracket(i)
          /\ sends' = [sends EXCEPT ![i] = @ + 1]
          /\ working' = working \cup {[id |-> runtime_order_id(i), inst |-> r.inst,
                                      side |-> EntrySide(r), qty |-> r.qty]}
          /\ status' = [status EXCEPT ![i] = update_status(submitting, "ACTIVE")]
          /\ reply' = [reply EXCEPT ![i] = plan_response("ACTIVE", d, late)]
      BY <1>4 DEF submit_plan, submitting
    <2>2. RouterTypeOK'
      BY <2>1 DEF TypeOK, RouterTypeOK, submit_bracket, TaskStates
    <2>3. [id |-> runtime_order_id(i), inst |-> r.inst, side |-> EntrySide(r), qty |-> r.qty]
            \in [id : {"ro"} \X Intents, inst : Instruments, side : {"BUY", "SELL"},
                 qty : Quantities]
      BY DEF runtime_order_id, EntrySide, Requests
    <2>4. /\ status' \in [Intents -> Statuses \cup {"none"}]
          /\ status'[i] # "none"
          /\ \A j \in Intents : j # i => status'[j] = status[j]
      BY <2>1, <1>2 DEF TypeOK
    <2>5. /\ reply' \in [Intents -> Replies]
          /\ reply'[i] # "none"
          /\ \A j \in Intents : j # i => reply'[j] = reply[j]
      BY <2>1, <1>3 DEF TypeOK
    <2>6. task' = [task EXCEPT ![i] = "entry"] /\ sends' \in [Intents -> Nat]
      BY <2>1 DEF TypeOK, submit_bracket
    <2>7. working' \subseteq [id : {"ro"} \X Intents, inst : Instruments,
                              side : {"BUY", "SELL"}, qty : Quantities]
      BY <2>1, <2>3 DEF TypeOK
    <2> QED
      BY <2>1, <2>2, <2>4, <2>5, <2>6, <2>7 DEF PlanEffect
  <1>5. CASE ~accepted
    <2>1. /\ status' = [status EXCEPT ![i] = update_status(submitting, "FAILED")]
          /\ reply' = [reply EXCEPT ![i] = "FAILED"]
          /\ UNCHANGED <<routerVars, working, sends>>
      BY <1>5 DEF submit_plan, submitting
    <2>2. RouterTypeOK' /\ task' = task
      BY <2>1 DEF TypeOK, RouterTypeOK, routerVars
    <2>3. /\ status' \in [Intents -> Statuses \cup {"none"}]
          /\ status'[i] # "none"
          /\ \A j \in Intents : j # i => status'[j] = status[j]
      BY <2>1, <1>2 DEF TypeOK
    <2>4. /\ reply' \in [Intents -> Replies]
          /\ reply'[i] # "none"
          /\ \A j \in Intents : j # i => reply'[j] = reply[j]
      BY <2>1 DEF TypeOK, Replies, Statuses
    <2> QED
      BY <2>1, <2>2, <2>3, <2>4 DEF TypeOK, PlanEffect
  <1> QED
    BY <1>4, <1>5

\* submit_intent with a new key: its four outcomes.
LEMMA SubmitIntentIInv ==
  ASSUME IInv, NEW i \in Intents, NEW r \in Requests,
         NEW accepted \in BOOLEAN, NEW late \in BOOLEAN,
         SubmitIntent(i, r, accepted, late)
  PROVE  IInv'
  <1> DEFINE planned == update_status(update_status(update_status("none", "VALIDATING"),
                                                    "PLANNING"), "PLAN_READY")
  <1>1. planned = "PLAN_READY" /\ planned \in Statuses
    BY PlannedStatus DEF Statuses
  <1> HIDE DEF planned
  <1>2. /\ reply[i] = "none"
        /\ idempotency[r.key] = NoIntent
        /\ idempotency' = [idempotency EXCEPT ![r.key] = i]
        /\ req' = [req EXCEPT ![i] = r]
        /\ UNCHANGED <<envVars, positions, elapsed>>
    BY DEF SubmitIntent, is_new_key
  <1>3. /\ req[i] = NoRequest /\ i \notin pending /\ sends[i] = 0 /\ task[i] = "idle"
        /\ \A k \in Keys : idempotency[k] # i
    BY <1>2, ExecutionConstants DEF IInv, TypeOK, RouterTypeOK, Registered, Bracketed, Held
  <1>4. \/ /\ status' \in [Intents -> Statuses \cup {"none"}]
           /\ status'[i] # "none"
           /\ \A j \in Intents : j # i => status'[j] = status[j]
           /\ reply' = [reply EXCEPT ![i] = "REJECTED"]
           /\ UNCHANGED <<routerVars, pending, working, sends>>
        \/ /\ status' = [status EXCEPT ![i] = "AWAITING_CONFIRMATION"]
           /\ pending' = pending \cup {i}
           /\ reply' = [reply EXCEPT ![i] =
                           plan_response("AWAITING_CONFIRMATION", evaluate(r), late)]
           /\ UNCHANGED <<routerVars, working, sends>>
        \/ /\ submit_plan(i, r, planned, evaluate(r), accepted, late)
           /\ UNCHANGED pending
    <2>1. update_status("VALIDATING", "REJECTED") \in Statuses \ {"none"}
      BY UpdateStatusType DEF Statuses
    <2>2. update_status(planned, "REJECTED") \in Statuses \ {"none"}
      BY <1>1, UpdateStatusType DEF Statuses
    <2>3. update_status(planned, "AWAITING_CONFIRMATION") = "AWAITING_CONFIRMATION"
      BY <1>1, PlannedStatus
    <2> QED
      BY <2>1, <2>2, <2>3 DEF SubmitIntent, planned, IInv, TypeOK
  <1>5. /\ idempotency' \in [Keys -> Intents \cup {NoIntent}]
        /\ req' \in [Intents -> Requests \cup {NoRequest}]
        /\ r.key \in Keys
    BY <1>2 DEF IInv, TypeOK, Requests
  <1>6. ASSUME status' \in [Intents -> Statuses \cup {"none"}],
               status'[i] # "none",
               \A j \in Intents : j # i => status'[j] = status[j],
               reply'[i] # "none",
               \A j \in Intents : j # i => reply'[j] = reply[j]
        PROVE  Registered'
    <2>1. \A k \in Keys : idempotency'[k] # NoIntent =>
             /\ req'[idempotency'[k]] # NoRequest
             /\ req'[idempotency'[k]].key = k
      BY <1>2, <1>3, <1>5, NoRequestFact DEF IInv, TypeOK, Registered
    <2>2. ASSUME NEW j \in Intents, req'[j] # NoRequest
          PROVE  /\ idempotency'[req'[j].key] = j
                 /\ status'[j] # "none"
                 /\ reply'[j] # "none"
      <3>1. CASE j = i
        BY <3>1, <1>2, <1>5, <1>6 DEF IInv, TypeOK
      <3>2. CASE j # i
        <4>1. req'[j] = req[j] /\ req[j] \in Requests /\ req[j].key \in Keys
          BY <3>2, <2>2, <1>2 DEF IInv, TypeOK, Requests
        <4>2. idempotency[req[j].key] = j /\ status[j] # "none" /\ reply[j] # "none"
          BY <4>1, <2>2 DEF IInv, Registered
        <4>3. req[j].key # r.key
          BY <4>2, <1>2, ExecutionConstants DEF Intents
        <4> QED
          BY <4>1, <4>2, <4>3, <3>2, <1>2, <1>6 DEF IInv, TypeOK
      <3> QED
        BY <3>1, <3>2
    <2> QED
      BY <2>1, <2>2 DEF Registered
  <1>7. CASE /\ status' \in [Intents -> Statuses \cup {"none"}]
             /\ status'[i] # "none"
             /\ \A j \in Intents : j # i => status'[j] = status[j]
             /\ reply' = [reply EXCEPT ![i] = "REJECTED"]
             /\ UNCHANGED <<routerVars, pending, working, sends>>
    <2>1. /\ reply' \in [Intents -> Replies] /\ reply'[i] # "none"
          /\ \A j \in Intents : j # i => reply'[j] = reply[j]
      BY <1>7 DEF IInv, TypeOK, Replies, Statuses
    <2>2. TypeOK'
      BY <1>2, <1>5, <1>7, <2>1 DEF IInv, TypeOK, RouterTypeOK, routerVars, envVars
    <2>3. Registered'
      BY <1>6, <1>7, <2>1
    <2>4. Bracketed' /\ Held'
      BY <1>2, <1>3, <1>7, NoRequestFact DEF IInv, TypeOK, Bracketed, Held, routerVars
    <2> QED
      BY <2>2, <2>3, <2>4 DEF IInv
  <1>8. CASE /\ status' = [status EXCEPT ![i] = "AWAITING_CONFIRMATION"]
             /\ pending' = pending \cup {i}
             /\ reply' = [reply EXCEPT ![i] =
                             plan_response("AWAITING_CONFIRMATION", evaluate(r), late)]
             /\ UNCHANGED <<routerVars, working, sends>>
    <2>0. plan_response("AWAITING_CONFIRMATION", evaluate(r), late) \in Replies \ {"none"}
      BY PlanResponseType DEF Statuses
    <2>1. /\ reply' \in [Intents -> Replies] /\ reply'[i] # "none"
          /\ \A j \in Intents : j # i => reply'[j] = reply[j]
      BY <1>8, <2>0 DEF IInv, TypeOK
    <2>2. /\ status' \in [Intents -> Statuses \cup {"none"}]
          /\ status'[i] = "AWAITING_CONFIRMATION"
          /\ \A j \in Intents : j # i => status'[j] = status[j]
      BY <1>8 DEF IInv, TypeOK, Statuses
    <2>3. TypeOK'
      BY <1>2, <1>5, <1>8, <2>1, <2>2 DEF IInv, TypeOK, RouterTypeOK, routerVars, envVars
    <2>4. Registered'
      BY <1>6, <2>1, <2>2
    <2>5. Bracketed' /\ Held'
      BY <1>2, <1>3, <1>8, <2>2, NoRequestFact DEF IInv, TypeOK, Bracketed, Held, routerVars
    <2> QED
      BY <2>3, <2>4, <2>5 DEF IInv
  <1>9. CASE submit_plan(i, r, planned, evaluate(r), accepted, late) /\ UNCHANGED pending
    <2>0. PlanEffect(i)
      <3>1. TypeOK
        BY DEF IInv
      <3>2. PICK d : d = evaluate(r)
        OBVIOUS
      <3>3. submit_plan(i, r, "PLAN_READY", d, accepted, late)
        BY <1>1, <1>9, <3>2 DEF submit_plan
      <3>4. "PLAN_READY" \in Statuses
        BY DEF Statuses
      <3> QED
        BY <3>1, <3>3, <3>4, SubmitPlanIInv
    <2>1. /\ RouterTypeOK'
          /\ task' \in {task, [task EXCEPT ![i] = "entry"]}
          /\ sends' \in [Intents -> Nat]
          /\ \/ sends' = sends /\ task' = task
             \/ sends' = [sends EXCEPT ![i] = @ + 1]
          /\ status' \in [Intents -> Statuses \cup {"none"}]
          /\ status'[i] # "none"
          /\ \A j \in Intents : j # i => status'[j] = status[j]
          /\ reply' \in [Intents -> Replies]
          /\ reply'[i] # "none"
          /\ \A j \in Intents : j # i => reply'[j] = reply[j]
      BY <2>0 DEF PlanEffect
    <2>2. TypeOK'
      BY <1>2, <1>5, <1>9, <2>0 DEF IInv, TypeOK, PlanEffect, envVars
    <2>3. Registered'
      BY <1>6, <2>1
    <2>4. Bracketed'
      <3>1. \A j \in Intents : j # i => /\ task'[j] = task[j]
                                       /\ sends'[j] = sends[j]
                                       /\ req'[j] = req[j]
        BY <1>2, <2>1 DEF IInv, TypeOK, RouterTypeOK
      <3>2. sends'[i] <= 1
        BY <1>3, <2>1 DEF IInv, TypeOK
      <3>4. req'[i] # NoRequest
        BY <1>2, NoRequestFact DEF IInv, TypeOK
      <3>3. task'[i] # "idle" => sends'[i] > 0
        BY <1>3, <2>1 DEF IInv, TypeOK
      <3> QED
        BY <3>1, <3>2, <3>3, <3>4 DEF IInv, Bracketed
    <2>5. Held'
      BY <1>2, <1>3, <1>9, <2>1, NoRequestFact DEF IInv, TypeOK, Held
    <2> QED
      BY <2>2, <2>3, <2>4, <2>5 DEF IInv
  <1> QED
    BY <1>4, <1>7, <1>8, <1>9

\* confirm_intent within the window: the request of a held intent is known, so
\* revalidating it either closes the intent or sends its only bracket.
LEMMA ConfirmIntentIInv ==
  ASSUME IInv, NEW i \in Intents, NEW accepted \in BOOLEAN, NEW late \in BOOLEAN,
         ConfirmIntent(i, accepted, late)
  PROVE  IInv'
  <1> DEFINE confirmed == update_status(status[i], "CONFIRMED")
  <1>1. /\ i \in pending
        /\ drop_pending(i)
        /\ UNCHANGED <<envVars, positions, idempotency, req>>
    BY DEF ConfirmIntent
  <1>2. /\ req[i] \in Requests /\ req[i] # NoRequest
        /\ sends[i] = 0 /\ task[i] = "idle" /\ status[i] \in Statuses
    BY <1>1, NoRequestFact DEF IInv, TypeOK, RouterTypeOK, Held, Bracketed, Statuses
  <1>3. confirmed \in Statuses
    BY <1>2, UpdateStatusType DEF Statuses
  <1> HIDE DEF confirmed
  <1>4. \/ /\ status' \in [Intents -> Statuses \cup {"none"}]
           /\ status'[i] # "none"
           /\ \A j \in Intents : j # i => status'[j] = status[j]
           /\ reply' = [reply EXCEPT ![i] = "REJECTED"]
           /\ UNCHANGED <<routerVars, working, sends>>
        \/ submit_plan(i, req[i], confirmed, evaluate(req[i]), accepted, late)
    <2>1. update_status(status[i], "REJECTED") \in Statuses \ {"none"}
      BY <1>2, UpdateStatusType DEF Statuses
    <2>2. update_status(confirmed, "REJECTED") \in Statuses \ {"none"}
      BY <1>3, UpdateStatusType DEF Statuses
    <2> QED
      BY <2>1, <2>2 DEF ConfirmIntent, confirmed, IInv, TypeOK
  <1>5. PlanEffect(i)
    <2>1. CASE submit_plan(i, req[i], confirmed, evaluate(req[i]), accepted, late)
      <3>1. TypeOK
        BY DEF IInv
      <3>2. PICK d, r, cur : d = evaluate(req[i]) /\ r = req[i] /\ cur = confirmed
        OBVIOUS
      <3>3. submit_plan(i, r, cur, d, accepted, late)
        BY <2>1, <3>2 DEF submit_plan
      <3>4. r \in Requests /\ cur \in Statuses
        BY <1>2, <1>3, <3>2
      <3> QED
        BY <3>1, <3>3, <3>4, SubmitPlanIInv
    <2>2. CASE /\ status' \in [Intents -> Statuses \cup {"none"}]
               /\ status'[i] # "none"
               /\ \A j \in Intents : j # i => status'[j] = status[j]
               /\ reply' = [reply EXCEPT ![i] = "REJECTED"]
               /\ UNCHANGED <<routerVars, working, sends>>
      <3>1. RouterTypeOK' /\ task' = task /\ sends' = sends
        BY <2>2 DEF IInv, TypeOK, RouterTypeOK, routerVars
      <3>2. /\ reply' \in [Intents -> Replies] /\ reply'[i] # "none"
            /\ \A j \in Intents : j # i => reply'[j] = reply[j]
        BY <2>2 DEF IInv, TypeOK, Replies, Statuses
      <3> QED
        BY <2>2, <3>1, <3>2 DEF IInv, TypeOK, PlanEffect
    <2> QED
      BY <1>4, <2>1, <2>2
  <1>6. /\ task' \in {task, [task EXCEPT ![i] = "entry"]}
        /\ sends' \in [Intents -> Nat]
        /\ \/ sends' = sends /\ task' = task
           \/ sends' = [sends EXCEPT ![i] = @ + 1]
        /\ status'[i] # "none"
        /\ \A j \in Intents : j # i => status'[j] = status[j]
        /\ reply'[i] # "none"
        /\ \A j \in Intents : j # i => reply'[j] = reply[j]
    BY <1>5 DEF PlanEffect
  <1>7. TypeOK'
    BY <1>1, <1>5 DEF IInv, TypeOK, PlanEffect, drop_pending, envVars
  <1>8. Registered'
    BY <1>1, <1>6 DEF IInv, TypeOK, Registered
  <1>9. Bracketed'
    <2>1. \A j \in Intents : j # i => task'[j] = task[j] /\ sends'[j] = sends[j]
      BY <1>6 DEF IInv, TypeOK, RouterTypeOK
    <2>2. sends'[i] <= 1
      BY <1>2, <1>6 DEF IInv, TypeOK
    <2>3. task'[i] # "idle" => sends'[i] > 0
      BY <1>2, <1>6 DEF IInv, TypeOK
    <2> QED
      BY <1>1, <1>2, <2>1, <2>2, <2>3 DEF IInv, Bracketed
  <1>10. Held'
    <2>1. \A j \in pending' : j \in pending /\ j # i
      BY <1>1 DEF drop_pending
    <2> QED
      BY <1>1, <1>6, <2>1 DEF IInv, TypeOK, Held
  <1> QED
    BY <1>7, <1>8, <1>9, <1>10 DEF IInv

\* The router's steps keep the brackets attached to their intents; a fill
\* finds the request whose quantity it books.
LEMMA RouterTaskIInv ==
  ASSUME IInv, NEW i \in Intents, RouterTask(i)
  PROVE  IInv'
  <1>1. /\ UNCHANGED <<envVars, idempotency, req, status, pending, elapsed, reply, sends>>
        /\ working' \subseteq working
    BY DEF RouterTask, EntryAccepted, EntryFilled, StopActivated, drop_working, coordVars
  <1>2. /\ RouterTypeOK'
        /\ task[i] # "idle"
        /\ \A j \in Intents : j # i => task'[j] = task[j]
    BY DEF IInv, TypeOK, RouterTypeOK, RouterTask, EntryAccepted, EntryFilled, StopActivated,
           AcceptEntry, FillEntry, ActivateStop, TaskStates, OrderStatuses, Orders, Roles
  <1>3. sends[i] > 0 /\ req[i] # NoRequest
    BY <1>2 DEF IInv, Bracketed
  <1>4. positions' \in [Instruments \cup {RoPrefix} -> Int]
    <2>1. CASE EntryFilled(i)
      <3>0. req[i].qty \in Quantities
        BY <1>3 DEF IInv, TypeOK, Requests
      <3>1. req[i].qty \in Int
        <4>1. \A q \in Quantities : q \in Int
          BY ExecutionConstants
        <4> QED
          BY <3>0, <4>1
      <3>2. Signed(EntrySide(req[i]), req[i].qty) \in Int
        BY <3>1 DEF Signed
      <3> QED
        BY <2>1, <3>2 DEF IInv, TypeOK, EntryFilled, on_fill, FillSymbol
    <2>2. CASE ~EntryFilled(i)
      BY <2>2 DEF IInv, TypeOK, RouterTask, EntryAccepted, StopActivated
    <2> QED
      BY <2>1, <2>2
  <1>5. TypeOK'
    BY <1>1, <1>2, <1>4 DEF IInv, TypeOK, envVars
  <1>6. Registered' /\ Held'
    BY <1>1 DEF IInv, Registered, Held
  <1>7. Bracketed'
    BY <1>1, <1>2, <1>3 DEF IInv, Bracketed
  <1> QED
    BY <1>5, <1>6, <1>7 DEF IInv

\* Market updates, the kill switch, the bootstrap and the passing of time only
\* touch variables the invariant gives a type.
LEMMA EnvironmentIInv ==
  ASSUME IInv, Environment
  PROVE  IInv'
  <1>1. /\ UNCHANGED <<routerVars, positions, idempotency, req, status, pending, working,
                       reply, sends>>
        /\ elapsed' \subseteq pending
    BY DEF IInv, TypeOK, Environment, BootstrapReady, MarketState, AccountChanges,
           WindowElapses, coordVars
  <1>2. fresh' \in BOOLEAN
    <2>1. fresh' = fresh \/ fresh' = TRUE
      BY DEF Environment, BootstrapReady, MarketState, AccountChanges, WindowElapses, envVars
    <2> QED
      BY <2>1 DEF IInv, TypeOK
  <1>3. market' \in [Instruments -> Snapshots \cup {NoMarket}]
    BY DEF IInv, TypeOK, Environment, BootstrapReady, MarketState, AccountChanges,
           WindowElapses, envVars
  <1>4. account' \in [Accounts -> {"ok", "halted", "breached"}]
    BY DEF IInv, TypeOK, Environment, BootstrapReady, MarketState, AccountChanges,
           WindowElapses, envVars
  <1>5. TypeOK'
    BY <1>1, <1>2, <1>3, <1>4 DEF IInv, TypeOK, RouterTypeOK, routerVars
  <1>6. Registered' /\ Bracketed' /\ Held'
    BY <1>1 DEF IInv, Registered, Bracketed, Held, routerVars
  <1> QED
    BY <1>5, <1>6 DEF IInv

-----------------------------------------------------------------------------
(* The invariant is inductive *)

\* Every step of the coordinator, the router and the environment keeps it.
LEMMA NextIInv ==
  ASSUME IInv, [Next]_vars
  PROVE  IInv'
  <1>1. CASE ApiCall
    BY <1>1, SubmitNotReadyIInv, SubmitDuplicateIInv, SubmitIntentIInv, ConfirmUnknownIInv,
       ConfirmExpiredIInv, ConfirmIntentIInv, CancelIntentIInv DEF ApiCall
  <1>2. CASE \E i \in Intents : RouterTask(i)
    BY <1>2, RouterTaskIInv
  <1>3. CASE Environment
    BY <1>3, EnvironmentIInv
  <1>4. CASE UNCHANGED vars
    BY <1>4 DEF IInv, TypeOK, RouterTypeOK, Registered, Bracketed, Held, vars, routerVars,
                coordVars, envVars
  <1> QED
    BY <1>1, <1>2, <1>3, <1>4 DEF Next

\* Every reachable state satisfies the inductive invariant.
THEOREM Invariance == Spec => []IInv
  BY InitIInv, NextIInv, PTL DEF Spec

\* The coordinator's and the router's state always has its type, whatever the
\* callers, the router tasks and the clock interleave.
THEOREM TypeCorrect == Spec => []TypeOK
  <1>1. IInv => TypeOK
    BY DEF IInv
  <1> QED
    BY <1>1, Invariance, PTL

\* At most one bracket reaches the broker per idempotency key, for any number
\* of intents, keys and accounts (invariant 3 of invariants.py).
THEOREM OneOrder == Spec => []OneOrderPerKey
  <1>1. IInv => OneOrderPerKey
    <2> SUFFICES ASSUME IInv, NEW i \in Intents, NEW j \in Intents
                 PROVE  /\ sends[i] <= 1
                        /\ (i # j /\ sends[i] > 0 /\ sends[j] > 0) => req[i].key # req[j].key
      BY DEF OneOrderPerKey
    <2> QED
      BY DEF IInv, Registered, Bracketed
  <1> QED
    BY <1>1, Invariance, PTL

\* An intent awaiting confirmation owns its key, shows that status and has
\* nothing at the broker, so confirm, cancel, poll and retry agree about it.
THEOREM HeldConsistent == Spec => []HeldIntentIsConsistent
  <1>1. IInv => HeldIntentIsConsistent
    <2> SUFFICES ASSUME IInv, NEW i \in pending
                 PROVE  /\ status[i] = "AWAITING_CONFIRMATION"
                        /\ idempotency[req[i].key] = i
                        /\ sends[i] = 0
                        /\ task[i] = "idle"
      BY DEF HeldIntentIsConsistent
    <2>1. i \in Intents
      BY DEF IInv, TypeOK
    <2>2. req[i] # NoRequest /\ status[i] = "AWAITING_CONFIRMATION" /\ sends[i] = 0
      BY DEF IInv, Held
    <2>3. idempotency[req[i].key] = i
      BY <2>1, <2>2 DEF IInv, Registered
    <2>4. task[i] = "idle"
      BY <2>1, <2>2 DEF IInv, Bracketed
    <2> QED
      BY <2>2, <2>3, <2>4
  <1> QED
    BY <1>1, Invariance, PTL

-----------------------------------------------------------------------------
(* Refinement of OrderOnce *)

\* One step moves at most the phase of one key, along an edge of OrderOnce.
Moves(k) ==
  /\ \A j \in Keys : j # k => phase'[j] = phase[j]
  /\ \/ phase'[k] = phase[k]
     \/ phase[k] = "unseen" /\ phase'[k] \in {"held", "sent", "closed"}
     \/ phase[k] = "held" /\ phase'[k] \in {"sent", "closed"}

\* A step that moves along one edge is a step of OrderOnce or a stutter.
LEMMA MovesAbstract ==
  ASSUME NEW k \in Keys, Moves(k)
  PROVE  [Abstract!Next]_phase
  <1>1. phase = [j \in Keys |-> phase[j]] /\ phase' = [j \in Keys |-> phase'[j]]
    BY DEF phase
  <1> HIDE DEF phase
  <1>2. CASE phase'[k] = phase[k]
    BY <1>1, <1>2 DEF Moves
  <1>3. ASSUME NEW to, phase'[k] = to
        PROVE  phase' = [phase EXCEPT ![k] = to]
    BY <1>1, <1>3 DEF Moves
  <1>4. CASE phase[k] = "unseen" /\ phase'[k] \in {"held", "sent", "closed"}
    BY <1>3, <1>4 DEF Abstract!Next, Abstract!Receive, Abstract!Move
  <1>5. CASE phase[k] = "held" /\ phase'[k] \in {"sent", "closed"}
    BY <1>3, <1>5 DEF Abstract!Next, Abstract!Decide, Abstract!Move
  <1> QED
    BY <1>2, <1>4, <1>5 DEF Moves

\* A step that touches neither the store, the brackets nor the held intents
\* leaves every phase as it is.
LEMMA SamePhase ==
  ASSUME UNCHANGED <<idempotency, sends, pending>>
  PROVE  phase' = phase
  BY DEF phase

\* Closing or sending a held intent moves the phase of its own key only: no
\* other key is registered for it.
LEMMA DecideMoves ==
  ASSUME IInv, NEW i \in pending, pending' = pending \ {i},
         UNCHANGED <<idempotency, req>>,
         \A j \in Intents : j # i => sends'[j] = sends[j]
  PROVE  req[i].key \in Keys /\ Moves(req[i].key)
  <1>1. /\ i \in Intents /\ req[i] \in Requests /\ req[i].key \in Keys
        /\ sends[i] = 0 /\ idempotency[req[i].key] = i
    BY DEF IInv, TypeOK, Held, Registered, Requests
  <1>2. i # NoIntent
    BY <1>1, ExecutionConstants
  <1>3. ASSUME NEW j \in Keys, j # req[i].key
        PROVE  phase'[j] = phase[j]
    <2>1. idempotency[j] # i
      BY <1>1, <1>2, <1>3 DEF IInv, Registered
    <2>2. idempotency[j] \in Intents \cup {NoIntent}
      BY DEF IInv, TypeOK
    <2> QED
      BY <2>1, <2>2 DEF phase
  <1>4. phase[req[i].key] = "held"
    BY <1>1, <1>2 DEF phase
  <1>5. phase'[req[i].key] \in {"sent", "closed"}
    BY <1>1, <1>2 DEF phase
  <1> QED
    BY <1>1, <1>3, <1>4, <1>5 DEF Moves

\* submit_intent moves the phase of the key it registers, whose intent is new
\* to every other key.
LEMMA ReceiveMoves ==
  ASSUME IInv, IInv', NEW i \in Intents, NEW r \in Requests,
         reply[i] = "none", idempotency[r.key] = NoIntent,
         idempotency' = [idempotency EXCEPT ![r.key] = i],
         pending' \in {pending, pending \cup {i}},
         \A j \in Intents : j # i => sends'[j] = sends[j]
  PROVE  r.key \in Keys /\ Moves(r.key)
  <1>1. r.key \in Keys /\ i # NoIntent
    BY ExecutionConstants DEF Requests
  <1>2. req[i] = NoRequest
    BY DEF IInv, Registered
  <1>3. ASSUME NEW j \in Keys, j # r.key
        PROVE  phase'[j] = phase[j]
    <2>1. idempotency'[j] = idempotency[j] /\ idempotency[j] \in Intents \cup {NoIntent}
      BY <1>3 DEF IInv, TypeOK
    <2>2. idempotency[j] # i
      BY <1>1, <1>2 DEF IInv, Registered
    <2> QED
      BY <2>1, <2>2 DEF phase
  <1>4. phase[r.key] = "unseen"
    BY <1>1 DEF phase
  <1>5. idempotency'[r.key] = i
    BY <1>1 DEF IInv, TypeOK
  <1>6. phase'[r.key] \in {"held", "sent", "closed"}
    BY <1>1, <1>5 DEF phase
  <1> QED
    BY <1>1, <1>3, <1>4, <1>6 DEF Moves

\* Every step of the coordinator is a step of OrderOnce or leaves it alone.
LEMMA StepSimulation ==
  ASSUME IInv, IInv', [Next]_vars
  PROVE  [Abstract!Next]_phase
  <1>0. sends \in [Intents -> Nat]
    BY DEF IInv, TypeOK
  <1>1. ASSUME NEW i \in Intents,
               \/ SubmitNotReady(i) \/ ConfirmUnknown(i) \/ RouterTask(i)
               \/ i \notin pending /\ CancelIntent(i)
        PROVE  [Abstract!Next]_phase
    <2>1. UNCHANGED <<idempotency, sends, pending>>
      BY <1>1 DEF SubmitNotReady, ConfirmUnknown, RouterTask, EntryAccepted, EntryFilled,
                  StopActivated, CancelIntent, drop_pending, coordVars
    <2> QED
      BY <2>1, SamePhase
  <1>2. ASSUME NEW k \in Keys, SubmitDuplicate(k)
        PROVE  [Abstract!Next]_phase
    BY <1>2, SamePhase DEF SubmitDuplicate
  <1>3. CASE Environment
    <2>1. UNCHANGED <<idempotency, sends, pending>>
      BY <1>3 DEF Environment, BootstrapReady, MarketState, AccountChanges, WindowElapses,
                  coordVars
    <2> QED
      BY <2>1, SamePhase
  <1>4. ASSUME NEW i \in Intents,
               i \in pending,
               ConfirmExpired(i) \/ CancelIntent(i)
        PROVE  [Abstract!Next]_phase
    <2>1. pending' = pending \ {i} /\ UNCHANGED <<idempotency, req, sends>>
      BY <1>4 DEF ConfirmExpired, CancelIntent, drop_pending
    <2>2. req[i].key \in Keys /\ Moves(req[i].key)
      BY <1>4, <2>1, DecideMoves
    <2>3. PICK k \in Keys : Moves(k)
      BY <2>2
    <2> QED
      BY <2>3, MovesAbstract
  <1>5. ASSUME NEW i \in Intents, NEW accepted \in BOOLEAN, NEW late \in BOOLEAN,
               ConfirmIntent(i, accepted, late)
        PROVE  [Abstract!Next]_phase
    <2>1. i \in pending /\ pending' = pending \ {i} /\ UNCHANGED <<idempotency, req>>
      BY <1>5 DEF ConfirmIntent, drop_pending
    <2>2. \A j \in Intents : j # i => sends'[j] = sends[j]
      BY <1>0, <1>5 DEF ConfirmIntent, submit_plan
    <2>3. req[i].key \in Keys /\ Moves(req[i].key)
      BY <2>1, <2>2, DecideMoves
    <2>4. PICK k \in Keys : Moves(k)
      BY <2>3
    <2> QED
      BY <2>4, MovesAbstract
  <1>6. ASSUME NEW i \in Intents, NEW r \in Requests,
               NEW accepted \in BOOLEAN, NEW late \in BOOLEAN,
               SubmitIntent(i, r, accepted, late)
        PROVE  [Abstract!Next]_phase
    <2>1. /\ reply[i] = "none" /\ idempotency[r.key] = NoIntent
          /\ idempotency' = [idempotency EXCEPT ![r.key] = i]
          /\ pending' \in {pending, pending \cup {i}}
      BY <1>6 DEF SubmitIntent, is_new_key
    <2>2. \A j \in Intents : j # i => sends'[j] = sends[j]
      BY <1>0, <1>6 DEF SubmitIntent, submit_plan
    <2>3. r.key \in Keys /\ Moves(r.key)
      BY <2>1, <2>2, ReceiveMoves
    <2> QED
      BY <2>3, MovesAbstract
  <1>7. CASE UNCHANGED vars
    <2>1. UNCHANGED <<idempotency, sends, pending>>
      BY <1>7 DEF vars, coordVars
    <2> QED
      BY <2>1, SamePhase
  <1>8. \A i \in Intents : ConfirmExpired(i) => i \in pending
    BY DEF ConfirmExpired
  <1> QED
    BY <1>1, <1>2, <1>3, <1>4, <1>5, <1>6, <1>7, <1>8 DEF Next, ApiCall

\* The detailed coordinator implements OrderOnce: a command that was rejected,
\* expired, cancelled or failed is never sent, one that was sent is never sent
\* again, for any number of intents and keys.
THEOREM Refinement == Spec => ImplementsOrderOnce
  <1>1. Init => Abstract!Init
    BY DEF Init, Abstract!Init, phase
  <1> QED
    BY <1>1, Invariance, StepSimulation, PTL DEF Spec, ImplementsOrderOnce, Abstract!Spec
-----------------------------------------------------------------------------
(* What is sent, and what is counted *)

\* The intents with a bracket at the broker, and the working order of each.
Sent == {i \in Intents : sends[i] > 0}
Entry(i, r) == [id |-> runtime_order_id(i), inst |-> r.inst, side |-> EntrySide(r), qty |-> r.qty]

\* Every bracket has its working order, for good: a fill reports an order_id no
\* working order carries, and moves the position of a symbol that is no
\* instrument.
Counted ==
  /\ IsFiniteSet(Sent)
  /\ working = {Entry(i, req[i]) : i \in Sent}
  /\ \A inst \in Instruments : positions[inst] = 0

\* A bracket is sent for an intent that has none, past the hard checks.
Sends(i, r) ==
  /\ r \in Requests /\ sends[i] = 0 /\ task[i] = "idle"
  /\ ~HardRisk(r)
  /\ submit_bracket(i)
  /\ req' = [req EXCEPT ![i] = r]
  /\ sends' = [sends EXCEPT ![i] = 1]
  /\ working' = working \cup {Entry(i, r)}
  /\ positions' = positions

\* A step that sends nothing.
Quiet ==
  /\ sends' = sends /\ working' = working
  /\ \A i \in Sent : req'[i] = req[i]
  /\ \A inst \in Instruments : positions'[inst] = positions[inst]
  /\ routerVars' = routerVars \/ \E i \in Intents : RouterTask(i)

\* submit_plan sends a bracket or leaves the broker alone.
LEMMA PlanSends ==
  ASSUME IInv, NEW i \in Intents, NEW r \in Requests, NEW cur, NEW d, NEW accepted \in BOOLEAN,
         NEW late, submit_plan(i, r, cur, d, accepted, late), sends[i] = 0, task[i] = "idle",
         d = evaluate(r), d # "REJECTED", req' = [req EXCEPT ![i] = r], positions' = positions
  PROVE  Sends(i, r) \/ Quiet
<1>1. ~HardRisk(r)
  BY DEF evaluate
<1>2. CASE accepted
  <2>1. submit_bracket(i) /\ sends' = [sends EXCEPT ![i] = sends[i] + 1]
        /\ working' = working \cup {Entry(i, r)}
    BY <1>2 DEF submit_plan, Entry
  <2> QED  BY <1>1, <2>1 DEF Sends
<1>3. CASE ~accepted
  <2>1. UNCHANGED <<routerVars, working, sends>>
    BY <1>3 DEF submit_plan
  <2>2. \A j \in Sent : req'[j] = req[j]
    BY DEF Sent, IInv, TypeOK
  <2> QED  BY <2>1, <2>2 DEF Quiet
<1> QED  BY <1>2, <1>3

\* So does every step.
LEMMA StepSends ==
  ASSUME IInv, [Next]_vars
  PROVE  (\E i \in Intents, r \in Requests : Sends(i, r)) \/ Quiet
<1>1. \A i \in Intents : sends[i] \in Nat /\ (sends[i] = 0 => task[i] = "idle")
  BY DEF IInv, TypeOK, Bracketed
<1>2. ASSUME NEW i \in Intents, NEW r \in Requests, NEW accepted \in BOOLEAN, NEW late \in BOOLEAN,
             SubmitIntent(i, r, accepted, late)
      PROVE  Sends(i, r) \/ Quiet
  <2>1. sends[i] = 0 /\ req' = [req EXCEPT ![i] = r] /\ positions' = positions
    BY <1>1, <1>2 DEF SubmitIntent, IInv, Bracketed, Registered
  <2>2. CASE UNCHANGED <<routerVars, working, sends>>
    BY <2>1, <2>2 DEF Quiet, Sent, IInv, TypeOK
  <2>3. CASE ~UNCHANGED <<routerVars, working, sends>>
    <3>1. PICK cur, d : /\ submit_plan(i, r, cur, d, accepted, late)
                        /\ d = evaluate(r) /\ d # "REJECTED"
      BY <1>2, <2>3 DEF SubmitIntent
    <3> QED  BY <1>1, <2>1, <3>1, PlanSends
  <2> QED  BY <2>2, <2>3
<1>3. ASSUME NEW i \in Intents, NEW accepted \in BOOLEAN, NEW late \in BOOLEAN,
             ConfirmIntent(i, accepted, late)
      PROVE  Sends(i, req[i]) \/ Quiet
  <2>1. sends[i] = 0 /\ req[i] \in Requests /\ req' = req /\ positions' = positions
    BY <1>3 DEF ConfirmIntent, IInv, TypeOK, Held
  <2>2. CASE UNCHANGED <<routerVars, working, sends>>
    BY <2>1, <2>2 DEF Quiet
  <2>3. CASE ~UNCHANGED <<routerVars, working, sends>>
    <3>1. PICK cur, d : /\ submit_plan(i, req[i], cur, d, accepted, late)
                        /\ d = evaluate(req[i]) /\ d # "REJECTED"
      BY <1>3, <2>3 DEF ConfirmIntent
    <3>2. req' = [req EXCEPT ![i] = req[i]]
      BY <2>1 DEF IInv, TypeOK
    <3>3. PICK r : r = req[i]
      OBVIOUS
    <3>4. Sends(i, r) \/ Quiet
      BY <1>1, <2>1, <3>1, <3>2, <3>3, PlanSends
    <3> QED  BY <3>3, <3>4
  <2> QED  BY <2>2, <2>3
<1>4. ASSUME NEW i \in Intents, RouterTask(i)  PROVE Quiet
  <2>1. req' = req /\ sends' = sends
    BY <1>4 DEF RouterTask, EntryAccepted, EntryFilled, StopActivated, coordVars
  <2>2. working' = working
    <3>1. \A w \in working : w.id # order_id(i)
      BY DEF IInv, TypeOK, order_id
    <3> QED  BY <1>4, <3>1 DEF RouterTask, EntryAccepted, EntryFilled, StopActivated, drop_working, coordVars
  <2>3. \A inst \in Instruments : positions'[inst] = positions[inst]
    <3>1. \A inst \in Instruments : inst # RoPrefix
      BY ExecutionConstants
    <3> QED  BY <1>4, <3>1 DEF RouterTask, EntryAccepted, EntryFilled, StopActivated, on_fill, FillSymbol,
                              IInv, TypeOK
  <2> QED  BY <1>4, <2>1, <2>2, <2>3 DEF Quiet
<1>5. CASE \/ \E i \in Intents : \/ SubmitNotReady(i) \/ ConfirmUnknown(i)
                                   \/ ConfirmExpired(i) \/ CancelIntent(i)
           \/ \E k \in Keys : SubmitDuplicate(k)
           \/ Environment
           \/ UNCHANGED vars
  <2>1. UNCHANGED <<routerVars, sends, working, req, positions>>
    BY <1>5 DEF SubmitNotReady, ConfirmUnknown, ConfirmExpired, CancelIntent, SubmitDuplicate,
                Environment, BootstrapReady, MarketState, AccountChanges, WindowElapses, vars, coordVars
  <2> QED  BY <2>1 DEF Quiet
<1>6. ASSUME NEW i \in Intents, NEW accepted \in BOOLEAN, NEW late \in BOOLEAN,
             ConfirmIntent(i, accepted, late)
      PROVE  (\E r \in Requests : Sends(i, r)) \/ Quiet
  <2>1. req[i] \in Requests
    BY <1>6 DEF ConfirmIntent, IInv, TypeOK, Held
  <2> QED  BY <1>3, <1>6, <2>1
<1>7. CASE ApiCall
  BY <1>2, <1>5, <1>6, <1>7, Zenon DEF ApiCall
<1> QED  BY <1>4, <1>5, <1>7, Zenon DEF Next

\* Each bracket sent is counted from its send on.
LEMMA CountedStep == IInv /\ Counted /\ [Next]_vars => Counted'
<1> SUFFICES ASSUME IInv, Counted, [Next]_vars  PROVE Counted'
  OBVIOUS
<1>1. CASE Quiet
  BY <1>1 DEF Quiet, Counted, Sent
<1>2. ASSUME NEW i \in Intents, NEW r \in Requests, Sends(i, r)  PROVE Counted'
  <2>1. Sent' = Sent \cup {i} /\ i \notin Sent
    BY <1>2 DEF Sends, Sent, IInv, TypeOK
  <2>2. IsFiniteSet(Sent')
    BY <2>1, FS_AddElement DEF Counted
  <2>3. req'[i] = r /\ \A j \in Sent : req'[j] = req[j]
    BY <1>2, <2>1 DEF Sends, Sent, IInv, TypeOK
  <2>4. working' = {Entry(j, req[j]) : j \in Sent} \cup {Entry(i, r)}
    BY <1>2 DEF Sends, Counted
  <2>5. working' = {Entry(j, req'[j]) : j \in Sent'}
    BY <2>1, <2>3, <2>4
  <2> QED  BY <1>2, <2>2, <2>5 DEF Counted, Sends
<1> QED  BY <1>1, <1>2, StepSends


-----------------------------------------------------------------------------
(* The exposure *)

\* The signed quantities of the brackets sent for an instrument, added up.
SignedQtys == [i \in Intents |-> Signed(EntrySide(req[i]), req[i].qty)]
Total(inst) == Sum(SignedQtys, {i \in Sent : req[i].inst = inst})

\* What has been sent has a signed quantity.
LEMMA SignedQtyType == IInv => \A i \in Sent : SignedQtys[i] \in Int
<1> SUFFICES ASSUME IInv, NEW i \in Sent  PROVE SignedQtys[i] \in Int
  OBVIOUS
<1>1. i \in Intents /\ req[i] \in Requests
  BY DEF Sent, IInv, TypeOK, Bracketed
<1>2. req[i].qty \in Int
  <2>1. \A q \in Quantities : q \in Int
    BY ExecutionConstants
  <2> QED  BY <1>1, <2>1 DEF Requests
<1> QED  BY <1>1, <1>2 DEF SignedQtys, Signed

\* The evaluator's exposure is that total: the filled position and the working
\* orders of the instrument together count each bracket once.
LEMMA ExposureIsTotal ==
  ASSUME IInv, Counted, NEW inst \in Instruments
  PROVE  effective_exposure(inst) = Total(inst)
<1> DEFINE U == {i \in Sent : req[i].inst = inst}
           W == [i \in Intents |-> Entry(i, req[i])]
           O == {w \in working : w.inst = inst}
           h == [w \in O |-> SignedQty(w)]
<1>1. IsFiniteSet(U) /\ U \subseteq Sent /\ U \subseteq Intents
  BY FS_Subset DEF Counted, Sent
<1>2. \A i \in U : W[i] = Entry(i, req[i]) /\ W[i] \in O
  BY <1>1 DEF Counted, Entry
<1>3. \A i, j \in U : W[i] = W[j] => i = j
  BY <1>1, <1>2 DEF Entry, runtime_order_id
<1>4. \A i \in U : SignedQtys[i] \in Int /\ h[W[i]] = SignedQtys[i]
  BY <1>1, <1>2, SignedQtyType DEF Entry, SignedQty, SignedQtys
<1>5. {W[i] : i \in U} = O
  <2>1. ASSUME NEW w \in O  PROVE w \in {W[i] : i \in U}
    <3>1. PICK i \in Sent : w = Entry(i, req[i])
      BY DEF Counted
    <3>2. i \in U
      BY <3>1 DEF Entry
    <3> QED  BY <1>2, <3>1, <3>2
  <2> QED  BY <1>2, <2>1
<1>6. effective_exposure(inst) = positions[inst] + MapThenSumSet(SignedQty, O)
  BY DEF effective_exposure
<1>7. MapThenSumSet(SignedQty, O) = Sum(h, O)
  <2> HIDE DEF O
  <2> QED  BY DEF MapThenSumSet, MapThenFoldSet, Sum, IsSum
<1> HIDE DEF U, W, h, O
<1>8. Sum(SignedQtys, U) = Sum(h, O)
  <2>1. Sum(SignedQtys, U) = Sum(h, {W[i] : i \in U})
    BY <1>1, <1>3, <1>4, SumOfImages
  <2> QED  BY <1>5, <2>1
<1>9. positions[inst] = 0 /\ Sum(h, O) \in Int
  <2>1. Sum(SignedQtys, U) \in Int
    BY <1>1, <1>4, SumType
  <2> QED  BY <1>8, <2>1 DEF Counted
<1> QED  BY <1>6, <1>7, <1>8, <1>9 DEF Total, U

\* A new bracket moves the total by its quantity, up or down.
LEMMA TotalAdds ==
  ASSUME IInv, IInv', Counted, Counted', NEW i \in Intents, NEW r \in Requests, Sends(i, r)
  PROVE  /\ Total(r.inst) \in Int /\ Total(r.inst)' \in Int
         /\ Abs(Total(r.inst)') <= Abs(Total(r.inst)) + r.qty
<1> DEFINE U == {j \in Sent : req[j].inst = r.inst}
<1>1. Sent' = Sent \cup {i} /\ i \notin Sent /\ Sent \subseteq Intents
  BY DEF Sends, Sent, IInv, TypeOK
<1>2. req'[i] = r /\ \A j \in Sent : req'[j] = req[j]
  BY <1>1 DEF Sends, IInv, TypeOK
<1>3. {j \in Sent' : req'[j].inst = r.inst} = U \cup {i} /\ i \notin U /\ IsFiniteSet(U)
  <2>1. IsFiniteSet(U)
    BY FS_Subset DEF Counted
  <2> QED  BY <1>1, <1>2, <2>1
<1>4. \A j \in U \cup {i} : SignedQtys'[j] \in Int
  <2>1. \A j \in Sent' : SignedQtys'[j] \in Int
    <3>1. ASSUME NEW j \in Sent'  PROVE req'[j] \in Requests /\ j \in Intents
      BY DEF Sent, IInv, TypeOK, Bracketed
    <3>2. \A q \in Quantities : q \in Int
      BY ExecutionConstants
    <3>3. ASSUME NEW j \in Sent'  PROVE req'[j].qty \in Int
      BY <3>1, <3>2 DEF Requests
    <3> QED  BY <3>1, <3>3 DEF SignedQtys, Signed
  <2> QED  BY <1>1, <2>1
<1>5. \A j \in U : SignedQtys'[j] = SignedQtys[j]
  BY <1>1, <1>2 DEF SignedQtys
<1>6. Total(r.inst)' = Sum(SignedQtys', U \cup {i})
  BY <1>3 DEF Total
<1>7. Total(r.inst) = Sum(SignedQtys', U)
  <2>1. Total(r.inst) = Sum(SignedQtys, U)
    BY DEF Total
  <2>2. \A j \in U : SignedQtys[j] \in Int /\ SignedQtys'[j] = SignedQtys[j]
    BY <1>4, <1>5
  <2> HIDE DEF U
  <2> QED  BY <1>3, <2>1, <2>2, SumOfEquals DEF U
<1>8. Sum(SignedQtys', U) \in Int /\ Sum(SignedQtys', U \cup {i}) = SignedQtys'[i] + Sum(SignedQtys', U)
  <2> HIDE DEF U
  <2> QED  BY <1>3, <1>4, SumAdds
<1>9. SignedQtys'[i] \in {r.qty, -r.qty} /\ r.qty \in Nat
  <2>1. \A q \in Quantities : q \in Nat
    BY ExecutionConstants
  <2> QED  BY <1>2, <2>1 DEF SignedQtys, Signed, Requests
<1> QED  BY <1>6, <1>7, <1>8, <1>9 DEF Abs

\* The stop of a bracket follows its entry's fill.
StopStaged ==
  \A i \in Intents :
    /\ orderStatus[<<i, "stop">>] # "none" => orderStatus[<<i, "entry">>] = "FILLED" /\ task[i] = "done"
    /\ task[i] = "stop" => orderStatus[<<i, "entry">>] = "FILLED"

\* Every step keeps it: the child is activated by its own entry's coroutine.
LEMMA StopStagedStep == IInv /\ StopStaged /\ [Next]_vars => StopStaged'
<1> SUFFICES ASSUME IInv, StopStaged, [Next]_vars  PROVE StopStaged'
  OBVIOUS
<1>1. task \in [Intents -> TaskStates] /\ orderStatus \in [Intents \X Roles -> OrderStatuses]
  BY DEF IInv, TypeOK, RouterTypeOK, Orders
<1>2. ASSUME NEW i \in Intents, NEW r \in Requests, Sends(i, r)  PROVE StopStaged'
  BY <1>1, <1>2 DEF Sends, submit_bracket, StopStaged
<1>3. ASSUME NEW i \in Intents, RouterTask(i)  PROVE StopStaged'
  <2>1. <<i, "entry">> \in Intents \X Roles /\ <<i, "stop">> \in Intents \X Roles
    BY DEF Roles
  <2>2. AcceptEntry(i) \/ FillEntry(i) \/ ActivateStop(i)
    BY <1>3 DEF RouterTask, EntryAccepted, EntryFilled, StopActivated
  <2>3. CASE AcceptEntry(i)
    BY <1>1, <2>1, <2>3 DEF AcceptEntry, StopStaged
  <2>4. CASE FillEntry(i)
    BY <1>1, <2>1, <2>4 DEF FillEntry, StopStaged
  <2>5. CASE ActivateStop(i)
    BY <1>1, <2>1, <2>5 DEF ActivateStop, StopStaged
  <2> QED  BY <2>2, <2>3, <2>4, <2>5
<1>4. CASE routerVars' = routerVars
  BY <1>4 DEF routerVars, StopStaged
<1> QED  BY <1>2, <1>3, <1>4, StepSends DEF Quiet

\* Both hold in every reachable state.
LEMMA CountedAlways == Spec => [](Counted /\ StopStaged)
<1>1. Init => Counted /\ StopStaged
  <2> SUFFICES ASSUME Init  PROVE Counted /\ StopStaged
    OBVIOUS
  <2>1. Sent = {} /\ working = {} /\ \A inst \in Instruments : positions[inst] = 0
    BY DEF Init, Sent
  <2>2. \A i \in Intents : task[i] = "idle" /\ orderStatus[<<i, "stop">>] = "none"
    BY DEF Init, RouterInit, Orders, Roles
  <2> QED  BY <2>1, <2>2, FS_EmptySet DEF Counted, StopStaged
<1> QED  BY <1>1, CountedStep, StopStagedStep, Invariance, PTL DEF Spec

\* What rests at the broker is what the evaluator counts, for any number of
\* intents, contracts and instruments: a stop only behind a filled entry, and
\* every bracket sent exactly once in the exposure (invariant 5 of invariants.py).
THEOREM BrokerCounted == Spec => []BrokerStateIsCounted
<1>1. IInv /\ Counted /\ StopStaged => BrokerStateIsCounted
  <2> SUFFICES ASSUME IInv, Counted, StopStaged  PROVE BrokerStateIsCounted
    OBVIOUS
  <2>1. StopFollowsFill
    BY DEF StopStaged, StopFollowsFill
  <2>2. ASSUME NEW inst \in Instruments
        PROVE  effective_exposure(inst) =
                 MapThenSumSet(LAMBDA i : Signed(EntrySide(req[i]), req[i].qty),
                               {i \in Intents : sends[i] > 0 /\ req[i].inst = inst})
    <3> DEFINE U == {i \in Intents : sends[i] > 0 /\ req[i].inst = inst}
    <3>1. U = {i \in Sent : req[i].inst = inst} /\ U \subseteq Intents
      BY DEF Sent
    <3> HIDE DEF U
    <3> DEFINE f == [i \in U |-> Signed(EntrySide(req[i]), req[i].qty)]
    <3>2. MapThenSumSet(LAMBDA i : Signed(EntrySide(req[i]), req[i].qty), U) = Sum(f, U)
      BY DEF MapThenSumSet, MapThenFoldSet, Sum, IsSum
    <3>3. Sum(f, U) = Sum(SignedQtys, U)
      <4>1. \A i \in U : SignedQtys[i] \in Int /\ f[i] = SignedQtys[i]
        BY <3>1, SignedQtyType DEF SignedQtys
      <4>2. IsFiniteSet(U)
        BY <3>1, FS_Subset DEF Counted
      <4> HIDE DEF f
      <4> QED  BY <4>1, <4>2, SumOfEquals
    <3> QED  BY <3>1, <3>2, <3>3, ExposureIsTotal DEF Total, U
  <2> QED  BY <2>1, <2>2 DEF BrokerStateIsCounted, ExposureCountsEveryBracket
<1> QED  BY <1>1, Invariance, CountedAlways, PTL

-----------------------------------------------------------------------------
(* The hard risk checks *)

ExposureOK == \A inst \in Instruments : effective_exposure(inst) = Total(inst)

\* The exposure the risk check reads is the total of what has been sent.
LEMMA ExposureAlways == Spec => []ExposureOK
<1>1. IInv /\ Counted => ExposureOK
  BY ExposureIsTotal DEF ExposureOK
<1> QED  BY <1>1, Invariance, CountedAlways, PTL

\* Sending an opening bracket never takes the instrument's exposure past the
\* limit, for any limit and any number of amber intents approved against the
\* same exposure: confirm_intent evaluates again.
THEOREM WithinLimit == Spec => OpeningStaysWithinLimit
<1> DEFINE A == \A i \in Intents, inst \in Instruments :
                  (sends'[i] > sends[i] /\ req'[i].action \in Opening /\ req'[i].inst = inst)
                    => Abs(effective_exposure(inst)') <= MaxContracts
<1>1. IInv /\ IInv' /\ Counted /\ Counted' /\ ExposureOK /\ ExposureOK' /\ [Next]_vars => [A]_vars
  <2> SUFFICES ASSUME IInv, IInv', Counted, Counted', ExposureOK, ExposureOK', [Next]_vars,
                      NEW i \in Intents, NEW inst \in Instruments,
                      sends'[i] > sends[i], req'[i].action \in Opening, req'[i].inst = inst
               PROVE  Abs(effective_exposure(inst)') <= MaxContracts
    BY Zenon
  <2>1. sends \in [Intents -> Nat] /\ req \in [Intents -> Requests \cup {NoRequest}]
    BY DEF IInv, TypeOK
  <2>2. PICK j \in Intents, r \in Requests : Sends(j, r)
    BY <2>1, StepSends DEF Quiet
  <2>3. i = j /\ req'[i] = r
    BY <2>1, <2>2 DEF Sends
  <2>4. Abs(effective_exposure(inst)) + r.qty <= MaxContracts
    <3>1. Abs(effective_exposure(inst)) \in Int /\ r.qty \in Int
      <4>1. Total(inst) \in Int
        BY <2>2, <2>3, TotalAdds
      <4>2. \A q \in Quantities : q \in Int
        BY ExecutionConstants
      <4> QED  BY <4>1, <4>2 DEF ExposureOK, Abs, Requests
    <3>2. ~(Abs(effective_exposure(inst)) + r.qty > MaxContracts)
      BY <2>2, <2>3 DEF Sends, HardRisk
    <3> QED  BY <3>1, <3>2, ExecutionConstants
  <2>5. /\ Total(inst) \in Int /\ Total(inst)' \in Int
        /\ Abs(Total(inst)') <= Abs(Total(inst)) + r.qty
    BY <2>2, <2>3, TotalAdds
  <2>6. effective_exposure(inst) = Total(inst) /\ effective_exposure(inst)' = Total(inst)'
    BY DEF ExposureOK
  <2>7. r.qty \in Int
    <3>1. \A q \in Quantities : q \in Int
      BY ExecutionConstants
    <3> QED  BY <3>1 DEF Requests
  <2> QED  BY <2>4, <2>5, <2>6, <2>7, ExecutionConstants DEF Abs
<1>2. Spec => [][A]_vars
  BY <1>1, Invariance, CountedAlways, ExposureAlways, PTL DEF Spec
<1> QED  BY <1>2 DEF OpeningStaysWithinLimit

\* While the kill switch of an account "default" is on, or its loss limit is
\* breached, no bracket is sent: all that holds of the kill switch, since
\* account_snapshot asks for no other account, and the repository configures
\* accounts of other ids only (KillSwitchBlocksOrders is refuted).
THEOREM DefaultAccountBlocks ==
  Spec => [][("default" \in Accounts /\ account["default"] # "ok") => sends' = sends]_vars
<1>1. IInv /\ [Next]_vars => [("default" \in Accounts /\ account["default"] # "ok") => sends' = sends]_vars
  <2> SUFFICES ASSUME IInv, [Next]_vars, "default" \in Accounts, account["default"] # "ok"
               PROVE  sends' = sends
    OBVIOUS
  <2>1. account_snapshot \in {"halted", "breached"}
    BY DEF account_snapshot, IInv, TypeOK
  <2>2. \A i \in Intents, r \in Requests : ~Sends(i, r)
    BY <2>1 DEF Sends, HardRisk
  <2> QED  BY <2>2, StepSends DEF Quiet
<1> QED  BY <1>1, Invariance, PTL DEF Spec

=============================================================================
