------------------------------ MODULE OrderOnce ------------------------------
(***************************************************************************)
(* What the execution subsystem promises a client, seen one idempotency    *)
(* key at a time: a command is either sent to the broker once, or closed   *)
(* without being sent; it may be held in between while the user is asked.  *)
(* Nothing is ever sent for a command that is closed, and a command that   *)
(* was sent stays sent (invariants 3 and 10 of execution/invariants.py).   *)
(***************************************************************************)
CONSTANT Keys
VARIABLE phase

Phases == {"unseen", "held", "sent", "closed"}

Init == phase = [k \in Keys |-> "unseen"]

Move(k, from, to) ==
  /\ phase[k] = from
  /\ phase' = [phase EXCEPT ![k] = to]

Receive(k) == \E to \in {"held", "sent", "closed"} : Move(k, "unseen", to)
Decide(k)  == \E to \in {"sent", "closed"} : Move(k, "held", to)

Next == \E k \in Keys : Receive(k) \/ Decide(k)

Spec == Init /\ [][Next]_phase
=============================================================================
