---------------------------- MODULE MCRiskEngine ----------------------------
(* Instances of RiskEngine. *)
EXTENDS RiskEngine

\* An open gain that activates profit protection, and a realized loss at the floor.
PnLFigures == {<<0, 6>>, <<-6, 0>>}

\* Levels that make a plan, and one set for each reason not to: a missing target, no
\* distance to the stop, a stop too far for one unit, too little reward.
SetupLevels ==
  {[entry |-> 5, stop |-> 4, target |-> 7], [entry |-> 5, stop |-> 4, target |-> NoLevel],
   [entry |-> 5, stop |-> 5, target |-> 7], [entry |-> 5, stop |-> 3, target |-> 9],
   [entry |-> 5, stop |-> 4, target |-> 6]}
=============================================================================
