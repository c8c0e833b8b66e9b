---------------------------- MODULE MCDateReplay ----------------------------
(* Friday 1, Saturday 2 and Sunday 3 without a session of their own, Monday 4: Sunday and *)
(* Monday end with bars of the next session.                                              *)
EXTENDS DateReplay

MCTape == [d \in 0..4 |-> CASE d = 1 -> <<1, 1>> [] d = 3 -> <<4>> [] d = 4 -> <<4, 5>>
                             [] OTHER -> <<>>]
=============================================================================
