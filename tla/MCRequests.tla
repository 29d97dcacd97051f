---------------------------- MODULE MCRequests ----------------------------
(* An instance of Requests for TLC.                                          *)
EXTENDS Requests, TLC

\* br_move_user is refused while there is one already.
MoveOnly == [move |-> {"move"}]
=============================================================================
