----------------------------- MODULE MCAutorestart -----------------------------
(* Instances of Autorestart for TLC. *)
EXTENDS Autorestart

Param(d, n, m) == [test_delay |-> d, test_num |-> n, max_reset |-> m]

(* Rounds twice as often as the timer runs, as often, and more seldom.      *)
MCDemonParams == {Param(1, 2, 1), Param(2, 2, 2), Param(5, 1, 1)}
=============================================================================
