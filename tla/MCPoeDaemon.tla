------------------------------ MODULE MCPoeDaemon ------------------------------
(* Instances of PoeDaemon for TLC. *)
EXTENDS PoeDaemon, TLC

CONSTANTS n1, n2

S(i, n) == [id |-> i, name |-> n]

(* Two ports of different groups; the second one gone while it may be on;  *)
(* the second one off.                                                     *)
TwoGroupConfigs ==
  { [poe |-> <<S(1, n1), S(2, n2)>>, lan |-> <<TRUE, TRUE>>],
    [poe |-> <<S(1, n1)>>,           lan |-> <<TRUE>>],
    [poe |-> <<S(1, n1), S(2, n2)>>, lan |-> <<TRUE, FALSE>>] }
=============================================================================
