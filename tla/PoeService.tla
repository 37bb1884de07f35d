------------------------------ MODULE PoeService ------------------------------
(***************************************************************************)
(* What the command queue of realtek-poe promises to the rest of the       *)
(* daemon, with no list, timer, sequence number or serial line: commands   *)
(* are numbered in the order in which they are queued, they are retired    *)
(* one by one in that order, and the MCU executes the oldest one that is   *)
(* not retired, at most once.  A command may be retired without having     *)
(* been executed: the MCU rejected it too often.                           *)
(*                                                                         *)
(* The promise ends where the service is disturbed: by a reply frame that  *)
(* answers no command, or by a restart of the daemon.  From then on this   *)
(* specification allows everything.                                        *)
(***************************************************************************)
EXTENDS Naturals

VARIABLES
  accepted,  \* commands queued so far
  retired,   \* commands the daemon is done with
  executed,  \* the command the MCU executed last (0: none)
  executions, \* how many commands the MCU has executed
  disturbed  \* a stray frame or a restart has been met

serviceVars == <<accepted, retired, executed, executions, disturbed>>

Init ==
  /\ accepted \in Nat \ {0}
  /\ retired = 0
  /\ executed = 0
  /\ executions = 0
  /\ disturbed = FALSE

Accept ==
  /\ accepted' \in Nat
  /\ accepted' > accepted
  /\ UNCHANGED <<retired, executed, executions>>

Execute ==
  /\ retired < accepted
  /\ executed <= retired
  /\ executed' = retired + 1
  /\ executions' = executions + 1
  /\ UNCHANGED <<accepted, retired>>

Retire ==
  /\ retired < accepted
  /\ retired' = retired + 1
  /\ UNCHANGED <<accepted, executed, executions>>

Serve ==
  /\ ~disturbed
  /\ Accept \/ Execute \/ Retire
  /\ UNCHANGED disturbed

Next == Serve \/ disturbed'

Spec == Init /\ [][Next]_serviceVars
=============================================================================
