------------------------------- MODULE PoeStart -------------------------------
(***************************************************************************)
(* What main of realtek-poe computes before it talks to the MCU            *)
(* (realtek-poe-tfortis/src/main.c): close_map completes the map of        *)
(* command ids, then poe_initial_setup packs the ports into groups.        *)
(***************************************************************************)
EXTENDS PoeCmdMap

CONSTANTS GroupSize, MaxPorts, Unused, Garbage

(* 0xff is neither a port nor the flag that switches a port on; the arrays *)
(* may hold anything before they are written.                              *)
ASSUME StartAssumption ==
  /\ GroupSize \in Nat \ {0}
  /\ MaxPorts \in Nat
  /\ Unused \notin 0 .. MaxPorts /\ Unused # 1

VARIABLES num_ports, enabled, pc, port, num_okay, port_ids, data, enable_all, sent

Setup == INSTANCE PoeSetup WITH i <- port

setupVars == <<num_ports, enabled, pc, port, num_okay, port_ids, data, enable_all, sent>>
allVars == <<mapVars, setupVars>>

StartInit == MapInit /\ Setup!Init

StartNext ==
  \/ close_map /\ UNCHANGED setupVars
  \/ Closed /\ Setup!Next /\ UNCHANGED mapVars

StartSpec == StartInit /\ [][StartNext]_allVars

-----------------------------------------------------------------------------
(* Properties of PoeSetup, which come after the map is closed *)

(* When poet_setup returns, every enabled port stands in exactly one slot  *)
(* of one group and no other port in any, wherever the disabled ports lie. *)
(* A slot names the same port in the messages of its group, and is unused  *)
(* in all of them or in none: no slot carries what an earlier group, or    *)
(* nobody, left in the arrays.                                             *)
SetupIsExact == Setup!EachEnabledOnce /\ Setup!SlotsAgree
=============================================================================
