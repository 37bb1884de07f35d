------------------------------- MODULE PoeSetup -------------------------------
(***************************************************************************)
(* poet_setup of realtek-poe (realtek-poe-tfortis/src/main.c): the enabled *)
(* ports are packed, GroupSize at a time, into messages that set a         *)
(* property of up to GroupSize ports each.  The loop keeps its place in i  *)
(* across groups and reuses its arrays; slots of a group that stay empty   *)
(* are overwritten with 0xff.                                              *)
(*                                                                         *)
(* The three arrays priorities, powerup_mode and limit_type are filled by  *)
(* consecutive assignments from the same port and are one array here.  A   *)
(* port's settings are abstracted to whose settings they are.              *)
(***************************************************************************)
EXTENDS Integers, Sequences, FiniteSets

CONSTANTS
  GroupSize,  \* 4 in the code
  MaxPorts,   \* bound: the largest number of ports (MAX_PORT, 24, in the code)
  Unused,     \* 0xff: the MCU ignores the slot
  Garbage     \* what an array holds before it is first written

Slots == 0 .. GroupSize - 1

VARIABLES
  num_ports,   \* config.port_count
  enabled,     \* the ports whose config has enable set
  pc,          \* "scan": in the inner loop, "emit": behind it, "done"
  i,           \* the port looked at
  num_okay,    \* slots filled in this group
  port_ids,    \* the port of each slot
  data,        \* the port whose settings each slot holds
  enable_all,  \* 1, or Unused once the slot was blanked
  sent         \* the groups queued so far

vars == <<num_ports, enabled, pc, i, num_okay, port_ids, data, enable_all, sent>>

Init ==
  /\ num_ports \in 0 .. MaxPorts
  /\ enabled \in SUBSET (0 .. num_ports - 1)
  /\ pc = "scan"
  /\ i = 0
  /\ num_okay = 0
  /\ port_ids = [k \in Slots |-> Garbage]
  /\ data = [k \in Slots |-> Garbage]
  /\ enable_all = [k \in Slots |-> 1]
  /\ sent = <<>>

-----------------------------------------------------------------------------
(* The inner loop looks at port i. *)

Skip ==
  /\ pc = "scan"
  /\ i < num_ports
  /\ i \notin enabled
  /\ i' = i + 1
  /\ UNCHANGED <<num_ports, enabled, pc, num_okay, port_ids, data, enable_all, sent>>

(* Mutant: the port is advanced before the break as well. *)
MutTakeAdvances ==
  /\ pc = "scan"
  /\ i < num_ports
  /\ i \in enabled
  /\ port_ids' = [port_ids EXCEPT ![num_okay] = i]
  /\ data' = [data EXCEPT ![num_okay] = i]
  /\ num_okay' = num_okay + 1
  /\ i' = i + 1
  /\ pc' = IF num_okay + 1 = GroupSize THEN "emit" ELSE "scan"
  /\ UNCHANGED <<num_ports, enabled, enable_all, sent>>

(* It fills the next slot, and leaves the loop, without advancing i, when  *)
(* that was the last one.                                                  *)
Take ==
  /\ pc = "scan"
  /\ i < num_ports
  /\ i \in enabled
  /\ port_ids' = [port_ids EXCEPT ![num_okay] = i]
  /\ data' = [data EXCEPT ![num_okay] = i]
  /\ num_okay' = num_okay + 1
  /\ IF num_okay + 1 = GroupSize
       THEN pc' = "emit" /\ UNCHANGED i
       ELSE i' = i + 1 /\ UNCHANGED pc
  /\ UNCHANGED <<num_ports, enabled, enable_all, sent>>

LeaveLoop ==
  /\ pc = "scan"
  /\ i >= num_ports
  /\ pc' = "emit"
  /\ UNCHANGED <<num_ports, enabled, i, num_okay, port_ids, data, enable_all, sent>>

(* memset of the slots from num_okay on. *)
Blank(array) == [k \in Slots |-> IF k >= num_okay THEN Unused ELSE array[k]]

(* Blank what is left, queue the messages of the group, go round again     *)
(* while there are ports.                                                  *)
Emit ==
  /\ pc = "emit"
  /\ port_ids' = Blank(port_ids)
  /\ data' = Blank(data)
  /\ enable_all' = Blank(enable_all)
  /\ sent' = Append(sent, [port |-> port_ids', data |-> data', enable |-> enable_all'])
  /\ num_okay' = 0
  /\ i' = i + 1
  /\ pc' = IF i + 1 < num_ports THEN "scan" ELSE "done"
  /\ UNCHANGED <<num_ports, enabled>>

Next == Skip \/ Take \/ LeaveLoop \/ Emit

Spec == Init /\ [][Next]_vars

-----------------------------------------------------------------------------
(* Properties *)

Places(p) == {gk \in (1 .. Len(sent)) \X Slots : sent[gk[1]].port[gk[2]] = p}

(* When poet_setup returns, every enabled port stands in exactly one slot  *)
(* of one group and no other port in any, wherever the disabled ports lie. *)
EachEnabledOnce ==
  pc = "done" =>
    \A p \in 0 .. num_ports :
      IF p \in enabled THEN \E gk \in Places(p) : Places(p) = {gk}
                       ELSE Places(p) = {}

(* A slot names the same port in the messages of its group, and is unused  *)
(* in all of them or in none: no slot carries what an earlier group, or    *)
(* nobody, left in the arrays.                                             *)
SlotsAgree ==
  \A g \in 1 .. Len(sent) : \A k \in Slots :
    /\ sent[g].data[k] = sent[g].port[k]
    /\ sent[g].enable[k] = Unused <=> sent[g].port[k] = Unused
=============================================================================
