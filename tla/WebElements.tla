---------------------------- MODULE WebElements -----------------------------
(* One page at a time, with one of the elements that keep state of their own *)
(* between two saves: a drop-down, a dynamic list, the table of VLANs or a   *)
(* realtime graph.                                                           *)
EXTENDS DynList, VlanTable, LiveGraph

VARIABLE open   \* the element of the page

Closed == [page |-> "closed"]
graphVars == <<graph, bwc, taken, missed>>
elementVars == <<open, box, cleared, dyn, vlan, graph, bwc, taken, missed>>

NoGraph == graph = Closed /\ bwc = Closed /\ taken = <<>> /\ missed = FALSE

NoBox == box = Closed /\ cleared = FALSE
boxVars == <<box, cleared>>

ElementsInit ==
  \/ open = "choice" /\ BoxInit /\ dyn = Closed /\ vlan = Closed /\ NoGraph
  \/ open = "list" /\ DynInit /\ NoBox /\ vlan = Closed /\ NoGraph
  \/ open = "vlan" /\ VlanInit /\ NoBox /\ dyn = Closed /\ NoGraph
  \/ open = "graph" /\ GraphInit /\ NoBox /\ dyn = Closed /\ vlan = Closed

ElementsNext ==
  /\ UNCHANGED open
  /\ \/ open = "choice" /\ BoxNext /\ UNCHANGED <<dyn, vlan, graphVars>>
     \/ open = "list" /\ DynNext /\ UNCHANGED <<boxVars, vlan, graphVars>>
     \/ open = "vlan" /\ VlanNext /\ UNCHANGED <<boxVars, dyn, graphVars>>
     \/ open = "graph" /\ GraphNext /\ UNCHANGED <<boxVars, dyn, vlan>>

ElementsSpec == ElementsInit /\ [][ElementsNext]_elementVars

(* The value a form reads from a drop-down (ui.js, saveValues and getValue)  *)
(* is what is selected in it, after any sequence of clicks, keys, own texts  *)
(* and calls that exchange its choices; and what a script sets, a list or    *)
(* null, is what is read next. A widget for several values that must not be  *)
(* empty may keep one old value, because toggleItem does not take away the   *)
(* last; so may a widget for one value without a placeholder. After          *)
(* clearChoices(true), and until something is selected again, the hidden     *)
(* inputs may still have the old value: then nothing is claimed of what is   *)
(* read, and of what is set only if the widget has an item for it.           *)
ChoiceIsRead ==
  open = "choice" =>
    /\ ~cleared => BoxConsistent(box)
    /\ \A asked \in {Asked(box, values) : values \in Targets} \cup {<<>>} :
         (cleared => Can(box, asked) # {}) => BoxTakes(box, asked)

(* A dynamic list (ui.js, addItem, removeItem and handleDropdownChange,      *)
(* which runs inside the event of the box) holds no value twice, and its box *)
(* refuses no choice that is not in the list: an entry that is removed can   *)
(* be picked again.                                                          *)
ListMatchesBox == open = "list" => ListConsistent(dyn)

(* The cells of the VLAN table (8021q.js and tools/network.js, toggleItem    *)
(* and setValue across rows) never show a contradictory state, a port has    *)
(* one primary VLAN as long as no row was refused, and where the write of    *)
(* 8021q.js checks it a port is saved untagged in two VLANs at most, in only *)
(* one of them as primary, in whatever order rows are written.               *)
PortsConsistent == open = "vlan" => CellsConsistent(vlan) /\ UntaggedApart(vlan)

(* What the check of 8021q.js is for, by its comment ("an untagged port is   *)
(* not met in other VLANs") and its message: it does not hold, see the run   *)
(* vlan_untagged.                                                            *)
UntaggedInOneVlan ==
  open = "vlan" /\ vlan.checked => \A p \in vlan.ports : Cardinality(UntaggedIn(vlan, p)) <= 1

(* The window of a realtime graph (pollData of the status pages) is the      *)
(* newest part of what the collector stored, although every poll returns old *)
(* samples again and polls fail or come late.                                *)
WindowIsLatest == open = "graph" => WindowConsistent(graph.g, taken, missed)
=============================================================================
