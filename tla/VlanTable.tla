----------------------------- MODULE VlanTable ------------------------------
(* The table of VLANs: a row per bridge-vlan section, a drop-down cell per   *)
(* port with the items not member, untagged, tagged and primary. It exists   *)
(* twice: on the 802.1Q page of luci-app-tfortis-vlan, whose write refuses a *)
(* row with an untagged port of another row, and in the bridge dialog of     *)
(* luci-mod-network, where the ports of the bridge can change under the      *)
(* table. The cells are widgets of Dropdown with their own toggleItem.       *)
(*                                                                           *)
(* A saved entry is the text after the port's name: Bare for 'lan1', Absent  *)
(* when the port is not in the list, a sequence of flags for 'lan1:u*', and  *)
(* the empty sequence for 'lan1:'.                                           *)
EXTENDS Dropdown

CONSTANTS AllPorts, MaxRows,
          MaxCells(_)   \* bound on rows times ports, with and without the check
VARIABLE vlan   \* [checked, ports, rows of [saved, cells], refused, slipped]

Absent == <<"absent">>
Bare == <<"bare">>
CellKind == [multiple |-> TRUE, optional |-> FALSE, create |-> FALSE]
States == <<"-", "u", "t", "*">>

(* cfgvalue reads an entry, Encode is the inner part of write.               *)
cfgvalue(entry) ==
  IF entry = Absent THEN <<"-">>
  ELSE <<IF Contains(entry, "t") THEN "t" ELSE "u">>
       \o (IF Contains(entry, "*") THEN <<"*">> ELSE <<>>)
Encode(value) == IF value = <<"-">> THEN Absent ELSE IF value = <<"u">> THEN Bare ELSE value

Mark(cell, v, un) ==
  [cell EXCEPT !.items = [i \in DOMAIN @ |-> IF @[i].v = v THEN [@[i] EXCEPT !.un = un] ELSE @[i]]]

renderWidget(entry) ==
  LET cell == render(CellKind, cfgvalue(entry), States)
  IN  Mark(cell, "*", cfgvalue(entry) = <<"-">>)
Redraw(rows) ==
  [r \in DOMAIN rows |-> [rows[r] EXCEPT !.cells = [p \in AllPorts |-> renderWidget(rows[r].saved[p])]]]

Off(cell, vs) ==
  FoldLeft(LAMBDA b, k : IF b.items[k].v \in vs THEN toggleItem(b, k, "off") ELSE b,
           cell, <<1, 2, 3, 4>>)

MutKeepsPrimary(cell, k) ==
  LET b == toggleItem(cell, k, "flip")
      v == b.items[k].v
  IN  IF ~b.items[k].sel THEN IF v \in {"t", "u"} THEN toggleItem(b, k, "on") ELSE b
      ELSE IF v = "*" THEN b ELSE Off(b, {"-", "u", "t"} \ {v})

(* A click on one item of a cell: not member, untagged and tagged exclude    *)
(* each other, and what is not a member cannot be primary.                   *)
toggleState(cell, k) ==
  LET b == toggleItem(cell, k, "flip")
      v == b.items[k].v
  IN  CASE ~b.items[k].sel -> IF v \in {"t", "u"} THEN toggleItem(b, k, "on") ELSE b
        [] b.items[k].sel /\ v = "-" -> Mark(Off(b, {"u", "t", "*"}), "*", TRUE)
        [] b.items[k].sel /\ v \in {"u", "t"} -> Mark(Off(b, {"-", "u", "t"} \ {v}), "*", FALSE)
        [] b.items[k].sel /\ v = "*" -> b

(* The first other row in which the port is primary gives that up.           *)
clearPrimary(rows, r, p) ==
  LET primary == {o \in DOMAIN rows \ {r} : Contains(getValue(rows[o].cells[p]), "*")}
  IN  IF primary = {} THEN rows
      ELSE LET o == CHOOSE o \in primary : \A q \in primary : o <= q
           IN  [rows EXCEPT ![o].cells[p] =
                  setValue(@, Without(getValue(@), {"*"}))]

-----------------------------------------------------------------------------
Changed(row, ports) == {p \in ports : getValue(row.cells[p]) # cfgvalue(row.saved[p])}

(* An entry without ":t" that stands word for word in another row.           *)
Clashes(rows, r, new) ==
  \E o \in DOMAIN rows \ {r}, p \in AllPorts :
    new[p] = rows[o].saved[p] /\ new[p] # Absent /\ ~Contains(new[p], "t")

(* The rows are written one after the other, each against what the others    *)
(* have saved by then. A refused row keeps its saved ports.                  *)
write(v, r, new) ==
  IF v.checked /\ Clashes(v.rows, r, new) THEN [v EXCEPT !.refused = TRUE]
  ELSE [v EXCEPT !.rows[r].saved = new]

Cells(v, r) == [p \in AllPorts |-> IF p \in v.ports THEN Encode(getValue(v.rows[r].cells[p])) ELSE Absent]
parse(v) ==
  FoldLeft(LAMBDA w, r : IF Changed(w.rows[r], w.ports) = {} THEN w ELSE write(w, r, Cells(w, r)),
           v, [r \in DOMAIN v.rows |-> r])
Redrawn(v) == [v EXCEPT !.rows = Redraw(@)]

NewRow == [saved |-> [p \in AllPorts |-> Absent], cells |-> [p \in AllPorts |-> renderWidget(Absent)]]

VlanInit ==
  \E checked \in BOOLEAN, ports \in (SUBSET AllPorts) \ {{}} :
    vlan = [checked |-> checked, ports |-> ports, rows |-> <<>>, refused |-> FALSE, slipped |-> FALSE]

ClickState(r, p, k) ==
  LET cell == toggleState(vlan.rows[r].cells[p], k)
      rows == [vlan.rows EXCEPT ![r].cells[p] = cell]
  IN  vlan' = [vlan EXCEPT !.rows =
                 IF States[k] = "*" /\ cell.items[k].sel THEN clearPrimary(rows, r, p) ELSE rows]
VlanSave == vlan' = Redrawn(parse(vlan))
VlanReset == vlan' = Redrawn(vlan)
(* The 802.1Q page adds the section before the form is parsed, the dialog    *)
(* afterwards: the new row takes part in the check, with nothing saved.      *)
VlanAdd ==
  /\ Len(vlan.rows) < MaxRows /\ (Len(vlan.rows) + 1) * Cardinality(vlan.ports) <= MaxCells(vlan.checked)
  /\ vlan' = IF vlan.checked THEN Redrawn(parse([vlan EXCEPT !.rows = Append(@, NewRow)]))
             ELSE Redrawn([parse(vlan) EXCEPT !.rows = Append(@, NewRow)])
VlanRemove(r) == vlan' = Redrawn(parse([vlan EXCEPT !.rows = RemoveAt(@, r)]))

(* Another choice of ports in the bridge dialog: updatePorts drops the saved *)
(* entries of ports that left (and every 'lan1:', which its pattern does not *)
(* take apart), then the form is parsed. A port that is not drawn yet has no *)
(* value, and is written as 'lan1:' with a row that has other changes.       *)
SaveRows(rows, saved) == [r \in DOMAIN rows |-> [rows[r] EXCEPT !.saved = saved[r]]]
StillIn(saved, ports) == [p \in AllPorts |-> IF p \in ports /\ saved[p] # <<>> THEN saved[p] ELSE Absent]
updatePorts(v, ports) ==
  [v EXCEPT !.ports = ports,
            !.rows = SaveRows(v.rows, [r \in DOMAIN v.rows |-> StillIn(v.rows[r].saved, ports)])]
parsePorts(old, ports) ==
  LET v     == updatePorts(old, ports)
      drawn == ports \cap old.ports
      dirty == {r \in DOMAIN v.rows : Changed(v.rows[r], drawn) # {}}
      saved == [r \in DOMAIN v.rows |->
                 IF r \notin dirty THEN v.rows[r].saved
                 ELSE [p \in AllPorts |-> IF p \in drawn THEN Encode(getValue(v.rows[r].cells[p]))
                                          ELSE IF p \in ports THEN <<>> ELSE Absent]]
  IN  [v EXCEPT !.rows = SaveRows(v.rows, saved),
                !.slipped = @ \/ (dirty # {} /\ ports \ drawn # {})]
SetPorts(ports) ==
  /\ ~vlan.checked /\ ports # vlan.ports
  /\ Len(vlan.rows) * Cardinality(ports) <= MaxCells(vlan.checked)
  /\ vlan' = Redrawn(parsePorts(vlan, ports))

VlanNext ==
  \/ \E r \in DOMAIN vlan.rows, p \in vlan.ports, k \in DOMAIN States : ClickState(r, p, k)
  \/ VlanSave
  \/ VlanReset
  \/ VlanAdd
  \/ \E r \in DOMAIN vlan.rows : VlanRemove(r)
  \/ \E ports \in (SUBSET AllPorts) \ {{}} : SetPorts(ports)

(* Every cell is one of not member, untagged, tagged, or one of the last two *)
(* and primary; a port is primary in one row at most as long as no row was   *)
(* refused; a port the user did not choose is in no VLAN, unless ports were  *)
(* added to the bridge under a row with changes.                             *)
CellsConsistent(v) ==
  \A r \in DOMAIN v.rows, p \in v.ports :
    LET cell  == v.rows[r].cells[p]
        value == getValue(cell)
    IN  /\ value \in {<<"-">>, <<"u">>, <<"t">>, <<"u", "*">>, <<"t", "*">>}
        /\ BoxConsistent(cell)
        /\ cell.items[4].un <=> value = <<"-">>
        /\ v.rows[r].saved[p] = <<>> => v.slipped
        /\ ~v.refused => \A o \in DOMAIN v.rows \ {r} :
             ~(Contains(value, "*") /\ Contains(getValue(v.rows[o].cells[p]), "*"))

(* The rows whose VLAN has the port untagged, as it is saved.                *)
UntaggedIn(v, p) ==
  {r \in DOMAIN v.rows : v.rows[r].saved[p] # Absent /\ ~Contains(v.rows[r].saved[p], "t")}

(* On the page that checks it, two rows that have a port untagged differ in  *)
(* the primary mark, so there are two at most, whatever is moved between     *)
(* rows in one save. The check compares entries as texts and does not see    *)
(* that 'lan1' and 'lan1:u*' are the same port.                              *)
UntaggedApart(v) ==
  v.checked =>
    \A p \in v.ports : \A r, o \in UntaggedIn(v, p) :
      r # o => (Contains(v.rows[r].saved[p], "*") <=> ~Contains(v.rows[o].saved[p], "*"))
=============================================================================
