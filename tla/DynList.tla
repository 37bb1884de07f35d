------------------------------ MODULE DynList -------------------------------
(* The dynamic list (luci-base, ui.js): a list of values, added from a combo *)
(* box whose event handler runs in the middle of the box's own selection, or *)
(* from a plain text input when the option offers no choices. A choice that  *)
(* is in the list is unselectable in the box; a choice the user typed is     *)
(* there only as long as its value is in the list.                           *)
EXTENDS Dropdown

CONSTANTS MaxList     \* bound on the length of the list
VARIABLE dyn          \* [plain, text, list, box]

Combobox == [multiple |-> FALSE, optional |-> TRUE, create |-> TRUE]

addItem(d, v) == [d EXCEPT !.list = IF Contains(@, v) THEN @ ELSE Append(@, v)]

MutLeavesUnselectable(d, v) == [d EXCEPT !.list = Without(@, {v})]

(* The choice becomes selectable again, or goes when the user made it.       *)
removeItem(d, v) ==
  LET items == d.box.items
      kept  == Without(items, {it \in Range(items) : it.v = v /\ it.made = "custom"})
  IN  [d EXCEPT !.list = Without(@, {v}),
                !.box.items = [i \in DOMAIN kept |->
                   IF kept[i].v = v THEN [kept[i] EXCEPT !.un = FALSE] ELSE kept[i]]]

(* Runs inside the change event of the box: the box goes back to its         *)
(* placeholder, the picked choice becomes unselectable.                      *)
handleDropdownChange(d, picked) ==
  LET empty == setValues(picked, <<>>)
      v     == Head(getValue(picked))
      mark  == [i \in DOMAIN empty.items |->
                  IF empty.items[i].v # v THEN empty.items[i]
                  ELSE [empty.items[i] EXCEPT !.un = TRUE,
                          !.made = IF @ = "created" THEN "custom" ELSE @]]
  IN  IF getValue(picked) = <<>> THEN [d EXCEPT !.box = picked]
      ELSE addItem([d EXCEPT !.box = [empty EXCEPT !.items = mark]], v)

setList(d, values) ==
  FoldLeft(addItem, FoldLeft(removeItem, d, d.list), values)

(* The text still in the plain input counts as an entry.                     *)
getList(d) ==
  IF d.plain /\ d.text # "" /\ ~Contains(d.list, d.text) THEN Append(d.list, d.text) ELSE d.list

DynRender(plain, values, menu) ==
  FoldLeft(addItem, [plain |-> plain, text |-> "", list |-> <<>>,
                     box |-> render(Combobox, <<>>, menu)], values)

(* Bound: no menu of a dynamic list offers the empty string.                 *)
DynInit ==
  \E plain \in BOOLEAN, values \in Targets \cup {<<"a", "a">>}, menu \in Menus :
    "" \notin Range(menu) /\ dyn = DynRender(plain, values, menu)

Room == Len(dyn.list) < MaxList

Pick(k) ==
  /\ ~dyn.plain /\ Room
  /\ ~dyn.box.items[k].un
  /\ dyn' = handleDropdownChange(dyn, toggleItem(dyn.box, k, "flip"))
TypeOwn(v) ==
  /\ ~dyn.plain /\ Room
  /\ LET box1 == createItem(dyn.box, v)
     IN  dyn' = IF box1 = dyn.box THEN dyn ELSE handleDropdownChange(dyn, box1)
RemoveEntry(v) == dyn' = removeItem(dyn, v)
TypeText(v) == dyn.plain /\ dyn' = [dyn EXCEPT !.text = v]
AddText ==
  /\ dyn.plain /\ dyn.text # "" /\ Room
  /\ dyn' = [addItem(dyn, dyn.text) EXCEPT !.text = ""]
SetList(values) == dyn' = setList(dyn, values)
ClearSuggestions == ~dyn.plain /\ dyn' = [dyn EXCEPT !.box = clearChoices(@, FALSE)]
AddSuggestions == ~dyn.plain /\ dyn' = [dyn EXCEPT !.box = addChoices(@, Offered)]

DynNext ==
  \/ \E k \in DOMAIN dyn.box.items : Pick(k)
  \/ \E text \in OwnTexts : Len(text) = 1 /\ TypeOwn(text[1])
  \/ \E v \in Range(dyn.list) : RemoveEntry(v)
  \/ \E text \in OwnTexts \cup {<<"">>} : Len(text) = 1 /\ TypeText(text[1])
  \/ AddText
  \/ \E values \in Targets : SetList(values)
  \/ ClearSuggestions
  \/ AddSuggestions

(* No value is in the list twice, the text about to be added included; what  *)
(* the box refuses to select, and every choice the user made, is in the      *)
(* list; and the box always shows its placeholder.                           *)
ListConsistent(d) ==
  /\ IsInjective(getList(d))
  /\ \A i \in DOMAIN d.box.items :
       LET it == d.box.items[i]
       IN  it.v # CreateValue /\ (it.un \/ it.made # "choice") => Contains(d.list, it.v)
  /\ BoxConsistent(d.box) /\ getValue(d.box) = <<>>
=============================================================================
