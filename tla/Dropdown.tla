------------------------------ MODULE Dropdown ------------------------------
(* The drop-down widget of the web interface (luci-base, ui.js): a list of   *)
(* items of which one or several are selected, and the hidden inputs from    *)
(* which a form reads the widget's value. Every other choice widget, the     *)
(* combo box, the dynamic list and the port cells of the VLAN table, is      *)
(* built on it.                                                              *)
(*                                                                           *)
(* A widget is a record: its options (multiple, optional, create), whether   *)
(* the list is open, its items in document order and the hidden inputs. An   *)
(* item has a value (NoValue for the placeholder), is selected or not, may   *)
(* be unselectable, and remembers whether a user's text made it.             *)
EXTENDS Integers, Sequences, FiniteSets, SequencesExt

NoValue == "(please choose)"
CreateValue == "-"

Item(v, selected) == [v |-> v, sel |-> selected, un |-> FALSE, made |-> "choice"]

(* filter() of a list: the elements that are not gone, in their order.        *)
Without(list, gone) ==
  FoldLeft(LAMBDA left, e : IF e \in gone THEN left ELSE Append(left, e), <<>>, list)

(* The selected items, by position, and what a form would read.              *)
SelectedItems(box) == {i \in DOMAIN box.items : box.items[i].sel}
Values(items) ==
  FoldLeft(LAMBDA values, it : IF it.sel /\ it.v # NoValue THEN Append(values, it.v) ELSE values,
           <<>>, items)
Positions(box, v) == {i \in DOMAIN box.items : box.items[i].v = v}

(* What could go wrong: hidden inputs that lag behind the marks. *)
MutNotSaved(box) == box

saveValues(box) == [box EXCEPT !.hidden = Values(box.items)]
getValue(box) == box.hidden

openDropdown(box) == [box EXCEPT !.open = TRUE]
closeDropdown(box) == saveValues([box EXCEPT !.open = FALSE])

(* Only the first selected item is deselected: the code relies on there     *)
(* being one at most.                                                        *)
SelectOnly(items, k) ==
  LET old == {i \in DOMAIN items : items[i].sel}
  IN  [i \in DOMAIN items |->
        IF i = k THEN [items[i] EXCEPT !.sel = TRUE]
        ELSE IF old # {} /\ \A j \in old : i <= j THEN [items[i] EXCEPT !.sel = FALSE]
        ELSE items[i]]

(* force: "on" and "off" ask for a state, "flip" is a click. The last        *)
(* selected item of a list that is not optional stays selected.              *)
toggleItem(box, k, force) ==
  LET last == ~box.optional /\ Cardinality(SelectedItems(box)) <= 1
  IN  IF box.items[k].un THEN box
      ELSE IF box.multiple
           THEN saveValues([box EXCEPT !.items[k].sel =
                              IF @ THEN force = "on" \/ last ELSE force # "off"])
           ELSE saveValues([box EXCEPT !.items = SelectOnly(@, k), !.open = FALSE])

(* A new item goes before the last one, which is the text input of widgets   *)
(* that allow own values.                                                    *)
InsertItem(items, item) ==
  IF items = <<>> THEN <<item>> ELSE InsertAt(items, Len(items), item)

(* Text that is empty makes no item.                                         *)
createItem(box, v) ==
  LET made   == IF box.multiple THEN Item(v, FALSE)
                ELSE [Item(v, FALSE) EXCEPT !.made = "created"]
      others == IF box.multiple THEN box.items
                ELSE LET old == {i \in DOMAIN box.items : box.items[i].made = "created"}
                     IN  IF old = {} THEN box.items
                         ELSE RemoveAt(box.items, CHOOSE i \in old : \A j \in old : i <= j)
      items  == InsertItem(others, made)
      known  == Positions(box, v)
  IN  IF v = "" THEN box
      ELSE IF known # {} THEN toggleItem(box, CHOOSE i \in known : TRUE, "on")
      ELSE toggleItem([box EXCEPT !.items = items], Len(items) - 1, "on")

createItems(box, texts) == FoldLeft(createItem, box, texts)

First(values) == IF values = <<>> THEN <<>> ELSE <<Head(values)>>

(* values: the wanted values in the order of the object's keys, none for an  *)
(* empty object and for null. Each item is gone through, whether several may *)
(* be selected (SetEach) or one (SetOnly).                                   *)
SetEach(box, values) ==
  FoldLeft(LAMBDA b, k : toggleItem(b, k, IF b.items[k].v \in Range(values) THEN "on" ELSE "off"),
           box, [i \in DOMAIN box.items |-> i])
SetOnly(box, values) ==
  LET first == Positions(box, NoValue)
      reset == IF first = {} THEN box ELSE toggleItem(box, CHOOSE i \in first : TRUE, "flip")
  IN  FoldLeft(LAMBDA b, k : IF b.items[k].v \in Range(values) THEN toggleItem(b, k, "flip") ELSE b,
               reset, [i \in DOMAIN box.items |-> i])
setValues(box, values) ==
  LET grown == IF ~box.create THEN box
               ELSE createItems(box, IF box.multiple THEN values ELSE First(values))
  IN  IF box.multiple THEN SetEach(grown, values) ELSE SetOnly(grown, values)

(* A list of values: a widget for one value takes the first, and of an empty *)
(* list its undefined first element, by name.                                *)
Asked(box, values) ==
  IF box.multiple THEN values
  ELSE IF values = <<>> THEN <<"undefined">> ELSE <<Head(values)>>
setValue(box, values) == setValues(box, Asked(box, values))

(* Unselected choices go, and on reset the selected ones too; the placeholder *)
(* and the text input stay. What is written on reset are the marks: where no *)
(* item is left to toggle, the hidden inputs keep the values of before.      *)
clearChoices(box, reset) ==
  LET stay == {NoValue} \cup (IF reset THEN {} ELSE Range(getValue(box)))
                        \cup (IF box.create THEN {CreateValue} ELSE {})
      left == [box EXCEPT !.items = Without(@, {it \in Range(@) : it.v \notin stay})]
  IN  IF reset THEN setValues(left, <<>>) ELSE left

addChoices(box, values) ==
  [box EXCEPT !.items =
     FoldLeft(LAMBDA items, v : IF \E i \in DOMAIN items : items[i].v = v THEN items
                                ELSE InsertItem(items, Item(v, FALSE)), @, values)]

(* __init__, render and bind: kind holds the three options. An empty string  *)
(* is no value of a widget for one value; and a menu that offers the empty   *)
(* string gets no placeholder.                                               *)
Given(kind, values) == IF ~kind.multiple /\ values = <<"">> THEN <<>> ELSE values
render(kind, values, choices) ==
  LET given == Given(kind, values)
      own   == IF kind.create THEN Without(given, Range(choices)) ELSE <<>>
      keys  == choices \o own
      lis   == [i \in DOMAIN keys |-> Item(keys[i], keys[i] \in Range(given))]
      input == IF kind.create THEN <<[Item(CreateValue, FALSE) EXCEPT !.un = TRUE]>> ELSE <<>>
      empty == IF kind.optional /\ ~kind.multiple /\ "" \notin Range(keys)
               THEN <<Item(NoValue, FALSE)>> ELSE <<>>
      all   == empty \o lis \o input
      sel   == {i \in DOMAIN all : all[i].sel}
      one   == IF sel = {} THEN 1 ELSE CHOOSE i \in sel : \A j \in sel : i <= j
      items == IF kind.multiple THEN all
               ELSE [i \in DOMAIN all |-> [all[i] EXCEPT !.sel = (i = one)]]
  IN  [multiple |-> kind.multiple, optional |-> kind.optional, create |-> kind.create,
       open |-> FALSE, items |-> items, hidden |-> Values(items)]

-----------------------------------------------------------------------------
(* A page with one widget: the user's clicks and keys, and the calls a page's *)
(* script makes to set the value or to exchange the choices.                 *)
CONSTANTS Menus,     \* the choices a page may start with, in document order
          Offered,   \* the choices a script may add
          OwnTexts,  \* what a user may type
          Targets    \* the lists of values a script may set
VARIABLES box,
          cleared    \* the choices were cleared with reset, and nothing has been selected since

(* The two marks of items that are no choices are no texts of choices.        *)
ASSUME ChoiceAssumption ==
  /\ \A list \in Menus \cup {Offered} :
       list \in Seq(STRING) /\ IsInjective(list) /\ Range(list) \cap {NoValue, CreateValue} = {}
  /\ <<>> \notin Menus
  /\ \A texts \in OwnTexts \cup Targets : texts \in Seq(STRING) /\ NoValue \notin Range(texts)

Kinds == [multiple : BOOLEAN, optional : BOOLEAN, create : BOOLEAN]
Initially == {values \in Targets : IsInjective(values) /\ CreateValue \notin Range(values)}

BoxInit ==
  /\ cleared = FALSE
  /\ \E kind \in Kinds, values \in Initially, menu \in Menus :
       /\ Len(values) > 1 => kind.multiple
       /\ box = render(kind, values, menu)

Note(reset) == cleared' = ((cleared \/ reset) /\ SelectedItems(box') = {})

Open == ~box.open /\ box' = openDropdown(box) /\ Note(FALSE)
Close == box.open /\ box' = closeDropdown(box) /\ Note(FALSE)
handleClick(k) == box.open /\ box' = toggleItem(box, k, "flip") /\ Note(FALSE)
handleEnter(k) ==
  /\ box.open
  /\ box' = closeDropdown(IF box.items[k].sel THEN box ELSE toggleItem(box, k, "flip"))
  /\ Note(FALSE)
handleCreateKeydown(text) ==
  /\ box.open /\ box.create
  /\ box.multiple \/ Len(text) = 1
  /\ box' = createItems(box, text)
  /\ Note(FALSE)
SetValue(values) == box' = setValue(box, values) /\ Note(FALSE)
SetNull == box' = setValues(box, <<>>) /\ Note(FALSE)
ClearChoices(reset) == box' = clearChoices(box, reset) /\ Note(reset)
AddChoices == box' = addChoices(box, Offered) /\ Note(FALSE)

BoxNext ==
  \/ Open
  \/ Close
  \/ \E k \in DOMAIN box.items : handleClick(k)
  \/ \E k \in DOMAIN box.items : handleEnter(k)
  \/ \E text \in OwnTexts : handleCreateKeydown(text)
  \/ \E values \in Targets : SetValue(values)
  \/ SetNull
  \/ \E reset \in BOOLEAN : ClearChoices(reset)
  \/ AddChoices

(* The value a form reads is the selected items' values in document order, a *)
(* single choice has exactly one selected item, and no value occurs twice.   *)
BoxConsistent(b) ==
  /\ getValue(b) = Values(b.items)
  /\ ~b.multiple => Cardinality(SelectedItems(b)) = 1
  /\ \A i, j \in DOMAIN b.items : b.items[i].v = b.items[j].v => i = j

(* Of the values asked for, those the box offers or can make an item for.    *)
Can(b, asked) ==
  {v \in Range(asked) \ {CreateValue} : (b.create /\ v # "") \/ Positions(b, v) # {}}

(* What a script sets is what a form reads next: exactly, where the choice   *)
(* can be empty; a choice that cannot keeps one old item at most.            *)
BoxTakes(b, asked) ==
  LET can == Can(b, asked)
      got == Range(getValue(setValues(b, asked)))
  IN  /\ can \subseteq got
      /\ (b.multiple /\ b.optional) \/ Positions(b, NoValue) # {} => got = can
      /\ Cardinality(got \ can) <= 1
=============================================================================
