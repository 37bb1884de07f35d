----------------------------- MODULE FormFields -----------------------------
(***************************************************************************)
(* The fields of a form section (luci-base form.js): how a view declares   *)
(* them, which of them are visible, what they show for a configured value, *)
(* and what saving the form does to the option each of them stands for.    *)
(*                                                                         *)
(* A section is the sequence of its fields in the order of declaration.  A *)
(* row is what the page holds of one section: the value of each field's    *)
(* widget, and which fields are active, that is, not hidden.               *)
(***************************************************************************)
EXTENDS Naturals, FiniteSets, SequencesExt, TLC

None == ""              \* option without a value; empty input
Null == "<null>"        \* value of a field that is hidden or does not exist
NoItems == "[]"         \* empty input of a field for several values
Bad == "<bad>"          \* an input the validation of a field refuses
Keep == "<keep>"        \* saving leaves the option as it is

-----------------------------------------------------------------------------
(* Declaration of fields *)

(* The defaults of AbstractValue *)
Field(kind, name) ==
    [name |-> name, kind |-> kind, opt |-> name, alias |-> FALSE, own |-> FALSE,
     deps |-> {}, rmempty |-> TRUE, optional |-> FALSE, retain |-> FALSE,
     default |-> None, on |-> "1", off |-> "0", vals |-> <<>>]

Value(name) == Field("value", name)
TextValue(name) == Field("value", name)     \* several lines of text
FileUpload(name) == Field("value", name)    \* the path of a file
Multi(name) == Field("multi", name)         \* form.DynamicList
MultiValue(name) == Field("multi", name)    \* a menu with several choices
Flag(name) == [Field("flag", name) EXCEPT !.default = "0"]
List(name, vals) == [Field("list", name) EXCEPT !.vals = vals]
Dummy(name) == Field("dummy", name)         \* form.DummyValue, Button
SectionValue(name) == Field("dummy", name)  \* a section within the section

Required(f) == [f EXCEPT !.rmempty = FALSE]
Optional(f) == [f EXCEPT !.optional = TRUE]
Default(f, v) == [f EXCEPT !.default = v]
Switch(f, on, off) == [f EXCEPT !.on = on, !.off = off]
Into(f, opt) == [f EXCEPT !.opt = opt, !.alias = TRUE]  \* ucioption
Elsewhere(f, opt) == [f EXCEPT !.opt = opt]  \* uciconfig or ucisection only
Retain(f) == [f EXCEPT !.retain = TRUE]
Own(f) == [f EXCEPT !.own = TRUE]           \* the view itself loads or writes it

(* cbiFlagTristate: off, on, or automatic, which shows what the system does; *)
(* it loads and writes itself *)
Tristate(name) == Own(List(name, <<"", "0", "1", "0!", "1!">>))

(* depends(): a set of alternatives, each from names to values; the keys   *)
(* !reverse, !default and !contains have their special meaning.  A value   *)
(* between slashes is a regular expression. *)
Dep(f, alts) == [f EXCEPT !.deps = alts]
Unless(alt) == alt @@ ("!reverse" :> "1")
Holding(alt) == alt @@ ("!contains" :> "1")

(* Fields of the same name are alternatives, of which the view declares    *)
(* one: the first or the last of them *)
Variant(F, last) ==
    LET same(i) == {j \in DOMAIN F : F[j].name = F[i].name}
        keep(i) == \A j \in same(i) : IF last THEN j <= i ELSE i <= j
    IN  FoldLeft(LAMBDA G, i : IF keep(i) THEN Append(G, F[i]) ELSE G, <<>>,
                 [i \in DOMAIN F |-> i])

(* Fields that a view adds to a section of another view, which declares    *)
(* those that they depend on *)
Within(names, F) == [i \in 1..Cardinality(names) |-> Value(SetToSeq(names)[i])] \o F

(* A view that binds the fields of a section, except free ones, to the     *)
(* present value of another field *)
Narrowed(F, free, alt) ==
    [i \in DOMAIN F |-> IF F[i].name \in free THEN F[i]
                        ELSE Dep(F[i], {alt @@ d : d \in F[i].deps} \cup
                                       IF F[i].deps = {} THEN {alt} ELSE {})]

-----------------------------------------------------------------------------
(* Dependencies *)

MutSeesHidden(F, row, name) ==
    LET is == {i \in DOMAIN F : F[i].name = name}
    IN  IF is = {} THEN Null ELSE row.form[CHOOSE i \in is : \A j \in is : i <= j]

(* What a dependency sees of a field: nothing of one that is hidden *)
Seen(F, row, name) ==
    LET is == {i \in row.active : F[i].name = name}
    IN  IF is = {} THEN Null ELSE row.form[CHOOSE i \in is : \A j \in is : i <= j]

(* The lists that are told apart from others *)
Lists == {"[src_port]", "[src_ip]", "[src_mac]", "[src_net]", "[tcp,udp]", "[udp]",
          "[icmp]", "[icmpv6]"}

(* Strings are not taken apart: of the values that occur in the forms, the *)
(* ones that match a regular expression, and the ones that are a list with *)
(* an item or a string with a part.  A list is matched as the string of    *)
(* its items. *)
Matching ==
    "/1/" :> {"1", "1!"} @@ "/^$/" :> {None, NoItems} @@ "/_port/" :> {"[src_port]"} @@
    "/_ip/" :> {"[src_ip]"} @@ "/_ip|_mac/" :> {"[src_ip]", "[src_mac]"} @@
    "/_ip|_net|_mac/" :> {"[src_ip]", "[src_net]", "[src_mac]"}
Containing ==
    "tcp" :> {"[tcp,udp]"} @@ "udp" :> {"[tcp,udp]", "[udp]"} @@
    "icmp" :> {"[icmp]"} @@ "icmpv6" :> {"[icmpv6]"} @@
    "sae" :> {"sae", "sae-mixed"} @@ "psk" :> {"psk2", "psk2+ccmp", "psk"} @@
    "wpa" :> {"wpa3", "wpa3-mixed"} @@ "owe" :> {"owe"} @@
    "2g" :> {"[HT20,2g,auto]"} @@ "@" :> {"name@example.com"} @@
    "/etc/travelmate" :> {"/etc/travelmate/hotel.login"}

(* What isEqual, or isContained, accepts as the value of field n: nothing  *)
(* matches Null or is contained in it *)
isEqual(y) == IF y \in DOMAIN Matching THEN Matching[y] ELSE {y}
isContained(y) == Containing[y]
Accepted(alt, n) ==
    IF "!contains" \in DOMAIN alt THEN isContained(alt[n]) ELSE isEqual(alt[n])

Needed(alt) == DOMAIN alt \ {"!reverse", "!contains"}

isDependencySatisfied(F, row, i) ==
    LET deps == F[i].deps
        Holds(alt) == /\ "!default" \notin DOMAIN alt
                      /\ \A n \in Needed(alt) : Seen(F, row, n) \in Accepted(alt, n)
    IN  \/ deps = {}
        \/ \E alt \in deps : Holds(alt) # ("!reverse" \in DOMAIN alt)
        \/ \E alt \in deps : "!default" \in DOMAIN alt

(* AbstractSection.checkDepends: the fields in order, each seeing what     *)
(* became of those before it *)
DependsPass(F, row) ==
    LET shown[i \in 0..Len(F)] ==
            IF i = 0 THEN row.active
            ELSE LET act == shown[i - 1]
                 IN  {j \in act \cup {i} :
                        j = i => isDependencySatisfied(F, [row EXCEPT !.active = act], i)}
    IN  [row EXCEPT !.active = shown[Len(F)]]

(* Map.checkDepends: the counter starts at 10, so there is one repetition *)
checkDepends(F, row) == DependsPass(F, DependsPass(F, row))

-----------------------------------------------------------------------------
(* Rendering *)

(* The value of a checkbox rendered with v *)
UICheckbox(f, v) == IF v = f.on THEN f.on ELSE f.off

(* The value of a menu rendered with v: one without a matching choice      *)
(* shows its first, which is the empty one if there may be none *)
UISelect(f, v) ==
    IF v \in ToSet(f.vals) THEN v
    ELSE IF f.optional \/ f.vals = <<>> \/ None \in ToSet(f.vals) THEN None
    ELSE f.vals[1]

(* renderWidget: what the widget of field f shows for the configured value c *)
Shown(f, c) ==
    LET v == IF c # None THEN c ELSE f.default
    IN  CASE f.kind = "flag" -> UICheckbox(f, v)
          [] f.kind = "list" -> UISelect(f, v)
          [] f.kind = "multi" -> IF v = None THEN NoItems ELSE v
          [] f.kind \in {"value", "dummy"} -> v

(* A section rendered: dependent fields are hidden until the check *)
Rendered(F, cfg) ==
    checkDepends(F, [form |-> [i \in DOMAIN F |-> Shown(F[i], cfg[i])],
                     active |-> {i \in DOMAIN F : F[i].deps = {}}])

-----------------------------------------------------------------------------
(* Parsing *)

Empty(v) == v \in {None, NoItems}
MayBeEmpty(f) == f.rmempty \/ f.optional

(* Validator.validate: a value where one is needed, and of the right kind; *)
(* a checkbox is not told that it must have one *)
validate(f, v) == IF Empty(v) THEN f.kind = "flag" \/ MayBeEmpty(f) ELSE v # Bad

(* parse refuses an active field with an invalid or a missing value *)
Rejected(F, row, i) ==
    i \in row.active /\ F[i].kind # "dummy" /\ ~validate(F[i], row.form[i])

MutNeverCovered(F, row, i) == FALSE

(* remove: another active field stores into the same option; a field       *)
(* without a ucioption of its own is overlooked *)
Covered(F, row, i) ==
    \E j \in row.active \ {i} : F[j].alias /\ F[j].opt = F[i].opt

MutRemovesUnchanged(F, row, cfg, i) ==
    LET f == F[i]
        v == row.form[i]
        gone == v = cfg[i] \/ (i \notin row.active /\ ~f.retain)
    IN  IF f.own \/ f.kind = "dummy" \/ Rejected(F, row, i) THEN Keep
        ELSE IF gone /\ ~Covered(F, row, i) THEN None
        ELSE IF i \in row.active THEN v ELSE Keep

(* parse, write and remove of AbstractValue, FlagValue and DummyValue: the *)
(* new value of the option, None if it is removed, or Keep *)
Effect(F, row, cfg, i) ==
    LET f == F[i]
        v == row.form[i]
        removed == IF Covered(F, row, i) THEN Keep ELSE None
        plain == Empty(v) \/ (f.kind = "flag" /\ v = f.default /\ MayBeEmpty(f))
    IN  CASE f.own \/ f.kind = "dummy" \/ Rejected(F, row, i) -> Keep
          [] i \notin row.active /\ ~f.own /\ f.kind # "dummy" ->
               IF f.retain THEN Keep ELSE removed
          [] OTHER -> IF plain THEN removed
                      ELSE IF f.kind = "flag" \/ v # cfg[i] THEN v ELSE Keep
=============================================================================
