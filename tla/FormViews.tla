----------------------------- MODULE FormViews -----------------------------
(***************************************************************************)
(* The forms of the views at work: one section is rendered from a          *)
(* configuration, the user changes fields and saves, and the page is       *)
(* rendered again from what was saved.                                     *)
(***************************************************************************)
EXTENDS FormFields

CONSTANTS
    Forms,      \* the forms: each the sequence of its fields
    MaxInputs   \* bound on the changes between two saves

VARIABLES
    section,    \* the fields the view declares, and what the user may enter
    conf,       \* value of each option
    row,        \* the fields on the page
    inputs,     \* changes since the page was rendered
    saves,      \* saves so far
    cleared     \* the last save cleared a field that has a default

vars == <<section, conf, row, inputs, saves, cleared>>

F == section.fields

Options(G) == {G[i].opt : i \in DOMAIN G}

(* cfgvalue of each field; a view that loads and writes a field itself is  *)
(* taken to find what it has written *)
Cfg(G, c, form) ==
    [i \in DOMAIN G |-> IF ~G[i].own THEN c[G[i].opt]
                        ELSE IF Empty(form[i]) THEN None ELSE form[i]]

(* Values somebody depends on *)
Wanted(G, name) ==
    UNION {Accepted(alt, name) :
              alt \in {a \in UNION {G[i].deps : i \in DOMAIN G} : name \in DOMAIN a}}

(* Fields that nothing depends on, stored alone and declared alike, behave *)
(* alike: the first of them stands for all *)
Alike(G, i, j) ==
    /\ [G[j] EXCEPT !.name = G[i].name, !.opt = G[i].opt] = G[i]
    /\ \A k \in {i, j} : /\ Wanted(G, G[k].name) = {}
                        /\ \A m \in DOMAIN G \ {k} : G[m].opt # G[k].opt

Inputs(G, i) ==
    LET f == G[i]
    IN  CASE \E j \in 1..(i - 1) : Alike(G, i, j) -> {}
          [] f.kind = "flag" -> {f.on, f.off}
          [] f.kind = "list" -> ToSet(f.vals) \cup IF f.optional THEN {None} ELSE {}
          [] f.kind = "multi" -> {NoItems, "[v]"} \cup (Wanted(G, f.name) \cap Lists)
          [] f.kind = "value" -> {None, "v"} \cup Wanted(G, f.name)
          [] f.kind = "dummy" -> {}

Section(G) == [fields |-> G, choices |-> [i \in DOMAIN G |-> Inputs(G, i)]]
FieldChoices(i) == section.choices[i]

(* Type invariant: the page has a widget for each field, and a checkbox one  *)
(* of its two values. *)
TypeOK ==
    /\ DOMAIN section.choices = DOMAIN F /\ DOMAIN conf = Options(F)
    /\ DOMAIN row.form = DOMAIN F /\ row.active \subseteq DOMAIN F
    /\ \A i \in DOMAIN F : F[i].kind = "flag" => row.form[i] \in {F[i].on, F[i].off}
    /\ inputs \in 0..MaxInputs /\ saves \in 0..2

(* A configuration with nothing in it, or with a value for every option *)
Given(f) ==
    CASE f.kind = "flag" -> f.on [] f.kind = "list" -> Last(f.vals)
      [] f.kind = "multi" -> "[v]" [] OTHER -> "v"
Stored(G, o) == Given(G[CHOOSE i \in DOMAIN G : G[i].opt = o])

Init ==
    /\ section \in {Section(Variant(form, last)) : form \in ToSet(Forms), last \in BOOLEAN}
    /\ conf \in {[o \in Options(F) |-> None], [o \in Options(F) |-> Stored(F, o)]}
    /\ row = Rendered(F, Cfg(F, conf, [i \in DOMAIN F |-> None]))
    /\ inputs = 0 /\ saves = 0 /\ cleared = FALSE

(* The user changes a field *)
Input(i, v) ==
    /\ inputs < MaxInputs /\ saves = 0
    /\ i \in row.active /\ v \in FieldChoices(i) \ {row.form[i]}
    /\ row' = checkDepends(F, [row EXCEPT !.form[i] = v])
    /\ inputs' = inputs + 1
    /\ UNCHANGED <<section, conf, saves, cleared>>

(* The user gives a value to every field that must have one *)
Complete ==
    LET missing == {i \in row.active : Rejected(F, row, i)}
    IN  /\ missing # {}
        /\ row' = checkDepends(F, [row EXCEPT !.form =
                     [i \in DOMAIN F |-> IF i \in missing THEN Given(F[i]) ELSE @[i]]])
        /\ UNCHANGED <<section, conf, inputs, saves, cleared>>

(* Map.save: parse, then load and render *)
Parsed ==
    LET effect == [i \in DOMAIN F |-> Effect(F, row, Cfg(F, conf, row.form), i)]
        writers(o) == {i \in DOMAIN F : F[i].opt = o /\ effect[i] # Keep}
    IN  [o \in Options(F) |-> IF writers(o) = {} THEN conf[o] ELSE effect[Max(writers(o))]]

(* The user emptied a field that shows a default as long as it is empty *)
Cleared == \E i \in row.active : Empty(row.form[i]) /\ ~Empty(Shown(F[i], None))

Save ==
    /\ saves < 2 /\ \A i \in row.active : ~Rejected(F, row, i)
    /\ conf' = Parsed
    /\ row' = Rendered(F, Cfg(F, conf', row.form))
    /\ cleared' = Cleared
    /\ inputs' = 0 /\ saves' = saves + 1 /\ UNCHANGED section

Next ==
    \/ \E i \in DOMAIN F : \E v \in FieldChoices(i) : Input(i, v)
    \/ Complete
    \/ Save

Spec == Init /\ [][Next]_vars

-----------------------------------------------------------------------------
(* Properties *)

(* No field is visible without reason, and none is missing: the page shows *)
(* a field exactly if for one of its alternatives every field that it      *)
(* names is itself visible and has the value asked for (or one that holds  *)
(* or matches it), or for a reversed one is not so.  One repetition of     *)
(* checkDepends (form.js 723-734) is enough for the chains of dependencies *)
(* of the views, although a field sees only what became of those declared  *)
(* before it. *)
FieldsFollowDependencies ==
    LET Asks(alt, n) == \E j \in row.active : F[j].name = n /\ row.form[j] \in Accepted(alt, n)
        Met(alt) == \A n \in Needed(alt) : Asks(alt, n)
        Granted(alt) == IF "!reverse" \in DOMAIN alt THEN ~Met(alt)
                        ELSE "!default" \in DOMAIN alt \/ Met(alt)
    IN  \A i \in DOMAIN F :
            i \in row.active <=> F[i].deps = {} \/ \E alt \in F[i].deps : Granted(alt)

(* What the user sees when saving is what the page shows afterwards, in    *)
(* the visible fields (parse, write and remove of form.js, 1998-2105 and   *)
(* 4098-4117).  Two kinds of cleared fields are excepted: one with a       *)
(* default shows it again, and one whose option another active field       *)
(* stores into is not removed (form.js 2086-2101) and keeps its old value. *)
SaveKeepsShown ==
    [][Save /\ ~Cleared =>
         \A i \in row.active :
            \/ F[i].own
            \/ Empty(row.form[i]) /\ Covered(F, row, i)
            \/ i \in row'.active /\ row'.form[i] = row.form[i]]_vars

(* Saving again changes nothing, with the same exception. *)
SecondSaveIsQuiet ==
    [][Save /\ saves = 1 /\ inputs = 0 /\ ~cleared => conf' = conf]_vars
=============================================================================
