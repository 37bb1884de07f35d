------------------------------ MODULE FormMap ------------------------------
(***************************************************************************)
(* A page with one form (luci-base form.js) on one configuration: a Map    *)
(* with one section element whose fields depend on each other, on top of   *)
(* the cache of UciClient.  A "typed" page shows the fields of all         *)
(* sections (TypedSection, TableSection); a "grid" page lists the sections *)
(* and edits one at a time in a dialog with a map of its own (GridSection).*)
(*                                                                         *)
(* A field has the value the user sees in it; it is active when it is not  *)
(* hidden.  Two fields may store into the same option of the configuration *)
(* (ucioption).  One save is under way at a time; the user may go on       *)
(* typing, drag a row or dismiss the dialog meanwhile, but opens no other  *)
(* dialog: the save would close it when it ends.                           *)
(***************************************************************************)
EXTENDS UciClient, FormFields

CONSTANTS
    Fields,     \* fields of a section in the order of their declaration
    Conf,       \* the configuration at the start
    MaxActs     \* bound on the user's actions

VARIABLES
    page,   \* what the page holds, see below
    last,   \* the last save that was asked for and what became of it
    acts    \* user actions so far

vars == <<uci, srv, op, fails, page, last, acts>>

FieldSet == DOMAIN Fields
Inputs(f) == IF Fields[f].kind = "flag" THEN {Fields[f].on, Fields[f].off}
             ELSE Vals \cup {NoVal, Bad}
FieldVals == [FieldSet -> Vals \cup {NoVal, Bad}]
NoDialog == "none"

ASSUME FormAssumption ==
    /\ Fields \in Seq(ToSet(Fields)) /\ NoDialog \notin Sids
    /\ \A f \in FieldSet : /\ Fields[f].opt \in Opts
                            /\ Fields[f].kind \in {"value", "flag"}
                            /\ Fields[f].default \in Vals \cup {NoVal}
    /\ Bad \notin Vals \cup {NoVal} /\ MaxActs \in Nat

Page == [kind : {"typed", "grid"},
         cfg : [Sids -> [FieldSet -> Vals \cup {NoVal}]],  \* AbstractValue.data
         form : [Sids -> FieldVals],                       \* values of the widgets
         active : [Sids -> SUBSET FieldSet],               \* fields not hidden
         rows : SUBSET Sids,                               \* sections with fields
         dialog : Sids \cup {NoDialog},                    \* section being edited
         added : Sids \cup {NoDialog}]                     \* map.addedSection

(* Type invariant of the cache and of the page. *)
TypeOK ==
    /\ UciTypeOK
    /\ page \in Page
    /\ last.res \in {"none", "busy", "ok", "error"}
    /\ acts \in 0..MaxActs

-----------------------------------------------------------------------------
(* Dependencies, see FormFields *)

Row(p, s) == [form |-> p.form[s], active |-> p.active[s]]
CheckRows(p, sids) ==
    [p EXCEPT !.active = [s \in Sids |-> IF s \in sids \cap p.rows
                                         THEN checkDepends(Fields, Row(p, s)).active ELSE @[s]]]

-----------------------------------------------------------------------------
(* Loading and rendering *)

(* cfgsections() of the map the user works with *)
MapSections(u, p) ==
    IF p.dialog # NoDialog THEN {p.dialog}
    ELSE IF p.kind = "typed" THEN ToSet(Sections(u)) ELSE {}

(* Map.load, once the configuration is in the cache *)
LoadMap(u, p) ==
    [p EXCEPT !.cfg = [s \in Sids |->
        IF s \in MapSections(u, p) THEN [f \in FieldSet |-> Get(u, s, Fields[f].opt)] ELSE @[s]]]

(* Map.renderContents: widgets with the configured or the default value,   *)
(* dependent fields hidden until the check                                 *)
renderContents(u, p) ==
    LET sids == MapSections(u, p) \cap ToSet(Sections(u))
        row == [s \in sids |-> Rendered(Fields, p.cfg[s])]
    IN  [p EXCEPT
            !.rows = sids,
            !.form = [s \in Sids |-> IF s \in sids THEN row[s].form
                                     ELSE [f \in FieldSet |-> NoVal]],
            !.active = [s \in Sids |-> IF s \in sids THEN row[s].active ELSE {}]]

(* Map.reset *)
reset(u, p) == renderContents(u, p)

NoPage(kind) ==
    [kind |-> kind, rows |-> {}, dialog |-> NoDialog, added |-> NoDialog,
     cfg |-> [s \in Sids |-> [f \in FieldSet |-> NoVal]],
     form |-> [s \in Sids |-> [f \in FieldSet |-> NoVal]],
     active |-> [s \in Sids |-> {}]]

-----------------------------------------------------------------------------
(* Parsing: what the form writes into the cache *)

ParseField(u, p, s, f) ==
    LET v == Effect(Fields, Row(p, s), p.cfg[s], f)
    IN  IF v = Keep THEN u ELSE Set(u, s, Fields[f].opt, v)

ParseSection(u, p, s) ==
    FoldLeft(LAMBDA b, f : ParseField(b, p, s, f), u, [f \in FieldSet |-> f])

(* AbstractSection.parse: every field of every section is parsed even if   *)
(* one is refused.  A section without fields on the page has all of them   *)
(* inactive.                                                               *)
Parse(u, p) ==
    FoldLeft(LAMBDA a, s : IF s \in MapSections(u, p) THEN ParseSection(a, p, s) ELSE a,
             u, Sections(u))

Invalid(u, p) == \E s \in MapSections(u, p) \cap ToSet(Sections(u)), f \in FieldSet :
                    Rejected(Fields, Row(p, s), f)

-----------------------------------------------------------------------------
(* What the user sees when a save begins, to compare it with the result.   *)

SeenOpts(u, p, s) ==
    [o \in Opts |->
        IF s \in p.rows
        THEN IF \E f \in p.active[s] : Fields[f].opt = o
             THEN p.form[s][CHOOSE f \in p.active[s] : Fields[f].opt = o]
             ELSE IF \E f \in FieldSet : Fields[f].retain /\ Fields[f].opt = o THEN Get(u, s, o) ELSE NoVal
        ELSE Get(u, s, o)]

Want(u, p) == [i \in DOMAIN Sections(u) |->
                 [sid |-> Sections(u)[i], opt |-> SeenOpts(u, p, Sections(u)[i])]]

NoSave == [res |-> "none", want |-> <<>>, failed |-> FALSE, changed |-> FALSE,
           lost |-> FALSE, del |-> FALSE, typed |-> FALSE, moved |-> FALSE, fresh |-> FALSE]

(* failed: a save failed since the last load; lost: and it had sent        *)
(* requests; changed: and the user changed or discarded inputs afterwards; *)
(* typed: inputs changed while the save is under way; moved: a section was *)
(* dragged meanwhile; fresh: the save loaded the configuration again       *)
Since == IF last.fresh THEN NoSave ELSE last
Touched == [Since EXCEPT !.res = IF @ = "busy" THEN "busy" ELSE "none",
                         !.changed = @ \/ Since.failed,
                         !.typed = @ \/ Since.res = "busy"]

-----------------------------------------------------------------------------
(* Handlers *)

(* After a save: Map.load and renderContents.  A dialog closes             *)
(* (handleModalCancel with isSaving).                                      *)
Finish(u, p) ==
    LET q == [p EXCEPT !.dialog = NoDialog, !.added = NoDialog]
    IN  renderContents(u, LoadMap(u, q))

(* What Map.save makes of the cache: it checks the dependencies and parses *)
Written(u, p) == Parse(u, CheckRows(p, MapSections(u, p)))

(* Map.save(cb, silent) on cache u: a refused field ends it, with what the *)
(* others have written left in the cache                                   *)
save(u, p) ==
    LET q == CheckRows(p, MapSections(u, p))
        w == Written(u, p)
        s == Save(w)
        begun == [Since EXCEPT !.res = "busy", !.want = Want(u, q), !.typed = FALSE, !.moved = FALSE,
                               !.del = Deletions(w) # <<>>]
    IN  /\ Len(srv) + Len(u.creates) <= Cardinality(Cfgs)
        /\ IF Invalid(u, q) \/ (s.op = NoOp /\ u.loaded # "yes")
           THEN /\ uci' = w /\ op' = NoOp /\ page' = q
                /\ last' = [Since EXCEPT !.res = "error", !.failed = TRUE]
           ELSE /\ uci' = s.uci /\ op' = s.op
                /\ IF s.op = NoOp
                   THEN page' = Finish(w, q) /\ last' = [begun EXCEPT !.res = "ok"]
                   ELSE page' = q /\ last' = begun
        /\ UNCHANGED <<srv, fails>>

UserActs == acts < MaxActs /\ acts' = acts + 1
Idle == op.phase = "idle"

(* The user changes a field; widget-change runs Map.checkDepends *)
Input(s, f, v) ==
    /\ UserActs
    /\ s \in page.rows /\ f \in page.active[s] /\ v \in Inputs(f) \ {page.form[s][f]}
    /\ page' = CheckRows([page EXCEPT !.form[s][f] = v], MapSections(uci, page))
    /\ last' = Touched
    /\ UNCHANGED <<uci, srv, op, fails>>

(* The Save button of the page, or of the dialog (handleModalSave) *)
handleSave == UserActs /\ Idle /\ save(uci, page)

handleReset ==
    /\ UserActs /\ page.dialog = NoDialog
    /\ page' = reset(uci, page)
    /\ last' = Touched
    /\ UNCHANGED <<uci, srv, op, fails>>

(* TypedSection.handleAdd saves at once, with all inputs of the page *)
handleAdd ==
    /\ UserActs /\ Idle /\ page.kind = "typed"
    /\ \E t \in FreshTemps(uci) : save(Add(uci, t), page)

(* handleRemove of either kind *)
handleRemove(s) ==
    /\ UserActs /\ Idle /\ page.dialog = NoDialog
    /\ s \in ToSet(Sections(uci)) /\ (page.kind = "typed" => s \in page.rows)
    /\ save(RemoveSection(uci, s), page)

(* handleDrop, and each step of handleSort: only the cache is changed *)
handleDrop(s1, s2, after) ==
    /\ UserActs /\ page.dialog = NoDialog
    /\ {s1, s2} \subseteq ToSet(Sections(uci)) /\ s1 # s2
    /\ uci' = Move(uci, s1, s2, after)
    /\ last' = [Touched EXCEPT !.moved = @ \/ ~Idle]
    /\ UNCHANGED <<srv, op, fails, page>>

(* renderMoreOptionsModal: a map of its own for one section *)
OpenDialog(u, p, s) ==
    LET q == [p EXCEPT !.dialog = s]
    IN  renderContents(u, LoadMap(u, q))

handleEdit(s) ==
    /\ UserActs /\ Idle /\ page.kind = "grid" /\ page.dialog = NoDialog
    /\ s \in ToSet(Sections(uci))
    /\ uci' = Merge(uci, {s})
    /\ page' = OpenDialog(uci', page, s)
    /\ last' = Touched
    /\ UNCHANGED <<srv, op, fails>>

(* GridSection.handleAdd *)
handleGridAdd ==
    /\ UserActs /\ Idle /\ page.kind = "grid" /\ page.dialog = NoDialog
    /\ \E t \in FreshTemps(uci) :
         /\ uci' = Add(uci, t)
         /\ page' = OpenDialog(uci', [page EXCEPT !.added = t], t)
    /\ last' = Touched
    /\ UNCHANGED <<srv, op, fails>>

MutCancelKeepsSection ==
    /\ UserActs /\ page.dialog # NoDialog
    /\ page' = [page EXCEPT !.dialog = NoDialog, !.added = NoDialog, !.rows = {}]
    /\ last' = Touched
    /\ UNCHANGED <<uci, srv, op, fails>>

(* GridSection.handleModalCancel (Dismiss) *)
handleModalCancel ==
    /\ UserActs /\ page.dialog # NoDialog
    /\ uci' = IF page.added # NoDialog THEN RemoveSection(uci, page.added) ELSE uci
    /\ page' = [page EXCEPT !.dialog = NoDialog, !.added = NoDialog, !.rows = {}]
    /\ last' = Touched
    /\ UNCHANGED <<srv, op, fails>>

(* The user reloads a page whose save failed *)
Reload ==
    /\ UserActs /\ Idle /\ last.res = "error"
    /\ uci' = Fill(NoUci, srv)
    /\ page' = renderContents(uci', LoadMap(uci', NoPage(page.kind)))
    /\ last' = NoSave
    /\ UNCHANGED <<srv, op, fails>>

(* Answers of the server, and what Map.save does on them *)
Failed == [last EXCEPT !.res = "error", !.failed = TRUE, !.lost = TRUE,
                       !.changed = @ \/ last.typed]

AnswerBatch ==
    /\ \E k \in DOMAIN op.calls : BatchDone(k)
    /\ fails' <= MaxFail
    /\ last' = IF fails' = fails THEN last ELSE Failed
    /\ UNCHANGED <<page, acts>>

LoseBatch ==
    /\ fails < MaxFail
    /\ \E k \in 0..Len(op.calls) : BatchLost(k)
    /\ last' = Failed
    /\ UNCHANGED <<page, acts>>

AnswerOrder == OrderDone /\ UNCHANGED <<page, last, acts>>

LoseOrder ==
    /\ fails < MaxFail /\ OrderLost
    /\ last' = Failed
    /\ UNCHANGED <<page, acts>>

AnswerLoad ==
    /\ LoadDone
    /\ page' = Finish(uci', page)
    /\ last' = [last EXCEPT !.res = "ok", !.fresh = TRUE]
    /\ UNCHANGED acts

LoseLoad ==
    /\ fails < MaxFail /\ LoadLost
    /\ last' = Failed
    /\ UNCHANGED <<page, acts>>

Init ==
    /\ srv = Conf /\ uci = Fill(NoUci, Conf) /\ op = NoOp /\ fails = 0
    /\ \E kind \in {"typed", "grid"} : page = renderContents(uci, LoadMap(uci, NoPage(kind)))
    /\ last = NoSave /\ acts = 0

Next ==
    \/ \E s \in Sids, f \in FieldSet, v \in Vals \cup {NoVal, Bad} : Input(s, f, v)
    \/ \E s1, s2 \in Sids, after \in BOOLEAN : handleDrop(s1, s2, after)
    \/ \E s \in Sids : handleRemove(s) \/ handleEdit(s)
    \/ handleSave \/ handleReset \/ handleAdd \/ handleGridAdd \/ handleModalCancel \/ Reload
    \/ AnswerBatch \/ LoseBatch \/ AnswerOrder \/ LoseOrder \/ AnswerLoad \/ LoseLoad

Spec == Init /\ [][Next]_vars

-----------------------------------------------------------------------------
(* Properties *)

(* Flags are stored as no value when they are at their default *)
SameValue(o, shown, stored) ==
    \/ shown = stored
    \/ stored = NoVal /\ \E f \in FieldSet : 
                         /\ Fields[f].kind = "flag" /\ Fields[f].opt = o /\ Fields[f].default = shown
Stored(w, sec) ==
    /\ IF w.sid \in Cfgs THEN sec.sid = w.sid ELSE sec.sid \in Cfgs
    /\ \A o \in Opts : SameValue(o, w.opt[o], sec.opt[o])

(* A save that reports success has stored, for every section on the page,  *)
(* what its visible fields showed when the save began and nothing of what  *)
(* was hidden, also when earlier attempts failed half way, as long as the  *)
(* user took nothing back after a failure (Map.save, AbstractValue.parse,  *)
(* uci.save).                                                              *)
SavedIsShown ==
    last.res = "ok" /\ ~last.changed =>
        \A i \in DOMAIN last.want : \E j \in DOMAIN srv : Stored(last.want[i], srv[j])

(* If no request failed either, the server then has exactly these sections *)
(* in this order, unless one was dragged while the save was under way:     *)
(* nothing is created twice, deleted sections are gone, and a dragged      *)
(* section is where it was dropped (uci.save, reorderSections).  Not       *)
(* covered: new sections saved together with deletions.                    *)
SavedExactly ==
    last.res = "ok" /\ ~last.lost /\ ~last.changed
        /\ ~(last.del /\ \E i \in DOMAIN last.want : last.want[i].sid \in Temps) =>
    /\ Len(srv) = Len(last.want)
    /\ ~last.moved => \A i \in DOMAIN srv : Stored(last.want[i], srv[i])

(* A grid page without an open dialog has no section pending that was      *)
(* added and not saved: a dismissed dialog takes its section with it, also *)
(* after failed attempts to save it (GridSection.handleModalCancel).       *)
CancelledAddIsGone ==
    page.kind = "grid" /\ page.dialog = NoDialog /\ Idle => Created(uci) = {}
=============================================================================
