----------------------------- MODULE FormProofs -----------------------------
(***************************************************************************)
(* Proofs about the forms of the web interface and the widgets in them.    *)
(* FormMap: a section that was added in the dialog of a grid and dismissed *)
(* is gone, for any fields, configuration and number of actions and        *)
(* failures. Dropdown and DynList: what a form reads from a choice is what *)
(* is selected in it, and a dynamic list and its box agree, for any        *)
(* choices, texts and values and any number of steps.                      *)
(***************************************************************************)
EXTENDS FormMap, WebElements, FiniteSetTheorems, SequenceTheorems, TLAPS

(* The cache has at most one section that is not saved, and that is t.     *)
Pending(u, t) ==
  /\ {"secs", "creates"} \subseteq DOMAIN u
  /\ u.secs \subseteq Sids
  /\ \/ u.creates = <<>>
     \/ /\ t \in Sids /\ DOMAIN u.creates = {1}
        /\ "sid" \in DOMAIN u.creates[1] /\ u.creates[1].sid = t

(* The map of the dialog remembers the section it added. *)
Remembered(p) ==
  /\ {"kind", "dialog", "added"} \subseteq DOMAIN p
  /\ p.added \in {NoDialog, p.dialog}

(* Inductive: on a grid page the one section that may be pending is the    *)
(* one that the open dialog added.                                         *)
AddedOnly ==
  /\ Remembered(page)
  /\ page.kind = "grid" => /\ Pending(uci, page.added)
                           /\ op.phase = "load" => uci.creates = <<>>

-----------------------------------------------------------------------------
(* Editing the cache *)

LEMMA EmptyDomain == \A r : DOMAIN <<>> = {} /\ Append(<<>>, r) = <<r>>
  OBVIOUS

LEMMA SetKeeps ==
  ASSUME NEW u, NEW t, Pending(u, t), NEW s, NEW o, NEW v
  PROVE  Pending(Set(u, s, o, v), t)
<1>1. CASE s \in Created(u)
  <2>1. u.creates # <<>>
    BY <1>1 DEF Created
  <2>2. CreatePos(u, s) = 1
    BY <1>1, <2>1 DEF Pending, Created, CreatePos
  <2>3. PICK c : c = u.creates
    OBVIOUS
  <2>4. PICK d : d = [c EXCEPT ![1].opt[o] = v]
    OBVIOUS
  <2>5. DOMAIN d = {1} /\ "sid" \in DOMAIN d[1] /\ d[1].sid = t /\ t \in Sids
    BY <2>1, <2>3, <2>4 DEF Pending
  <2>6. Set(u, s, o, v) = [u EXCEPT !.creates = d]
    BY <1>1, <2>2, <2>3, <2>4 DEF Set
  <2>7. QED
    BY <2>5, <2>6 DEF Pending
<1>2. CASE s \notin Created(u)
  <2>1. PICK w : w = Set(u, s, o, v)
    OBVIOUS
  <2>2. DOMAIN w = DOMAIN u /\ w.secs = u.secs /\ w.creates = u.creates
    BY <1>2, <2>1 DEF Set, Pending
  <2>3. QED
    BY <2>1, <2>2 DEF Pending
<1>3. QED
  BY <1>1, <1>2

LEMMA AddKeeps ==
  ASSUME NEW u, NEW t \in Temps, Pending(u, t), u.creates = <<>>
  PROVE  Pending(Add(u, t), t)
<1>1. PICK r : r = [sid |-> t, name |-> t, opt |-> Unset, idx |-> NewBase + u.newidx]
  OBVIOUS
<1>2. "sid" \in DOMAIN r /\ r.sid = t
  BY <1>1
<1>3. PICK w : w = Add(u, t)
  OBVIOUS
<1>4. DOMAIN w = DOMAIN u /\ w.secs = u.secs /\ w.creates = Append(<<>>, r)
  BY <1>1, <1>3 DEF Add, Pending
<1>5. w.creates = <<r>> /\ DOMAIN w.creates = {1} /\ w.creates[1] = r
  BY <1>4
<1>6. t \in Sids
  BY DEF Sids
<1>7. QED
  BY <1>2, <1>3, <1>4, <1>5, <1>6 DEF Pending

LEMMA RemoveKeeps ==
  ASSUME NEW u, NEW t, NEW s, Pending(u, t), u.creates = <<>> \/ s = t
  PROVE  Pending(RemoveSection(u, s), t) /\ RemoveSection(u, s).creates = <<>>
<1>1. CASE s \in Created(u)
  <2>1. u.creates # <<>>
    BY <1>1 DEF Created
  <2>2. CreatePos(u, s) = 1
    BY <1>1, <2>1 DEF Pending, Created, CreatePos
  <2>3. PICK c : c = u.creates
    OBVIOUS
  <2>4. RemoveAt(c, 1) = <<>>
    <3>1. DOMAIN c = {1}
      BY <2>1, <2>3 DEF Pending
    <3>2. Len(c) = 1
      BY <3>1
    <3>3. QED
      BY <3>2 DEF RemoveAt
  <2>5. RemoveSection(u, s) = [u EXCEPT !.creates = <<>>]
    BY <1>1, <2>2, <2>3, <2>4 DEF RemoveSection
  <2>6. QED
    BY <2>5 DEF Pending
<1>2. CASE s \notin Created(u)
  <2>1. u.creates = <<>>
    BY <1>2 DEF Pending, Created
  <2>2. PICK w : w = RemoveSection(u, s)
    OBVIOUS
  <2>3. DOMAIN w = DOMAIN u /\ w.secs = u.secs /\ w.creates = u.creates
    BY <1>2, <2>2 DEF RemoveSection, Pending
  <2>4. QED
    BY <2>1, <2>2, <2>3 DEF Pending
<1>3. QED
  BY <1>1, <1>2

LEMMA MergeKeeps ==
  ASSUME NEW u, NEW t, Pending(u, t), NEW sids
  PROVE  Pending(Merge(u, sids), t) /\ Merge(u, sids).creates = u.creates
  BY DEF Pending, Merge

LEMMA MoveKeeps ==
  ASSUME NEW u, NEW t, Pending(u, t), u.creates = <<>>, NEW s1, NEW s2, NEW after
  PROVE  Pending(Move(u, s1, s2, after), t) /\ Move(u, s1, s2, after).creates = <<>>
<1> DEFINE rest == SelectSeq(Sections(u), LAMBDA s : s # s1)
           at == (CHOOSE i \in DOMAIN rest : rest[i] = s2) + (IF after THEN 1 ELSE 0)
           seq == InsertAt(rest, at, s1)
           Place(s) == (CHOOSE i \in DOMAIN seq : seq[i] = s) - 1
           m == Merge(u, ToSet(seq))
           idx == [s \in Sids |-> IF s \in ToSet(seq) \ Created(u) THEN Place(s) ELSE m.idx[s]]
           new == [i \in DOMAIN u.creates |->
                     [u.creates[i] EXCEPT !.idx = Place(u.creates[i].sid)]]
<1>1. Move(u, s1, s2, after) = [m EXCEPT !.idx = idx, !.creates = new, !.reorder = TRUE]
  BY DEF Move
<1>2. Pending(m, t)
  BY MergeKeeps
<1>3. new = <<>>
  <2> HIDE DEF Place
  <2>1. QED
    OBVIOUS
<1> HIDE DEF m, idx, new
<1>4. QED
  BY <1>1, <1>2, <1>3 DEF Pending

LEMMA UnloadKeeps ==
  ASSUME NEW u, NEW t, Pending(u, t)
  PROVE  Pending(Unload(u), t) /\ Unload(u).creates = <<>>
  BY DEF Pending, Unload

LEMMA FillKeeps ==
  ASSUME NEW u, NEW t, Pending(u, t), NEW conf
  PROVE  Pending(Fill(u, conf), t) /\ Fill(u, conf).creates = u.creates
  BY DEF Pending, Fill

-----------------------------------------------------------------------------
(* Finite sets and the sequences made of them *)

(* What is made of the members of a finite set is finite. *)
LEMMA FiniteImage ==
  ASSUME NEW S, IsFiniteSet(S), NEW f, NEW T, T = {f[s] : s \in S}
  PROVE  IsFiniteSet(T)
<1>1. PICK g : g = [s \in S |-> f[s]]
  OBVIOUS
<1>2. g \in Surjection(S, T)
  BY <1>1 DEF Surjection
<1>3. QED
  BY <1>2, FS_Surjection

(* SetToSeq of a finite set is a sequence. *)
LEMMA SetToSeqIs ==
  ASSUME NEW S, IsFiniteSet(S)
  PROVE  SetToSeq(S) \in Seq(S)
<1>1. PICK n \in Nat : n = Cardinality(S) /\ ExistsBijection(1 .. n, S)
  BY FS_CardinalityType
<1>2. PICK f \in [1 .. n -> S] : IsInjective(f)
  BY <1>1 DEF ExistsBijection, Bijection, Injection, IsInjective
<1>3. SetToSeq(S) \in [1 .. n -> S]
  BY <1>1, <1>2 DEF SetToSeq
<1>4. QED
  BY <1>3

LEMMA SidsFinite == IsFiniteSet(Sids)
  BY UciAssumption, FS_Union DEF Sids

(* A save without calls has no new sections. *)
LEMMA NoTasks ==
  ASSUME NEW u, NEW t, Pending(u, t), Tasks(u) = <<>>
  PROVE  u.creates = <<>>
<1>1. PICK d : d = Deletions(u)
  OBVIOUS
<1>2. PICK c : c = Changes(u)
  OBVIOUS
<1>3. PICK D : d \in Seq(D)
  <2>1. PICK S : S = {s \in Sids : s \in u.delAll \/ u.delOpt[s] # {}}
    OBVIOUS
  <2>2. IsFiniteSet(S)
    BY <2>1, SidsFinite, FS_Subset
  <2>3. PICK f : f = [s \in S |-> [do |-> "delete", sid |-> s, opts |-> u.delOpt[s],
                                   all |-> s \in u.delAll]]
    OBVIOUS
  <2>4. PICK T : T = {f[s] : s \in S}
    OBVIOUS
  <2>5. IsFiniteSet(T)
    BY <2>2, <2>4, FiniteImage
  <2>6. {[do |-> "delete", sid |-> s, opts |-> u.delOpt[s], all |-> s \in u.delAll] : s \in S} = T
    BY <2>3, <2>4
  <2>7. d = SetToSeq(T)
    BY <1>1, <2>1, <2>6 DEF Deletions
  <2>8. QED
    BY <2>5, <2>7, SetToSeqIs
<1>4. PICK C : c \in Seq(C)
  <2>1. PICK S : S = {s \in Sids : u.chg[s] # Unset}
    OBVIOUS
  <2>2. IsFiniteSet(S)
    BY <2>1, SidsFinite, FS_Subset
  <2>3. PICK f : f = [s \in S |-> [do |-> "set", sid |-> s, opt |-> u.chg[s]]]
    OBVIOUS
  <2>4. PICK T : T = {f[s] : s \in S}
    OBVIOUS
  <2>5. IsFiniteSet(T)
    BY <2>2, <2>4, FiniteImage
  <2>6. {[do |-> "set", sid |-> s, opt |-> u.chg[s]] : s \in S} = T
    BY <2>3, <2>4
  <2>7. c = SetToSeq(T)
    BY <1>2, <2>1, <2>6 DEF Changes
  <2>8. QED
    BY <2>5, <2>7, SetToSeqIs
<1>5. SUFFICES ASSUME DOMAIN u.creates = {1} PROVE FALSE
  BY DEF Pending
<1>6. PICK r : r = [do |-> "add", sid |-> u.creates[1].sid, opt |-> u.creates[1].opt]
  OBVIOUS
<1>7. Additions(u) = <<r>>
  BY <1>5, <1>6 DEF Additions
<1>8. d \o <<r>> \o c = <<>>
  BY <1>1, <1>2, <1>7 DEF Tasks
<1>9. PICK X : X = D \cup C \cup {r}
  OBVIOUS
<1>10. d \in Seq(X) /\ c \in Seq(X) /\ <<r>> \in Seq(X)
  BY <1>3, <1>4, <1>9
<1>11. PICK e \in Seq(X) : e = d \o <<r>> /\ Len(e) = Len(d) + 1
  <2>1. PICK q \in Seq(X) : q = <<r>> /\ Len(q) = 1
    BY <1>10
  <2>2. d \o q \in Seq(X) /\ Len(d \o q) = Len(d) + Len(q)
    BY <1>10
  <2>3. QED
    BY <1>10, <2>1, <2>2
<1>12. Len(e \o c) = Len(e) + Len(c) /\ e \o c = <<>>
  BY <1>8, <1>10, <1>11
<1>13. QED
  BY <1>10, <1>11, <1>12

(* The sections of the cache are a sequence. *)
LEMMA SectionsAre ==
  ASSUME NEW u, NEW t, Pending(u, t)
  PROVE  \E n \in Nat : DOMAIN Sections(u) = 1 .. n
<1>1. CASE u.loaded # "yes"
  <2>1. DOMAIN Sections(u) = 1 .. 0
    BY <1>1 DEF Sections
  <2>2. QED
    BY <2>1
<1>2. CASE u.loaded = "yes"
  <2>1. PICK A : A = {<<s, u.idx[s]>> : s \in u.secs \ u.delAll}
    OBVIOUS
  <2>2. PICK B : B = {<<u.creates[i].sid, u.creates[i].idx>> : i \in DOMAIN u.creates}
    OBVIOUS
  <2>3. IsFiniteSet(A)
    <3>1. PICK S : S = u.secs \ u.delAll
      OBVIOUS
    <3>2. IsFiniteSet(S)
      BY <3>1, SidsFinite, FS_Subset DEF Pending
    <3>3. PICK f : f = [s \in S |-> <<s, u.idx[s]>>]
      OBVIOUS
    <3>4. A = {f[s] : s \in S}
      BY <2>1, <3>1, <3>3
    <3>5. QED
      BY <3>2, <3>4, FiniteImage
  <2>4. IsFiniteSet(B)
    <3>1. PICK S : S = DOMAIN u.creates
      OBVIOUS
    <3>2. IsFiniteSet(S)
      <4>1. S = {} \/ S = {1}
        BY <3>1 DEF Pending
      <4>2. IsFiniteSet({}) /\ IsFiniteSet({1})
        BY FS_EmptySet, FS_Singleton
      <4>3. QED
        BY <4>1, <4>2
    <3>3. PICK f : f = [i \in S |-> <<u.creates[i].sid, u.creates[i].idx>>]
      OBVIOUS
    <3>4. B = {f[i] : i \in S}
      BY <2>2, <3>1, <3>3
    <3>5. QED
      BY <3>2, <3>4, FiniteImage
  <2>5. PICK n \in Nat : n = Cardinality(A \cup B)
    BY <2>3, <2>4, FS_Union, FS_CardinalityType
  <2>6. DOMAIN Sections(u) = 1 .. n
    BY <1>2, <2>1, <2>2, <2>5 DEF Sections
  <2>7. QED
    BY <2>6
<1>3. QED
  BY <1>1, <1>2

-----------------------------------------------------------------------------
(* Parsing *)

FieldTakes(c, x, f) == ParseField(x, c[1], c[2], f)
FieldKept(c, i, x) == Pending(x, c[3])
FieldFold == INSTANCE FoldInduction WITH Op <- FieldTakes, Good <- FieldKept

LEMMA ParseSectionKeeps ==
  ASSUME NEW u, NEW t, Pending(u, t), NEW p, NEW s
  PROVE  Pending(ParseSection(u, p, s), t)
<1>1. PICK n \in Nat : FieldSet = 1 .. n
  BY FormAssumption DEF FieldSet
<1>2. PICK seq : seq = [f \in FieldSet |-> f]
  OBVIOUS
<1>3. DOMAIN seq = 1 .. n
  BY <1>1, <1>2
<1>4. PICK c : c = <<p, s, t>>
  OBVIOUS
<1>5. PICK w : w = FieldFold!Fold(c, u, seq)
  OBVIOUS
<1>6. \A i \in 1 .. n : \A x : FieldKept(c, i - 1, x) => FieldKept(c, i, FieldTakes(c, x, seq[i]))
  BY SetKeeps DEF FieldKept, FieldTakes, ParseField
<1>7. FieldKept(c, 0, u)
  BY <1>4 DEF FieldKept
<1>8. FieldKept(c, n, w)
  BY <1>3, <1>5, <1>6, <1>7, FieldFold!FoldKeeps
<1>9. FoldLeft(LAMBDA b, f : ParseField(b, p, s, f), u, seq) = w
  BY <1>4, <1>5 DEF FieldFold!Fold, FieldFold!Latest,
                    FoldLeft, MapThenFoldSet, Max, FieldTakes
<1>10. ParseSection(u, p, s) = w
  BY <1>2, <1>9 DEF ParseSection
<1>11. QED
  BY <1>4, <1>8, <1>10 DEF FieldKept

SectionTakes(c, x, s) == IF s \in MapSections(c[1], c[2]) THEN ParseSection(x, c[2], s) ELSE x
SectionFold == INSTANCE FoldInduction WITH Op <- SectionTakes, Good <- FieldKept

LEMMA ParseKeeps ==
  ASSUME NEW u, NEW t, Pending(u, t), NEW p
  PROVE  Pending(Parse(u, p), t)
<1>1. PICK n \in Nat : DOMAIN Sections(u) = 1 .. n
  BY SectionsAre
<1>2. PICK seq : seq = Sections(u)
  OBVIOUS
<1>3. PICK c : c = <<u, p, t>>
  OBVIOUS
<1>4. PICK w : w = SectionFold!Fold(c, u, seq)
  OBVIOUS
<1>5. \A i \in 1 .. n : \A x : FieldKept(c, i - 1, x) => FieldKept(c, i, SectionTakes(c, x, seq[i]))
  BY ParseSectionKeeps DEF FieldKept, SectionTakes
<1>6. FieldKept(c, 0, u)
  BY <1>3 DEF FieldKept
<1>7. FieldKept(c, n, w)
  BY <1>1, <1>2, <1>4, <1>5, <1>6, SectionFold!FoldKeeps
<1>8. FoldLeft(LAMBDA a, s : IF s \in MapSections(u, p) THEN ParseSection(a, p, s) ELSE a, u, seq) = w
  BY <1>3, <1>4 DEF SectionFold!Fold, SectionFold!Latest, FoldLeft, MapThenFoldSet, Max, SectionTakes
<1>9. Parse(u, p) = w
  BY <1>2, <1>8 DEF Parse
<1>10. QED
  BY <1>3, <1>7, <1>9 DEF FieldKept

-----------------------------------------------------------------------------
(* Saving *)

LEMMA AfterTasksKeeps ==
  ASSUME NEW u, NEW t, Pending(u, t), NEW calls, NEW resp, NEW n,
         n = AfterTasks(u, calls, resp)
  PROVE  /\ Pending(n.uci, t) /\ n.op # NoOp
         /\ n.op.phase = "load" => n.uci.creates = <<>>
<1>1. PICK c : c = u.creates
  OBVIOUS
<1> DEFINE snew == Snew(calls)
           Named(d) == {i \in DOMAIN snew \cap DOMAIN resp : snew[i].sid = d.sid}
           New(d) == IF Named(d) = {} THEN d
                     ELSE [d EXCEPT !.name = resp[CHOOSE k \in Named(d) : TRUE]]
<1>2. PICK g : g = [i \in DOMAIN c |-> New(c[i])]
  OBVIOUS
<1>3. PICK a : a = [u EXCEPT !.creates = g]
  OBVIOUS
<1>4. AssignNames(u, calls, resp) = a
  BY <1>1, <1>2, <1>3 DEF AssignNames
<1>n. \A d : "sid" \in DOMAIN d => "sid" \in DOMAIN New(d) /\ New(d).sid = d.sid
  <2> HIDE DEF Named
  <2>1. QED
    OBVIOUS
<1> HIDE DEF New
<1>5. \/ g = <<>>
      \/ /\ t \in Sids /\ DOMAIN g = {1}
         /\ "sid" \in DOMAIN g[1] /\ g[1].sid = t
  <2>1. CASE c = <<>>
    BY <1>2, <2>1
  <2>2. CASE c # <<>>
    <3>1. t \in Sids /\ DOMAIN c = {1} /\ "sid" \in DOMAIN c[1] /\ c[1].sid = t
      BY <1>1, <2>2 DEF Pending
    <3>2. PICK r : r = c[1]
      OBVIOUS
    <3>3. DOMAIN g = {1} /\ g[1] = New(r)
      BY <1>2, <3>1, <3>2
    <3>4. "sid" \in DOMAIN g[1] /\ g[1].sid = r.sid
      BY <1>n, <3>1, <3>2, <3>3
    <3>5. QED
      BY <3>1, <3>2, <3>3, <3>4
  <2>3. QED
    BY <2>1, <2>2
<1>6. Pending(a, t)
  BY <1>3, <1>5 DEF Pending
<1>7. CASE u.reorder
  <2>1. PICK b : b = [a EXCEPT !.reorder = FALSE]
    OBVIOUS
  <2>2. Pending(b, t)
    BY <1>6, <2>1 DEF Pending
  <2>3. PICK o : o = [phase |-> "order", calls |-> <<>>, order |-> NewOrder(a)]
    OBVIOUS
  <2>4. o.phase = "order" /\ o # NoOp
    BY <2>3 DEF NoOp
  <2>5. n = [uci |-> b, op |-> o]
    BY <1>4, <1>7, <2>1, <2>3 DEF AfterTasks
  <2>6. QED
    BY <2>2, <2>4, <2>5
<1>8. CASE ~u.reorder
  <2>1. PICK b : b = Unload(a)
    OBVIOUS
  <2>2. Pending(b, t) /\ b.creates = <<>>
    BY <1>6, <2>1, UnloadKeeps
  <2>3. PICK o : o = [NoOp EXCEPT !.phase = "load"]
    OBVIOUS
  <2>4. o # NoOp
    BY <2>3 DEF NoOp
  <2>5. n = [uci |-> b, op |-> o]
    BY <1>4, <1>8, <2>1, <2>3 DEF AfterTasks
  <2>6. QED
    BY <2>2, <2>4, <2>5
<1>9. QED
  BY <1>7, <1>8

LEMMA SaveKeeps ==
  ASSUME NEW u, NEW t, Pending(u, t), NEW n, n = Save(u)
  PROVE  /\ Pending(n.uci, t)
         /\ n.op.phase = "load" => n.uci.creates = <<>>
         /\ n.op = NoOp => n.uci.creates = <<>>
<1>1. CASE Tasks(u) # <<>>
  <2>1. PICK o : o = [phase |-> "batch", calls |-> Tasks(u), order |-> <<>>]
    OBVIOUS
  <2>2. o.phase = "batch" /\ o # NoOp
    BY <2>1 DEF NoOp
  <2>3. n = [uci |-> u, op |-> o]
    BY <1>1, <2>1 DEF Save
  <2>4. QED
    BY <2>2, <2>3
<1>2. CASE Tasks(u) = <<>> /\ (u.reorder \/ u.touched)
  <2>1. n = AfterTasks(u, <<>>, <<>>)
    BY <1>2 DEF Save
  <2>2. QED
    BY <2>1, AfterTasksKeeps
<1>3. CASE Tasks(u) = <<>> /\ ~(u.reorder \/ u.touched)
  <2>1. n = [uci |-> u, op |-> NoOp]
    BY <1>3 DEF Save
  <2>2. QED
    BY <1>3, <2>1, NoTasks
<1>4. QED
  BY <1>1, <1>2, <1>3

(* What the page remembers of its dialog while it is drawn *)
Same(q, p) == Remembered(q) /\ q.kind = p.kind /\ q.dialog = p.dialog /\ q.added = p.added

LEMMA DrawnSame ==
  ASSUME NEW u, NEW p, Remembered(p)
  PROVE  /\ Same(renderContents(u, p), p) /\ Same(LoadMap(u, p), p)
         /\ \A sids : Same(CheckRows(p, sids), p)
         /\ \A s, f, v : Same([p EXCEPT !.form[s][f] = v], p)
<1>1. Same(renderContents(u, p), p)
  BY DEF Same, Remembered, renderContents
<1>2. Same(LoadMap(u, p), p)
  BY DEF Same, Remembered, LoadMap
<1>3. ASSUME NEW sids PROVE Same(CheckRows(p, sids), p)
  BY DEF Same, Remembered, CheckRows
<1>4. ASSUME NEW s, NEW f, NEW v PROVE Same([p EXCEPT !.form[s][f] = v], p)
  BY DEF Same, Remembered
<1>5. QED
  BY <1>1, <1>2, <1>3, <1>4

LEMMA LoadedSame ==
  ASSUME NEW u, NEW p, Remembered(p)
  PROVE  Same(renderContents(u, LoadMap(u, p)), p)
<1>1. PICK q : q = LoadMap(u, p)
  OBVIOUS
<1>2. Same(q, p) /\ Same(renderContents(u, q), q)
  BY <1>1, DrawnSame DEF Same
<1>3. QED
  BY <1>1, <1>2 DEF Same

LEMMA FinishCloses ==
  ASSUME NEW u, NEW p, Remembered(p), NEW q, q = Finish(u, p)
  PROVE  Remembered(q) /\ q.kind = p.kind /\ q.dialog = NoDialog /\ q.added = NoDialog
<1>1. PICK c : c = [p EXCEPT !.dialog = NoDialog, !.added = NoDialog]
  OBVIOUS
<1>2. Remembered(c) /\ c.kind = p.kind /\ c.dialog = NoDialog /\ c.added = NoDialog
  BY <1>1 DEF Remembered
<1>3. q = renderContents(u, LoadMap(u, c))
  BY <1>1 DEF Finish
<1>4. QED
  BY <1>2, <1>3, LoadedSame DEF Same

LEMMA NoPageRemembers ==
  ASSUME NEW kind
  PROVE  Remembered(NoPage(kind)) /\ NoPage(kind).kind = kind /\ NoPage(kind).added = NoDialog
  BY DEF Remembered, NoPage

LEMMA NoUciPending ==
  ASSUME NEW t
  PROVE  Pending(NoUci, t) /\ NoUci.creates = <<>>
  BY DEF Pending, NoUci

LEMMA SaveStep ==
  ASSUME Remembered(page), NEW u, page.kind = "grid" => Pending(u, page.added), save(u, page)
  PROVE  AddedOnly'
<1>1. PICK q : q = CheckRows(page, MapSections(u, page))
  OBVIOUS
<1>2. Same(q, page)
  BY <1>1, DrawnSame
<1>3. PICK w : w = Written(u, page)
  OBVIOUS
<1>4. PICK n : n = Save(w)
  OBVIOUS
<1>5. page.kind = "grid" => Pending(w, page.added)
  BY <1>3, ParseKeeps DEF Written
<1>6. CASE uci' = w /\ op' = NoOp /\ page' = q
  <2>1. op'.phase = "idle"
    BY <1>6 DEF NoOp
  <2>2. QED
    BY <1>2, <1>5, <1>6, <2>1 DEF AddedOnly, Same
<1>7. CASE uci' = n.uci /\ op' = n.op /\ n.op = NoOp /\ page' = Finish(w, q)
  <2>1. Remembered(page') /\ page'.kind = page.kind
    BY <1>2, <1>7, FinishCloses DEF Same
  <2>2. ASSUME page.kind = "grid"
        PROVE  Pending(uci', page'.added) /\ uci'.creates = <<>>
    <3>1. Pending(uci', page.added) /\ uci'.creates = <<>>
      BY <1>4, <1>5, <1>7, <2>2, SaveKeeps
    <3>2. QED
      BY <3>1 DEF Pending
  <2>3. QED
    BY <2>1, <2>2 DEF AddedOnly
<1>8. CASE uci' = n.uci /\ op' = n.op /\ page' = q
  <2>1. ASSUME page.kind = "grid"
        PROVE  Pending(uci', page.added) /\ (op'.phase = "load" => uci'.creates = <<>>)
    BY <1>4, <1>5, <1>8, <2>1, SaveKeeps
  <2>2. QED
    BY <1>2, <1>8, <2>1 DEF AddedOnly, Same
<1>9. \/ uci' = w /\ op' = NoOp /\ page' = q
      \/ uci' = n.uci /\ op' = n.op /\ n.op = NoOp /\ page' = Finish(w, q)
      \/ uci' = n.uci /\ op' = n.op /\ page' = q
  BY <1>1, <1>3, <1>4 DEF save
<1>10. QED
  BY <1>6, <1>7, <1>8, <1>9

-----------------------------------------------------------------------------
(* The actions *)

(* Without a dialog nothing is pending on a grid. *)
LEMMA NonePending ==
  ASSUME Remembered(page), page.kind = "grid" => Pending(uci, page.added), page.dialog = NoDialog
  PROVE  page.added = NoDialog /\ (page.kind = "grid" => uci.creates = <<>>)
  BY FormAssumption DEF Remembered, Pending

LEMMA AddedInit == Init => AddedOnly
<1> SUFFICES ASSUME Init PROVE AddedOnly
  OBVIOUS
<1>1. PICK kind : page = renderContents(uci, LoadMap(uci, NoPage(kind)))
  BY DEF Init
<1>2. Remembered(page)
  BY <1>1, NoPageRemembers, LoadedSame DEF Same
<1>3. Pending(uci, page.added) /\ uci.creates = <<>>
  BY NoUciPending, FillKeeps DEF Init
<1>4. QED
  BY <1>2, <1>3 DEF AddedOnly

LEMMA AddedNext == AddedOnly /\ [Next]_vars => AddedOnly'
<1> SUFFICES ASSUME AddedOnly, [Next]_vars PROVE AddedOnly'
  OBVIOUS
<1>r. Remembered(page)
  BY DEF AddedOnly
<1>p. page.kind = "grid" => Pending(uci, page.added)
  BY DEF AddedOnly
<1>l. page.kind = "grid" /\ op.phase = "load" => uci.creates = <<>>
  BY DEF AddedOnly
<1>1. ASSUME NEW s, NEW f, NEW v, Input(s, f, v) PROVE AddedOnly'
  <2>1. PICK p : p = [page EXCEPT !.form[s][f] = v]
    OBVIOUS
  <2>2. Same(p, page)
    BY <1>r, <2>1, DrawnSame
  <2>3. page' = CheckRows(p, MapSections(uci, page))
    BY <1>1, <2>1 DEF Input
  <2>4. Same(page', p)
    BY <2>2, <2>3, DrawnSame DEF Same
  <2>5. UNCHANGED <<uci, op>>
    BY <1>1 DEF Input
  <2>6. QED
    BY <1>p, <1>l, <2>2, <2>4, <2>5 DEF AddedOnly, Same
<1>2. ASSUME NEW s1, NEW s2, NEW after, handleDrop(s1, s2, after) PROVE AddedOnly'
  <2>1. UNCHANGED page /\ uci' = Move(uci, s1, s2, after) /\ page.dialog = NoDialog
    BY <1>2 DEF handleDrop
  <2>2. page.kind = "grid" => uci.creates = <<>>
    BY <1>r, <1>p, <2>1, NonePending
  <2>3. page.kind = "grid" => Pending(uci', page.added) /\ uci'.creates = <<>>
    BY <1>p, <2>1, <2>2, MoveKeeps
  <2>4. QED
    BY <1>r, <2>1, <2>3 DEF AddedOnly
<1>3. ASSUME NEW s, handleRemove(s) PROVE AddedOnly'
  <2>1. page.dialog = NoDialog /\ save(RemoveSection(uci, s), page)
    BY <1>3 DEF handleRemove
  <2>2. page.kind = "grid" => uci.creates = <<>>
    BY <1>r, <1>p, <2>1, NonePending
  <2>3. page.kind = "grid" => Pending(RemoveSection(uci, s), page.added)
    BY <1>p, <2>2, RemoveKeeps
  <2>4. QED
    BY <1>r, <2>1, <2>3, SaveStep
<1>4. ASSUME NEW s, handleEdit(s) PROVE AddedOnly'
  <2>1. /\ page.dialog = NoDialog /\ uci' = Merge(uci, {s}) /\ UNCHANGED op
        /\ page' = OpenDialog(uci', page, s)
    BY <1>4 DEF handleEdit
  <2>2. page.added = NoDialog /\ (page.kind = "grid" => uci.creates = <<>>)
    BY <1>r, <1>p, <2>1, NonePending
  <2>3. PICK q : q = [page EXCEPT !.dialog = s]
    OBVIOUS
  <2>4. Remembered(q) /\ q.kind = page.kind /\ q.added = NoDialog
    BY <1>r, <2>2, <2>3 DEF Remembered
  <2>5. page' = renderContents(uci', LoadMap(uci', q))
    BY <2>1, <2>3 DEF OpenDialog
  <2>6. Remembered(page') /\ page'.kind = page.kind /\ page'.added = NoDialog
    BY <2>4, <2>5, LoadedSame DEF Same
  <2>7. page.kind = "grid" => Pending(uci', page.added) /\ uci'.creates = <<>>
    BY <1>p, <2>1, <2>2, MergeKeeps
  <2>8. QED
    BY <2>2, <2>6, <2>7 DEF AddedOnly
<1>5. ASSUME handleSave PROVE AddedOnly'
  BY <1>r, <1>p, <1>5, SaveStep DEF handleSave
<1>6. ASSUME handleReset PROVE AddedOnly'
  <2>1. page' = renderContents(uci, page) /\ UNCHANGED <<uci, op>>
    BY <1>6 DEF handleReset, reset
  <2>2. Same(page', page)
    BY <1>r, <2>1, DrawnSame
  <2>3. QED
    BY <1>p, <1>l, <2>1, <2>2 DEF AddedOnly, Same
<1>7. ASSUME handleAdd PROVE AddedOnly'
  <2>1. PICK t \in FreshTemps(uci) : save(Add(uci, t), page)
    BY <1>7 DEF handleAdd
  <2>2. page.kind # "grid"
    BY <1>7 DEF handleAdd
  <2>3. QED
    BY <1>r, <2>1, <2>2, SaveStep
<1>8. ASSUME handleGridAdd PROVE AddedOnly'
  <2>1. page.dialog = NoDialog /\ page.kind = "grid" /\ UNCHANGED op /\ op.phase = "idle"
    BY <1>8 DEF handleGridAdd, Idle
  <2>2. PICK t \in Temps : /\ uci' = Add(uci, t)
                           /\ page' = OpenDialog(uci', [page EXCEPT !.added = t], t)
    BY <1>8 DEF handleGridAdd, FreshTemps
  <2>3. uci.creates = <<>>
    BY <1>r, <1>p, <2>1, NonePending
  <2>4. Pending(uci, t)
    BY <1>p, <2>1, <2>3 DEF Pending
  <2>5. Pending(uci', t)
    BY <2>2, <2>3, <2>4, AddKeeps
  <2>6. PICK p : p = [page EXCEPT !.added = t]
    OBVIOUS
  <2>7. PICK q : q = [p EXCEPT !.dialog = t]
    OBVIOUS
  <2>8. Remembered(q) /\ q.added = t
    BY <1>r, <2>6, <2>7 DEF Remembered
  <2>9. page' = renderContents(uci', LoadMap(uci', q))
    BY <2>2, <2>6, <2>7 DEF OpenDialog
  <2>10. Remembered(page') /\ page'.added = t
    BY <2>8, <2>9, LoadedSame DEF Same
  <2>11. QED
    BY <2>1, <2>5, <2>10 DEF AddedOnly
<1>9. ASSUME handleModalCancel PROVE AddedOnly'
  <2>1. /\ uci' = IF page.added # NoDialog THEN RemoveSection(uci, page.added) ELSE uci
        /\ page' = [page EXCEPT !.dialog = NoDialog, !.added = NoDialog, !.rows = {}]
    BY <1>9 DEF handleModalCancel
  <2>2. Remembered(page') /\ page'.kind = page.kind /\ page'.added = NoDialog
    BY <1>r, <2>1 DEF Remembered
  <2>3. ASSUME page.kind = "grid" PROVE Pending(uci', NoDialog) /\ uci'.creates = <<>>
    <3>1. CASE page.added = NoDialog
      BY <1>p, <2>1, <2>3, <3>1, FormAssumption DEF Pending
    <3>2. CASE page.added # NoDialog
      <4>1. Pending(uci', page.added) /\ uci'.creates = <<>>
        BY <1>p, <2>1, <2>3, <3>2, RemoveKeeps
      <4>2. QED
        BY <4>1 DEF Pending
    <3>3. QED
      BY <3>1, <3>2
  <2>4. QED
    BY <2>2, <2>3 DEF AddedOnly
<1>10. ASSUME Reload PROVE AddedOnly'
  <2>1. /\ uci' = Fill(NoUci, srv)
        /\ page' = renderContents(uci', LoadMap(uci', NoPage(page.kind)))
    BY <1>10 DEF Reload
  <2>2. Remembered(page')
    BY <2>1, NoPageRemembers, LoadedSame DEF Same
  <2>3. \A t : Pending(uci', t) /\ uci'.creates = <<>>
    BY <2>1, NoUciPending, FillKeeps
  <2>4. QED
    BY <2>2, <2>3 DEF AddedOnly
<1>11. ASSUME AnswerBatch PROVE AddedOnly'
  <2>1. PICK k : BatchDone(k)
    BY <1>11 DEF AnswerBatch
  <2>2. UNCHANGED page
    BY <1>11 DEF AnswerBatch
  <2>3. CASE \E resp : uci' = AfterTasks(uci, op.calls, resp).uci /\ op' = AfterTasks(uci, op.calls, resp).op
    <3>1. PICK resp : uci' = AfterTasks(uci, op.calls, resp).uci /\ op' = AfterTasks(uci, op.calls, resp).op
      BY <2>3
    <3>2. ASSUME page.kind = "grid"
          PROVE  Pending(uci', page.added) /\ (op'.phase = "load" => uci'.creates = <<>>)
      BY <1>p, <3>1, <3>2, AfterTasksKeeps
    <3>3. QED
      BY <1>r, <2>2, <3>2 DEF AddedOnly
  <2>4. CASE op' = NoOp /\ UNCHANGED uci
    <3>1. op'.phase = "idle"
      BY <2>4 DEF NoOp
    <3>2. QED
      BY <1>r, <1>p, <2>2, <2>4, <3>1 DEF AddedOnly
  <2>5. QED
    <3>1. \/ \E resp : uci' = AfterTasks(uci, op.calls, resp).uci /\ op' = AfterTasks(uci, op.calls, resp).op
          \/ op' = NoOp /\ UNCHANGED uci
      BY <2>1 DEF BatchDone
    <3>2. QED
      BY <2>3, <2>4, <3>1
<1>12. ASSUME LoseBatch \/ LoseOrder PROVE AddedOnly'
  <2>1. UNCHANGED page /\ UNCHANGED uci /\ op' = NoOp
    BY <1>12 DEF LoseBatch, LoseOrder, BatchLost, OrderLost
  <2>2. op'.phase = "idle"
    BY <2>1 DEF NoOp
  <2>3. QED
    BY <1>r, <1>p, <2>1, <2>2 DEF AddedOnly
<1>13. ASSUME AnswerOrder PROVE AddedOnly'
  <2>1. UNCHANGED page /\ uci' = Unload(uci)
    BY <1>13 DEF AnswerOrder, OrderDone
  <2>2. page.kind = "grid" => Pending(uci', page.added) /\ uci'.creates = <<>>
    BY <1>p, <2>1, UnloadKeeps
  <2>3. QED
    BY <1>r, <2>1, <2>2 DEF AddedOnly
<1>14. ASSUME AnswerLoad PROVE AddedOnly'
  <2>1. /\ op.phase = "load" /\ uci' = Fill(uci, srv) /\ page' = Finish(uci', page)
    BY <1>14 DEF AnswerLoad, LoadDone
  <2>2. Remembered(page') /\ page'.kind = page.kind /\ page'.added = NoDialog
    BY <1>r, <2>1, FinishCloses
  <2>3. page.kind = "grid" => Pending(uci', page.added) /\ uci'.creates = <<>>
    BY <1>p, <1>l, <2>1, FillKeeps
  <2>4. page.kind = "grid" => Pending(uci', NoDialog)
    BY <2>3 DEF Pending
  <2>5. QED
    BY <2>2, <2>3, <2>4 DEF AddedOnly
<1>15. ASSUME LoseLoad PROVE AddedOnly'
  <2>1. UNCHANGED page /\ op.phase = "load" /\ uci' = [uci EXCEPT !.loaded = "failed"]
    BY <1>15 DEF LoseLoad, LoadLost
  <2>2. page.kind = "grid" => Pending(uci', page.added) /\ uci'.creates = <<>>
    BY <1>p, <1>l, <2>1 DEF Pending
  <2>3. QED
    BY <1>r, <2>1, <2>2 DEF AddedOnly
<1>16. CASE UNCHANGED vars
  BY <1>16 DEF AddedOnly, vars
<1>17. QED
  BY <1>1, <1>2, <1>3, <1>4, <1>5, <1>6, <1>7, <1>8, <1>9, <1>10, <1>11, <1>12, <1>13, <1>14,
     <1>15, <1>16 DEF Next

(* On a grid page without an open dialog and without a save under way no   *)
(* section is pending: what the dialog added went with it, whatever was    *)
(* saved, lost, dragged or removed before (GridSection.handleModalCancel). *)
THEOREM CancelledAddIsAlwaysGone == Spec => []CancelledAddIsGone
<1>1. AddedOnly => CancelledAddIsGone
  <2> SUFFICES ASSUME AddedOnly, page.kind = "grid", page.dialog = NoDialog
               PROVE  Created(uci) = {}
    BY DEF CancelledAddIsGone
  <2>1. uci.creates = <<>>
    BY NonePending DEF AddedOnly
  <2>2. QED
    BY <2>1 DEF Created
<1>2. QED
  BY <1>1, AddedInit, AddedNext, PTL DEF Spec

-----------------------------------------------------------------------------
(* The drop-down *)

(* The empty string, by a name that the provers leave alone *)
Blank == ""
Text == STRING \cup {NoValue, CreateValue, "undefined", "a", ""}
Items == [v : Text, sel : BOOLEAN, un : BOOLEAN, made : {"choice", "created", "custom"}]
Boxes == [multiple : BOOLEAN, optional : BOOLEAN, create : BOOLEAN, open : BOOLEAN,
          items : Seq(Items), hidden : Seq(Text)]

Distinct(items) == \A i, j \in DOMAIN items : items[i].v = items[j].v => i = j
AtMostOne(items) == \A i, j \in DOMAIN items : items[i].sel /\ items[j].sel => i = j
Chosen(items) == \E i \in DOMAIN items : items[i].sel

(* What a box is while its marks are changed; the hidden inputs may lag behind. *)
Marks(b) ==
  /\ b.multiple => \A i \in DOMAIN b.items : b.items[i].v # NoValue
  /\ b.create => \E i \in DOMAIN b.items : b.items[i].v = CreateValue
  /\ \A i \in DOMAIN b.items : /\ b.items[i].v \in {NoValue, CreateValue} => b.items[i].made = "choice"
                               /\ b.items[i].v = NoValue => ~b.items[i].un
Loose(b) ==
  b \in Boxes /\ Distinct(b.items) /\ (~b.multiple => AtMostOne(b.items)) /\ Marks(b)
(* Inductive for every box whose choices are never cleared with reset. *)
BoxInv(b) == Loose(b) /\ b.hidden = Values(b.items) /\ (~b.multiple => Chosen(b.items))
(* Inductive for every box: bare says that nothing may be selected in it, and then its *)
(* hidden inputs may be those of before. *)
Held(bare, b) == Loose(b) /\ (BoxInv(b) \/ (bare /\ ~Chosen(b.items)))

LEMMA HeldIs ==
  ASSUME NEW b
  PROVE  (Held(FALSE, b) <=> BoxInv(b)) /\ (BoxInv(b) => \A bare \in BOOLEAN : Held(bare, b))
  BY DEF Held, BoxInv

(* Reading a list of items *)
ValueTakes(c, values, it) ==
  IF it.sel /\ it.v # NoValue THEN Append(values, it.v) ELSE values
Read(it) == it.sel /\ it.v # NoValue
ReadKept(c, i, x) ==
  x \in Seq(Text) /\ Range(x) = {c[k].v : k \in {j \in 1 .. i : Read(c[j])}}
ValueFold == INSTANCE FoldInduction WITH Op <- ValueTakes, Good <- ReadKept

LEMMA ValuesFold == \A items, c : ValueFold!Fold(c, <<>>, items) = Values(items)
  BY DEF ValueFold!Fold, ValueFold!Latest,
    Values, FoldLeft, MapThenFoldSet, Max, ValueTakes

LEMMA SeqIs ==
  ASSUME NEW S, NEW s \in Seq(S)
  PROVE  \E n \in Nat : n = Len(s) /\ DOMAIN s = 1 .. n /\ \A i \in 1 .. n : s[i] \in S
  OBVIOUS

Longer(t, s, e) == t = Append(s, e)

LEMMA AppendIs ==
  ASSUME NEW S, NEW s \in Seq(S), NEW e \in S, NEW t, Longer(t, s, e)
  PROVE  /\ t \in Seq(S) /\ Len(t) = Len(s) + 1 /\ DOMAIN t = 1 .. Len(s) + 1
         /\ t[Len(s) + 1] = e /\ \A i \in 1 .. Len(s) : t[i] = s[i]
         /\ Range(t) = Range(s) \cup {e}
<1>1. /\ t \in Seq(S) /\ Len(t) = Len(s) + 1 /\ DOMAIN t = 1 .. Len(s) + 1
      /\ t[Len(s) + 1] = e /\ \A i \in 1 .. Len(s) : t[i] = s[i]
  BY DEF Longer
<1>2. PICK n \in Nat : n = Len(s) /\ DOMAIN s = 1 .. n
  OBVIOUS
<1>3. \A x \in Range(t) : x \in Range(s) \cup {e}
  <2>1. ASSUME NEW i \in DOMAIN t PROVE t[i] \in Range(s) \cup {e}
    <3>1. i = n + 1 \/ i \in 1 .. n
      BY <1>1, <1>2
    <3>2. QED
      BY <1>1, <1>2, <3>1 DEF Range
  <2>2. QED
    BY <2>1 DEF Range
<1>4. \A x \in Range(s) \cup {e} : x \in Range(t)
  <2>1. ASSUME NEW i \in DOMAIN s PROVE s[i] \in Range(t)
    <3>1. i \in DOMAIN t /\ t[i] = s[i]
      BY <1>1, <1>2
    <3>2. QED
      BY <3>1 DEF Range
  <2>2. e \in Range(t)
    <3>1. n + 1 \in DOMAIN t /\ t[n + 1] = e
      BY <1>1, <1>2
    <3>2. QED
      BY <3>1 DEF Range
  <2>3. QED
    BY <2>1, <2>2 DEF Range
<1>5. QED
  BY <1>1, <1>3, <1>4

LEMMA ValuesRange ==
  ASSUME NEW items \in Seq(Items)
  PROVE  /\ Values(items) \in Seq(Text)
         /\ Range(Values(items)) = {items[k].v : k \in {j \in DOMAIN items : Read(items[j])}}
<1>1. PICK n \in Nat : n = Len(items) /\ DOMAIN items = 1 .. n /\ \A i \in 1 .. n : items[i] \in Items
  BY SeqIs
<1>2. ReadKept(items, 0, <<>>)
  <2>1. <<>> \in Seq(Text) /\ Range(<<>>) = {}
    BY DEF Range
  <2>2. 1 .. 0 = {}
    OBVIOUS
  <2>3. QED
    BY <2>1, <2>2 DEF ReadKept
<1>3. ASSUME NEW i \in 1 .. n, NEW x, ReadKept(items, i - 1, x)
      PROVE  ReadKept(items, i, ValueTakes(items, x, items[i]))
  <2>1. x \in Seq(Text) /\ Range(x) = {items[k].v : k \in {j \in 1 .. i - 1 : Read(items[j])}}
    BY <1>3 DEF ReadKept
  <2>2. 1 .. i = (1 .. i - 1) \cup {i}
    OBVIOUS
  <2>3. CASE Read(items[i])
    <3>1. PICK y : y = Append(x, items[i].v)
      OBVIOUS
    <3>2. items[i].v \in Text
      BY <1>1 DEF Items
    <3>3. y \in Seq(Text) /\ Range(y) = Range(x) \cup {items[i].v}
      <4>1. PICK e \in Text : e = items[i].v
        BY <3>2
      <4>2. x \in Seq(Text) /\ Longer(y, x, e)
        BY <2>1, <3>1, <4>1 DEF Longer
      <4>3. QED
        BY <4>1, <4>2, AppendIs
    <3>4. {items[k].v : k \in {j \in 1 .. i : Read(items[j])}} =
            {items[k].v : k \in {j \in 1 .. i - 1 : Read(items[j])}} \cup {items[i].v}
      BY <2>2, <2>3
    <3>5. ValueTakes(items, x, items[i]) = y
      BY <2>3, <3>1 DEF ValueTakes, Read
    <3>6. QED
      BY <2>1, <3>3, <3>4, <3>5 DEF ReadKept
  <2>4. CASE ~Read(items[i])
    <3>1. {items[k].v : k \in {j \in 1 .. i : Read(items[j])}} =
            {items[k].v : k \in {j \in 1 .. i - 1 : Read(items[j])}}
      BY <2>2, <2>4
    <3>2. ValueTakes(items, x, items[i]) = x
      BY <2>4 DEF ValueTakes, Read
    <3>3. QED
      BY <2>1, <3>1, <3>2 DEF ReadKept
  <2>5. QED
    BY <2>3, <2>4
<1>4. ReadKept(items, n, ValueFold!Fold(items, <<>>, items))
  BY <1>1, <1>2, <1>3, ValueFold!FoldKeeps
<1>5. QED
  BY <1>1, <1>4, ValuesFold DEF ReadKept

LEMMA ValuesAppend ==
  ASSUME NEW items \in Seq(Items), NEW it \in Items
  PROVE  Values(Append(items, it)) = IF Read(it) THEN Append(Values(items), it.v) ELSE Values(items)
<1>1. ValueFold!Fold(<<>>, <<>>, Append(items, it)) = ValueTakes(<<>>, ValueFold!Fold(<<>>, <<>>, items), it)
  BY ValueFold!FoldAppend
<1>2. QED
  BY <1>1, ValuesFold DEF ValueTakes, Read

(* Nothing selected but the placeholder *)
LEMMA ValuesNone ==
  ASSUME NEW items \in Seq(Items), \A i \in DOMAIN items : ~Read(items[i])
  PROVE  Values(items) = <<>>
<1>1. PICK x : x = Values(items) /\ x \in Seq(Text) /\ Range(x) = {}
  BY ValuesRange
<1>2. DOMAIN x = {}
  BY <1>1 DEF Range
<1>3. Len(x) = 0
  BY <1>1, <1>2
<1>4. QED
  BY <1>1, <1>3

(* A part of a list, in order or not: where its elements come from *)
Part(t, s, e) ==
  /\ e \in [DOMAIN t -> DOMAIN s] /\ \A j \in DOMAIN t : t[j] = s[e[j]]
  /\ \A j, k \in DOMAIN t : e[j] = e[k] => j = k

LEMMA PartKeeps ==
  ASSUME NEW t, NEW s, NEW e, Part(t, s, e)
  PROVE  /\ Distinct(s) => Distinct(t) /\ (AtMostOne(s) => AtMostOne(t))
         /\ IsInjective(s) => IsInjective(t)
<1>1. \A j \in DOMAIN t : e[j] \in DOMAIN s /\ t[j] = s[e[j]]
  BY DEF Part
<1>2. \A j, k \in DOMAIN t : e[j] = e[k] => j = k
  BY DEF Part
<1>3. Distinct(s) => Distinct(t)
  BY <1>1, <1>2 DEF Distinct
<1>4. AtMostOne(s) => AtMostOne(t)
  BY <1>1, <1>2 DEF AtMostOne
<1>5. IsInjective(s) => IsInjective(t)
  BY <1>1, <1>2 DEF IsInjective
<1>6. QED
  BY <1>3, <1>4, <1>5

(* filter() *)
LeftTakes(c, left, e) == IF e \in c.gone THEN left ELSE Append(left, e)
Covers(c, i, x, e) ==
  /\ e \in [1 .. Len(x) -> 1 .. i] /\ \A j \in 1 .. Len(x) : x[j] = c.list[e[j]] /\ x[j] \notin c.gone
  /\ \A j, k \in 1 .. Len(x) : e[j] = e[k] => j = k
  /\ \A k \in 1 .. i : c.list[k] \notin c.gone => \E j \in 1 .. Len(x) : e[j] = k
LeftKept(c, i, x) == x \in Seq(c.from) /\ \E e : Covers(c, i, x, e)
LeftFold == INSTANCE FoldInduction WITH Op <- LeftTakes, Good <- LeftKept

LEMMA LeftIs == \A list, c : LeftFold!Fold(c, <<>>, list) = Without(list, c.gone)
  BY DEF LeftFold!Fold, LeftFold!Latest,
    Without, FoldLeft, MapThenFoldSet, Max, LeftTakes

LEMMA LeftMore ==
  ASSUME NEW c, NEW i \in Nat, i > 0, NEW x \in Seq(c.from), NEW e, Covers(c, i - 1, x, e),
         c.list[i] \in c.from, c.list[i] \notin c.gone, NEW y, Longer(y, x, c.list[i])
  PROVE  y \in Seq(c.from) /\ \E f : Covers(c, i, y, f)
<1>1. PICK n \in Nat : n = Len(x)
  OBVIOUS
<1>2. /\ y \in Seq(c.from) /\ Len(y) = n + 1 /\ y[n + 1] = c.list[i]
      /\ \A j \in 1 .. n : y[j] = x[j]
  <2>1. PICK S, a : S = c.from /\ a = c.list[i] /\ a \in S
    OBVIOUS
  <2>2. x \in Seq(S) /\ Longer(y, x, a)
    BY <2>1 DEF Longer
  <2>3. /\ y \in Seq(S) /\ Len(y) = Len(x) + 1 /\ y[Len(x) + 1] = a
        /\ \A j \in 1 .. Len(x) : y[j] = x[j]
    BY <2>1, <2>2, AppendIs
  <2>4. /\ y \in Seq(S) /\ Len(y) = n + 1 /\ y[n + 1] = a
        /\ \A j \in 1 .. n : y[j] = x[j]
    BY <1>1, <2>3
  <2>5. QED
    BY <2>1, <2>4, Zenon
<1>3. /\ e \in [1 .. n -> 1 .. i - 1] /\ \A j \in 1 .. n : x[j] = c.list[e[j]] /\ x[j] \notin c.gone
      /\ \A j, k \in 1 .. n : e[j] = e[k] => j = k
      /\ \A k \in 1 .. i - 1 : c.list[k] \notin c.gone => \E j \in 1 .. n : e[j] = k
  BY <1>1 DEF Covers
<1>4. PICK f : f = [j \in 1 .. n + 1 |-> IF j = n + 1 THEN i ELSE e[j]]
  OBVIOUS
<1>5. f[n + 1] = i /\ \A j \in 1 .. n : f[j] = e[j] /\ f[j] \in 1 .. i - 1
  BY <1>3, <1>4
<1>6. \A j \in 1 .. n + 1 : j = n + 1 \/ j \in 1 .. n
  OBVIOUS
<1>7. f \in [1 .. n + 1 -> 1 .. i]
  <2>1. ASSUME NEW j \in 1 .. n + 1 PROVE (IF j = n + 1 THEN i ELSE e[j]) \in 1 .. i
    BY <1>3, <1>6
  <2>2. QED
    BY <1>4, <2>1
<1>8. \A j \in 1 .. n + 1 : y[j] = c.list[f[j]] /\ y[j] \notin c.gone
  BY <1>2, <1>3, <1>5, <1>6
<1>9. \A j, k \in 1 .. n + 1 : f[j] = f[k] => j = k
  <2>1. \A j \in 1 .. n : f[j] # i
    BY <1>5
  <2>2. QED
    BY <1>3, <1>5, <1>6, <2>1
<1>10. ASSUME NEW k \in 1 .. i, c.list[k] \notin c.gone
       PROVE  \E j \in 1 .. n + 1 : f[j] = k
  <2>1. CASE k = i
    BY <1>5, <2>1
  <2>2. CASE k # i
    <3>1. k \in 1 .. i - 1
      BY <2>2
    <3>2. PICK j \in 1 .. n : e[j] = k
      BY <1>3, <1>10, <3>1
    <3>3. j \in 1 .. n + 1 /\ f[j] = k
      BY <1>5, <3>2
    <3>4. QED
      BY <3>3
  <2>3. QED
    BY <2>1, <2>2
<1>11. Covers(c, i, y, f)
  BY <1>2, <1>7, <1>8, <1>9, <1>10 DEF Covers
<1>12. QED
  BY <1>2, <1>11

LEMMA LeftLess ==
  ASSUME NEW c, NEW i \in Nat, i > 0, NEW x \in Seq(c.from), NEW e, Covers(c, i - 1, x, e), c.list[i] \in c.gone
  PROVE  Covers(c, i, x, e)
<1>1. PICK n \in Nat : n = Len(x)
  OBVIOUS
<1>2. \A k \in 1 .. i : k = i \/ k \in 1 .. i - 1
  OBVIOUS
<1>3. 1 .. i - 1 \subseteq 1 .. i
  OBVIOUS
<1>4. QED
  BY <1>1, <1>2, <1>3 DEF Covers

LEMMA WithoutIs ==
  ASSUME NEW S, NEW s \in Seq(S), NEW gone, NEW t, t = Without(s, gone)
  PROVE  /\ t \in Seq(S)
         /\ \E e : /\ Part(t, s, e)
                   /\ \A j \in DOMAIN t : t[j] \notin gone
                   /\ \A k \in DOMAIN s : s[k] \notin gone => \E j \in DOMAIN t : e[j] = k
<1>1. PICK n \in Nat : n = Len(s) /\ DOMAIN s = 1 .. n /\ \A i \in 1 .. n : s[i] \in S
  BY SeqIs
<1>2. PICK c : c = [gone |-> gone, list |-> s, from |-> S]
  OBVIOUS
<1>3. c.gone = gone /\ c.list = s /\ c.from = S
  BY <1>2
<1>4. LeftKept(c, 0, <<>>)
  <2>1. PICK e : e = [j \in 1 .. 0 |-> j]
    OBVIOUS
  <2>2. Len(<<>>) = 0 /\ 1 .. 0 = {} /\ <<>> \in Seq(c.from)
    OBVIOUS
  <2>3. Covers(c, 0, <<>>, e)
    BY <2>1, <2>2 DEF Covers
  <2>4. QED
    BY <2>2, <2>3 DEF LeftKept
<1>5. ASSUME NEW i \in 1 .. n, NEW x, LeftKept(c, i - 1, x)
      PROVE  LeftKept(c, i, LeftTakes(c, x, s[i]))
  <2>1. PICK e : x \in Seq(c.from) /\ Covers(c, i - 1, x, e)
    BY <1>5 DEF LeftKept
  <2>2. i \in Nat /\ i > 0 /\ c.list[i] \in c.from /\ c.list[i] = s[i]
    BY <1>1, <1>3
  <2>3. CASE s[i] \in gone
    <3>1. LeftTakes(c, x, s[i]) = x
      BY <1>3, <2>3 DEF LeftTakes
    <3>2. Covers(c, i, x, e)
      BY <1>3, <2>1, <2>2, <2>3, LeftLess
    <3>3. QED
      BY <2>1, <3>1, <3>2 DEF LeftKept
  <2>4. CASE s[i] \notin gone
    <3>1. LeftTakes(c, x, s[i]) = Append(x, c.list[i])
      BY <1>3, <2>2, <2>4 DEF LeftTakes
    <3>2. PICK y : y = Append(x, c.list[i])
      OBVIOUS
    <3>3. y \in Seq(c.from) /\ \E f : Covers(c, i, y, f)
      BY <1>3, <2>1, <2>2, <2>4, <3>2, LeftMore DEF Longer
    <3>4. QED
      BY <3>1, <3>2, <3>3 DEF LeftKept
  <2>5. QED
    BY <2>3, <2>4
<1>6. LeftKept(c, n, LeftFold!Fold(c, <<>>, s))
  BY <1>1, <1>4, <1>5, LeftFold!FoldKeeps
<1>7. LeftKept(c, n, t)
  BY <1>3, <1>6, LeftIs
<1>8. PICK e : t \in Seq(S) /\ Covers(c, n, t, e)
  BY <1>3, <1>7 DEF LeftKept
<1>9. DOMAIN t = 1 .. Len(t)
  BY <1>8
<1>10. Part(t, s, e)
  BY <1>1, <1>3, <1>8, <1>9 DEF Covers, Part
<1>11. QED
  BY <1>1, <1>3, <1>8, <1>9, <1>10 DEF Covers

(* Items that are not selected can go. *)
LeftReads(c, i, x) == x \in Seq(Items) /\ Values(x) = c.y[i]
ReadFold == INSTANCE FoldInduction WITH Op <- LeftTakes, Good <- LeftReads

LEMMA WithoutReads ==
  ASSUME NEW items \in Seq(Items), NEW gone, \A it \in gone : ~Read(it)
  PROVE  Values(Without(items, gone)) = Values(items)
<1>1. PICK n \in Nat : n = Len(items) /\ DOMAIN items = 1 .. n /\ \A i \in 1 .. n : items[i] \in Items
  BY SeqIs
<1>2. PICK y : ValueFold!Trace(<<>>, <<>>, items, n, y) /\ ValueFold!Fold(<<>>, <<>>, items) = y[n]
  BY <1>1, ValueFold!FoldTrace
<1>3. y[0] = <<>> /\ \A i \in 1 .. n : y[i] = ValueTakes(<<>>, y[i - 1], items[i])
  BY <1>2 DEF ValueFold!Trace
<1>4. PICK c : c = [gone |-> gone, y |-> y]
  OBVIOUS
<1>5. c.gone = gone /\ c.y = y
  BY <1>4
<1>6. LeftReads(c, 0, <<>>)
  <2>1. <<>> \in Seq(Items) /\ DOMAIN <<>> = {}
    OBVIOUS
  <2>2. Values(<<>>) = <<>>
    BY <2>1, ValuesNone
  <2>3. QED
    BY <1>3, <1>5, <2>1, <2>2 DEF LeftReads
<1>7. ASSUME NEW i \in 1 .. n, NEW x, LeftReads(c, i - 1, x)
      PROVE  LeftReads(c, i, LeftTakes(c, x, items[i]))
  <2>1. x \in Seq(Items) /\ Values(x) = y[i - 1] /\ items[i] \in Items
    BY <1>1, <1>5, <1>7 DEF LeftReads
  <2>2. CASE items[i] \in gone
    <3>1. ~Read(items[i])
      BY <2>2
    <3>2. y[i] = y[i - 1]
      BY <1>3, <3>1 DEF ValueTakes, Read
    <3>3. LeftTakes(c, x, items[i]) = x
      BY <1>5, <2>2 DEF LeftTakes
    <3>4. QED
      BY <1>5, <2>1, <3>2, <3>3 DEF LeftReads
  <2>3. CASE items[i] \notin gone
    <3>1. PICK it \in Items : it = items[i]
      BY <2>1
    <3>2. PICK z : z = Append(x, it)
      OBVIOUS
    <3>3. Longer(z, x, it)
      BY <3>2 DEF Longer
    <3>4. z \in Seq(Items)
      BY <2>1, <3>3, AppendIs
    <3>5. Values(z) = IF Read(it) THEN Append(Values(x), it.v) ELSE Values(x)
      BY <2>1, <3>2, ValuesAppend
    <3>6. y[i] = IF Read(it) THEN Append(y[i - 1], it.v) ELSE y[i - 1]
      BY <1>3, <3>1 DEF ValueTakes, Read
    <3>7. LeftTakes(c, x, items[i]) = z
      BY <1>5, <2>3, <3>1, <3>2 DEF LeftTakes
    <3>8. Values(z) = y[i]
      BY <2>1, <3>5, <3>6
    <3>9. QED
      BY <1>5, <3>4, <3>7, <3>8 DEF LeftReads
  <2>4. QED
    BY <2>2, <2>3
<1>8. LeftReads(c, n, ReadFold!Fold(c, <<>>, items))
  BY <1>1, <1>6, <1>7, ReadFold!FoldKeeps
<1>9. ReadFold!Fold(c, <<>>, items) = Without(items, c.gone)
  BY DEF ReadFold!Fold, ReadFold!Latest,
    Without, FoldLeft, MapThenFoldSet, Max, LeftTakes
<1>10. QED
  BY <1>2, <1>5, <1>8, <1>9, ValuesFold DEF LeftReads

(* A new item before the last one *)
Inserted(s, t, p, it) ==
  /\ t \in Seq(Items) /\ DOMAIN t = 1 .. Len(s) + 1 /\ p \in 1 .. Len(s) + 1 /\ t[p] = it
  /\ \A k \in 1 .. Len(s) : t[IF k < p THEN k ELSE k + 1] = s[k]

LEMMA InsertIs ==
  ASSUME NEW s \in Seq(Items), NEW it \in Items, NEW t, t = InsertItem(s, it)
  PROVE  /\ Inserted(s, t, IF s = <<>> THEN 1 ELSE Len(s), it)
         /\ ~Read(it) => Values(t) = Values(s)
<1>1. PICK n \in Nat : n = Len(s) /\ DOMAIN s = 1 .. n /\ \A i \in 1 .. n : s[i] \in Items
  BY SeqIs
<1>2. CASE s = <<>>
  <2>1. t = <<it>> /\ n = 0
    BY <1>1, <1>2 DEF InsertItem
  <2>2. t \in Seq(Items) /\ DOMAIN t = 1 .. 1 /\ t[1] = it
    BY <2>1
  <2>3. \A k \in 1 .. n : FALSE
    BY <2>1
  <2>4. Inserted(s, t, 1, it)
    BY <1>1, <2>1, <2>2, <2>3 DEF Inserted
  <2>5. ASSUME ~Read(it) PROVE Values(t) = Values(s)
    <3>1. \A i \in DOMAIN t : ~Read(t[i])
      BY <2>2, <2>5
    <3>2. \A i \in DOMAIN s : ~Read(s[i])
      BY <1>1, <2>3
    <3>3. QED
      BY <2>2, <3>1, <3>2, ValuesNone
  <2>6. QED
    BY <1>2, <2>4, <2>5
<1>3. CASE s # <<>>
  <2>1. n > 0
    BY <1>1, <1>3
  <2>2. PICK front : front = SubSeq(s, 1, n - 1)
    OBVIOUS
  <2>3. front \in Seq(Items) /\ Len(front) = n - 1 /\ \A j \in 1 .. n - 1 : front[j] = s[j]
    BY <1>1, <2>1, <2>2
  <2>4. PICK lastOne \in Items : lastOne = s[n]
    BY <1>1, <2>1
  <2>5. PICK more : more = Append(front, it)
    OBVIOUS
  <2>6. Longer(more, front, it)
    BY <2>5 DEF Longer
  <2>7. more \in Seq(Items) /\ Len(more) = n /\ more[n] = it /\ \A j \in 1 .. n - 1 : more[j] = s[j]
    <3>1. /\ more \in Seq(Items) /\ Len(more) = Len(front) + 1 /\ more[Len(front) + 1] = it
          /\ \A j \in 1 .. Len(front) : more[j] = front[j]
      BY <2>3, <2>6, AppendIs
    <3>2. n - 1 + 1 = n
      OBVIOUS
    <3>3. QED
      BY <2>3, <3>1, <3>2
  <2>8. PICK u : u = Append(more, lastOne)
    OBVIOUS
  <2>9. Longer(u, more, lastOne)
    BY <2>8 DEF Longer
  <2>10. /\ u \in Seq(Items) /\ Len(u) = n + 1 /\ DOMAIN u = 1 .. n + 1 /\ u[n + 1] = lastOne
         /\ \A j \in 1 .. n : u[j] = more[j]
    BY <2>4, <2>7, <2>9, AppendIs
  <2>11. s = Append(front, lastOne)
    <3>1. PICK w : w = Append(front, lastOne)
      OBVIOUS
    <3>2. Longer(w, front, lastOne)
      BY <3>1 DEF Longer
    <3>3. /\ w \in Seq(Items) /\ Len(w) = Len(front) + 1 /\ w[Len(front) + 1] = lastOne
          /\ \A j \in 1 .. Len(front) : w[j] = front[j]
      BY <2>3, <2>4, <3>2, AppendIs
    <3>4. Len(w) = n /\ w[n] = lastOne /\ \A j \in 1 .. n - 1 : w[j] = s[j]
      <4>1. n - 1 + 1 = n
        OBVIOUS
      <4>2. QED
        BY <2>3, <3>3, <4>1
    <3>5. \A j \in 1 .. n : j = n \/ j \in 1 .. n - 1
      OBVIOUS
    <3>6. \A j \in 1 .. n : w[j] = s[j]
      BY <2>4, <3>4, <3>5
    <3>7. w = s
      BY <1>1, <3>3, <3>4, <3>6
    <3>8. QED
      BY <3>1, <3>7
  <2>12. t = u
    <3>1. SubSeq(s, n, n) = <<lastOne>>
      <4>1. PICK w : w = SubSeq(s, n, n)
        OBVIOUS
      <4>2. w \in Seq(Items) /\ Len(w) = n - n + 1 /\ w[1] = s[n]
        BY <1>1, <2>1, <4>1
      <4>3. n - n + 1 = 1
        OBVIOUS
      <4>4. w = <<lastOne>>
        BY <2>4, <4>2, <4>3
      <4>5. QED
        BY <4>1, <4>4
    <3>2. t = (front \o <<it>>) \o <<lastOne>>
      BY <1>1, <1>3, <2>2, <3>1 DEF InsertItem, InsertAt
    <3>3. front \o <<it>> = more
      BY <2>3, <2>5
    <3>4. more \o <<lastOne>> = u
      BY <2>4, <2>7, <2>8
    <3>5. QED
      BY <3>2, <3>3, <3>4
  <2>13. \A k \in 1 .. n : t[IF k < n THEN k ELSE k + 1] = s[k]
    <3>1. ASSUME NEW k \in 1 .. n PROVE t[IF k < n THEN k ELSE k + 1] = s[k]
      <4>1. CASE k < n
        <5>1. k \in 1 .. n - 1 /\ k \in 1 .. n
          BY <4>1
        <5>2. QED
          BY <2>7, <2>10, <2>12, <4>1, <5>1
      <4>2. CASE ~(k < n)
        <5>1. k = n
          BY <4>2
        <5>2. QED
          BY <2>4, <2>10, <2>12, <5>1
      <4>3. QED
        BY <4>1, <4>2
    <3>2. QED
      BY <3>1
  <2>14. t[n] = it
    BY <2>1, <2>7, <2>10, <2>12
  <2>15. Inserted(s, t, n, it)
    BY <1>1, <2>1, <2>10, <2>12, <2>13, <2>14 DEF Inserted
  <2>16. ASSUME ~Read(it) PROVE Values(t) = Values(s)
    <3>1. Values(more) = Values(front)
      BY <2>3, <2>5, <2>16, ValuesAppend
    <3>2. Values(t) = IF Read(lastOne) THEN Append(Values(more), lastOne.v) ELSE Values(more)
      BY <2>7, <2>8, <2>12, ValuesAppend
    <3>3. Values(s) = IF Read(lastOne) THEN Append(Values(front), lastOne.v) ELSE Values(front)
      BY <2>3, <2>11, ValuesAppend
    <3>4. QED
      BY <3>1, <3>2, <3>3
  <2>17. QED
    BY <1>1, <1>3, <2>15, <2>16
<1>4. QED
  BY <1>2, <1>3

LEMMA InsertedKeeps ==
  ASSUME NEW s \in Seq(Items), NEW it \in Items, NEW t, NEW p, Inserted(s, t, p, it)
  PROVE  /\ \A j \in DOMAIN t : j = p \/ \E k \in DOMAIN s : t[j] = s[k]
         /\ \A k \in DOMAIN s : \E j \in DOMAIN t : t[j] = s[k] /\ j # p
         /\ Distinct(s) /\ (\A k \in DOMAIN s : s[k].v # it.v) => Distinct(t)
         /\ AtMostOne(s) /\ ~it.sel => AtMostOne(t)
<1>1. PICK n \in Nat : n = Len(s) /\ DOMAIN s = 1 .. n
  BY SeqIs
<1>2. /\ DOMAIN t = 1 .. n + 1 /\ p \in 1 .. n + 1 /\ t[p] = it
      /\ \A k \in 1 .. n : t[IF k < p THEN k ELSE k + 1] = s[k]
  BY <1>1 DEF Inserted
<1>3. ASSUME NEW j \in DOMAIN t, j # p
      PROVE  LET k == IF j < p THEN j ELSE j - 1
             IN  k \in DOMAIN s /\ t[j] = s[k]
  <2>1. CASE j < p
    <3>1. j \in 1 .. n
      BY <1>2, <2>1
    <3>2. QED
      BY <1>1, <1>2, <2>1, <3>1
  <2>2. CASE ~(j < p)
    <3>1. j - 1 \in 1 .. n /\ ~(j - 1 < p) /\ j - 1 + 1 = j
      BY <1>2, <1>3, <2>2
    <3>2. QED
      BY <1>1, <1>2, <2>2, <3>1
  <2>3. QED
    BY <2>1, <2>2
<1>4. PICK e : e = [j \in DOMAIN t |-> IF j < p THEN j ELSE j - 1]
  OBVIOUS
<1>5. \A j \in DOMAIN t : j # p => e[j] \in DOMAIN s /\ t[j] = s[e[j]]
  BY <1>3, <1>4
<1>6. \A i, j \in DOMAIN t : i # p /\ j # p /\ e[i] = e[j] => i = j
  BY <1>2, <1>4
<1>7. \A k \in DOMAIN s : \E j \in DOMAIN t : t[j] = s[k] /\ j # p
  <2>1. ASSUME NEW k \in DOMAIN s PROVE \E j \in DOMAIN t : t[j] = s[k] /\ j # p
    <3>1. PICK j : j = IF k < p THEN k ELSE k + 1
      OBVIOUS
    <3>2. j \in DOMAIN t /\ j # p
      BY <1>1, <1>2, <3>1
    <3>3. t[j] = s[k]
      BY <1>1, <1>2, <3>1
    <3>4. QED
      BY <3>2, <3>3
  <2>2. QED
    BY <2>1
<1>8. Distinct(s) /\ (\A k \in DOMAIN s : s[k].v # it.v) => Distinct(t)
  BY <1>2, <1>5, <1>6 DEF Distinct
<1>9. AtMostOne(s) /\ ~it.sel => AtMostOne(t)
  BY <1>2, <1>5, <1>6 DEF AtMostOne
<1>10. QED
  BY <1>5, <1>7, <1>8, <1>9

LEMMA RemoveAtIs ==
  ASSUME NEW S, NEW s \in Seq(S), NEW i \in 1 .. Len(s), NEW t, t = RemoveAt(s, i)
  PROVE  /\ t \in Seq(S) /\ Len(t) = Len(s) - 1
         /\ \A j \in 1 .. Len(s) - 1 : t[j] = s[IF j < i THEN j ELSE j + 1]
<1>1. PICK n \in Nat : n = Len(s) /\ i \in 1 .. n
  OBVIOUS
<1>2. PICK a : a = SubSeq(s, 1, i - 1)
  OBVIOUS
<1>3. PICK b : b = SubSeq(s, i + 1, n)
  OBVIOUS
<1>4. a \in Seq(S) /\ Len(a) = i - 1 /\ \A j \in 1 .. i - 1 : a[j] = s[j]
  BY <1>1, <1>2
<1>5. b \in Seq(S) /\ Len(b) = n - i /\ \A j \in 1 .. n - i : b[j] = s[i + j]
  BY <1>1, <1>3
<1>6. t = a \o b
  BY <1>1, <1>2, <1>3 DEF RemoveAt
<1>7. t \in Seq(S) /\ Len(t) = n - 1
  <2>1. t \in Seq(S) /\ Len(t) = Len(a) + Len(b)
    BY <1>4, <1>5, <1>6, ConcatProperties
  <2>2. (i - 1) + (n - i) = n - 1
    BY <1>1
  <2>3. QED
    BY <1>4, <1>5, <2>1, <2>2
<1>8. ASSUME NEW j \in 1 .. n - 1 PROVE t[j] = s[IF j < i THEN j ELSE j + 1]
  <2>1. CASE j < i
    BY <1>1, <1>4, <1>5, <1>6, <1>8, <2>1
  <2>2. CASE ~(j < i)
    <3>a. Len(a) \in Nat /\ Len(b) \in Nat /\ j \in 1 .. Len(a) + Len(b) /\ ~(j <= Len(a))
      BY <1>1, <1>4, <1>5, <1>8, <2>2
    <3>1. t[j] = b[j - Len(a)]
      BY <1>4, <1>5, <1>6, <3>a, ConcatProperties
    <3>2. j - (i - 1) \in 1 .. n - i /\ i + (j - (i - 1)) = j + 1
      BY <1>1, <1>8, <2>2
    <3>3. QED
      BY <1>4, <1>5, <2>2, <3>1, <3>2
  <2>3. QED
    BY <2>1, <2>2
<1>9. QED
  BY <1>1, <1>7, <1>8

(* Switching an item *)
SameItems(b, t) ==
  /\ t \in Boxes /\ t.multiple = b.multiple /\ t.optional = b.optional /\ t.create = b.create
  /\ DOMAIN t.items = DOMAIN b.items
  /\ \A i \in DOMAIN b.items : /\ t.items[i].v = b.items[i].v /\ t.items[i].un = b.items[i].un
                               /\ t.items[i].made = b.items[i].made
OnlyOne(b) == ~b.optional /\ Cardinality(SelectedItems(b)) <= 1
Switched(b, k, force) == IF b.items[k].sel THEN force = "on" \/ OnlyOne(b) ELSE force # "off"

LEMMA BoxIs ==
  ASSUME NEW b \in Boxes
  PROVE  /\ b.multiple \in BOOLEAN /\ b.optional \in BOOLEAN /\ b.create \in BOOLEAN /\ b.open \in BOOLEAN
         /\ b.items \in Seq(Items) /\ b.hidden \in Seq(Text)
  BY DEF Boxes

PutItems(b, items) == saveValues([b EXCEPT !.items = items])
ShutItems(b, items) == saveValues([b EXCEPT !.items = items, !.open = FALSE])

Put(b, items, t) == t = PutItems(b, items) \/ t = ShutItems(b, items)

LEMMA PutItemsIs ==
  ASSUME NEW b \in Boxes, NEW items \in Seq(Items), NEW t, Put(b, items, t)
  PROVE  /\ t \in Boxes /\ t.multiple = b.multiple /\ t.optional = b.optional /\ t.create = b.create
         /\ t.items = items /\ t.hidden = Values(items)
<1>1. PICK h \in Seq(Text) : h = Values(items)
  BY ValuesRange
<1>2. \/ t = [[b EXCEPT !.items = items] EXCEPT !.hidden = h]
      \/ t = [[b EXCEPT !.items = items, !.open = FALSE] EXCEPT !.hidden = h]
  <2>1. [b EXCEPT !.items = items].items = items /\ [b EXCEPT !.items = items, !.open = FALSE].items = items
    BY DEF Boxes
  <2>2. QED
    BY <1>1, <2>1 DEF Put, PutItems, ShutItems, saveValues
<1>3. QED
  BY <1>1, <1>2 DEF Boxes

SelPut(new, it, on) == new = [it EXCEPT !.sel = on]

LEMMA ItemPut ==
  ASSUME NEW it \in Items, NEW on \in BOOLEAN, NEW new, SelPut(new, it, on)
  PROVE  new \in Items /\ new.v = it.v /\ new.un = it.un /\ new.made = it.made /\ (new.sel <=> on)
  BY DEF Items, SelPut

LEMMA ToggleMany ==
  ASSUME NEW b \in Boxes, NEW k \in DOMAIN b.items, ~b.items[k].un, b.multiple, NEW force, NEW t,
         t = toggleItem(b, k, force)
  PROVE  /\ SameItems(b, t) /\ t.hidden = Values(t.items)
         /\ \A i \in DOMAIN b.items : t.items[i].sel <=> IF i = k THEN Switched(b, k, force) ELSE b.items[i].sel
<1>1. PICK n \in Nat : n = Len(b.items) /\ DOMAIN b.items = 1 .. n /\ \A i \in 1 .. n : b.items[i] \in Items
  BY BoxIs, SeqIs
<1>2. PICK on \in BOOLEAN : on <=> Switched(b, k, force)
  <2>1. Switched(b, k, force) \/ ~Switched(b, k, force)
    OBVIOUS
  <2>2. QED
    BY <2>1
<1>3. PICK new : new = [b.items[k] EXCEPT !.sel = on]
  OBVIOUS
<1>4. /\ new \in Items /\ new.v = b.items[k].v /\ new.un = b.items[k].un /\ new.made = b.items[k].made
      /\ (new.sel <=> on)
  <2>1. b.items[k] \in Items /\ SelPut(new, b.items[k], on)
    BY <1>1, <1>3 DEF SelPut
  <2>2. QED
    BY <2>1, ItemPut
<1>5. PICK items : items = [b.items EXCEPT ![k] = new]
  OBVIOUS
<1>6. items \in Seq(Items) /\ DOMAIN items = 1 .. n
  BY <1>1, <1>4, <1>5, BoxIs
<1>7. items[k] = new /\ \A i \in 1 .. n : i # k => items[i] = b.items[i]
  BY <1>1, <1>5
<1>8. Put(b, items, t)
  <2>1. OnlyOne(b) <=> (~b.optional /\ Cardinality(SelectedItems(b)) <= 1)
    BY DEF OnlyOne
  <2>2. on = (IF b.items[k].sel THEN force = "on" \/ OnlyOne(b) ELSE force # "off")
    BY <1>2, Zenon DEF Switched
  <2>3. t = saveValues([b EXCEPT !.items[k].sel = on])
    BY <2>2 DEF toggleItem, OnlyOne
  <2>4. [b EXCEPT !.items[k].sel = on] = [b EXCEPT !.items = items]
    BY <1>3, <1>5
  <2>5. QED
    BY <2>3, <2>4 DEF Put, PutItems
<1>9. /\ t \in Boxes /\ t.multiple = b.multiple /\ t.optional = b.optional /\ t.create = b.create
      /\ t.items = items /\ t.hidden = Values(items)
  BY <1>6, <1>8, PutItemsIs
<1>10. SameItems(b, t)
  BY <1>1, <1>4, <1>6, <1>7, <1>9 DEF SameItems
<1>11. QED
  BY <1>1, <1>2, <1>4, <1>7, <1>9, <1>10

LEMMA ToggleOne ==
  ASSUME NEW b \in Boxes, NEW k \in DOMAIN b.items, ~b.items[k].un, ~b.multiple, AtMostOne(b.items),
         NEW force, NEW t, t = toggleItem(b, k, force)
  PROVE  /\ SameItems(b, t) /\ t.hidden = Values(t.items)
         /\ \A i \in DOMAIN b.items : t.items[i].sel <=> i = k
<1>1. PICK n \in Nat : n = Len(b.items) /\ DOMAIN b.items = 1 .. n /\ \A i \in 1 .. n : b.items[i] \in Items
  BY BoxIs, SeqIs
<1>2. PICK items : items = SelectOnly(b.items, k)
  OBVIOUS
<1>3. PICK old : old = {i \in DOMAIN b.items : b.items[i].sel}
  OBVIOUS
<1>4. items = [i \in DOMAIN b.items |->
        IF i = k THEN [b.items[i] EXCEPT !.sel = TRUE]
        ELSE IF old # {} /\ \A j \in old : i <= j THEN [b.items[i] EXCEPT !.sel = FALSE]
        ELSE b.items[i]]
  BY <1>2, <1>3 DEF SelectOnly
<1>5. ASSUME NEW i \in 1 .. n
      PROVE  /\ items[i] \in Items /\ items[i].v = b.items[i].v /\ items[i].un = b.items[i].un
             /\ items[i].made = b.items[i].made /\ (items[i].sel <=> i = k)
  <2>1. b.items[i] \in Items /\ i \in DOMAIN b.items
    BY <1>1
  <2>2. CASE i = k
    <3>1. SelPut(items[i], b.items[i], TRUE)
      BY <1>4, <2>1, <2>2 DEF SelPut
    <3>2. /\ items[i] \in Items /\ items[i].v = b.items[i].v /\ items[i].un = b.items[i].un
          /\ items[i].made = b.items[i].made /\ (items[i].sel <=> TRUE)
      BY <2>1, <3>1, ItemPut
    <3>3. QED
      BY <2>2, <3>2
  <2>3. CASE i # k /\ b.items[i].sel
    <3>1. i \in old /\ \A j \in old : j = i
      BY <1>3, <2>1, <2>3 DEF AtMostOne
    <3>2. \A j \in old : i <= j
      BY <3>1
    <3>3. SelPut(items[i], b.items[i], FALSE)
      BY <1>4, <2>1, <2>3, <3>1, <3>2 DEF SelPut
    <3>4. /\ items[i] \in Items /\ items[i].v = b.items[i].v /\ items[i].un = b.items[i].un
          /\ items[i].made = b.items[i].made /\ (items[i].sel <=> FALSE)
      BY <2>1, <3>3, ItemPut
    <3>5. QED
      BY <2>3, <3>4
  <2>4. CASE i # k /\ ~b.items[i].sel
    <3>1. SelPut(items[i], b.items[i], FALSE) \/ items[i] = b.items[i]
      BY <1>4, <2>1, <2>4 DEF SelPut
    <3>2. CASE SelPut(items[i], b.items[i], FALSE)
      <4>1. /\ items[i] \in Items /\ items[i].v = b.items[i].v /\ items[i].un = b.items[i].un
            /\ items[i].made = b.items[i].made /\ (items[i].sel <=> FALSE)
        BY <2>1, <3>2, ItemPut
      <4>2. QED
        BY <2>4, <4>1
    <3>3. CASE items[i] = b.items[i]
      BY <2>1, <2>4, <3>3
    <3>4. QED
      BY <3>1, <3>2, <3>3
  <2>5. QED
    BY <2>2, <2>3, <2>4
<1>6. items \in Seq(Items) /\ DOMAIN items = 1 .. n
  <2>1. items \in [1 .. n -> Items]
    <3>1. DOMAIN items = 1 .. n /\ \A i \in 1 .. n : items[i] \in Items
      BY <1>1, <1>4, <1>5
    <3>2. items = [i \in 1 .. n |-> items[i]]
      BY <1>1, <1>4
    <3>3. QED
      BY <3>1, <3>2
  <2>2. QED
    BY <2>1
<1>7. Put(b, items, t)
  BY <1>2 DEF toggleItem, Put, ShutItems
<1>8. /\ t \in Boxes /\ t.multiple = b.multiple /\ t.optional = b.optional /\ t.create = b.create
      /\ t.items = items /\ t.hidden = Values(items)
  BY <1>6, <1>7, PutItemsIs
<1>9. QED
  BY <1>1, <1>5, <1>6, <1>8 DEF SameItems

LEMMA ToggleUn ==
  ASSUME NEW b, NEW k, b.items[k].un, NEW force
  PROVE  toggleItem(b, k, force) = b
  BY DEF toggleItem

LEMMA SameKeeps ==
  ASSUME NEW b, NEW t, SameItems(b, t), Distinct(b.items), Marks(b)
  PROVE  Distinct(t.items) /\ Marks(t)
<1>1. Distinct(t.items)
  BY DEF SameItems, Distinct
<1>2. Marks(t)
  BY DEF SameItems, Marks
<1>3. QED
  BY <1>1, <1>2

LEMMA ToggleKeeps ==
  ASSUME NEW b, Loose(b), NEW k \in DOMAIN b.items, ~b.items[k].un, NEW force
  PROVE  BoxInv(toggleItem(b, k, force)) /\ SameItems(b, toggleItem(b, k, force))
<1>1. PICK t : t = toggleItem(b, k, force)
  OBVIOUS
<1>2. b \in Boxes /\ Distinct(b.items) /\ Marks(b) /\ (~b.multiple => AtMostOne(b.items)) /\ b.multiple \in BOOLEAN
  BY BoxIs DEF Loose
<1>3. CASE b.multiple
  <2>1. SameItems(b, t) /\ t.hidden = Values(t.items)
    BY <1>1, <1>2, <1>3, ToggleMany
  <2>2. t.multiple /\ t \in Boxes
    BY <1>3, <2>1 DEF SameItems
  <2>3. QED
    BY <1>1, <1>2, <2>1, <2>2, SameKeeps DEF BoxInv, Loose
<1>4. CASE ~b.multiple
  <2>1. /\ SameItems(b, t) /\ t.hidden = Values(t.items)
        /\ \A i \in DOMAIN b.items : t.items[i].sel <=> i = k
    BY <1>1, <1>2, <1>4, ToggleOne
  <2>2. t \in Boxes /\ DOMAIN t.items = DOMAIN b.items
    BY <2>1 DEF SameItems
  <2>3. AtMostOne(t.items) /\ Chosen(t.items)
    BY <2>1, <2>2 DEF AtMostOne, Chosen
  <2>4. QED
    BY <1>1, <1>2, <2>1, <2>2, <2>3, SameKeeps DEF BoxInv, Loose
<1>5. QED
  BY <1>3, <1>4

LEMMA SameSame ==
  ASSUME NEW b \in Boxes PROVE SameItems(b, b)
  BY DEF SameItems

LEMMA SameTrans ==
  ASSUME NEW b, NEW t, NEW u, SameItems(b, t), SameItems(t, u) PROVE SameItems(b, u)
  BY DEF SameItems

(* With any item and any force *)
LEMMA ToggleAny ==
  ASSUME NEW bare \in BOOLEAN, NEW b, Held(bare, b), NEW k \in DOMAIN b.items, NEW force
  PROVE  Held(bare, toggleItem(b, k, force)) /\ SameItems(b, toggleItem(b, k, force))
<1>1. Loose(b) /\ b \in Boxes
  BY DEF Held, Loose
<1>2. CASE b.items[k].un
  BY <1>1, <1>2, ToggleUn, SameSame
<1>3. CASE ~b.items[k].un
  BY <1>1, <1>3, ToggleKeeps, HeldIs
<1>4. QED
  BY <1>2, <1>3

(* Creating an item *)
Others(b) ==
  IF b.multiple THEN b.items
  ELSE LET old == {i \in DOMAIN b.items : b.items[i].made = "created"}
       IN  IF old = {} THEN b.items
           ELSE RemoveAt(b.items, CHOOSE i \in old : \A j \in old : i <= j)
MadeItem(b, v) == IF b.multiple THEN Item(v, FALSE) ELSE [Item(v, FALSE) EXCEPT !.made = "created"]
MoreItems(b, v) == InsertItem(Others(b), MadeItem(b, v))
Middle(b, v) == [b EXCEPT !.items = MoreItems(b, v)]

LEMMA CreateNew ==
  ASSUME NEW b, NEW v, v # Blank, Positions(b, v) = {}
  PROVE  createItem(b, v) = toggleItem(Middle(b, v), Len(MoreItems(b, v)) - 1, "on")
  BY DEF Blank, createItem, Middle, MoreItems, Others, MadeItem

LEMMA CreateKnown ==
  ASSUME NEW b, NEW v, v # Blank, Positions(b, v) # {}
  PROVE  \E k \in DOMAIN b.items : b.items[k].v = v /\ createItem(b, v) = toggleItem(b, k, "on")
<1>1. PICK k : k = CHOOSE i \in Positions(b, v) : TRUE
  OBVIOUS
<1>2. k \in Positions(b, v)
  BY <1>1
<1>3. createItem(b, v) = toggleItem(b, k, "on")
  BY <1>1 DEF Blank, createItem
<1>4. QED
  BY <1>2, <1>3 DEF Positions

LEMMA MadeItemIs ==
  ASSUME NEW b, NEW v \in Text
  PROVE  /\ MadeItem(b, v) \in Items /\ MadeItem(b, v).v = v /\ ~MadeItem(b, v).sel /\ ~MadeItem(b, v).un
         /\ MadeItem(b, v).made = IF b.multiple THEN "choice" ELSE "created"
  BY DEF MadeItem, Item, Items

LEMMA OthersAre ==
  ASSUME NEW b \in Boxes, NEW o, o = Others(b)
  PROVE  /\ o \in Seq(Items) /\ \E e : Part(o, b.items, e)
         /\ \A k \in DOMAIN b.items : b.items[k].made # "created" \/ b.multiple =>
              \E j \in DOMAIN o : o[j] = b.items[k]
<1>1. b.items \in Seq(Items)
  BY BoxIs
<1>2. PICK s \in Seq(Items), n \in Nat : s = b.items /\ n = Len(s) /\ DOMAIN s = 1 .. n
  BY <1>1
<1>3. PICK old : old = {i \in DOMAIN b.items : b.items[i].made = "created"}
  OBVIOUS
<1>4. CASE b.multiple \/ old = {}
  <2>1. o = b.items
    BY <1>3, <1>4 DEF Others
  <2>2. PICK e : e = [j \in DOMAIN o |-> j]
    OBVIOUS
  <2>3. Part(o, b.items, e)
    BY <2>1, <2>2 DEF Part
  <2>4. QED
    BY <1>1, <2>1, <2>3
<1>5. CASE ~b.multiple /\ old # {}
  <2>1. PICK p : p = CHOOSE i \in old : \A j \in old : i <= j
    OBVIOUS
  <2>2. p \in old
    <3>1. old \subseteq Nat
      BY <1>2, <1>3
    <3>2. \E i \in old : \A j \in old : i <= j
      BY <1>5, <3>1, ValueFold!Least
    <3>3. QED
      BY <2>1, <3>2
  <2>3. p \in 1 .. n /\ s[p].made = "created"
    BY <1>2, <1>3, <2>2
  <2>4. o = RemoveAt(s, p)
    BY <1>2, <1>3, <1>5, <2>1 DEF Others
  <2>5. /\ o \in Seq(Items) /\ Len(o) = n - 1
        /\ \A j \in 1 .. n - 1 : o[j] = s[IF j < p THEN j ELSE j + 1]
    <3>1. p \in 1 .. Len(s)
      BY <1>2, <2>3
    <3>2. /\ o \in Seq(Items) /\ Len(o) = Len(s) - 1
          /\ \A j \in 1 .. Len(s) - 1 : o[j] = s[IF j < p THEN j ELSE j + 1]
      BY <2>4, <3>1, RemoveAtIs
    <3>3. QED
      BY <1>2, <3>2
  <2>6. DOMAIN o = 1 .. n - 1
    BY <2>3, <2>5
  <2>7. PICK e : e = [j \in 1 .. n - 1 |-> IF j < p THEN j ELSE j + 1]
    OBVIOUS
  <2>8. e \in [1 .. n - 1 -> 1 .. n]
    BY <2>3, <2>7
  <2>9. \A j, k \in 1 .. n - 1 : e[j] = e[k] => j = k
    BY <2>3, <2>7
  <2>10. \A j \in 1 .. n - 1 : o[j] = s[e[j]]
    BY <2>5, <2>7
  <2>11. Part(o, s, e)
    BY <1>2, <2>6, <2>8, <2>9, <2>10 DEF Part
  <2>12. ASSUME NEW k \in 1 .. n, s[k].made # "created" PROVE \E j \in DOMAIN o : o[j] = s[k]
    <3>1. k # p
      BY <2>3, <2>12
    <3>2. PICK j : j = IF k < p THEN k ELSE k - 1
      OBVIOUS
    <3>3. j \in 1 .. n - 1 /\ (IF j < p THEN j ELSE j + 1) = k
      BY <2>3, <3>1, <3>2
    <3>4. QED
      BY <2>5, <2>6, <3>3
  <2>13. QED
    BY <1>2, <1>5, <2>5, <2>11, <2>12
<1>6. QED
  BY <1>4, <1>5

(* What a box has after v was created: items of before, and one for v *)
HasItem(b, v) == \E k \in DOMAIN b.items : b.items[k].v = v
From(b, t, j) ==
  \E k \in DOMAIN b.items : /\ t.items[j].v = b.items[k].v /\ t.items[j].un = b.items[k].un
                            /\ t.items[j].made = b.items[k].made
Kind(b, t) == t.multiple = b.multiple /\ t.optional = b.optional /\ t.create = b.create
Grown(b, t, v) ==
  /\ Kind(b, t) /\ (v # Blank => HasItem(t, v)) /\ (HasItem(b, NoValue) => HasItem(t, NoValue))
  /\ b.multiple => \A k \in DOMAIN b.items : \E j \in DOMAIN t.items : t.items[j].v = b.items[k].v
  /\ \A j \in DOMAIN t.items :
       From(b, t, j) \/ (t.items[j].v = v /\ ~t.items[j].un /\ v # CreateValue /\ v # Blank)

LEMMA BoxWith ==
  ASSUME NEW b \in Boxes, NEW items \in Seq(Items)
  PROVE  /\ [b EXCEPT !.items = items] \in Boxes /\ Kind(b, [b EXCEPT !.items = items])
         /\ [b EXCEPT !.items = items].items = items /\ [b EXCEPT !.items = items].hidden = b.hidden
  BY DEF Boxes, Kind

LEMMA MiddleIs ==
  ASSUME NEW b, Loose(b), b.create, NEW v \in Text, v # NoValue, v # Blank, Positions(b, v) = {},
         NEW t, t = Middle(b, v), NEW p, p = Len(MoreItems(b, v)) - 1
  PROVE  /\ Loose(t) /\ Grown(b, t, v) /\ p \in DOMAIN t.items
         /\ t.items[p].v = v /\ ~t.items[p].un /\ t.items[p] = MadeItem(b, v)
         /\ \A j \in DOMAIN t.items : j # p => \E k \in DOMAIN b.items : t.items[j] = b.items[k]
<1>1. b \in Boxes /\ Distinct(b.items) /\ (~b.multiple => AtMostOne(b.items)) /\ Marks(b)
  BY DEF Loose
<1>2. PICK o : o = Others(b)
  OBVIOUS
<1>3. /\ o \in Seq(Items) /\ \E e : Part(o, b.items, e)
      /\ \A k \in DOMAIN b.items : b.items[k].made # "created" \/ b.multiple =>
           \E j \in DOMAIN o : o[j] = b.items[k]
  BY <1>1, <1>2, OthersAre
<1>4. PICK e : Part(o, b.items, e)
  BY <1>3
<1>5. Distinct(o) /\ (~b.multiple => AtMostOne(o))
  BY <1>1, <1>4, PartKeeps
<1>6. \A j \in DOMAIN o : e[j] \in DOMAIN b.items /\ o[j] = b.items[e[j]]
  BY <1>4 DEF Part
<1>7. PICK it \in Items : /\ it = MadeItem(b, v) /\ it.v = v /\ ~it.sel /\ ~it.un
                         /\ it.made = IF b.multiple THEN "choice" ELSE "created"
  BY MadeItemIs
<1>8. \A k \in DOMAIN b.items : b.items[k].v # v
  BY DEF Positions
<1>9. \E k \in DOMAIN b.items : b.items[k].v = CreateValue
  BY <1>1 DEF Marks
<1>10. v # CreateValue
  BY <1>8, <1>9
<1>11. \A k \in DOMAIN b.items : b.items[k].v \in {NoValue, CreateValue} => \E j \in DOMAIN o : o[j] = b.items[k]
  BY <1>1, <1>3 DEF Marks
<1>12. o # <<>>
  BY <1>9, <1>11
<1>13. PICK items : items = InsertItem(o, it)
  OBVIOUS
<1>14. Inserted(o, items, Len(o), it)
  BY <1>3, <1>7, <1>12, <1>13, InsertIs
<1>15. items = MoreItems(b, v)
  BY <1>2, <1>7, <1>13 DEF MoreItems
<1>16. /\ items \in Seq(Items) /\ DOMAIN items = 1 .. Len(o) + 1 /\ Len(o) \in 1 .. Len(o) + 1 /\ items[Len(o)] = it
  BY <1>14 DEF Inserted
<1>17. p = Len(o)
  <2>1. Len(items) = Len(o) + 1 /\ Len(o) \in Nat
    BY <1>3, <1>16
  <2>2. QED
    BY <1>15, <2>1
<1>18. /\ \A j \in DOMAIN items : j = p \/ \E k \in DOMAIN o : items[j] = o[k]
       /\ \A k \in DOMAIN o : \E j \in DOMAIN items : items[j] = o[k] /\ j # p
       /\ Distinct(o) /\ (\A k \in DOMAIN o : o[k].v # it.v) => Distinct(items)
       /\ AtMostOne(o) /\ ~it.sel => AtMostOne(items)
  <2>1. o \in Seq(Items) /\ Inserted(o, items, p, it)
    BY <1>3, <1>14, <1>17
  <2>2. QED
    BY <2>1, InsertedKeeps
<1>19. \A k \in DOMAIN o : o[k].v # it.v
  BY <1>6, <1>7, <1>8
<1>20. /\ t \in Boxes /\ Kind(b, t) /\ t.items = items
  BY <1>1, <1>15, <1>16, BoxWith DEF Middle
<1>21. Distinct(t.items) /\ (~t.multiple => AtMostOne(t.items))
  BY <1>5, <1>7, <1>18, <1>19, <1>20 DEF Kind
<1>22. \A k \in DOMAIN b.items : b.items[k].v \in {NoValue, CreateValue} =>
         \E j \in DOMAIN items : items[j] = b.items[k]
  BY <1>11, <1>18
<1>23. \A j \in DOMAIN items : j # p => \E k \in DOMAIN b.items : items[j] = b.items[k]
  BY <1>6, <1>18
<1>24. p \in DOMAIN items /\ items[p] = it
  BY <1>16, <1>17
<1>25. Marks(t)
  <2>1. ASSUME NEW j \in DOMAIN items
        PROVE  /\ items[j].v \in {NoValue, CreateValue} => items[j].made = "choice"
               /\ items[j].v = NoValue => ~items[j].un
    <3>1. CASE j = p
      BY <1>7, <1>10, <1>24, <3>1
    <3>2. CASE j # p
      BY <1>1, <1>23, <3>2 DEF Marks
    <3>3. QED
      BY <3>1, <3>2
  <2>2. t.multiple => \A i \in DOMAIN items : items[i].v # NoValue
    BY <1>1, <1>7, <1>20, <1>23, <1>24 DEF Marks, Kind
  <2>3. t.create => \E i \in DOMAIN items : items[i].v = CreateValue
    BY <1>9, <1>22
  <2>4. QED
    BY <1>20, <2>1, <2>2, <2>3 DEF Marks
<1>26. \A j \in DOMAIN items : j # p => From(b, t, j)
  BY <1>20, <1>23 DEF From
<1>27. b.multiple => \A k \in DOMAIN b.items : \E j \in DOMAIN items : items[j].v = b.items[k].v
  BY <1>3, <1>18
<1>28. Grown(b, t, v)
  <2>1. HasItem(t, v)
    BY <1>7, <1>20, <1>24 DEF HasItem
  <2>2. HasItem(b, NoValue) => HasItem(t, NoValue)
    BY <1>20, <1>22 DEF HasItem
  <2>3. QED
    BY <1>7, <1>10, <1>20, <1>24, <1>26, <1>27, <2>1, <2>2 DEF Grown
<1>29. QED
  BY <1>7, <1>20, <1>21, <1>23, <1>24, <1>25, <1>28 DEF Loose

LEMMA SameGrown ==
  ASSUME NEW b, NEW m, NEW t, NEW v, Grown(b, m, v), SameItems(m, t)
  PROVE  Grown(b, t, v)
<1>1. /\ DOMAIN t.items = DOMAIN m.items
      /\ \A i \in DOMAIN m.items : /\ t.items[i].v = m.items[i].v /\ t.items[i].un = m.items[i].un
                                   /\ t.items[i].made = m.items[i].made
      /\ t.multiple = m.multiple /\ t.optional = m.optional /\ t.create = m.create
  BY DEF SameItems
<1>2. Kind(b, t)
  BY <1>1 DEF Grown, Kind
<1>3. \A j \in DOMAIN m.items : From(b, m, j) => From(b, t, j)
  BY <1>1 DEF From
<1>4. \A w : HasItem(m, w) => HasItem(t, w)
  BY <1>1 DEF HasItem
<1>5. QED
  BY <1>1, <1>2, <1>3, <1>4 DEF Grown

LEMMA CreateKeeps ==
  ASSUME NEW bare \in BOOLEAN, NEW b, Held(bare, b), b.create, NEW v \in Text, v # NoValue
  PROVE  Held(bare, createItem(b, v)) /\ Grown(b, createItem(b, v), v)
<1>1. Loose(b) /\ b \in Boxes
  BY DEF Held, Loose
<1>2. CASE v # Blank /\ Positions(b, v) = {}
  <2>1. PICK m, p : m = Middle(b, v) /\ p = Len(MoreItems(b, v)) - 1
    OBVIOUS
  <2>2. Loose(m) /\ Grown(b, m, v) /\ p \in DOMAIN m.items /\ ~m.items[p].un
    BY <1>1, <1>2, <2>1, MiddleIs
  <2>3. createItem(b, v) = toggleItem(m, p, "on")
    BY <1>2, <2>1, CreateNew
  <2>4. Held(bare, toggleItem(m, p, "on")) /\ SameItems(m, toggleItem(m, p, "on"))
    BY <2>2, ToggleKeeps, HeldIs
  <2>5. QED
    BY <2>2, <2>3, <2>4, SameGrown
<1>3. CASE v # Blank /\ Positions(b, v) # {}
  <2>1. PICK k \in DOMAIN b.items : b.items[k].v = v /\ createItem(b, v) = toggleItem(b, k, "on")
    BY <1>3, CreateKnown
  <2>2. Held(bare, toggleItem(b, k, "on")) /\ SameItems(b, toggleItem(b, k, "on"))
    BY <2>1, ToggleAny
  <2>3. Grown(b, b, v)
    BY <2>1 DEF Grown, Kind, From, HasItem
  <2>4. QED
    BY <2>1, <2>2, <2>3, SameGrown
<1>4. CASE v = Blank
  <2>1. createItem(b, v) = b
    BY <1>4 DEF Blank, createItem
  <2>2. Grown(b, b, v)
    BY <1>4 DEF Grown, Kind, From
  <2>3. QED
    BY <2>1, <2>2
<1>5. QED
  BY <1>2, <1>3, <1>4

(* On a page of its own a box refuses its text input and nothing else. *)
Plain(b) ==
  \A i \in DOMAIN b.items : (b.items[i].un <=> b.items[i].v = CreateValue) /\ (b.items[i].un => ~b.items[i].sel)
ChoiceInv(bare, b) == Held(bare, b) /\ Plain(b)

LEMMA ToggleSel ==
  ASSUME NEW b, Loose(b), NEW k \in DOMAIN b.items, ~b.items[k].un, NEW force, NEW t, t = toggleItem(b, k, force)
  PROVE  \A i \in DOMAIN b.items : t.items[i].sel => i = k \/ b.items[i].sel
<1>1. b \in Boxes /\ (~b.multiple => AtMostOne(b.items)) /\ b.multiple \in BOOLEAN
  BY BoxIs DEF Loose
<1>2. CASE b.multiple
  <2>1. \A i \in DOMAIN b.items : t.items[i].sel <=> IF i = k THEN Switched(b, k, force) ELSE b.items[i].sel
    BY <1>1, <1>2, ToggleMany
  <2>2. QED
    BY <2>1
<1>3. CASE ~b.multiple
  <2>1. \A i \in DOMAIN b.items : t.items[i].sel <=> i = k
    BY <1>1, <1>3, ToggleOne
  <2>2. QED
    BY <2>1
<1>4. QED
  BY <1>1, <1>2, <1>3

LEMMA TogglePlain ==
  ASSUME NEW b, Loose(b), Plain(b), NEW k \in DOMAIN b.items, NEW force
  PROVE  Plain(toggleItem(b, k, force))
<1>1. CASE b.items[k].un
  BY <1>1, ToggleUn
<1>2. CASE ~b.items[k].un
  <2>1. PICK t : t = toggleItem(b, k, force)
    OBVIOUS
  <2>2. SameItems(b, t)
    BY <1>2, <2>1, ToggleKeeps
  <2>3. \A i \in DOMAIN b.items : t.items[i].sel => i = k \/ b.items[i].sel
    BY <1>2, <2>1, ToggleSel
  <2>4. /\ DOMAIN t.items = DOMAIN b.items
        /\ \A i \in DOMAIN b.items : t.items[i].v = b.items[i].v /\ t.items[i].un = b.items[i].un
    BY <2>2 DEF SameItems
  <2>5. Plain(t)
    BY <1>2, <2>3, <2>4 DEF Plain
  <2>6. QED
    BY <2>1, <2>5
<1>3. QED
  BY <1>1, <1>2

LEMMA CreatePlain ==
  ASSUME NEW b, Loose(b), Plain(b), b.create, NEW v \in Text, v # NoValue
  PROVE  Plain(createItem(b, v))
<1>1. Loose(b) /\ b \in Boxes /\ Plain(b)
  BY DEF Loose
<1>2. CASE v # Blank /\ Positions(b, v) = {}
  <2>1. PICK m, p : m = Middle(b, v) /\ p = Len(MoreItems(b, v)) - 1
    OBVIOUS
  <2>2. /\ Loose(m) /\ p \in DOMAIN m.items /\ ~m.items[p].un /\ m.items[p].v = v
        /\ \A j \in DOMAIN m.items : j # p => \E k \in DOMAIN b.items : m.items[j] = b.items[k]
    BY <1>1, <1>2, <2>1, MiddleIs
  <2>3. createItem(b, v) = toggleItem(m, p, "on")
    BY <1>2, <2>1, CreateNew
  <2>4. v # CreateValue
    <3>1. \E k \in DOMAIN b.items : b.items[k].v = CreateValue
      BY <1>1 DEF Loose, Marks
    <3>2. QED
      BY <1>2, <3>1 DEF Positions
  <2>5. Plain(m)
    BY <1>1, <2>2, <2>4 DEF Plain
  <2>6. QED
    BY <2>2, <2>3, <2>5, TogglePlain
<1>3. CASE v # Blank /\ Positions(b, v) # {}
  <2>1. PICK k \in DOMAIN b.items : b.items[k].v = v /\ createItem(b, v) = toggleItem(b, k, "on")
    BY <1>3, CreateKnown
  <2>2. QED
    BY <1>1, <2>1, TogglePlain
<1>4. CASE v = Blank
  BY <1>4 DEF Blank, createItem
<1>5. QED
  BY <1>2, <1>3, <1>4

(* Several texts, one after the other *)
CreateTakes(c, b, v) == createItem(b, v)
CreateKept(c, i, x) ==
  /\ ChoiceInv(c.bare, x) /\ Kind(c.b, x)
  /\ (HasItem(c.b, NoValue) => HasItem(x, NoValue)) /\ (HasItem(x, Blank) => HasItem(c.b, Blank))
  /\ \A j \in 1 .. i : (c.b.multiple \/ j = i) /\ c.values[j] # Blank => HasItem(x, c.values[j])
  /\ \A v : c.b.multiple \/ i = 0 \/ (i = 1 /\ c.values[1] = Blank) => (HasItem(c.b, v) => HasItem(x, v))
CreateFold == INSTANCE FoldInduction WITH Op <- CreateTakes, Good <- CreateKept

LEMMA CreateFoldIs == \A b, values, c : CreateFold!Fold(c, b, values) = createItems(b, values)
  BY DEF CreateFold!Fold, CreateFold!Latest,
    createItems, FoldLeft, MapThenFoldSet, Max, CreateTakes

LEMMA CreateAll ==
  ASSUME NEW bare \in BOOLEAN, NEW b, ChoiceInv(bare, b), b.create,
         NEW values \in Seq(Text), NoValue \notin Range(values)
  PROVE  /\ ChoiceInv(bare, createItems(b, values)) /\ Kind(b, createItems(b, values))
         /\ HasItem(b, NoValue) => HasItem(createItems(b, values), NoValue)
         /\ HasItem(createItems(b, values), Blank) => HasItem(b, Blank)
         /\ b.multiple \/ Len(values) <= 1 =>
              \A v \in Range(values) : v # Blank \/ HasItem(b, v) => HasItem(createItems(b, values), v)
<1>1. PICK n \in Nat : n = Len(values) /\ DOMAIN values = 1 .. n /\ \A i \in 1 .. n : values[i] \in Text
  BY SeqIs
<1>2. PICK c : c = [b |-> b, values |-> values, bare |-> bare]
  OBVIOUS
<1>3. c.b = b /\ c.values = values /\ c.bare = bare
  BY <1>2
<1>4. CreateKept(c, 0, b)
  <2>1. \A j \in 1 .. 0 : FALSE
    OBVIOUS
  <2>2. QED
    BY <1>3, <2>1 DEF CreateKept, Kind
<1>5. ASSUME NEW i \in 1 .. n, NEW x, CreateKept(c, i - 1, x)
      PROVE  CreateKept(c, i, CreateTakes(c, x, values[i]))
  <2>1. /\ ChoiceInv(bare, x) /\ Kind(b, x)
        /\ (HasItem(b, NoValue) => HasItem(x, NoValue)) /\ (HasItem(x, Blank) => HasItem(b, Blank))
        /\ \A j \in 1 .. i - 1 : (b.multiple \/ j = i - 1) /\ values[j] # Blank => HasItem(x, values[j])
        /\ \A v : b.multiple \/ i - 1 = 0 \/ (i - 1 = 1 /\ values[1] = Blank) => (HasItem(b, v) => HasItem(x, v))
    BY <1>3, <1>5 DEF CreateKept
  <2>2. x.create /\ Held(bare, x) /\ Plain(x) /\ Loose(x)
    BY <2>1 DEF Kind, ChoiceInv, Held
  <2>3. PICK v \in Text : v = values[i] /\ v # NoValue
    <3>1. values[i] \in Range(values) /\ values[i] \in Text
      BY <1>1 DEF Range
    <3>2. QED
      BY <3>1
  <2>4. PICK y : y = createItem(x, v)
    OBVIOUS
  <2>5. Held(bare, y) /\ Grown(x, y, v) /\ Plain(y)
    BY <2>2, <2>3, <2>4, CreateKeeps, CreatePlain
  <2>6. Kind(b, y) /\ (HasItem(b, NoValue) => HasItem(y, NoValue))
    BY <2>1, <2>5 DEF Grown, Kind
  <2>13. HasItem(y, Blank) => HasItem(b, Blank)
    <3>1. HasItem(y, Blank) => HasItem(x, Blank)
      BY <2>5 DEF Grown, From, HasItem
    <3>2. QED
      BY <2>1, <3>1
  <2>7. values[i] # Blank => HasItem(y, values[i])
    BY <2>3, <2>5 DEF Grown
  <2>8. x.multiple => \A w : HasItem(x, w) => HasItem(y, w)
    BY <2>5 DEF Grown, HasItem
  <2>9. ASSUME NEW j \in 1 .. i, b.multiple \/ j = i, values[j] # Blank PROVE HasItem(y, values[j])
    <3>1. CASE j = i
      BY <2>7, <2>9, <3>1
    <3>2. CASE j # i
      <4>1. j \in 1 .. i - 1 /\ b.multiple
        BY <2>9, <3>2
      <4>2. HasItem(x, values[j]) /\ x.multiple
        BY <2>1, <2>9, <4>1 DEF Kind
      <4>3. QED
        BY <2>8, <4>2
    <3>3. QED
      BY <3>1, <3>2
  <2>10. ASSUME NEW w, b.multiple \/ i = 0 \/ (i = 1 /\ values[1] = Blank), HasItem(b, w) PROVE HasItem(y, w)
    <3>1. CASE b.multiple
      BY <2>1, <2>8, <2>10, <3>1 DEF Kind
    <3>2. CASE ~b.multiple
      <4>1. i = 1 /\ values[1] = Blank
        BY <2>10, <3>2
      <4>2. y = x
        BY <2>3, <2>4, <4>1 DEF Blank, createItem
      <4>3. i - 1 = 0
        BY <4>1
      <4>4. QED
        BY <2>1, <2>10, <4>2, <4>3
    <3>3. QED
      BY <3>1, <3>2
  <2>11. CreateKept(c, i, y)
    BY <1>3, <2>5, <2>6, <2>9, <2>10, <2>13 DEF CreateKept, ChoiceInv
  <2>12. QED
    BY <2>3, <2>4, <2>11 DEF CreateTakes
<1>6. CreateKept(c, n, CreateFold!Fold(c, b, values))
  BY <1>1, <1>4, <1>5, CreateFold!FoldKeeps
<1>7. PICK y : y = createItems(b, values)
  OBVIOUS
<1>8. CreateKept(c, n, y)
  BY <1>6, <1>7, CreateFoldIs
<1>9. ASSUME b.multiple \/ n <= 1, NEW j \in 1 .. n, values[j] # Blank \/ HasItem(b, values[j])
      PROVE  HasItem(y, values[j])
  <2>1. b.multiple \/ (j = n /\ n = 1)
    BY <1>9
  <2>2. CASE values[j] # Blank
    BY <1>3, <1>8, <2>1, <2>2 DEF CreateKept
  <2>3. CASE values[j] = Blank
    <3>1. b.multiple \/ (n = 1 /\ values[1] = Blank)
      BY <2>1, <2>3
    <3>2. QED
      BY <1>3, <1>8, <1>9, <2>3, <3>1 DEF CreateKept
  <2>4. QED
    BY <2>2, <2>3
<1>10. /\ ChoiceInv(bare, y) /\ Kind(b, y)
       /\ (HasItem(b, NoValue) => HasItem(y, NoValue)) /\ (HasItem(y, Blank) => HasItem(b, Blank))
  BY <1>3, <1>8 DEF CreateKept
<1>11. QED
  BY <1>1, <1>7, <1>9, <1>10 DEF Range

LEMMA CreateNone ==
  ASSUME NEW b PROVE createItems(b, <<>>) = b
<1>1. DOMAIN <<>> = 1 .. 0 /\ \A i \in 1 .. 0 : FALSE
  OBVIOUS
<1>2. PICK x : x = [i \in 0 .. 0 |-> b]
  OBVIOUS
<1>3. x[0] = b
  BY <1>2
<1>4. CreateFold!Trace(b, b, <<>>, 0, x)
  BY <1>1, <1>3 DEF CreateFold!Trace
<1>5. CreateFold!Fold(b, b, <<>>) = x[0]
  BY <1>1, <1>4, CreateFold!FoldOf
<1>6. QED
  BY <1>3, <1>5, CreateFoldIs

(* Setting several values: every item is gone through *)
SetTakes(c, b, k) == toggleItem(b, k, IF b.items[k].v \in Range(c.values) THEN "on" ELSE "off")
Wrong(x, values, j) == j \in DOMAIN x.items /\ x.items[j].sel /\ x.items[j].v \notin Range(values)
SetKept(c, i, x) ==
  /\ ChoiceInv(c.bare, x) /\ SameItems(c.b, x)
  /\ \A j \in 1 .. i : ~x.items[j].un /\ x.items[j].v \in Range(c.values) => x.items[j].sel
  /\ \A j \in 1 .. i : Wrong(x, c.values, j) => ~x.optional /\ \A k : Wrong(x, c.values, k) => k = j
SetFold == INSTANCE FoldInduction WITH Op <- SetTakes, Good <- SetKept

LEMMA OnlyOneIs ==
  ASSUME NEW b \in Boxes, OnlyOne(b)
  PROVE  ~b.optional /\ AtMostOne(b.items)
<1>1. PICK n \in Nat : DOMAIN b.items = 1 .. n
  BY BoxIs, SeqIs
<1>2. PICK s : s = SelectedItems(b)
  OBVIOUS
<1>3. s \subseteq 1 .. n
  BY <1>1, <1>2 DEF SelectedItems
<1>4. IsFiniteSet(s)
  <2>1. 1 \in Int /\ n \in Int
    OBVIOUS
  <2>2. IsFiniteSet(1 .. n)
    BY <2>1, FS_Interval
  <2>3. QED
    BY <1>3, <2>2, FS_Subset
<1>5. ASSUME NEW i \in s, NEW j \in s, i # j PROVE FALSE
  <2>1. Cardinality(s \ {i}) = Cardinality(s) - 1 /\ IsFiniteSet(s \ {i})
    BY <1>4, FS_RemoveElement
  <2>2. Cardinality((s \ {i}) \ {j}) = Cardinality(s \ {i}) - 1 /\ IsFiniteSet((s \ {i}) \ {j})
    BY <1>5, <2>1, FS_RemoveElement
  <2>3. Cardinality(s) \in Nat /\ Cardinality((s \ {i}) \ {j}) \in Nat
    BY <1>4, <2>2, FS_CardinalityType
  <2>4. Cardinality(s) <= 1
    BY <1>2 DEF OnlyOne
  <2>5. QED
    BY <2>1, <2>2, <2>3, <2>4
<1>6. AtMostOne(b.items)
  BY <1>2, <1>5 DEF AtMostOne, SelectedItems
<1>7. QED
  BY <1>6 DEF OnlyOne

LEMMA SetStep ==
  ASSUME NEW c, c.bare \in BOOLEAN, c.b.multiple, NEW i \in Nat, i > 0, NEW x, SetKept(c, i - 1, x), i \in DOMAIN x.items
  PROVE  SetKept(c, i, SetTakes(c, x, i))
<1>1. PICK y, values, force : /\ y = toggleItem(x, i, force) /\ values = c.values
                              /\ force = IF x.items[i].v \in Range(values) THEN "on" ELSE "off"
  OBVIOUS
<1>2. SetTakes(c, x, i) = y
  BY <1>1 DEF SetTakes
<1>3. /\ ChoiceInv(c.bare, x) /\ SameItems(c.b, x)
      /\ \A j \in 1 .. i - 1 : ~x.items[j].un /\ x.items[j].v \in Range(values) => x.items[j].sel
      /\ \A j \in 1 .. i - 1 : Wrong(x, values, j) => ~x.optional /\ \A k : Wrong(x, values, k) => k = j
  BY <1>1 DEF SetKept
<1>4. Held(c.bare, x) /\ Plain(x) /\ Loose(x) /\ x \in Boxes /\ x.multiple
  BY <1>3 DEF ChoiceInv, Held, Loose, SameItems
<1>5. \A j \in 1 .. i : j = i \/ j \in 1 .. i - 1
  OBVIOUS
<1>6. CASE x.items[i].un
  <2>1. y = x
    BY <1>1, <1>6, ToggleUn
  <2>2. ~Wrong(x, values, i)
    BY <1>4, <1>6 DEF Plain, Wrong
  <2>3. QED
    BY <1>1, <1>2, <1>3, <1>5, <1>6, <2>1, <2>2 DEF SetKept
<1>7. CASE ~x.items[i].un
  <2>1. /\ SameItems(x, y)
        /\ \A j \in DOMAIN x.items : y.items[j].sel <=> IF j = i THEN Switched(x, i, force) ELSE x.items[j].sel
    BY <1>1, <1>4, <1>7, ToggleMany
  <2>2. ChoiceInv(c.bare, y)
    BY <1>1, <1>4, ToggleAny, TogglePlain DEF ChoiceInv
  <2>3. SameItems(c.b, y)
    BY <1>3, <2>1, SameTrans
  <2>4. /\ DOMAIN y.items = DOMAIN x.items /\ y.optional = x.optional
        /\ \A j \in DOMAIN x.items : y.items[j].v = x.items[j].v /\ y.items[j].un = x.items[j].un
    BY <2>1 DEF SameItems
  <2>5. 1 .. i \subseteq DOMAIN x.items
    <3>1. PICK n \in Nat : DOMAIN x.items = 1 .. n
      BY <1>4, BoxIs, SeqIs
    <3>2. QED
      BY <3>1
  <2>6. CASE x.items[i].v \in Range(values)
    <3>1. force = "on"
      BY <1>1, <2>6
    <3>2. y.items[i].sel
      BY <2>1, <3>1 DEF Switched
    <3>3. \A j : Wrong(y, values, j) <=> Wrong(x, values, j)
      <4>1. ASSUME NEW j PROVE Wrong(y, values, j) <=> Wrong(x, values, j)
        <5>1. CASE j = i
          BY <2>4, <2>6, <5>1 DEF Wrong
        <5>2. CASE j # i
          BY <2>1, <2>4, <5>2 DEF Wrong
        <5>3. QED
          BY <5>1, <5>2
      <4>2. QED
        BY <4>1
    <3>4. \A j \in 1 .. i : ~y.items[j].un /\ y.items[j].v \in Range(values) => y.items[j].sel
      BY <1>3, <1>5, <2>1, <2>4, <2>5, <3>2
    <3>5. ~Wrong(y, values, i)
      BY <2>4, <2>6 DEF Wrong
    <3>6. \A j \in 1 .. i : Wrong(y, values, j) => ~y.optional /\ \A k : Wrong(y, values, k) => k = j
      BY <1>3, <1>5, <2>4, <3>3, <3>5
    <3>7. QED
      BY <1>1, <1>2, <2>2, <2>3, <3>4, <3>6 DEF SetKept
  <2>7. CASE x.items[i].v \notin Range(values)
    <3>1. force = "off"
      BY <1>1, <2>7
    <3>2. y.items[i].sel => x.items[i].sel /\ OnlyOne(x)
      BY <2>1, <3>1 DEF Switched
    <3>3. \A j : Wrong(y, values, j) => Wrong(x, values, j)
      <4>1. ASSUME NEW j, Wrong(y, values, j) PROVE Wrong(x, values, j)
        <5>1. CASE j = i
          BY <2>4, <3>2, <4>1, <5>1 DEF Wrong
        <5>2. CASE j # i
          BY <2>1, <2>4, <4>1, <5>2 DEF Wrong
        <5>3. QED
          BY <5>1, <5>2
      <4>2. QED
        BY <4>1
    <3>4. \A j \in 1 .. i : ~y.items[j].un /\ y.items[j].v \in Range(values) => y.items[j].sel
      BY <1>3, <1>5, <2>1, <2>4, <2>5, <2>7
    <3>5. ASSUME Wrong(y, values, i) PROVE ~y.optional /\ \A k : Wrong(y, values, k) => k = i
      <4>1. OnlyOne(x) /\ x.items[i].sel
        BY <3>2, <3>5 DEF Wrong
      <4>2. ~x.optional /\ AtMostOne(x.items)
        BY <1>4, <4>1, OnlyOneIs
      <4>3. \A k : Wrong(x, values, k) => k = i
        BY <4>1, <4>2 DEF Wrong, AtMostOne
      <4>4. QED
        BY <2>4, <3>3, <4>2, <4>3
    <3>6. \A j \in 1 .. i : Wrong(y, values, j) => ~y.optional /\ \A k : Wrong(y, values, k) => k = j
      <4>1. ASSUME NEW j \in 1 .. i, Wrong(y, values, j)
            PROVE  ~y.optional /\ \A k : Wrong(y, values, k) => k = j
        <5>1. CASE j = i
          BY <3>5, <4>1, <5>1
        <5>2. CASE j # i
          <6>1. j \in 1 .. i - 1 /\ Wrong(x, values, j)
            BY <1>5, <3>3, <4>1, <5>2
          <6>2. QED
            BY <1>3, <2>4, <3>3, <6>1
        <5>3. QED
          BY <5>1, <5>2
      <4>2. QED
        BY <4>1
    <3>7. QED
      BY <1>1, <1>2, <2>2, <2>3, <3>4, <3>6 DEF SetKept
  <2>8. QED
    BY <2>6, <2>7
<1>8. QED
  BY <1>6, <1>7

LEMMA SetEachIs ==
  ASSUME NEW bare \in BOOLEAN, NEW b, ChoiceInv(bare, b), b.multiple, NEW values, NEW t, t = SetEach(b, values)
  PROVE  /\ ChoiceInv(bare, t) /\ SameItems(b, t)
         /\ \A j \in DOMAIN t.items : ~t.items[j].un /\ t.items[j].v \in Range(values) => t.items[j].sel
         /\ \A j : Wrong(t, values, j) => ~t.optional /\ \A k : Wrong(t, values, k) => k = j
<1>1. b \in Boxes /\ b.items \in Seq(Items)
  BY BoxIs DEF ChoiceInv, Held, Loose
<1>2. PICK n \in Nat : n = Len(b.items) /\ DOMAIN b.items = 1 .. n
  BY <1>1, SeqIs
<1>3. PICK c : c = [b |-> b, values |-> values, bare |-> bare]
  OBVIOUS
<1>4. c.b = b /\ c.values = values /\ c.bare = bare
  BY <1>3
<1>5. PICK each : each = [i \in DOMAIN b.items |-> i]
  OBVIOUS
<1>6. DOMAIN each = 1 .. n /\ \A i \in 1 .. n : each[i] = i
  BY <1>2, <1>5
<1>7. SetKept(c, 0, b)
  <2>1. \A j \in 1 .. 0 : FALSE
    OBVIOUS
  <2>2. QED
    BY <1>1, <1>4, <2>1, SameSame DEF SetKept
<1>8. ASSUME NEW i \in 1 .. n, NEW x, SetKept(c, i - 1, x)
      PROVE  SetKept(c, i, SetTakes(c, x, each[i]))
  <2>1. i \in DOMAIN x.items
    BY <1>2, <1>4, <1>8 DEF SetKept, SameItems
  <2>2. i \in Nat /\ i > 0 /\ c.b.multiple /\ c.bare \in BOOLEAN /\ each[i] = i
    BY <1>4, <1>6
  <2>3. QED
    BY <1>8, <2>1, <2>2, SetStep
<1>9. SetKept(c, n, SetFold!Fold(c, b, each))
  BY <1>6, <1>7, <1>8, SetFold!FoldKeeps
<1>10. SetFold!Fold(c, b, each) = SetEach(b, c.values)
  BY <1>5 DEF SetFold!Fold, SetFold!Latest,
    SetEach, FoldLeft, MapThenFoldSet, Max, SetTakes
<1>11. SetKept(c, n, t)
  BY <1>4, <1>9, <1>10
<1>12. DOMAIN t.items = 1 .. n
  BY <1>2, <1>4, <1>11 DEF SetKept, SameItems
<1>13. \A j : Wrong(t, values, j) => j \in 1 .. n
  BY <1>12 DEF Wrong
<1>14. QED
  BY <1>4, <1>11, <1>12, <1>13 DEF SetKept

(* Setting one value: the placeholder first, then the item that has it *)
OnlyTakes(c, b, k) == IF b.items[k].v \in Range(c.values) THEN toggleItem(b, k, "flip") ELSE b
OnlyKept(c, i, x) ==
  /\ Held(c.bare, x) /\ SameItems(c.b, x) /\ (Plain(c.b) => Plain(x))
  /\ \/ x = c.b /\ \A j \in 1 .. i : x.items[j].v \in Range(c.values) => x.items[j].un
     \/ \E j \in DOMAIN x.items : x.items[j].v \in Range(c.values) /\ x.items[j].sel
OnlyFold == INSTANCE FoldInduction WITH Op <- OnlyTakes, Good <- OnlyKept

LEMMA OnlyStep ==
  ASSUME NEW c, c.bare \in BOOLEAN, ~c.b.multiple, NEW i \in Nat, i > 0, NEW x, OnlyKept(c, i - 1, x), i \in DOMAIN x.items
  PROVE  OnlyKept(c, i, OnlyTakes(c, x, i))
<1>1. Held(c.bare, x) /\ SameItems(c.b, x) /\ (Plain(c.b) => Plain(x)) /\ Loose(x) /\ x \in Boxes /\ ~x.multiple
  BY DEF OnlyKept, Held, Loose, SameItems
<1>2. \A j \in 1 .. i : j = i \/ j \in 1 .. i - 1
  OBVIOUS
<1>3. CASE x.items[i].v \notin Range(c.values)
  <2>1. OnlyTakes(c, x, i) = x
    BY <1>3 DEF OnlyTakes
  <2>2. QED
    BY <1>2, <1>3, <2>1 DEF OnlyKept
<1>4. CASE x.items[i].v \in Range(c.values) /\ x.items[i].un
  <2>1. OnlyTakes(c, x, i) = x
    BY <1>4, ToggleUn DEF OnlyTakes
  <2>2. QED
    BY <1>2, <1>4, <2>1 DEF OnlyKept
<1>5. CASE x.items[i].v \in Range(c.values) /\ ~x.items[i].un
  <2>1. PICK y : y = toggleItem(x, i, "flip")
    OBVIOUS
  <2>2. OnlyTakes(c, x, i) = y
    BY <1>5, <2>1 DEF OnlyTakes
  <2>3. Held(c.bare, y) /\ SameItems(x, y) /\ (Plain(x) => Plain(y))
    BY <1>1, <2>1, ToggleAny, TogglePlain
  <2>4. \A j \in DOMAIN x.items : y.items[j].sel <=> j = i
    BY <1>1, <1>5, <2>1, ToggleOne DEF Loose
  <2>5. i \in DOMAIN y.items /\ y.items[i].v \in Range(c.values) /\ y.items[i].sel
    BY <1>5, <2>3, <2>4 DEF SameItems
  <2>6. SameItems(c.b, y)
    BY <1>1, <2>3, SameTrans
  <2>7. QED
    BY <1>1, <2>2, <2>3, <2>5, <2>6 DEF OnlyKept
<1>6. QED
  BY <1>3, <1>4, <1>5

Reset(b) ==
  LET first == Positions(b, NoValue)
  IN  IF first = {} THEN b ELSE toggleItem(b, CHOOSE i \in first : TRUE, "flip")

LEMMA ResetIs ==
  ASSUME NEW bare \in BOOLEAN, NEW b, Held(bare, b), ~b.multiple, NEW r, r = Reset(b)
  PROVE  /\ Held(bare, r) /\ SameItems(b, r) /\ (Plain(b) => Plain(r))
         /\ HasItem(b, NoValue) => \A j \in DOMAIN r.items : r.items[j].sel => r.items[j].v = NoValue
<1>1. Loose(b) /\ b \in Boxes /\ Marks(b) /\ AtMostOne(b.items)
  BY DEF Held, Loose
<1>2. CASE Positions(b, NoValue) = {}
  <2>1. r = b
    BY <1>2 DEF Reset
  <2>2. ~HasItem(b, NoValue)
    BY <1>2 DEF HasItem, Positions
  <2>3. QED
    BY <1>1, <2>1, <2>2, SameSame
<1>3. CASE Positions(b, NoValue) # {}
  <2>1. PICK k : k = CHOOSE i \in Positions(b, NoValue) : TRUE
    OBVIOUS
  <2>2. k \in DOMAIN b.items /\ b.items[k].v = NoValue
    BY <1>3, <2>1 DEF Positions
  <2>3. r = toggleItem(b, k, "flip")
    BY <1>3, <2>1 DEF Reset
  <2>4. ~b.items[k].un
    BY <1>1, <2>2 DEF Marks
  <2>5. Held(bare, r) /\ SameItems(b, r) /\ (Plain(b) => Plain(r))
    BY <1>1, <2>2, <2>3, ToggleAny, TogglePlain
  <2>6. \A j \in DOMAIN b.items : r.items[j].sel <=> j = k
    BY <1>1, <2>2, <2>3, <2>4, ToggleOne
  <2>7. QED
    BY <2>2, <2>5, <2>6 DEF SameItems
<1>4. QED
  BY <1>2, <1>3

LEMMA SetOnlyIs ==
  ASSUME NEW bare \in BOOLEAN, NEW b, Held(bare, b), ~b.multiple, NEW values, NEW t, t = SetOnly(b, values)
  PROVE  /\ Held(bare, t) /\ SameItems(b, t) /\ (Plain(b) => Plain(t))
         /\ \/ \E j \in DOMAIN t.items : t.items[j].v \in Range(values) /\ t.items[j].sel
            \/ /\ \A j \in DOMAIN t.items : t.items[j].v \in Range(values) => t.items[j].un
               /\ HasItem(b, NoValue) => \A j \in DOMAIN t.items : t.items[j].sel => t.items[j].v = NoValue
<1>1. PICK r : r = Reset(b)
  OBVIOUS
<1>2. /\ Held(bare, r) /\ SameItems(b, r) /\ (Plain(b) => Plain(r))
      /\ HasItem(b, NoValue) => \A j \in DOMAIN r.items : r.items[j].sel => r.items[j].v = NoValue
  BY <1>1, ResetIs
<1>3. r \in Boxes /\ r.items \in Seq(Items) /\ ~r.multiple /\ DOMAIN r.items = DOMAIN b.items
  BY <1>2, BoxIs DEF SameItems
<1>4. PICK n \in Nat : n = Len(r.items) /\ DOMAIN r.items = 1 .. n
  BY <1>3, SeqIs
<1>5. PICK c : c = [b |-> r, values |-> values, bare |-> bare]
  OBVIOUS
<1>6. c.b = r /\ c.values = values /\ c.bare = bare
  BY <1>5
<1>7. PICK each : each = [i \in DOMAIN b.items |-> i]
  OBVIOUS
<1>8. DOMAIN each = 1 .. n /\ \A i \in 1 .. n : each[i] = i
  BY <1>3, <1>4, <1>7
<1>9. OnlyKept(c, 0, r)
  <2>1. \A j \in 1 .. 0 : FALSE
    OBVIOUS
  <2>2. QED
    BY <1>2, <1>3, <1>6, <2>1, SameSame DEF OnlyKept
<1>10. ASSUME NEW i \in 1 .. n, NEW x, OnlyKept(c, i - 1, x)
       PROVE  OnlyKept(c, i, OnlyTakes(c, x, each[i]))
  <2>1. i \in DOMAIN x.items
    BY <1>4, <1>6, <1>10 DEF OnlyKept, SameItems
  <2>2. i \in Nat /\ i > 0 /\ ~c.b.multiple /\ c.bare \in BOOLEAN /\ each[i] = i
    BY <1>3, <1>6, <1>8
  <2>3. QED
    BY <1>10, <2>1, <2>2, OnlyStep
<1>11. OnlyKept(c, n, OnlyFold!Fold(c, r, each))
  BY <1>8, <1>9, <1>10, OnlyFold!FoldKeeps
<1>12. OnlyFold!Fold(c, r, each) = SetOnly(b, c.values)
  BY <1>1, <1>7 DEF OnlyFold!Fold, OnlyFold!Latest,
    SetOnly, Reset, FoldLeft, MapThenFoldSet, Max, OnlyTakes
<1>13. OnlyKept(c, n, t)
  BY <1>6, <1>11, <1>12
<1>14. Held(bare, t) /\ SameItems(b, t) /\ (Plain(b) => Plain(t))
  BY <1>2, <1>6, <1>13, SameTrans DEF OnlyKept
<1>15. \/ t = r /\ \A j \in 1 .. n : t.items[j].v \in Range(values) => t.items[j].un
       \/ \E j \in DOMAIN t.items : t.items[j].v \in Range(values) /\ t.items[j].sel
  BY <1>6, <1>13 DEF OnlyKept
<1>16. QED
  BY <1>2, <1>4, <1>14, <1>15

LEMMA FewSet ==
  ASSUME NEW S, \A x, y \in S : x = y
  PROVE  Cardinality(S) <= 1
<1>1. CASE S = {}
  <2>1. Cardinality(S) = 0
    BY <1>1, FS_EmptySet
  <2>2. QED
    BY <2>1
<1>2. CASE S # {}
  <2>1. PICK x : S = {x}
    BY <1>2
  <2>2. Cardinality(S) = 1
    BY <2>1, FS_Singleton
  <2>3. QED
    BY <2>2
<1>3. QED
  BY <1>1, <1>2

LEMMA InvConsistent ==
  ASSUME NEW b, BoxInv(b)
  PROVE  BoxConsistent(b)
<1>1. /\ b.hidden = Values(b.items) /\ (~b.multiple => Chosen(b.items)) /\ Distinct(b.items)
      /\ (~b.multiple => AtMostOne(b.items))
  BY DEF BoxInv, Loose
<1>2. ASSUME ~b.multiple PROVE Cardinality(SelectedItems(b)) = 1
  <2>1. PICK i \in DOMAIN b.items : b.items[i].sel
    BY <1>1, <1>2 DEF Chosen
  <2>2. SelectedItems(b) = {i}
    BY <1>1, <1>2, <2>1 DEF AtMostOne, SelectedItems
  <2>3. QED
    BY <2>2, FS_Singleton
<1>3. QED
  BY <1>1, <1>2 DEF BoxConsistent, getValue, Distinct

(* The box in which all that is asked for is offered *)
Grow(b, asked) == IF ~b.create THEN b ELSE createItems(b, asked)
(* What a script can ask for of a box *)
Order(b, asked) ==
  /\ asked \in Seq(Text) /\ NoValue \notin Range(asked)
  /\ ~b.multiple => Len(asked) <= 1 /\ First(asked) = asked /\ \A v, w \in Range(asked) : v = w

LEMMA SeqOfOne ==
  ASSUME NEW S, NEW v \in S
  PROVE  /\ <<v>> \in Seq(S) /\ Len(<<v>>) = 1 /\ Head(<<v>>) = v /\ <<v>> # <<>>
         /\ Range(<<v>>) = {v}
<1>1. <<v>> \in Seq(S) /\ Len(<<v>>) = 1 /\ DOMAIN <<v>> = 1 .. 1 /\ <<v>>[1] = v
  OBVIOUS
<1>2. PICK s : s = <<v>>
  OBVIOUS
<1>3. DOMAIN s = {1} /\ s[1] = v
  BY <1>1, <1>2
<1>4. Range(s) = {v}
  BY <1>3 DEF Range
<1>5. Head(<<v>>) = v
  BY <1>1
<1>6. <<v>> # <<>>
  BY <1>1
<1>7. QED
  BY <1>1, <1>2, <1>4, <1>5, <1>6

LEMMA EmptyIs ==
  ASSUME NEW S
  PROVE  <<>> \in Seq(S) /\ Len(<<>>) = 0 /\ Range(<<>>) = {}
<1>1. <<>> \in Seq(S) /\ Len(<<>>) = 0
  OBVIOUS
<1>2. Range(<<>>) = {}
  BY DEF Range
<1>3. QED
  BY <1>1, <1>2

LEMMA FirstOf ==
  ASSUME NEW S, NEW values \in Seq(S), values # <<>>
  PROVE  \E v \in S : v = Head(values) /\ v \in Range(values)
<1>1. Len(values) > 0
  OBVIOUS
<1>2. 1 \in DOMAIN values /\ Head(values) = values[1] /\ values[1] \in S
  BY <1>1
<1>3. QED
  BY <1>2 DEF Range

LEMMA OneAsked ==
  ASSUME NEW b, NEW v \in Text, v # NoValue
  PROVE  Order(b, <<v>>)
<1>1. PICK f : f = <<v>>
  OBVIOUS
<1>2. f \in Seq(Text) /\ Len(f) = 1 /\ Head(f) = v /\ f # <<>> /\ Range(f) = {v}
  BY <1>1, SeqOfOne
<1>3. First(f) = f
  BY <1>1, <1>2 DEF First
<1>4. Len(f) <= 1
  BY <1>2
<1>5. QED
  BY <1>1, <1>2, <1>3, <1>4 DEF Order

LEMMA NoneAsked ==
  ASSUME NEW b
  PROVE  Order(b, <<>>)
<1>1. <<>> \in Seq(Text) /\ Len(<<>>) = 0 /\ Range(<<>>) = {}
  BY EmptyIs
<1>2. First(<<>>) = <<>>
  BY DEF First
<1>3. Len(<<>>) <= 1
  BY <1>1
<1>4. QED
  BY <1>1, <1>2, <1>3 DEF Order

LEMMA AskedIs ==
  ASSUME NEW b, NEW values \in Seq(Text), NoValue \notin Range(values)
  PROVE  Order(b, Asked(b, values))
<1>1. CASE b.multiple
  BY <1>1 DEF Asked, Order
<1>2. CASE ~b.multiple /\ values = <<>>
  <2>1. "undefined" \in Text
    BY DEF Text
  <2>2. "undefined" # NoValue
    BY DEF NoValue
  <2>3. Asked(b, values) = <<"undefined">>
    BY <1>2 DEF Asked
  <2>4. QED
    BY <2>1, <2>2, <2>3, OneAsked
<1>3. CASE ~b.multiple /\ values # <<>>
  <2>1. PICK v \in Text : v = Head(values) /\ v \in Range(values)
    BY <1>3, FirstOf
  <2>2. Asked(b, values) = <<v>>
    BY <1>3, <2>1 DEF Asked
  <2>3. QED
    BY <2>1, <2>2, OneAsked
<1>4. QED
  BY <1>1, <1>2, <1>3

LEMMA GrowIs ==
  ASSUME NEW bare \in BOOLEAN, NEW b, ChoiceInv(bare, b), NEW asked, Order(b, asked), NEW g, g = Grow(b, asked)
  PROVE  /\ ChoiceInv(bare, g) /\ Kind(b, g) /\ (~b.create => g = b)
         /\ (HasItem(b, NoValue) => HasItem(g, NoValue)) /\ (HasItem(g, Blank) => HasItem(b, Blank))
         /\ \A v \in Range(asked) : (b.create /\ v # Blank) \/ HasItem(b, v) => HasItem(g, v)
<1>1. asked \in Seq(Text) /\ NoValue \notin Range(asked) /\ (~b.multiple => Len(asked) <= 1)
  BY DEF Order
<1>2. CASE ~b.create
  BY <1>2 DEF Grow, Kind
<1>3. CASE b.create
  <2>1. g = createItems(b, asked)
    BY <1>3 DEF Grow
  <2>2. QED
    BY <1>1, <1>3, <2>1, CreateAll
<1>4. QED
  BY <1>2, <1>3

LEMMA SetValuesIs ==
  ASSUME NEW b, NEW asked, Order(b, asked)
  PROVE  setValues(b, asked) = IF b.multiple THEN SetEach(Grow(b, asked), asked) ELSE SetOnly(Grow(b, asked), asked)
<1>1. (IF b.multiple THEN asked ELSE First(asked)) = asked
  BY DEF Order
<1>2. QED
  BY <1>1 DEF setValues, Grow

LEMMA SetValuesTakes ==
  ASSUME NEW bare \in BOOLEAN, NEW b, ChoiceInv(bare, b), NEW asked, Order(b, asked)
  PROVE  /\ ChoiceInv(bare, setValues(b, asked)) /\ Kind(b, setValues(b, asked))
         /\ (bare /\ Can(b, asked) # {}) => BoxTakes(b, asked)
         /\ ~bare => BoxTakes(b, asked)
<1>2. /\ asked \in Seq(Text) /\ NoValue \notin Range(asked)
      /\ ~b.multiple => Len(asked) <= 1 /\ First(asked) = asked /\ \A v, w \in Range(asked) : v = w
  BY DEF Order
<1>3. PICK g : g = Grow(b, asked)
  OBVIOUS
<1>4. /\ ChoiceInv(bare, g) /\ Kind(b, g) /\ (~b.create => g = b)
      /\ (HasItem(b, NoValue) => HasItem(g, NoValue)) /\ (HasItem(g, Blank) => HasItem(b, Blank))
      /\ \A v \in Range(asked) : (b.create /\ v # Blank) \/ HasItem(b, v) => HasItem(g, v)
  BY <1>3, GrowIs
<1>5. PICK t : t = setValues(b, asked)
  OBVIOUS
<1>6. t = IF b.multiple THEN SetEach(g, asked) ELSE SetOnly(g, asked)
  BY <1>3, <1>5, SetValuesIs
<1>7. Held(bare, g) /\ Plain(g) /\ g.multiple = b.multiple /\ g.optional = b.optional
  BY <1>4 DEF ChoiceInv, Kind
<1>8. /\ ChoiceInv(bare, t) /\ SameItems(g, t)
      /\ b.multiple =>
           /\ \A j \in DOMAIN t.items : ~t.items[j].un /\ t.items[j].v \in Range(asked) => t.items[j].sel
           /\ \A j : Wrong(t, asked, j) => ~t.optional /\ \A k : Wrong(t, asked, k) => k = j
      /\ ~b.multiple =>
           \/ \E j \in DOMAIN t.items : t.items[j].v \in Range(asked) /\ t.items[j].sel
           \/ /\ \A j \in DOMAIN t.items : t.items[j].v \in Range(asked) => t.items[j].un
              /\ HasItem(b, NoValue) => \A j \in DOMAIN t.items : t.items[j].sel => t.items[j].v = NoValue
  <2>1. CASE b.multiple
    <3>1. t = SetEach(g, asked) /\ g.multiple
      BY <1>6, <1>7, <2>1
    <3>2. QED
      BY <1>4, <2>1, <3>1, SetEachIs
  <2>2. CASE ~b.multiple
    <3>1. t = SetOnly(g, asked) /\ ~g.multiple
      BY <1>6, <1>7, <2>2
    <3>2. QED
      <4>1. /\ Held(bare, t) /\ SameItems(g, t) /\ Plain(t)
            /\ \/ \E j \in DOMAIN t.items : t.items[j].v \in Range(asked) /\ t.items[j].sel
               \/ /\ \A j \in DOMAIN t.items : t.items[j].v \in Range(asked) => t.items[j].un
                  /\ HasItem(g, NoValue) => \A j \in DOMAIN t.items : t.items[j].sel => t.items[j].v = NoValue
        BY <1>7, <3>1, SetOnlyIs
      <4>2. QED
        BY <1>4, <2>2, <4>1 DEF ChoiceInv
  <2>3. QED
    BY <2>1, <2>2
<1>9. Held(bare, t) /\ Plain(t) /\ t.items \in Seq(Items)
      /\ (~b.multiple => AtMostOne(t.items)) /\ t.optional = b.optional
  BY <1>7, <1>8, BoxIs DEF ChoiceInv, Held, Loose, SameItems
<1>10. PICK got : got = Range(getValue(t))
  OBVIOUS
<1>12. PICK can : can = Can(b, asked)
  OBVIOUS
<1>11. can = {v \in Range(asked) \ {CreateValue} : (b.create /\ v # Blank) \/ HasItem(b, v)}
  BY <1>12 DEF Blank, Can, Positions, HasItem
<1>13. \A j \in DOMAIN t.items : j \in DOMAIN g.items /\ t.items[j].v = g.items[j].v
  BY <1>8 DEF SameItems
<1>14. ASSUME NEW k \in DOMAIN t.items, Read(t.items[k])
       PROVE  /\ t.items[k].v # CreateValue
              /\ t.items[k].v \in Range(asked) => t.items[k].v \in can
  <2>1. t.items[k].sel /\ t.items[k].v # NoValue
    BY <1>14 DEF Read
  <2>2. t.items[k].v # CreateValue
    BY <1>9, <2>1 DEF Plain
  <2>3. HasItem(g, t.items[k].v)
    BY <1>13 DEF HasItem
  <2>5. (b.create /\ t.items[k].v # Blank) \/ HasItem(b, t.items[k].v)
    BY <1>4, <2>3
  <2>4. QED
    BY <1>11, <2>2, <2>5
<1>15. ASSUME NEW v \in can
       PROVE  v # NoValue /\ \E k \in DOMAIN t.items : t.items[k].v = v /\ t.items[k].sel
  <2>1. v \in Range(asked) /\ v # CreateValue /\ v # NoValue
    BY <1>2, <1>11
  <2>2. HasItem(g, v)
    BY <1>4, <1>11
  <2>3. PICK j \in DOMAIN t.items : t.items[j].v = v
    BY <1>8, <2>2 DEF HasItem, SameItems
  <2>4. ~t.items[j].un
    BY <1>9, <2>1, <2>3 DEF Plain
  <2>5. CASE b.multiple
    BY <1>8, <2>1, <2>3, <2>4, <2>5
  <2>6. CASE ~b.multiple
    <3>1. PICK k \in DOMAIN t.items : t.items[k].v \in Range(asked) /\ t.items[k].sel
      BY <1>8, <2>1, <2>3, <2>4, <2>6
    <3>2. t.items[k].v = v
      BY <1>2, <2>1, <2>6, <3>1
    <3>3. QED
      BY <2>1, <3>1, <3>2
  <2>7. QED
    BY <2>5, <2>6
<1>16. ASSUME ~bare \/ can # {} PROVE BoxTakes(b, asked)
  <2>1. BoxInv(t)
    <3>1. CASE ~bare
      BY <1>9, <3>1 DEF Held
    <3>2. CASE can # {}
      BY <1>9, <1>15, <3>2 DEF Held, Chosen
    <3>3. QED
      BY <1>16, <3>1, <3>2
  <2>2. got = {t.items[k].v : k \in {j \in DOMAIN t.items : Read(t.items[j])}}
    BY <1>9, <1>10, <2>1, ValuesRange DEF getValue, BoxInv
  <2>3. can \subseteq got
    BY <1>15, <2>2 DEF Read
  <2>4. ASSUME (b.multiple /\ b.optional) \/ HasItem(b, NoValue) PROVE got = can
    <3>1. ASSUME NEW k \in DOMAIN t.items, Read(t.items[k]) PROVE t.items[k].v \in Range(asked)
      <4>1. t.items[k].sel /\ t.items[k].v # NoValue
        BY <3>1 DEF Read
      <4>2. CASE b.multiple
        <5>1. b.optional
          <6>1. ~HasItem(b, NoValue)
            BY <4>2 DEF ChoiceInv, Held, Loose, Marks, HasItem
          <6>2. QED
            BY <2>4, <6>1
        <5>2. ~Wrong(t, asked, k)
          BY <1>8, <1>9, <4>2, <5>1
        <5>3. QED
          BY <4>1, <5>2 DEF Wrong
      <4>3. CASE ~b.multiple
        <5>1. PICK j \in DOMAIN t.items : t.items[j].v \in Range(asked) /\ t.items[j].sel
          BY <1>8, <2>4, <4>1, <4>3
        <5>2. j = k
          BY <1>9, <4>1, <4>3, <5>1 DEF AtMostOne
        <5>3. QED
          BY <5>1, <5>2
      <4>4. QED
        BY <4>2, <4>3
    <3>2. got \subseteq can
      BY <1>14, <2>2, <3>1
    <3>3. QED
      BY <2>3, <3>2
  <2>5. Cardinality(got \ can) <= 1
    <3>1. ASSUME NEW v \in got \ can, NEW w \in got \ can PROVE v = w
      <4>1. PICK j \in DOMAIN t.items : Read(t.items[j]) /\ v = t.items[j].v
        BY <2>2
      <4>2. PICK k \in DOMAIN t.items : Read(t.items[k]) /\ w = t.items[k].v
        BY <2>2
      <4>3. t.items[j].v \notin Range(asked) /\ t.items[k].v \notin Range(asked)
        BY <1>14, <4>1, <4>2
      <4>4. t.items[j].sel /\ t.items[k].sel
        BY <4>1, <4>2 DEF Read
      <4>5. j = k
        <5>1. CASE b.multiple
          <6>1. Wrong(t, asked, j) /\ Wrong(t, asked, k)
            BY <4>3, <4>4 DEF Wrong
          <6>2. QED
            BY <1>8, <5>1, <6>1
        <5>2. CASE ~b.multiple
          BY <1>9, <4>4, <5>2 DEF AtMostOne
        <5>3. QED
          BY <5>1, <5>2
      <4>6. QED
        BY <4>1, <4>2, <4>5
    <3>2. QED
      BY <3>1, FewSet
  <2>6. Positions(b, NoValue) # {} => HasItem(b, NoValue)
    BY DEF Positions, HasItem
  <2>7. QED
    BY <1>5, <1>10, <1>12, <2>3, <2>4, <2>5, <2>6 DEF BoxTakes
<1>17. Kind(b, t)
  BY <1>4, <1>8 DEF Kind, SameItems
<1>18. QED
  BY <1>5, <1>8, <1>12, <1>16, <1>17

(* Taking items away *)
Filtered(b, gone) == [b EXCEPT !.items = Without(@, gone)]
FromBox(b, t) == \A j \in DOMAIN t.items : \E k \in DOMAIN b.items : t.items[j] = b.items[k]

LEMMA FilterKeeps ==
  ASSUME NEW bare \in BOOLEAN, NEW b, Held(bare, b),
         NEW gone, \A it \in gone : it.v # NoValue /\ (b.create => it.v # CreateValue),
         NEW t, t = Filtered(b, gone)
  PROVE  /\ Loose(t) /\ ((\A it \in gone : ~it.sel) => Held(bare, t)) /\ Kind(b, t) /\ t.hidden = b.hidden /\ FromBox(b, t)
         /\ \A j \in DOMAIN t.items : t.items[j] \notin gone
<1>1. /\ b \in Boxes /\ Distinct(b.items) /\ (~b.multiple => AtMostOne(b.items)) /\ Marks(b)
  BY DEF Held, Loose
<1>2. b.items \in Seq(Items)
  BY <1>1, BoxIs
<1>3. PICK x : x = Without(b.items, gone)
  OBVIOUS
<1>4. x \in Seq(Items)
      /\ \E e : /\ Part(x, b.items, e)
                /\ \A j \in DOMAIN x : x[j] \notin gone
                /\ \A k \in DOMAIN b.items : b.items[k] \notin gone => \E j \in DOMAIN x : e[j] = k
  BY <1>2, <1>3, WithoutIs
<1>5. PICK e : /\ Part(x, b.items, e)
               /\ \A j \in DOMAIN x : x[j] \notin gone
               /\ \A k \in DOMAIN b.items : b.items[k] \notin gone => \E j \in DOMAIN x : e[j] = k
  BY <1>4
<1>6. \A j \in DOMAIN x : e[j] \in DOMAIN b.items /\ x[j] = b.items[e[j]]
  BY <1>5 DEF Part
<1>7. t = [b EXCEPT !.items = x]
  BY <1>3 DEF Filtered
<1>8. t \in Boxes /\ Kind(b, t) /\ t.items = x /\ t.hidden = b.hidden
  BY <1>1, <1>4, <1>7, BoxWith
<1>9. ASSUME \A it \in gone : ~it.sel PROVE Values(x) = Values(b.items)
  <2>1. \A it \in gone : ~Read(it)
    BY <1>9 DEF Read
  <2>2. QED
    BY <1>2, <1>3, <2>1, WithoutReads
<1>10. Distinct(x) /\ (~b.multiple => AtMostOne(x))
  BY <1>1, <1>5, PartKeeps
<1>11. \A k \in DOMAIN b.items : b.items[k] \notin gone => \E j \in DOMAIN x : x[j] = b.items[k]
  BY <1>5, <1>6
<1>12. /\ Chosen(x) => Chosen(b.items)
       /\ (\A it \in gone : ~it.sel) => (Chosen(b.items) => Chosen(x))
  BY <1>6, <1>11 DEF Chosen
<1>13. Marks(t)
  <2>1. t.multiple => \A i \in DOMAIN x : x[i].v # NoValue
    BY <1>1, <1>6, <1>8 DEF Marks, Kind
  <2>2. t.create => \E i \in DOMAIN x : x[i].v = CreateValue
    BY <1>1, <1>8, <1>11 DEF Marks, Kind
  <2>3. \A i \in DOMAIN x : /\ x[i].v \in {NoValue, CreateValue} => x[i].made = "choice"
                            /\ x[i].v = NoValue => ~x[i].un
    BY <1>1, <1>6 DEF Marks
  <2>4. QED
    BY <1>8, <2>1, <2>2, <2>3 DEF Marks
<1>14. FromBox(b, t) /\ \A j \in DOMAIN t.items : t.items[j] \notin gone
  BY <1>5, <1>6, <1>8 DEF FromBox
<1>15. Loose(t)
  BY <1>8, <1>10, <1>13 DEF Loose, Kind
<1>16. ASSUME \A it \in gone : ~it.sel PROVE Held(bare, t)
  <2>1. CASE BoxInv(b)
    BY <1>8, <1>9, <1>12, <1>15, <1>16, <2>1 DEF Held, BoxInv, Kind
  <2>2. CASE bare /\ ~Chosen(b.items)
    BY <1>8, <1>12, <1>15, <2>2 DEF Held
  <2>3. QED
    BY <2>1, <2>2 DEF Held
<1>17. QED
  BY <1>8, <1>14, <1>15, <1>16

LEMMA FromPlain ==
  ASSUME NEW b, NEW t, Plain(b), FromBox(b, t)
  PROVE  Plain(t)
  BY DEF Plain, FromBox

LEMMA ClearKeeps ==
  ASSUME NEW bare \in BOOLEAN, NEW b, Held(bare, b), NEW t, t = clearChoices(b, FALSE)
  PROVE  Held(bare, t) /\ Kind(b, t) /\ t.hidden = b.hidden /\ FromBox(b, t)
<1>1. b \in Boxes /\ b.items \in Seq(Items)
  BY BoxIs DEF Held, Loose
<1>2. PICK stay : stay = {NoValue} \cup Range(b.hidden) \cup (IF b.create THEN {CreateValue} ELSE {})
  OBVIOUS
<1>3. PICK gone : gone = {it \in Range(b.items) : it.v \notin stay}
  OBVIOUS
<1>4. t = Filtered(b, gone)
  BY <1>2, <1>3 DEF clearChoices, Filtered, getValue
<1>5. BoxInv(b) => Range(b.hidden) = {b.items[k].v : k \in {j \in DOMAIN b.items : Read(b.items[j])}}
  BY <1>1, ValuesRange DEF BoxInv
<1>6. ASSUME NEW it \in gone PROVE ~it.sel /\ it.v # NoValue /\ (b.create => it.v # CreateValue)
  <2>1. it.v \notin stay
    BY <1>3
  <2>2. PICK k \in DOMAIN b.items : it = b.items[k]
    BY <1>3 DEF Range
  <2>3. it.v # NoValue /\ (b.create => it.v # CreateValue) /\ it.v \notin Range(b.hidden)
    BY <1>2, <2>1
  <2>4. CASE BoxInv(b)
    BY <1>5, <2>2, <2>3, <2>4 DEF Read
  <2>5. CASE ~Chosen(b.items)
    BY <2>2, <2>3, <2>5 DEF Chosen
  <2>6. QED
    BY <2>4, <2>5 DEF Held
<1>7. QED
  BY <1>4, <1>6, FilterKeeps

(* With reset nothing but the placeholder and the text input is left. *)
LEMMA ResetKeeps ==
  ASSUME NEW bare \in BOOLEAN, NEW b, ChoiceInv(bare, b), NEW t, t = clearChoices(b, TRUE)
  PROVE  ChoiceInv(TRUE, t)
<1>1. b \in Boxes /\ b.items \in Seq(Items) /\ Held(bare, b) /\ Loose(b) /\ Plain(b)
  BY BoxIs DEF ChoiceInv, Held, Loose
<1>2. PICK stay : stay = {NoValue} \cup {} \cup (IF b.create THEN {CreateValue} ELSE {})
  OBVIOUS
<1>3. PICK gone : gone = {it \in Range(b.items) : it.v \notin stay}
  OBVIOUS
<1>4. PICK left : left = Filtered(b, gone)
  OBVIOUS
<1>5. t = setValues(left, <<>>)
  BY <1>2, <1>3, <1>4 DEF clearChoices, Filtered
<1>6. \A it \in gone : it.v # NoValue /\ (b.create => it.v # CreateValue)
  BY <1>2, <1>3
<1>7. /\ Loose(left) /\ ((\A it \in gone : ~it.sel) => Held(bare, left)) /\ Kind(b, left) /\ FromBox(b, left)
      /\ \A j \in DOMAIN left.items : left.items[j] \notin gone
  BY <1>1, <1>4, <1>6, FilterKeeps
<1>8. Plain(left)
  BY <1>1, <1>7, FromPlain
<1>9. ASSUME Chosen(left.items) PROVE \A it \in gone : ~it.sel
  <2>1. PICK j \in DOMAIN left.items : left.items[j].sel
    BY <1>9 DEF Chosen
  <2>2. PICK k \in DOMAIN b.items : left.items[j] = b.items[k]
    BY <1>7 DEF FromBox
  <2>3. b.items[k].v \in stay
    BY <1>3, <1>7, <2>2 DEF Range
  <2>4. b.items[k].v = NoValue
    BY <1>1, <1>2, <2>1, <2>2, <2>3 DEF Plain
  <2>5. ~b.multiple /\ AtMostOne(b.items)
    BY <1>1, <2>4 DEF Loose, Marks
  <2>6. ASSUME NEW it \in gone PROVE ~it.sel
    <3>1. PICK l \in DOMAIN b.items : it = b.items[l]
      BY <1>3 DEF Range
    <3>2. l # k
      BY <1>6, <2>4, <3>1
    <3>3. QED
      BY <2>1, <2>2, <2>5, <3>1, <3>2 DEF AtMostOne
  <2>7. QED
    BY <2>6
<1>10. Held(TRUE, left)
  <2>1. CASE Chosen(left.items)
    BY <1>7, <1>9, <2>1 DEF Held
  <2>2. CASE ~Chosen(left.items)
    BY <1>7, <2>2 DEF Held
  <2>3. QED
    BY <2>1, <2>2
<1>11. ChoiceInv(TRUE, left)
  BY <1>8, <1>10 DEF ChoiceInv
<1>12. Order(left, <<>>)
  BY NoneAsked
<1>13. TRUE \in BOOLEAN
  OBVIOUS
<1>14. QED
  BY <1>5, <1>11, <1>12, <1>13, SetValuesTakes
(* Adding choices *)
NewChoice(it, values) == ~it.sel /\ ~it.un /\ it.made = "choice" /\ it.v \in Range(values)
AddTakes(c, items, v) ==
  IF \E i \in DOMAIN items : items[i].v = v THEN items ELSE InsertItem(items, Item(v, FALSE))
AddKept(c, i, x) ==
  /\ x \in Seq(Items) /\ Distinct(x) /\ (AtMostOne(c.items) => AtMostOne(x)) /\ Values(x) = Values(c.items)
  /\ \A k \in DOMAIN c.items : \E j \in DOMAIN x : x[j] = c.items[k]
  /\ \A j \in DOMAIN x : (\E k \in DOMAIN c.items : x[j] = c.items[k]) \/ NewChoice(x[j], c.values)
AddFold == INSTANCE FoldInduction WITH Op <- AddTakes, Good <- AddKept

LEMMA AddFoldIs ==
  \A b, values, c : addChoices(b, values) = [b EXCEPT !.items = AddFold!Fold(c, b.items, values)]
  BY DEF AddFold!Fold, AddFold!Latest, addChoices, FoldLeft, MapThenFoldSet, Max, AddTakes

LEMMA AddStep ==
  ASSUME NEW c, NEW v \in Text, v \in Range(c.values), NEW i, NEW j, NEW x, AddKept(c, i, x)
  PROVE  AddKept(c, j, AddTakes(c, x, v))
<1>1. /\ x \in Seq(Items) /\ Distinct(x) /\ (AtMostOne(c.items) => AtMostOne(x)) /\ Values(x) = Values(c.items)
      /\ \A k \in DOMAIN c.items : \E l \in DOMAIN x : x[l] = c.items[k]
      /\ \A l \in DOMAIN x : (\E k \in DOMAIN c.items : x[l] = c.items[k]) \/ NewChoice(x[l], c.values)
  BY DEF AddKept
<1>2. CASE \E k \in DOMAIN x : x[k].v = v
  <2>1. AddTakes(c, x, v) = x
    BY <1>2 DEF AddTakes
  <2>2. QED
    BY <1>1, <2>1 DEF AddKept
<1>3. CASE ~\E k \in DOMAIN x : x[k].v = v
  <2>1. PICK it \in Items : it = Item(v, FALSE) /\ it.v = v /\ ~it.sel /\ ~it.un /\ it.made = "choice"
    <3>1. Item(v, FALSE) = [v |-> v, sel |-> FALSE, un |-> FALSE, made |-> "choice"]
      BY DEF Item
    <3>2. [v |-> v, sel |-> FALSE, un |-> FALSE, made |-> "choice"] \in Items
      BY DEF Items
    <3>3. QED
      BY <3>1, <3>2
  <2>2. PICK t : t = InsertItem(x, it)
    OBVIOUS
  <2>3. AddTakes(c, x, v) = t
    BY <1>3, <2>1, <2>2 DEF AddTakes
  <2>4. PICK p : p = IF x = <<>> THEN 1 ELSE Len(x)
    OBVIOUS
  <2>5. Inserted(x, t, p, it) /\ (~Read(it) => Values(t) = Values(x))
    BY <1>1, <2>1, <2>2, <2>4, InsertIs
  <2>6. /\ \A l \in DOMAIN t : l = p \/ \E k \in DOMAIN x : t[l] = x[k]
        /\ \A k \in DOMAIN x : \E l \in DOMAIN t : t[l] = x[k] /\ l # p
        /\ Distinct(x) /\ (\A k \in DOMAIN x : x[k].v # it.v) => Distinct(t)
        /\ AtMostOne(x) /\ ~it.sel => AtMostOne(t)
    <3>1. x \in Seq(Items) /\ Inserted(x, t, p, it)
      BY <1>1, <2>5
    <3>2. QED
      BY <3>1, InsertedKeeps
  <2>7. t \in Seq(Items) /\ t[p] = it
    BY <2>5 DEF Inserted
  <2>8. Values(t) = Values(c.items)
    BY <1>1, <2>1, <2>5 DEF Read
  <2>9. NewChoice(it, c.values)
    BY <2>1 DEF NewChoice
  <2>10. Distinct(t) /\ (AtMostOne(c.items) => AtMostOne(t))
    BY <1>1, <1>3, <2>1, <2>6
  <2>11. \A k \in DOMAIN c.items : \E l \in DOMAIN t : t[l] = c.items[k]
    BY <1>1, <2>6
  <2>12. \A l \in DOMAIN t : (\E k \in DOMAIN c.items : t[l] = c.items[k]) \/ NewChoice(t[l], c.values)
    <3>1. ASSUME NEW l \in DOMAIN t, l # p
          PROVE  (\E k \in DOMAIN c.items : t[l] = c.items[k]) \/ NewChoice(t[l], c.values)
      <4>1. PICK k \in DOMAIN x : t[l] = x[k]
        BY <2>6, <3>1
      <4>2. QED
        BY <1>1, <4>1
    <3>2. NewChoice(t[p], c.values)
      BY <2>7, <2>9
    <3>3. QED
      BY <3>1, <3>2
  <2>13. QED
    BY <2>3, <2>7, <2>8, <2>10, <2>11, <2>12 DEF AddKept
<1>4. QED
  BY <1>2, <1>3

LEMMA ChoicesAddKeeps ==
  ASSUME NEW bare \in BOOLEAN, NEW b, Held(bare, b), NEW values \in Seq(Text), NoValue \notin Range(values), NEW t, t = addChoices(b, values)
  PROVE  /\ Held(bare, t) /\ Kind(b, t) /\ t.hidden = b.hidden
         /\ \A j \in DOMAIN t.items : (\E k \in DOMAIN b.items : t.items[j] = b.items[k]) \/ NewChoice(t.items[j], values)
<1>1. /\ b \in Boxes /\ Distinct(b.items) /\ (~b.multiple => AtMostOne(b.items)) /\ Marks(b)
  BY DEF Held, Loose
<1>2. b.items \in Seq(Items)
  BY <1>1, BoxIs
<1>3. PICK n \in Nat : n = Len(values) /\ DOMAIN values = 1 .. n /\ \A i \in 1 .. n : values[i] \in Text
  BY SeqIs
<1>4. PICK c : c.items = b.items /\ c.values = values
  <2>1. [items |-> b.items, values |-> values].items = b.items /\ [items |-> b.items, values |-> values].values = values
    OBVIOUS
  <2>2. QED
    BY <2>1
<1>5. AddKept(c, 0, b.items)
  BY <1>1, <1>2, <1>4 DEF AddKept
<1>6. ASSUME NEW i \in 1 .. n, NEW x, AddKept(c, i - 1, x)
      PROVE  AddKept(c, i, AddTakes(c, x, values[i]))
  <2>1. values[i] \in Text /\ values[i] \in Range(c.values)
    BY <1>3, <1>4 DEF Range
  <2>2. QED
    BY <1>6, <2>1, AddStep
<1>7. AddKept(c, n, AddFold!Fold(c, b.items, values))
  BY <1>3, <1>5, <1>6, AddFold!FoldKeeps
<1>8. PICK x : x = AddFold!Fold(c, b.items, values)
  OBVIOUS
<1>9. /\ x \in Seq(Items) /\ Distinct(x) /\ (AtMostOne(b.items) => AtMostOne(x)) /\ Values(x) = Values(b.items)
      /\ \A k \in DOMAIN b.items : \E j \in DOMAIN x : x[j] = b.items[k]
      /\ \A j \in DOMAIN x : (\E k \in DOMAIN b.items : x[j] = b.items[k]) \/ NewChoice(x[j], values)
  BY <1>4, <1>7, <1>8 DEF AddKept
<1>10. t = [b EXCEPT !.items = x]
  BY <1>8, AddFoldIs
<1>11. t \in Boxes /\ Kind(b, t) /\ t.items = x /\ t.hidden = b.hidden
  BY <1>1, <1>9, <1>10, BoxWith
<1>12. Marks(t)
  <2>1. t.multiple => \A i \in DOMAIN x : x[i].v # NoValue
    BY <1>1, <1>9, <1>11 DEF Marks, Kind, NewChoice
  <2>2. t.create => \E i \in DOMAIN x : x[i].v = CreateValue
    BY <1>1, <1>9, <1>11 DEF Marks, Kind
  <2>3. \A i \in DOMAIN x : /\ x[i].v \in {NoValue, CreateValue} => x[i].made = "choice"
                            /\ x[i].v = NoValue => ~x[i].un
    BY <1>1, <1>9 DEF Marks, NewChoice
  <2>4. QED
    BY <1>11, <2>1, <2>2, <2>3 DEF Marks
<1>13. Chosen(x) <=> Chosen(b.items)
  BY <1>9 DEF Chosen, NewChoice
<1>14. Held(bare, t)
  <2>1. Loose(t)
    BY <1>1, <1>9, <1>11, <1>12 DEF Loose, Kind
  <2>2. CASE BoxInv(b)
    BY <1>9, <1>11, <1>13, <2>1, <2>2 DEF Held, BoxInv, Kind
  <2>3. CASE bare /\ ~Chosen(b.items)
    BY <1>11, <1>13, <2>1, <2>3 DEF Held
  <2>4. QED
    BY <2>2, <2>3 DEF Held
<1>15. QED
  BY <1>9, <1>11, <1>14
(* Lists put one after the other *)
Joined(r, s, t) == r = s \o t

LEMMA JoinIs ==
  ASSUME NEW S, NEW s \in Seq(S), NEW t \in Seq(S), NEW r, Joined(r, s, t)
  PROVE  /\ r \in Seq(S) /\ Len(r) = Len(s) + Len(t) /\ DOMAIN r = 1 .. Len(s) + Len(t)
         /\ \A i \in 1 .. Len(s) : r[i] = s[i]
         /\ \A i \in 1 .. Len(t) : r[Len(s) + i] = t[i]
<1>1. PICK n \in Nat, m \in Nat : n = Len(s) /\ m = Len(t) /\ DOMAIN s = 1 .. n /\ DOMAIN t = 1 .. m
  OBVIOUS
<1>2. /\ r \in Seq(S) /\ Len(r) = Len(s) + Len(t)
      /\ \A i \in 1 .. Len(s) + Len(t) : r[i] = IF i <= Len(s) THEN s[i] ELSE t[i - Len(s)]
  BY ConcatProperties DEF Joined
<1>3. DOMAIN r = 1 .. n + m
  BY <1>1, <1>2
<1>4. ASSUME NEW i \in 1 .. n PROVE r[i] = s[i]
  <2>1. i \in 1 .. n + m /\ i <= n
    BY <1>4
  <2>2. QED
    BY <1>1, <1>2, <2>1
<1>5. ASSUME NEW i \in 1 .. m PROVE r[n + i] = t[i]
  <2>1. n + i \in 1 .. n + m /\ ~(n + i <= n) /\ (n + i) - n = i
    BY <1>5
  <2>2. QED
    BY <1>1, <1>2, <2>1
<1>6. QED
  BY <1>1, <1>2, <1>3, <1>4, <1>5

LEMMA JoinFrom ==
  ASSUME NEW S, NEW s \in Seq(S), NEW t \in Seq(S), NEW r, Joined(r, s, t), NEW k \in DOMAIN r
  PROVE  \/ k \in DOMAIN s /\ r[k] = s[k]
         \/ k - Len(s) \in DOMAIN t /\ r[k] = t[k - Len(s)] /\ k > Len(s)
<1>1. PICK n \in Nat, m \in Nat : n = Len(s) /\ m = Len(t) /\ DOMAIN s = 1 .. n /\ DOMAIN t = 1 .. m
  OBVIOUS
<1>2. /\ DOMAIN r = 1 .. n + m
      /\ \A i \in 1 .. n : r[i] = s[i]
      /\ \A i \in 1 .. m : r[n + i] = t[i]
  BY <1>1, JoinIs
<1>3. k \in 1 .. n \/ (k - n \in 1 .. m /\ n + (k - n) = k /\ k > n)
  BY <1>2
<1>4. QED
  BY <1>1, <1>2, <1>3

LEMMA JoinKeys ==
  ASSUME NEW s \in Seq(Text), NEW t \in Seq(Text), NEW r, Joined(r, s, t), IsInjective(s), IsInjective(t),
         Range(s) \cap Range(t) = {}
  PROVE  /\ r \in Seq(Text) /\ IsInjective(r) /\ Range(r) \subseteq Range(s) \cup Range(t)
<1>1. \A k \in DOMAIN r : \/ k \in DOMAIN s /\ r[k] = s[k]
                          \/ k - Len(s) \in DOMAIN t /\ r[k] = t[k - Len(s)] /\ k > Len(s)
  BY JoinFrom
<1>2. Len(s) \in Nat /\ r \in Seq(Text) /\ DOMAIN r \subseteq Int
  BY JoinIs
<1>3. \A k \in DOMAIN r : \/ k \in DOMAIN s /\ r[k] = s[k] /\ r[k] \in Range(s)
                          \/ k - Len(s) \in DOMAIN t /\ r[k] = t[k - Len(s)] /\ r[k] \in Range(t)
  BY <1>1 DEF Range
<1>4. ASSUME NEW j \in DOMAIN r, NEW k \in DOMAIN r, r[j] = r[k] PROVE j = k
  <2>1. CASE r[j] \in Range(s)
    <3>1. j \in DOMAIN s /\ r[j] = s[j] /\ k \in DOMAIN s /\ r[k] = s[k]
      BY <1>3, <1>4, <2>1
    <3>2. QED
      BY <1>4, <3>1 DEF IsInjective
  <2>2. CASE r[j] \notin Range(s)
    <3>1. /\ j - Len(s) \in DOMAIN t /\ r[j] = t[j - Len(s)]
          /\ k - Len(s) \in DOMAIN t /\ r[k] = t[k - Len(s)]
      BY <1>3, <1>4, <2>2
    <3>2. j - Len(s) = k - Len(s)
      BY <1>4, <3>1 DEF IsInjective
    <3>3. QED
      BY <1>2, <3>2
  <2>3. QED
    BY <2>1, <2>2
<1>5. Range(r) \subseteq Range(s) \cup Range(t)
  BY <1>3 DEF Range
<1>6. QED
  BY <1>2, <1>4, <1>5 DEF IsInjective

LEMMA JoinItems ==
  ASSUME NEW s \in Seq(Items), NEW t \in Seq(Items), NEW r, Joined(r, s, t), Distinct(s), Distinct(t),
         \A i \in DOMAIN s, j \in DOMAIN t : s[i].v # t[j].v
  PROVE  /\ r \in Seq(Items) /\ Distinct(r)
         /\ \A k \in DOMAIN r : (\E i \in DOMAIN s : i = k /\ r[k] = s[i]) \/ (\E j \in DOMAIN t : r[k] = t[j])
         /\ \A i \in DOMAIN s : i \in DOMAIN r /\ r[i] = s[i]
         /\ \A j \in DOMAIN t : \E k \in DOMAIN r : r[k] = t[j]
<1>1. \A k \in DOMAIN r : \/ k \in DOMAIN s /\ r[k] = s[k]
                          \/ k - Len(s) \in DOMAIN t /\ r[k] = t[k - Len(s)] /\ k > Len(s)
  BY JoinFrom
<1>2. PICK n \in Nat, m \in Nat : n = Len(s) /\ m = Len(t) /\ DOMAIN s = 1 .. n /\ DOMAIN t = 1 .. m
  OBVIOUS
<1>3. /\ r \in Seq(Items) /\ DOMAIN r = 1 .. n + m
      /\ \A i \in 1 .. n : r[i] = s[i]
      /\ \A i \in 1 .. m : r[n + i] = t[i]
  BY <1>2, JoinIs
<1>4. ASSUME NEW j \in DOMAIN r, NEW k \in DOMAIN r, r[j].v = r[k].v PROVE j = k
  <2>1. CASE j \in DOMAIN s /\ r[j] = s[j]
    <3>1. k \in DOMAIN s /\ r[k] = s[k]
      BY <1>1, <1>4, <2>1
    <3>2. QED
      BY <1>4, <2>1, <3>1 DEF Distinct
  <2>2. CASE j - Len(s) \in DOMAIN t /\ r[j] = t[j - Len(s)]
    <3>1. k - Len(s) \in DOMAIN t /\ r[k] = t[k - Len(s)]
      BY <1>1, <1>4, <2>2
    <3>2. j - Len(s) = k - Len(s)
      BY <1>4, <2>2, <3>1 DEF Distinct
    <3>3. QED
      BY <1>2, <1>3, <3>2
  <2>3. QED
    BY <1>1, <2>1, <2>2
<1>5. \A i \in DOMAIN s : i \in DOMAIN r /\ r[i] = s[i]
  <2>1. \A i \in 1 .. n : i \in 1 .. n + m
    OBVIOUS
  <2>2. QED
    BY <1>2, <1>3, <2>1
<1>6. \A j \in DOMAIN t : \E k \in DOMAIN r : r[k] = t[j]
  <2>1. \A i \in 1 .. m : n + i \in 1 .. n + m
    OBVIOUS
  <2>2. QED
    BY <1>2, <1>3, <2>1
<1>7. \A k \in DOMAIN r : (\E i \in DOMAIN s : i = k /\ r[k] = s[i]) \/ (\E j \in DOMAIN t : r[k] = t[j])
  BY <1>1
<1>8. QED
  BY <1>3, <1>4, <1>5, <1>6, <1>7 DEF Distinct
(* render: the choices, the values that are none of them, and what is put around them *)
KeysOf(kind, values, choices) == choices \o (IF kind.create THEN Without(values, Range(choices)) ELSE <<>>)
ListOf(keys, values) == [i \in DOMAIN keys |-> Item(keys[i], keys[i] \in Range(values))]
InputOf(kind) == IF kind.create THEN <<[Item(CreateValue, FALSE) EXCEPT !.un = TRUE]>> ELSE <<>>
Shows(kind, keys) == kind.optional /\ ~kind.multiple /\ Blank \notin Range(keys)
EmptyOf(kind, keys) == IF Shows(kind, keys) THEN <<Item(NoValue, FALSE)>> ELSE <<>>
AllOf(kind, values, choices) ==
  EmptyOf(kind, KeysOf(kind, values, choices)) \o ListOf(KeysOf(kind, values, choices), values) \o InputOf(kind)
FirstOne(all) ==
  IF {i \in DOMAIN all : all[i].sel} = {} THEN 1
  ELSE CHOOSE i \in {k \in DOMAIN all : all[k].sel} : \A j \in {k \in DOMAIN all : all[k].sel} : i <= j
OneOf(all) == [i \in DOMAIN all |-> [all[i] EXCEPT !.sel = (i = FirstOne(all))]]
BoxOf(kind, items) ==
  [multiple |-> kind.multiple, optional |-> kind.optional, create |-> kind.create,
   open |-> FALSE, items |-> items, hidden |-> Values(items)]
Proper(it) == it.made = "choice" /\ (it.un <=> it.v = CreateValue) /\ (it.un => ~it.sel)
FewItems(s) == s \in Seq(Items) /\ Distinct(s) /\ \A i \in DOMAIN s : Proper(s[i])

LEMMA RenderIs ==
  ASSUME NEW kind, NEW values, NEW choices, NEW given, given = Given(kind, values)
  PROVE  render(kind, values, choices) =
           BoxOf(kind, IF kind.multiple THEN AllOf(kind, given, choices) ELSE OneOf(AllOf(kind, given, choices)))
  BY DEF render, BoxOf, AllOf, OneOf, FirstOne, KeysOf, ListOf, InputOf, EmptyOf, Shows, Blank

LEMMA GivenIs ==
  ASSUME NEW kind, NEW values \in Seq(Text), IsInjective(values), NEW given, given = Given(kind, values)
  PROVE  given \in Seq(Text) /\ IsInjective(given) /\ Range(given) \subseteq Range(values)
<1>1. CASE given = values
  BY <1>1
<1>2. CASE given # values
  <2>1. given = <<>>
    BY <1>2 DEF Given
  <2>2. given \in Seq(Text) /\ DOMAIN given = {}
    BY <2>1
  <2>3. QED
    BY <2>2 DEF IsInjective, Range
<1>3. QED
  BY <1>1, <1>2

LEMMA ItemIs ==
  ASSUME NEW v \in Text, NEW on \in BOOLEAN, NEW it, it = Item(v, on)
  PROVE  it \in Items /\ it.v = v /\ (it.sel <=> on) /\ ~it.un /\ it.made = "choice"
<1>1. it = [v |-> v, sel |-> on, un |-> FALSE, made |-> "choice"]
  BY DEF Item
<1>2. QED
  BY <1>1 DEF Items

LEMMA ListIs ==
  ASSUME NEW keys \in Seq(Text), IsInjective(keys), CreateValue \notin Range(keys), NEW values,
         NEW lis, lis = ListOf(keys, values)
  PROVE  /\ FewItems(lis) /\ DOMAIN lis = DOMAIN keys
         /\ \A i \in DOMAIN lis : lis[i].v = keys[i] /\ (lis[i].sel <=> keys[i] \in Range(values))
<1>1. PICK n \in Nat : n = Len(keys) /\ DOMAIN keys = 1 .. n /\ \A i \in 1 .. n : keys[i] \in Text
  BY SeqIs
<1>2. DOMAIN lis = 1 .. n /\ \A i \in 1 .. n : lis[i] = Item(keys[i], keys[i] \in Range(values))
  BY <1>1 DEF ListOf
<1>3. ASSUME NEW i \in 1 .. n
      PROVE  /\ lis[i] \in Items /\ lis[i].v = keys[i] /\ (lis[i].sel <=> keys[i] \in Range(values))
             /\ ~lis[i].un /\ lis[i].made = "choice" /\ Proper(lis[i])
  <2>1. PICK on : on = (keys[i] \in Range(values))
    OBVIOUS
  <2>2. keys[i] \in Text /\ on \in BOOLEAN /\ lis[i] = Item(keys[i], on)
    <3>1. on \in BOOLEAN
      BY <2>1
    <3>2. QED
      BY <1>1, <1>2, <2>1, <3>1
  <2>3. lis[i] \in Items /\ lis[i].v = keys[i] /\ (lis[i].sel <=> on) /\ ~lis[i].un /\ lis[i].made = "choice"
    <3>1. PICK k, it : k \in Text /\ k = keys[i] /\ it = lis[i] /\ it = Item(k, on)
      BY <2>2
    <3>2. it \in Items /\ it.v = k /\ (it.sel <=> on) /\ ~it.un /\ it.made = "choice"
      BY <2>2, <3>1, ItemIs
    <3>3. QED
      BY <3>1, <3>2
  <2>4. keys[i] # CreateValue
    BY <1>1 DEF Range
  <2>5. Proper(lis[i])
    BY <2>3, <2>4 DEF Proper
  <2>6. QED
    BY <2>1, <2>3, <2>5
<1>4. lis \in Seq(Items)
  <2>1. lis = [i \in 1 .. n |-> lis[i]]
    BY <1>1, <1>2 DEF ListOf
  <2>2. \A i \in 1 .. n : lis[i] \in Items
    BY <1>3
  <2>3. QED
    BY <2>1, <2>2
<1>5. Distinct(lis)
  BY <1>1, <1>2, <1>3 DEF Distinct, IsInjective
<1>6. QED
  BY <1>1, <1>2, <1>3, <1>4, <1>5 DEF FewItems

LEMMA OneItem ==
  ASSUME NEW it \in Items, Proper(it), NEW s, s = <<it>>
  PROVE  FewItems(s) /\ DOMAIN s = {1} /\ s[1] = it
<1>1. s \in Seq(Items) /\ Len(s) = 1 /\ s[1] = it
  OBVIOUS
<1>2. DOMAIN s = {1}
  BY <1>1
<1>3. QED
  BY <1>1, <1>2 DEF FewItems, Distinct

LEMMA NoItem ==
  ASSUME NEW s, s = <<>>
  PROVE  FewItems(s) /\ DOMAIN s = {}
<1>1. s \in Seq(Items) /\ DOMAIN s = {}
  OBVIOUS
<1>2. QED
  BY <1>1 DEF FewItems, Distinct

LEMMA JoinFew ==
  ASSUME NEW s, NEW t, FewItems(s), FewItems(t), \A i \in DOMAIN s, j \in DOMAIN t : s[i].v # t[j].v,
         NEW r, Joined(r, s, t)
  PROVE  /\ FewItems(r)
         /\ \A k \in DOMAIN r : (\E i \in DOMAIN s : i = k /\ r[k] = s[i]) \/ (\E j \in DOMAIN t : r[k] = t[j])
         /\ \A i \in DOMAIN s : i \in DOMAIN r /\ r[i] = s[i]
         /\ \A j \in DOMAIN t : \E k \in DOMAIN r : r[k] = t[j]
<1>1. s \in Seq(Items) /\ t \in Seq(Items) /\ Distinct(s) /\ Distinct(t)
  BY DEF FewItems
<1>2. /\ r \in Seq(Items) /\ Distinct(r)
      /\ \A k \in DOMAIN r : (\E i \in DOMAIN s : i = k /\ r[k] = s[i]) \/ (\E j \in DOMAIN t : r[k] = t[j])
      /\ \A i \in DOMAIN s : i \in DOMAIN r /\ r[i] = s[i]
      /\ \A j \in DOMAIN t : \E k \in DOMAIN r : r[k] = t[j]
  BY <1>1, JoinItems
<1>3. \A k \in DOMAIN r : Proper(r[k])
  BY <1>2 DEF FewItems
<1>4. QED
  BY <1>2, <1>3 DEF FewItems
Marked == {NoValue, CreateValue}

LEMMA KeysAre ==
  ASSUME NEW kind, NEW values \in Seq(Text), IsInjective(values), NEW choices \in Seq(Text), IsInjective(choices),
         choices # <<>>, Range(choices) \cap Marked = {}, Range(values) \cap Marked = {},
         NEW keys, keys = KeysOf(kind, values, choices)
  PROVE  /\ keys \in Seq(Text) /\ IsInjective(keys) /\ Range(keys) \cap Marked = {} /\ 1 \in DOMAIN keys
         /\ Range(keys) \subseteq Range(choices) \cup Range(values)
<1>1. PICK own : own = IF kind.create THEN Without(values, Range(choices)) ELSE <<>>
  OBVIOUS
<1>2. own \in Seq(Text) /\ IsInjective(own) /\ Range(own) \subseteq Range(values) /\ Range(own) \cap Range(choices) = {}
  <2>1. CASE kind.create
    <3>1. PICK gone : gone = Range(choices)
      OBVIOUS
    <3>2. own = Without(values, gone)
      BY <1>1, <2>1, <3>1
    <3>3. /\ own \in Seq(Text)
          /\ \E e : /\ Part(own, values, e)
                    /\ \A j \in DOMAIN own : own[j] \notin gone
                    /\ \A k \in DOMAIN values : values[k] \notin gone => \E j \in DOMAIN own : e[j] = k
      BY <3>2, WithoutIs
    <3>4. PICK e : Part(own, values, e) /\ \A j \in DOMAIN own : own[j] \notin gone
      BY <3>3
    <3>5. IsInjective(own)
      BY <3>4, PartKeeps
    <3>6. \A j \in DOMAIN own : e[j] \in DOMAIN values /\ own[j] = values[e[j]]
      BY <3>4 DEF Part
    <3>7. Range(own) \subseteq Range(values)
      BY <3>6 DEF Range
    <3>8. Range(own) \cap gone = {}
      BY <3>4 DEF Range
    <3>9. QED
      BY <3>1, <3>3, <3>5, <3>7, <3>8
  <2>2. CASE ~kind.create
    <3>1. own = <<>>
      BY <1>1, <2>2
    <3>2. <<>> \in Seq(Text) /\ Len(<<>>) = 0 /\ Range(<<>>) = {}
      BY EmptyIs
    <3>3. DOMAIN own = {}
      BY <3>1
    <3>4. QED
      BY <3>1, <3>2, <3>3 DEF IsInjective
  <2>3. QED
    BY <2>1, <2>2
<1>3. Joined(keys, choices, own)
  BY <1>1 DEF KeysOf, Joined
<1>4. Range(choices) \cap Range(own) = {}
  BY <1>2
<1>5. keys \in Seq(Text) /\ IsInjective(keys) /\ Range(keys) \subseteq Range(choices) \cup Range(own)
  BY <1>2, <1>3, <1>4, JoinKeys
<1>6. Range(keys) \cap Marked = {}
  BY <1>2, <1>5
<1>7. 1 \in DOMAIN keys
  <2>1. PICK n \in Nat, m \in Nat : n = Len(choices) /\ m = Len(own)
    BY <1>2
  <2>2. DOMAIN keys = 1 .. n + m
    BY <1>2, <1>3, <2>1, JoinIs
  <2>3. n > 0
    BY <2>1
  <2>4. QED
    BY <2>2, <2>3
<1>8. QED
  BY <1>2, <1>5, <1>6, <1>7

LEMMA AllAre ==
  ASSUME NEW kind \in Kinds, NEW values \in Seq(Text), IsInjective(values), NEW choices \in Seq(Text),
         IsInjective(choices), choices # <<>>, Range(choices) \cap Marked = {}, Range(values) \cap Marked = {},
         NEW all, all = AllOf(kind, values, choices)
  PROVE  /\ FewItems(all) /\ 1 \in DOMAIN all /\ ~all[1].un
         /\ Shows(kind, KeysOf(kind, values, choices)) => all[1].v = NoValue
         /\ kind.multiple => \A k \in DOMAIN all : all[k].v # NoValue
         /\ kind.create => \E k \in DOMAIN all : all[k].v = CreateValue
         /\ \A k \in DOMAIN all : all[k].sel => all[k].v \in Range(values)
<1>1. PICK keys : keys = KeysOf(kind, values, choices)
  OBVIOUS
<1>2. keys \in Seq(Text) /\ IsInjective(keys) /\ Range(keys) \cap Marked = {} /\ 1 \in DOMAIN keys
  BY <1>1, KeysAre
<1>3. PICK lis, empty, input : lis = ListOf(keys, values) /\ empty = EmptyOf(kind, keys) /\ input = InputOf(kind)
  OBVIOUS
<1>4. CreateValue \notin Range(keys) /\ NoValue \notin Range(keys)
  BY <1>2 DEF Marked
<1>5. /\ FewItems(lis) /\ DOMAIN lis = DOMAIN keys
      /\ \A i \in DOMAIN lis : lis[i].v = keys[i] /\ (lis[i].sel <=> keys[i] \in Range(values))
  BY <1>2, <1>3, <1>4, ListIs
<1>6. \A i \in DOMAIN lis : lis[i].v # NoValue /\ lis[i].v # CreateValue
  BY <1>4, <1>5 DEF Range
<1>7. NoValue # CreateValue /\ NoValue \in Text /\ CreateValue \in Text
  <2>1. NoValue # CreateValue
    BY DEF NoValue, CreateValue
  <2>2. NoValue \in Text
    BY DEF Text
  <2>3. CreateValue \in Text
    BY DEF Text
  <2>4. QED
    BY <2>1, <2>2, <2>3
<1>8. /\ FewItems(empty) /\ \A i \in DOMAIN empty : i = 1 /\ empty[i].v = NoValue /\ ~empty[i].sel /\ ~empty[i].un
      /\ Shows(kind, keys) => 1 \in DOMAIN empty
      /\ ~Shows(kind, keys) => DOMAIN empty = {}
  <2>1. CASE Shows(kind, keys)
    <3>1. PICK it : it = Item(NoValue, FALSE)
      OBVIOUS
    <3>2. it \in Items /\ it.v = NoValue /\ (it.sel <=> FALSE) /\ ~it.un /\ it.made = "choice"
      BY <1>7, <3>1, ItemIs
    <3>3. empty = <<it>> /\ Proper(it)
      BY <1>3, <1>7, <2>1, <3>1, <3>2 DEF EmptyOf, Proper
    <3>4. FewItems(empty) /\ DOMAIN empty = {1} /\ empty[1] = it
      BY <3>2, <3>3, OneItem
    <3>5. QED
      BY <2>1, <3>2, <3>4
  <2>2. CASE ~Shows(kind, keys)
    <3>1. empty = <<>>
      BY <1>3, <2>2 DEF EmptyOf
    <3>2. FewItems(empty) /\ DOMAIN empty = {}
      BY <3>1, NoItem
    <3>3. QED
      BY <2>2, <3>2
  <2>3. QED
    BY <2>1, <2>2
<1>9. /\ FewItems(input) /\ \A i \in DOMAIN input : input[i].v = CreateValue /\ ~input[i].sel
      /\ kind.create => 1 \in DOMAIN input
  <2>1. CASE kind.create
    <3>1. PICK new : new = Item(CreateValue, FALSE)
      OBVIOUS
    <3>2. new \in Items /\ new.v = CreateValue /\ (new.sel <=> FALSE) /\ ~new.un /\ new.made = "choice"
      BY <1>7, <3>1, ItemIs
    <3>3. PICK it : it = [new EXCEPT !.un = TRUE]
      OBVIOUS
    <3>4. it \in Items /\ it.v = CreateValue /\ ~it.sel /\ it.un /\ it.made = "choice"
      BY <3>2, <3>3 DEF Items
    <3>5. input = <<it>> /\ Proper(it)
      BY <1>3, <2>1, <3>1, <3>3, <3>4 DEF InputOf, Proper
    <3>6. FewItems(input) /\ DOMAIN input = {1} /\ input[1] = it
      BY <3>4, <3>5, OneItem
    <3>7. QED
      BY <3>4, <3>6
  <2>2. CASE ~kind.create
    <3>1. input = <<>>
      BY <1>3, <2>2 DEF InputOf
    <3>2. FewItems(input) /\ DOMAIN input = {}
      BY <3>1, NoItem
    <3>3. QED
      BY <2>2, <3>2
  <2>3. QED
    BY <2>1, <2>2
<1>10. PICK front : front = empty \o lis
  OBVIOUS
<1>11. Joined(front, empty, lis) /\ Joined(all, front, input)
  BY <1>1, <1>3, <1>10 DEF Joined, AllOf
<1>12. \A i \in DOMAIN empty, j \in DOMAIN lis : empty[i].v # lis[j].v
  BY <1>6, <1>8
<1>13. /\ FewItems(front)
       /\ \A k \in DOMAIN front : (\E i \in DOMAIN empty : i = k /\ front[k] = empty[i]) \/ (\E j \in DOMAIN lis : front[k] = lis[j])
       /\ \A i \in DOMAIN empty : i \in DOMAIN front /\ front[i] = empty[i]
       /\ \A j \in DOMAIN lis : \E k \in DOMAIN front : front[k] = lis[j]
  BY <1>5, <1>8, <1>11, <1>12, JoinFew
<1>14. \A i \in DOMAIN front, j \in DOMAIN input : front[i].v # input[j].v
  BY <1>6, <1>7, <1>8, <1>9, <1>13
<1>15. /\ FewItems(all)
       /\ \A k \in DOMAIN all : (\E i \in DOMAIN front : i = k /\ all[k] = front[i]) \/ (\E j \in DOMAIN input : all[k] = input[j])
       /\ \A i \in DOMAIN front : i \in DOMAIN all /\ all[i] = front[i]
       /\ \A j \in DOMAIN input : \E k \in DOMAIN all : all[k] = input[j]
  BY <1>9, <1>11, <1>13, <1>14, JoinFew
<1>16. 1 \in DOMAIN front
  <2>1. PICK k \in DOMAIN front : TRUE
    BY <1>2, <1>5, <1>13
  <2>2. front \in Seq(Items)
    BY <1>13 DEF FewItems
  <2>3. QED
    BY <2>1, <2>2
<1>17. 1 \in DOMAIN all /\ all[1] = front[1] /\ ~all[1].un
  <2>1. front[1].v # CreateValue
    BY <1>6, <1>7, <1>8, <1>13, <1>16
  <2>2. Proper(front[1])
    BY <1>13, <1>16 DEF FewItems
  <2>3. QED
    BY <1>15, <1>16, <2>1, <2>2 DEF Proper
<1>18. Shows(kind, keys) => all[1].v = NoValue
  BY <1>8, <1>13, <1>17
<1>22. ASSUME kind.multiple, NEW k \in DOMAIN all PROVE all[k].v # NoValue
  <2>1. DOMAIN empty = {}
    BY <1>8, <1>22 DEF Shows
  <2>2. QED
    BY <1>6, <1>7, <1>9, <1>13, <1>15, <2>1
<1>19. kind.create => \E k \in DOMAIN all : all[k].v = CreateValue
  BY <1>9, <1>15
<1>20. ASSUME NEW k \in DOMAIN all, all[k].sel PROVE all[k].v \in Range(values)
  <2>1. \E j \in DOMAIN lis : all[k] = lis[j]
    BY <1>8, <1>9, <1>13, <1>15, <1>20
  <2>2. QED
    BY <1>5, <1>20, <2>1
<1>21. QED
  BY <1>1, <1>15, <1>17, <1>18, <1>19, <1>20, <1>22
LEMMA OneIs ==
  ASSUME NEW all, FewItems(all), 1 \in DOMAIN all, ~all[1].un, NEW items, items = OneOf(all)
  PROVE  /\ FewItems(items) /\ DOMAIN items = DOMAIN all /\ AtMostOne(items) /\ Chosen(items)
         /\ \A i \in DOMAIN all : items[i].v = all[i].v
         /\ (\A i \in DOMAIN all : ~all[i].sel) => \A i \in DOMAIN items : items[i].sel <=> i = 1
<1>1. all \in Seq(Items) /\ Distinct(all) /\ \A i \in DOMAIN all : Proper(all[i])
  BY DEF FewItems
<1>2. PICK n \in Nat : n = Len(all) /\ DOMAIN all = 1 .. n /\ \A i \in 1 .. n : all[i] \in Items
  BY <1>1, SeqIs
<1>3. PICK sel : sel = {i \in DOMAIN all : all[i].sel}
  OBVIOUS
<1>4. PICK one : one = FirstOne(all)
  OBVIOUS
<1>5. one \in DOMAIN all /\ ~all[one].un /\ (sel = {} => one = 1)
  <2>1. CASE sel = {}
    BY <1>3, <1>4, <2>1 DEF FirstOne
  <2>2. CASE sel # {}
    <3>1. one = CHOOSE i \in sel : \A j \in sel : i <= j
      BY <1>3, <1>4, <2>2 DEF FirstOne
    <3>2. sel \subseteq Nat
      BY <1>2, <1>3
    <3>3. \E i \in sel : \A j \in sel : i <= j
      BY <2>2, <3>2, ValueFold!Least
    <3>4. one \in sel
      BY <3>1, <3>3
    <3>5. QED
      BY <1>1, <1>3, <2>2, <3>4 DEF Proper
  <2>3. QED
    BY <2>1, <2>2
<1>6. /\ DOMAIN items = 1 .. n
      /\ \A i \in 1 .. n : items[i] = [all[i] EXCEPT !.sel = (i = one)]
  BY <1>2, <1>4 DEF OneOf
<1>7. ASSUME NEW i \in 1 .. n
      PROVE  items[i] \in Items /\ items[i].v = all[i].v /\ items[i].un = all[i].un /\ items[i].made = all[i].made
             /\ (items[i].sel <=> i = one)
  <2>1. PICK it \in Items : it = all[i]
    BY <1>2
  <2>2. PICK on \in {TRUE, FALSE} : on = (i = one)
    <3>1. CASE i = one
      BY <3>1
    <3>2. CASE i # one
      BY <3>2
    <3>3. QED
      BY <3>1, <3>2
  <2>3. PICK new : new = items[i] /\ SelPut(new, it, on)
    <3>1. items[i] = [it EXCEPT !.sel = on]
      BY <1>6, <2>1, <2>2
    <3>2. QED
      BY <3>1 DEF SelPut
  <2>4. new \in Items /\ new.v = it.v /\ new.un = it.un /\ new.made = it.made /\ (new.sel <=> on)
    <3>1. on \in BOOLEAN
      BY <2>2
    <3>2. QED
      BY <2>3, <3>1, ItemPut
  <2>5. QED
    BY <2>1, <2>2, <2>3, <2>4
<1>8. items \in Seq(Items)
  <2>1. items = [i \in 1 .. n |-> items[i]]
    BY <1>2, <1>6 DEF OneOf
  <2>2. \A i \in 1 .. n : items[i] \in Items
    BY <1>7
  <2>3. QED
    BY <2>1, <2>2
<1>9. Distinct(items)
  BY <1>1, <1>2, <1>6, <1>7 DEF Distinct
<1>10. \A i \in DOMAIN items : Proper(items[i])
  BY <1>1, <1>2, <1>5, <1>6, <1>7 DEF Proper
<1>11. AtMostOne(items) /\ Chosen(items)
  BY <1>2, <1>5, <1>6, <1>7 DEF AtMostOne, Chosen
<1>12. (\A i \in DOMAIN all : ~all[i].sel) => one = 1
  BY <1>3, <1>5
<1>13. QED
  BY <1>2, <1>6, <1>7, <1>8, <1>9, <1>10, <1>11, <1>12 DEF FewItems

LEMMA BoxOfIs ==
  ASSUME NEW kind \in Kinds, NEW items \in Seq(Items), NEW b, b = BoxOf(kind, items)
  PROVE  b \in Boxes /\ Kind(kind, b) /\ b.items = items /\ b.hidden = Values(items)
<1>1. PICK h \in Seq(Text) : h = Values(items)
  BY ValuesRange
<1>2. b = [multiple |-> kind.multiple, optional |-> kind.optional, create |-> kind.create,
           open |-> FALSE, items |-> items, hidden |-> h]
  BY <1>1 DEF BoxOf
<1>3. kind.multiple \in BOOLEAN /\ kind.optional \in BOOLEAN /\ kind.create \in BOOLEAN
  BY DEF Kinds
<1>4. b \in Boxes /\ b.items = items /\ b.hidden = h
  BY <1>2, <1>3 DEF Boxes
<1>5. Kind(kind, b)
  BY <1>2 DEF Kind
<1>6. QED
  BY <1>1, <1>4, <1>5

LEMMA RenderKeeps ==
  ASSUME NEW kind \in Kinds, NEW values \in Seq(Text), IsInjective(values), NEW choices \in Seq(Text),
         IsInjective(choices), choices # <<>>, Range(choices) \cap Marked = {}, Range(values) \cap Marked = {},
         NEW b, b = render(kind, values, choices)
  PROVE  /\ BoxInv(b) /\ Plain(b) /\ Kind(kind, b) /\ \A i \in DOMAIN b.items : b.items[i].made = "choice"
         /\ ~kind.multiple /\ kind.optional /\ Range(values) = {} /\ Blank \notin Range(choices) =>
              \A i \in DOMAIN b.items : b.items[i].sel => b.items[i].v = NoValue
<1>13. PICK given : given = Given(kind, values)
  OBVIOUS
<1>14. given \in Seq(Text) /\ IsInjective(given) /\ Range(given) \subseteq Range(values)
  BY <1>13, GivenIs
<1>1. PICK all : all = AllOf(kind, given, choices)
  OBVIOUS
<1>15. PICK keys : keys = KeysOf(kind, given, choices)
  OBVIOUS
<1>16. Range(given) \cap Marked = {}
  BY <1>14
<1>2. /\ FewItems(all) /\ 1 \in DOMAIN all /\ ~all[1].un
      /\ Shows(kind, keys) => all[1].v = NoValue
      /\ kind.multiple => \A k \in DOMAIN all : all[k].v # NoValue
      /\ kind.create => \E k \in DOMAIN all : all[k].v = CreateValue
      /\ \A k \in DOMAIN all : all[k].sel => all[k].v \in Range(given)
  BY <1>1, <1>14, <1>15, <1>16, AllAre
<1>3. PICK items : items = IF kind.multiple THEN all ELSE OneOf(all)
  OBVIOUS
<1>4. /\ FewItems(items) /\ DOMAIN items = DOMAIN all /\ \A i \in DOMAIN all : items[i].v = all[i].v
      /\ ~kind.multiple => AtMostOne(items) /\ Chosen(items)
      /\ ~kind.multiple /\ (\A i \in DOMAIN all : ~all[i].sel) => \A i \in DOMAIN items : items[i].sel <=> i = 1
  <2>1. CASE kind.multiple
    BY <1>2, <1>3, <2>1
  <2>2. CASE ~kind.multiple
    <3>1. items = OneOf(all)
      BY <1>3, <2>2
    <3>2. QED
      BY <1>2, <3>1, OneIs
  <2>3. QED
    BY <2>1, <2>2
<1>5. b = BoxOf(kind, items)
  BY <1>1, <1>3, <1>13, RenderIs
<1>6. items \in Seq(Items) /\ Distinct(items) /\ \A i \in DOMAIN items : Proper(items[i])
  BY <1>4 DEF FewItems
<1>7. b \in Boxes /\ Kind(kind, b) /\ b.items = items /\ b.hidden = Values(items)
  BY <1>5, <1>6, BoxOfIs
<1>8. Marks(b)
  <2>1. b.multiple => \A i \in DOMAIN items : items[i].v # NoValue
    BY <1>2, <1>4, <1>7 DEF Kind
  <2>2. b.create => \E i \in DOMAIN items : items[i].v = CreateValue
    BY <1>2, <1>4, <1>7 DEF Kind
  <2>3. NoValue # CreateValue
    BY DEF NoValue, CreateValue
  <2>4. \A i \in DOMAIN items : /\ items[i].v \in {NoValue, CreateValue} => items[i].made = "choice"
                                /\ items[i].v = NoValue => ~items[i].un
    BY <1>6, <2>3 DEF Proper
  <2>5. QED
    BY <1>7, <2>1, <2>2, <2>4 DEF Marks
<1>9. BoxInv(b)
  BY <1>4, <1>6, <1>7, <1>8 DEF BoxInv, Loose, Kind
<1>10. Plain(b) /\ \A i \in DOMAIN b.items : b.items[i].made = "choice"
  BY <1>6, <1>7 DEF Proper, Plain
<1>11. ASSUME ~kind.multiple, kind.optional, Range(values) = {}, Blank \notin Range(choices)
       PROVE  \A i \in DOMAIN b.items : b.items[i].sel => b.items[i].v = NoValue
  <2>1. \A i \in DOMAIN items : items[i].sel <=> i = 1
    BY <1>2, <1>4, <1>11, <1>14
  <2>4. Shows(kind, keys)
    <3>1. Range(keys) \subseteq Range(choices) \cup Range(given)
      BY <1>14, <1>15, <1>16, KeysAre
    <3>2. QED
      BY <1>11, <1>14, <3>1 DEF Shows
  <2>2. items[1].v = NoValue
    BY <1>2, <1>4, <2>4
  <2>3. QED
    BY <1>7, <2>1, <2>2
<1>12. QED
  BY <1>7, <1>9, <1>10, <1>11
(* The page with one drop-down *)
LEMMA TextSeq ==
  ASSUME NEW s \in Seq(STRING)
  PROVE  s \in Seq(Text)
<1>1. PICK n \in Nat : n = Len(s) /\ DOMAIN s = 1 .. n /\ \A i \in 1 .. n : s[i] \in STRING
  BY SeqIs
<1>2. \A i \in 1 .. n : s[i] \in Text
  BY <1>1 DEF Text
<1>3. s = [i \in 1 .. n |-> s[i]]
  BY <1>1
<1>4. QED
  BY <1>2, <1>3

LEMMA MenusAre ==
  ASSUME NEW list \in Menus \cup {Offered}
  PROVE  /\ list \in Seq(Text) /\ IsInjective(list) /\ Range(list) \cap Marked = {}
         /\ list \in Menus => list # <<>>
  BY ChoiceAssumption, TextSeq DEF Marked

LEMMA TextsAre ==
  ASSUME NEW texts \in OwnTexts \cup Targets
  PROVE  texts \in Seq(Text) /\ NoValue \notin Range(texts)
  BY ChoiceAssumption, TextSeq

LEMMA InitiallyIs ==
  ASSUME NEW values \in Initially
  PROVE  values \in Seq(Text) /\ IsInjective(values) /\ Range(values) \cap Marked = {}
<1>1. values \in Targets /\ IsInjective(values) /\ CreateValue \notin Range(values)
  BY DEF Initially
<1>2. QED
  BY <1>1, TextsAre DEF Marked

LEMMA ShutKeeps ==
  ASSUME NEW bare \in BOOLEAN, NEW b, ChoiceInv(bare, b)
  PROVE  ChoiceInv(bare, openDropdown(b)) /\ ChoiceInv(bare, closeDropdown(b))
<1>1. b \in Boxes /\ b.items \in Seq(Items)
  BY BoxIs DEF ChoiceInv, Held, Loose
<1>2. ASSUME NEW t \in Boxes, t.items = b.items, t.hidden = b.hidden \/ t.hidden = Values(b.items), Kind(b, t)
      PROVE  ChoiceInv(bare, t)
  <2>1. Loose(t) /\ Plain(t)
    BY <1>2 DEF ChoiceInv, Held, Loose, Plain, Marks, Kind
  <2>2. CASE BoxInv(b)
    BY <1>2, <2>1, <2>2 DEF ChoiceInv, Held, BoxInv, Kind
  <2>3. CASE bare /\ ~Chosen(b.items)
    BY <1>2, <2>1, <2>3 DEF ChoiceInv, Held
  <2>4. QED
    BY <2>2, <2>3 DEF ChoiceInv, Held
<1>3. /\ openDropdown(b) \in Boxes /\ openDropdown(b).items = b.items /\ openDropdown(b).hidden = b.hidden
      /\ Kind(b, openDropdown(b))
  BY <1>1 DEF openDropdown, Boxes, Kind
<1>4. PICK s : s = [b EXCEPT !.open = FALSE]
  OBVIOUS
<1>5. s \in Boxes /\ s.items = b.items /\ Kind(b, s)
  BY <1>1, <1>4 DEF Boxes, Kind
<1>6. PICK h \in Seq(Text) : h = Values(b.items)
  BY <1>1, ValuesRange
<1>7. closeDropdown(b) = [s EXCEPT !.hidden = h]
  BY <1>4, <1>5, <1>6 DEF closeDropdown, saveValues
<1>8. [s EXCEPT !.hidden = h] \in Boxes
  BY <1>5 DEF Boxes
<1>9. /\ [s EXCEPT !.hidden = h].items = s.items /\ [s EXCEPT !.hidden = h].hidden = h
      /\ Kind(s, [s EXCEPT !.hidden = h])
  BY <1>5 DEF Boxes, Kind
<1>10. QED
  BY <1>2, <1>3, <1>5, <1>6, <1>7, <1>8, <1>9 DEF Kind

LEMMA SelectedIs ==
  ASSUME NEW b
  PROVE  SelectedItems(b) = {} <=> ~Chosen(b.items)
  BY DEF SelectedItems, Chosen

(* The page: bare holds from a reset on and as long as nothing is selected *)
PageInv(bare, b) == bare \in BOOLEAN /\ ChoiceInv(bare, b) /\ (bare => ~Chosen(b.items))

LEMMA NoteKeeps ==
  ASSUME cleared \in BOOLEAN, NEW anew \in BOOLEAN, Note(anew), ChoiceInv(cleared \/ anew, box')
  PROVE  PageInv(cleared, box)'
<1>1. PICK b, bare : b = box' /\ bare = cleared'
  OBVIOUS
<1>2. bare = ((cleared \/ anew) /\ SelectedItems(b) = {})
  BY <1>1 DEF Note
<1>3. ChoiceInv(cleared \/ anew, b)
  BY <1>1
<1>4. CASE SelectedItems(b) = {}
  <2>1. ~Chosen(b.items)
    BY <1>4, SelectedIs
  <2>2. bare = (cleared \/ anew)
    BY <1>2, <1>4, Zenon
  <2>3. QED
    BY <1>1, <1>3, <2>1, <2>2 DEF PageInv
<1>5. CASE SelectedItems(b) # {}
  <2>1. Chosen(b.items)
    BY <1>5, SelectedIs
  <2>2. bare = FALSE
    BY <1>2, <1>5, Zenon
  <2>3. ChoiceInv(FALSE, b)
    BY <1>3, <2>1 DEF ChoiceInv, Held
  <2>5. PageInv(bare, b)
    BY <2>2, <2>3 DEF PageInv
  <2>4. QED
    BY <1>1, <2>5
<1>6. QED
  BY <1>4, <1>5

LEMMA ChoiceStep ==
  ASSUME PageInv(cleared, box), BoxNext
  PROVE  PageInv(cleared, box)'
<1>1. PICK bare \in BOOLEAN : bare = cleared /\ ChoiceInv(bare, box)
  BY DEF PageInv
<1>2. Held(bare, box) /\ Plain(box) /\ Loose(box)
  BY <1>1 DEF ChoiceInv, Held
<1>3. \A k \in DOMAIN box.items : \A force : ChoiceInv(bare, toggleItem(box, k, force))
  BY <1>2, ToggleAny, TogglePlain DEF ChoiceInv
<1>4. ASSUME Note(FALSE), ChoiceInv(bare, box') PROVE PageInv(cleared, box)'
  <2>1. (cleared \/ FALSE) = bare
    BY <1>1
  <2>2. FALSE \in BOOLEAN /\ cleared \in BOOLEAN
    BY <1>1
  <2>3. QED
    BY <1>4, <2>1, <2>2, NoteKeeps
<1>5. CASE Open
  BY <1>1, <1>4, <1>5, ShutKeeps DEF Open
<1>6. CASE Close
  BY <1>1, <1>4, <1>6, ShutKeeps DEF Close
<1>7. ASSUME NEW k \in DOMAIN box.items, handleClick(k) PROVE PageInv(cleared, box)'
  BY <1>3, <1>4, <1>7 DEF handleClick
<1>8. ASSUME NEW k \in DOMAIN box.items, handleEnter(k) PROVE PageInv(cleared, box)'
  <2>1. PICK t : t = IF box.items[k].sel THEN box ELSE toggleItem(box, k, "flip")
    OBVIOUS
  <2>2. ChoiceInv(bare, t)
    BY <1>1, <1>3, <2>1
  <2>3. box' = closeDropdown(t) /\ Note(FALSE)
    BY <1>8, <2>1 DEF handleEnter
  <2>4. QED
    BY <1>4, <2>2, <2>3, ShutKeeps
<1>9. ASSUME NEW text \in OwnTexts, handleCreateKeydown(text) PROVE PageInv(cleared, box)'
  <2>1. box.create /\ box' = createItems(box, text) /\ Note(FALSE)
    BY <1>9 DEF handleCreateKeydown
  <2>2. text \in Seq(Text) /\ NoValue \notin Range(text)
    BY TextsAre
  <2>3. QED
    BY <1>1, <1>4, <2>1, <2>2, CreateAll
<1>10. ASSUME NEW values \in Targets, SetValue(values) PROVE PageInv(cleared, box)'
  <2>1. values \in Seq(Text) /\ NoValue \notin Range(values)
    BY TextsAre
  <2>2. PICK asked : asked = Asked(box, values) /\ Order(box, asked)
    BY <2>1, AskedIs
  <2>3. box' = setValues(box, asked) /\ Note(FALSE)
    BY <1>10, <2>2 DEF SetValue, setValue
  <2>4. QED
    BY <1>1, <1>4, <2>2, <2>3, SetValuesTakes
<1>11. CASE SetNull
  BY <1>1, <1>4, <1>11, NoneAsked, SetValuesTakes DEF SetNull
<1>12. CASE ClearChoices(FALSE)
  <2>1. Held(bare, box') /\ FromBox(box, box') /\ Note(FALSE)
    BY <1>2, <1>12, ClearKeeps DEF ClearChoices
  <2>2. QED
    BY <1>2, <1>4, <2>1, FromPlain DEF ChoiceInv
<1>13. CASE ClearChoices(TRUE)
  <2>1. ChoiceInv(TRUE, box') /\ Note(TRUE)
    BY <1>1, <1>13, ResetKeeps DEF ClearChoices
  <2>2. (cleared \/ TRUE) = TRUE /\ TRUE \in BOOLEAN /\ cleared \in BOOLEAN
    BY <1>1
  <2>3. QED
    BY <2>1, <2>2, NoteKeeps
<1>14. CASE AddChoices
  <2>1. Offered \in Seq(Text) /\ Range(Offered) \cap Marked = {}
    BY MenusAre
  <2>2. PICK t : t = box' /\ t = addChoices(box, Offered) /\ Note(FALSE)
    BY <1>14 DEF AddChoices
  <2>3. /\ Held(bare, t)
        /\ \A j \in DOMAIN t.items : (\E k \in DOMAIN box.items : t.items[j] = box.items[k]) \/ NewChoice(t.items[j], Offered)
    <3>1. NoValue \notin Range(Offered)
      BY <2>1 DEF Marked
    <3>2. QED
      BY <1>2, <2>1, <2>2, <3>1, ChoicesAddKeeps
  <2>4. Plain(t)
    BY <1>2, <2>1, <2>3 DEF Plain, NewChoice, Marked
  <2>5. QED
    BY <1>4, <2>2, <2>3, <2>4 DEF ChoiceInv
<1>15. QED
  BY <1>5, <1>6, <1>7, <1>8, <1>9, <1>10, <1>11, <1>12, <1>13, <1>14 DEF BoxNext

LEMMA ChoiceStart ==
  ASSUME BoxInit
  PROVE  PageInv(cleared, box)
<1>1. PICK kind \in Kinds, values \in Initially, menu \in Menus : box = render(kind, values, menu)
  BY DEF BoxInit
<1>2. menu \in Seq(Text) /\ IsInjective(menu) /\ menu # <<>> /\ Range(menu) \cap Marked = {}
  BY MenusAre
<1>3. values \in Seq(Text) /\ IsInjective(values) /\ Range(values) \cap Marked = {}
  BY InitiallyIs
<1>4. BoxInv(box) /\ Plain(box)
  BY <1>1, <1>2, <1>3, RenderKeeps
<1>5. cleared = FALSE
  BY DEF BoxInit
<1>6. Held(FALSE, box)
  BY <1>4, HeldIs
<1>7. QED
  BY <1>4, <1>5, <1>6 DEF PageInv, ChoiceInv

LEMMA ChoiceHolds ==
  ASSUME PageInv(cleared, box)
  PROVE  /\ ~cleared => BoxConsistent(box)
         /\ \A asked \in {Asked(box, values) : values \in Targets} \cup {<<>>} :
              (cleared => Can(box, asked) # {}) => BoxTakes(box, asked)
<1>1. PICK bare \in BOOLEAN : bare = cleared /\ ChoiceInv(bare, box)
  BY DEF PageInv
<1>2. ASSUME ~cleared PROVE BoxConsistent(box)
  <2>1. BoxInv(box)
    BY <1>1, <1>2 DEF ChoiceInv, Held
  <2>2. QED
    BY <2>1, InvConsistent
<1>3. ASSUME NEW asked \in {Asked(box, values) : values \in Targets} \cup {<<>>}, cleared => Can(box, asked) # {}
      PROVE  BoxTakes(box, asked)
  <2>1. Order(box, asked)
    <3>1. CASE asked = <<>>
      BY <3>1, NoneAsked
    <3>2. CASE asked # <<>>
      <4>1. PICK values \in Targets : asked = Asked(box, values)
        BY <3>2
      <4>2. QED
        BY <4>1, TextsAre, AskedIs
    <3>3. QED
      BY <3>1, <3>2
  <2>2. QED
    BY <1>1, <1>3, <2>1, SetValuesTakes
<1>4. QED
  BY <1>2, <1>3

(* Whatever choices a page offers, texts a user types and values a script    *)
(* sets, and however often: what a form reads from a drop-down is what is    *)
(* selected in it, and what setValue is given is what is read next, but for  *)
(* the hidden inputs that clearChoices(true) leaves behind until something   *)
(* is selected again.                                                        *)
THEOREM ChoiceIsAlwaysRead == ElementsSpec => []ChoiceIsRead
<1> DEFINE Inv == open = "choice" => PageInv(cleared, box)
<1>1. ElementsInit => Inv
  BY ChoiceStart DEF ElementsInit
<1>2. Inv /\ [ElementsNext]_elementVars => Inv'
  <2>1. ASSUME Inv, ElementsNext PROVE Inv'
    <3>1. CASE open = "choice"
      BY <2>1, <3>1, ChoiceStep DEF ElementsNext
    <3>2. CASE open # "choice"
      BY <2>1, <3>2 DEF ElementsNext
    <3>3. QED
      BY <3>1, <3>2
  <2>2. ASSUME Inv, UNCHANGED elementVars PROVE Inv'
    BY <2>2 DEF elementVars
  <2>3. QED
    BY <2>1, <2>2
<1>3. Inv => ChoiceIsRead
  BY ChoiceHolds DEF ChoiceIsRead
<1>4. QED
  BY <1>1, <1>2, <1>3, PTL DEF ElementsSpec
-----------------------------------------------------------------------------
(* The dynamic list. Between two events its box shows the placeholder, no    *)
(* item waits to be marked as the user's, and what the box refuses or the    *)
(* user made is in the list.                                                 *)
Dyns == [plain : BOOLEAN, text : Text, list : Seq(Text), box : Boxes]
Unpicked(b) == \A i \in DOMAIN b.items : b.items[i].sel => b.items[i].v = NoValue
Settled(b) == \A i \in DOMAIN b.items : b.items[i].made # "created"
OneOptional(b) == ~b.multiple /\ b.optional /\ b.create
ListBox(b) == BoxInv(b) /\ OneOptional(b) /\ Unpicked(b) /\ Settled(b)
Refused(b, list) ==
  \A i \in DOMAIN b.items :
    b.items[i].v # CreateValue /\ (b.items[i].un \/ b.items[i].made # "choice") => b.items[i].v \in Range(list)
ListInv(d) == d \in Dyns /\ ListBox(d.box) /\ IsInjective(d.list) /\ Refused(d.box, d.list)

LEMMA ContainsRange ==
  ASSUME NEW s \in Seq(Text), NEW e
  PROVE  Contains(s, e) <=> e \in Range(s)
<1>1. PICK n \in Nat : n = Len(s) /\ DOMAIN s = 1 .. n
  OBVIOUS
<1>2. QED
  BY <1>1 DEF Contains, Range

LEMMA IdleReads ==
  ASSUME NEW b, BoxInv(b), Unpicked(b)
  PROVE  b.hidden = <<>>
<1>1. b.items \in Seq(Items) /\ b.hidden = Values(b.items)
  BY BoxIs DEF BoxInv, Loose
<1>2. \A i \in DOMAIN b.items : ~Read(b.items[i])
  BY DEF Unpicked, Read
<1>3. QED
  BY <1>1, <1>2, ValuesNone

LEMMA AddTextInjective ==
  ASSUME NEW s \in Seq(Text), IsInjective(s), NEW e \in Text, e \notin Range(s), NEW t, Longer(t, s, e)
  PROVE  IsInjective(t)
<1>1. PICK n \in Nat : n = Len(s) /\ DOMAIN s = 1 .. n
  OBVIOUS
<1>2. DOMAIN t = 1 .. n + 1 /\ t[n + 1] = e /\ \A i \in 1 .. n : t[i] = s[i]
  BY <1>1, AppendIs
<1>3. \A i \in 1 .. n : s[i] # e
  BY <1>1 DEF Range
<1>4. ASSUME NEW i \in 1 .. n + 1, NEW j \in 1 .. n + 1, t[i] = t[j] PROVE i = j
  <2>1. CASE i = n + 1
    <3>1. j = n + 1 \/ j \in 1 .. n
      OBVIOUS
    <3>2. QED
      BY <1>2, <1>3, <1>4, <2>1, <3>1
  <2>2. CASE i \in 1 .. n
    <3>1. j = n + 1 \/ j \in 1 .. n
      OBVIOUS
    <3>2. j \in 1 .. n
      BY <1>2, <1>3, <1>4, <2>2, <3>1
    <3>3. QED
      BY <1>1, <1>2, <1>4, <2>2, <3>2 DEF IsInjective
  <2>3. QED
    BY <2>1, <2>2
<1>5. QED
  BY <1>2, <1>4 DEF IsInjective

LEMMA AddItemIs ==
  ASSUME NEW d \in Dyns, IsInjective(d.list), NEW v \in Text, NEW t, t = addItem(d, v)
  PROVE  /\ t \in Dyns /\ t.plain = d.plain /\ t.text = d.text /\ t.box = d.box
         /\ IsInjective(t.list) /\ Range(t.list) = Range(d.list) \cup {v}
<1>1. d.list \in Seq(Text)
  BY DEF Dyns
<1>2. PICK l : l = IF Contains(d.list, v) THEN d.list ELSE Append(d.list, v)
  OBVIOUS
<1>3. l \in Seq(Text) /\ IsInjective(l) /\ Range(l) = Range(d.list) \cup {v}
  <2>1. CASE v \in Range(d.list)
    <3>1. l = d.list
      BY <1>1, <1>2, <2>1, ContainsRange
    <3>2. QED
      BY <1>1, <2>1, <3>1
  <2>2. CASE v \notin Range(d.list)
    <3>1. Longer(l, d.list, v)
      BY <1>1, <1>2, <2>2, ContainsRange DEF Longer
    <3>2. PICK s \in Seq(Text) : s = d.list
      BY <1>1
    <3>3. Longer(l, s, v) /\ IsInjective(s) /\ v \notin Range(s)
      BY <2>2, <3>1, <3>2
    <3>4. l \in Seq(Text) /\ Range(l) = Range(s) \cup {v}
      BY <3>3, AppendIs
    <3>5. IsInjective(l)
      BY <3>3, AddTextInjective
    <3>6. QED
      BY <3>2, <3>4, <3>5
  <2>3. QED
    BY <2>1, <2>2
<1>4. t = [d EXCEPT !.list = l]
  BY <1>2 DEF addItem
<1>5. t \in Dyns /\ t.plain = d.plain /\ t.text = d.text /\ t.box = d.box /\ t.list = l
  BY <1>3, <1>4 DEF Dyns
<1>6. QED
  BY <1>3, <1>5

(* Other labels on the same items *)
LEMMA RelabelKeeps ==
  ASSUME NEW b, BoxInv(b), Unpicked(b), NEW t \in Boxes, Kind(b, t), t.hidden = b.hidden,
         DOMAIN t.items = DOMAIN b.items,
         \A i \in DOMAIN b.items : t.items[i].v = b.items[i].v /\ (t.items[i].sel <=> b.items[i].sel),
         \A i \in DOMAIN b.items : /\ b.items[i].v \in Marked => t.items[i].made = b.items[i].made
                                   /\ b.items[i].v = NoValue => ~t.items[i].un
  PROVE  BoxInv(t) /\ Unpicked(t)
<1>1. /\ b \in Boxes /\ Distinct(b.items) /\ (~b.multiple => AtMostOne(b.items)) /\ Marks(b)
      /\ b.hidden = Values(b.items) /\ (~b.multiple => Chosen(b.items))
  BY DEF BoxInv, Loose
<1>2. Unpicked(t)
  BY DEF Unpicked
<1>3. t.hidden = Values(t.items)
  <2>1. t.items \in Seq(Items) /\ \A i \in DOMAIN t.items : ~Read(t.items[i])
    BY <1>2, BoxIs DEF Unpicked, Read
  <2>2. Values(t.items) = <<>>
    BY <2>1, ValuesNone
  <2>3. b.hidden = <<>>
    BY IdleReads
  <2>4. QED
    BY <2>2, <2>3
<1>4. Distinct(t.items)
  BY <1>1 DEF Distinct
<1>5. ~t.multiple => AtMostOne(t.items) /\ Chosen(t.items)
  BY <1>1 DEF AtMostOne, Chosen, Kind
<1>6. Marks(t)
  BY <1>1 DEF Marks, Marked, Kind
<1>7. QED
  BY <1>2, <1>3, <1>4, <1>5, <1>6 DEF BoxInv, Loose
LEMMA FilteredItems ==
  ASSUME NEW b \in Boxes, NEW gone, NEW f, f = Filtered(b, gone)
  PROVE  f.items = Without(b.items, gone)
<1>1. PICK kept : kept = Without(b.items, gone)
  OBVIOUS
<1>2. f = [b EXCEPT !.items = kept]
  BY <1>1 DEF Filtered
<1>3. f.items = kept
  BY <1>2 DEF Boxes
<1>4. QED
  BY <1>1, <1>3

Only(gone, v) == \A w : w \in gone <=> w = v

LEMMA WithoutOne ==
  ASSUME NEW s \in Seq(Text), IsInjective(s), NEW v, NEW gone, Only(gone, v), NEW l, l = Without(s, gone)
  PROVE  l \in Seq(Text) /\ IsInjective(l) /\ \A w \in Range(s) : w # v => w \in Range(l)
<1>2. /\ l \in Seq(Text)
      /\ \E e : /\ Part(l, s, e)
                /\ \A j \in DOMAIN l : l[j] \notin gone
                /\ \A k \in DOMAIN s : s[k] \notin gone => \E j \in DOMAIN l : e[j] = k
  BY WithoutIs
<1>3. PICK e : Part(l, s, e) /\ \A k \in DOMAIN s : s[k] \notin gone => \E j \in DOMAIN l : e[j] = k
  BY <1>2
<1>4. IsInjective(l)
  BY <1>3, PartKeeps
<1>5. \A j \in DOMAIN l : l[j] = s[e[j]]
  BY <1>3 DEF Part
<1>6. ASSUME NEW k \in DOMAIN s, s[k] # v PROVE s[k] \in Range(l)
  <2>1. PICK j \in DOMAIN l : e[j] = k
    BY <1>3, <1>6 DEF Only
  <2>2. l[j] = s[k]
    BY <1>5, <2>1
  <2>3. QED
    BY <2>2 DEF Range
<1>7. ASSUME NEW w \in Range(s), w # v PROVE w \in Range(l)
  <2>1. PICK k \in DOMAIN s : w = s[k]
    BY DEF Range
  <2>2. QED
    BY <1>6, <1>7, <2>1
<1>8. QED
  BY <1>2, <1>4, <1>7

LEMMA EntryGoneKeeps ==
  ASSUME NEW d, ListInv(d), NEW v, NEW t, t = removeItem(d, v)
  PROVE  ListInv(t)
<1>1. /\ d \in Dyns /\ IsInjective(d.list) /\ Refused(d.box, d.list)
      /\ BoxInv(d.box) /\ OneOptional(d.box) /\ Unpicked(d.box) /\ Settled(d.box)
  BY DEF ListInv, ListBox
<1>2. d.list \in Seq(Text) /\ d.box \in Boxes /\ Marks(d.box) /\ d.box.items \in Seq(Items)
  BY <1>1, BoxIs DEF BoxInv, Loose, Dyns
<1>3. PICK b : b = d.box
  OBVIOUS
<1>4. PICK gone : gone = {it \in Range(b.items) : it.v = v /\ it.made = "custom"}
  OBVIOUS
<1>5. PICK kept, l : kept = Without(b.items, gone) /\ l = Without(d.list, {v})
  OBVIOUS
<1>6. PICK f : f = Filtered(b, gone)
  OBVIOUS
<1>7. f.items = kept
  BY <1>2, <1>3, <1>5, <1>6, FilteredItems
<1>8. ASSUME NEW it \in gone PROVE ~it.sel /\ it.v # NoValue /\ (b.create => it.v # CreateValue)
  <2>1. PICK k \in DOMAIN b.items : it = b.items[k]
    BY <1>4 DEF Range
  <2>2. it.made = "custom"
    BY <1>4
  <2>3. it.v # NoValue /\ it.v # CreateValue
    BY <1>2, <1>3, <2>1, <2>2 DEF Marks
  <2>4. ~it.sel
    BY <1>1, <1>3, <2>1, <2>3 DEF Unpicked
  <2>5. QED
    BY <2>3, <2>4
<1>9. /\ BoxInv(f) /\ Kind(b, f) /\ f.hidden = b.hidden /\ FromBox(b, f)
      /\ \A j \in DOMAIN f.items : f.items[j] \notin gone
  <2>1. Held(FALSE, b)
    BY <1>1, <1>3, HeldIs
  <2>2. FALSE \in BOOLEAN
    OBVIOUS
  <2>3. /\ Held(FALSE, f) /\ Kind(b, f) /\ f.hidden = b.hidden /\ FromBox(b, f)
        /\ \A j \in DOMAIN f.items : f.items[j] \notin gone
    BY <1>6, <1>8, <2>1, <2>2, FilterKeeps
  <2>4. QED
    BY <2>3, HeldIs
<1>10. PICK n \in Nat : n = Len(kept) /\ DOMAIN kept = 1 .. n /\ \A i \in 1 .. n : kept[i] \in Items
  <2>1. kept \in Seq(Items)
    BY <1>7, <1>9, BoxIs DEF BoxInv, Loose
  <2>2. QED
    BY <2>1, SeqIs
<1>11. PICK items : items = [i \in DOMAIN kept |-> IF kept[i].v = v THEN [kept[i] EXCEPT !.un = FALSE] ELSE kept[i]]
  OBVIOUS
<1>12. DOMAIN items = 1 .. n
  BY <1>10, <1>11
<1>13. ASSUME NEW i \in 1 .. n
       PROVE  /\ items[i] \in Items /\ items[i].v = kept[i].v /\ items[i].sel = kept[i].sel
              /\ items[i].made = kept[i].made /\ (items[i].un => kept[i].un /\ items[i].v # v)
  <2>1. PICK it \in Items : it = kept[i]
    BY <1>10
  <2>2. items[i] = IF it.v = v THEN [it EXCEPT !.un = FALSE] ELSE it
    BY <1>10, <1>11, <2>1
  <2>3. QED
    BY <2>1, <2>2 DEF Items
<1>14. items \in Seq(Items)
  <2>1. items = [i \in 1 .. n |-> items[i]]
    BY <1>10, <1>11
  <2>2. \A i \in 1 .. n : items[i] \in Items
    BY <1>13
  <2>3. QED
    BY <2>1, <2>2
<1>15. l \in Seq(Text) /\ IsInjective(l) /\ \A w \in Range(d.list) : w # v => w \in Range(l)
  <2>1. PICK one : one = {v}
    OBVIOUS
  <2>2. PICK s : s = d.list
    OBVIOUS
  <2>3. Only(one, v)
    BY <2>1 DEF Only
  <2>4. s \in Seq(Text) /\ IsInjective(s) /\ l = Without(s, one)
    BY <1>1, <1>2, <1>5, <2>1, <2>2
  <2>5. l \in Seq(Text) /\ IsInjective(l) /\ \A w \in Range(s) : w # v => w \in Range(l)
    BY <2>3, <2>4, WithoutOne
  <2>6. QED
    BY <2>2, <2>5
<1>16. t = [d EXCEPT !.list = l, !.box.items = items]
  BY <1>3, <1>4, <1>5, <1>11 DEF removeItem
<1>17. PICK u : u = [b EXCEPT !.items = items]
  OBVIOUS
<1>18. u \in Boxes /\ Kind(b, u) /\ u.items = items /\ u.hidden = b.hidden
  BY <1>2, <1>3, <1>14, <1>17, BoxWith
<1>19. t \in Dyns /\ t.list = l /\ t.box = u
  <2>1. t = [d EXCEPT !.list = l, !.box = u]
    BY <1>1, <1>3, <1>16, <1>17 DEF Dyns
  <2>2. QED
    BY <1>1, <1>15, <1>18, <2>1 DEF Dyns
<1>20. Kind(f, u) /\ u.hidden = f.hidden /\ DOMAIN u.items = DOMAIN f.items
  BY <1>7, <1>9, <1>10, <1>12, <1>18 DEF Kind
<1>21. Unpicked(f) /\ Marks(f)
  BY <1>1, <1>3, <1>9 DEF Unpicked, FromBox, BoxInv, Loose
<1>22. \A i \in DOMAIN f.items : u.items[i].v = f.items[i].v /\ (u.items[i].sel <=> f.items[i].sel)
  BY <1>7, <1>10, <1>13, <1>18
<1>23. \A i \in DOMAIN f.items : /\ f.items[i].v \in Marked => u.items[i].made = f.items[i].made
                                 /\ f.items[i].v = NoValue => ~u.items[i].un
  BY <1>7, <1>10, <1>13, <1>18, <1>21 DEF Marks
<1>24. BoxInv(u) /\ Unpicked(u)
  BY <1>9, <1>18, <1>20, <1>21, <1>22, <1>23, RelabelKeeps
<1>25. Settled(u) /\ OneOptional(u)
  <2>1. Settled(f)
    BY <1>1, <1>3, <1>9 DEF Settled, FromBox
  <2>2. Settled(u)
    BY <1>7, <1>10, <1>12, <1>13, <1>18, <2>1 DEF Settled
  <2>3. QED
    BY <1>1, <1>3, <1>18, <2>2 DEF OneOptional, Kind
<1>26. Refused(u, l)
  <2>1. ASSUME NEW i \in 1 .. n, items[i].v # CreateValue, items[i].un \/ items[i].made # "choice"
        PROVE  items[i].v \in Range(l)
    <3>1. PICK k \in DOMAIN b.items : kept[i] = b.items[k]
      BY <1>7, <1>9, <1>10 DEF FromBox
    <3>2. items[i].v # v
      <4>1. CASE items[i].un
        BY <1>13, <4>1
      <4>2. CASE ~items[i].un
        <5>1. kept[i].made = "custom"
          <6>1. kept[i].made \in {"choice", "created", "custom"}
            BY <1>10 DEF Items
          <6>2. kept[i].made # "choice" /\ kept[i].made # "created"
            BY <1>1, <1>3, <1>13, <2>1, <3>1, <4>2 DEF Settled
          <6>3. QED
            BY <6>1, <6>2
        <5>2. kept[i] \notin gone
          BY <1>7, <1>9, <1>10
        <5>3. kept[i].v # v
          BY <1>4, <3>1, <5>1, <5>2 DEF Range
        <5>4. QED
          BY <1>13, <5>3
      <4>3. QED
        BY <4>1, <4>2
    <3>3. b.items[k].v # CreateValue /\ (b.items[k].un \/ b.items[k].made # "choice") /\ b.items[k].v = items[i].v
      BY <1>13, <2>1, <3>1
    <3>4. items[i].v \in Range(d.list)
      BY <1>1, <1>3, <3>3 DEF Refused
    <3>5. QED
      BY <1>15, <3>2, <3>4
  <2>2. QED
    BY <1>12, <1>18, <2>1 DEF Refused
<1>27. QED
  BY <1>15, <1>19, <1>24, <1>25, <1>26 DEF ListInv, ListBox
LEMMA SetNone ==
  ASSUME NEW b, BoxInv(b), OneOptional(b), HasItem(b, NoValue), NEW e, e = setValues(b, <<>>)
  PROVE  BoxInv(e) /\ SameItems(b, e) /\ Unpicked(e)
<1>1. ~b.multiple /\ b.optional /\ b.create
  BY DEF OneOptional
<1>2. First(<<>>) = <<>>
  BY DEF First
<1>3. createItems(b, <<>>) = b
  BY CreateNone
<1>4. PICK none : none = <<>>
  OBVIOUS
<1>5. e = SetOnly(b, none)
  BY <1>1, <1>2, <1>3, <1>4 DEF setValues
<1>6. Range(none) = {}
  <2>1. <<>> \in Seq(Text) /\ Len(<<>>) = 0 /\ Range(<<>>) = {}
    BY EmptyIs
  <2>2. QED
    BY <1>4, <2>1
<1>9. Held(FALSE, b)
  BY HeldIs
<1>7. /\ Held(FALSE, e) /\ SameItems(b, e)
      /\ \/ \E j \in DOMAIN e.items : e.items[j].v \in Range(none) /\ e.items[j].sel
         \/ /\ \A j \in DOMAIN e.items : e.items[j].v \in Range(none) => e.items[j].un
            /\ HasItem(b, NoValue) => \A j \in DOMAIN e.items : e.items[j].sel => e.items[j].v = NoValue
  BY <1>1, <1>5, <1>9, SetOnlyIs
<1>8. QED
  BY <1>6, <1>7, HeldIs DEF Unpicked

LEMMA HeadRead ==
  ASSUME NEW b, BoxInv(b), NEW k \in DOMAIN b.items, \A i \in DOMAIN b.items : b.items[i].sel <=> i = k,
         b.items[k].v # NoValue
  PROVE  b.hidden # <<>> /\ Head(b.hidden) = b.items[k].v
<1>1. b.items \in Seq(Items) /\ b.hidden = Values(b.items)
  BY BoxIs DEF BoxInv, Loose
<1>2. PICK x : x = b.hidden
  OBVIOUS
<1>3. x \in Seq(Text) /\ Range(x) = {b.items[j].v : j \in {i \in DOMAIN b.items : Read(b.items[i])}}
  BY <1>1, <1>2, ValuesRange
<1>4. {i \in DOMAIN b.items : Read(b.items[i])} = {k}
  BY DEF Read
<1>5. Range(x) = {b.items[k].v}
  BY <1>3, <1>4
<1>6. x # <<>>
  <2>1. Range(<<>>) = {}
    BY EmptyIs
  <2>2. QED
    BY <1>5, <2>1
<1>7. \E v \in Text : v = Head(x) /\ v \in Range(x)
  BY <1>3, <1>6, FirstOf
<1>8. QED
  BY <1>2, <1>5, <1>6, <1>7

MarkItems(items, v) ==
  [i \in DOMAIN items |-> IF items[i].v # v THEN items[i]
     ELSE [items[i] EXCEPT !.un = TRUE, !.made = IF @ = "created" THEN "custom" ELSE @]]

LEMMA MarkItemsAre ==
  ASSUME NEW items \in Seq(Items), NEW v, NEW m, m = MarkItems(items, v)
  PROVE  /\ m \in Seq(Items) /\ DOMAIN m = DOMAIN items
         /\ \A i \in DOMAIN items : /\ m[i].v = items[i].v /\ m[i].sel = items[i].sel
                                    /\ items[i].v # v => m[i] = items[i]
                                    /\ items[i].v = v => m[i].made = IF items[i].made = "created" THEN "custom"
                                                                     ELSE items[i].made
<1>1. PICK n \in Nat : n = Len(items) /\ DOMAIN items = 1 .. n /\ \A i \in 1 .. n : items[i] \in Items
  BY SeqIs
<1>2. DOMAIN m = 1 .. n
  BY <1>1 DEF MarkItems
<1>3. ASSUME NEW i \in 1 .. n
      PROVE  /\ m[i] \in Items /\ m[i].v = items[i].v /\ m[i].sel = items[i].sel
             /\ items[i].v # v => m[i] = items[i]
             /\ items[i].v = v => m[i].made = IF items[i].made = "created" THEN "custom" ELSE items[i].made
  <2>1. PICK it \in Items : it = items[i]
    BY <1>1
  <2>2. m[i] = IF it.v # v THEN it
               ELSE [it EXCEPT !.un = TRUE, !.made = IF it.made = "created" THEN "custom" ELSE it.made]
    BY <1>1, <2>1 DEF MarkItems, Items
  <2>3. QED
    BY <2>1, <2>2 DEF Items
<1>4. m \in Seq(Items)
  <2>1. m = [i \in 1 .. n |-> m[i]]
    BY <1>1 DEF MarkItems
  <2>2. \A i \in 1 .. n : m[i] \in Items
    BY <1>3
  <2>3. QED
    BY <2>1, <2>2
<1>5. QED
  BY <1>1, <1>2, <1>3, <1>4

LEMMA ChangeKeeps ==
  ASSUME NEW d, ListInv(d), NEW p, BoxInv(p), OneOptional(p), HasItem(p, NoValue), NEW k \in DOMAIN p.items,
         \A i \in DOMAIN p.items : p.items[i].sel <=> i = k,
         \A i \in DOMAIN p.items : i # k =>
           /\ p.items[i].made # "created"
           /\ p.items[i].v # CreateValue /\ (p.items[i].un \/ p.items[i].made # "choice") =>
                p.items[i].v \in Range(d.list),
         NEW t, t = handleDropdownChange(d, p)
  PROVE  ListInv(t)
<1>1. d \in Dyns /\ d.list \in Seq(Text) /\ IsInjective(d.list)
  BY DEF ListInv, Dyns
<1>2. p \in Boxes /\ Distinct(p.items) /\ Marks(p) /\ p.items \in Seq(Items)
  BY BoxIs DEF BoxInv, Loose
<1>3. PICK v : v = p.items[k].v
  OBVIOUS
<1>4. CASE v = NoValue
  <2>1. Unpicked(p)
    BY <1>3, <1>4 DEF Unpicked
  <2>2. p.hidden = <<>>
    BY <2>1, IdleReads
  <2>3. t = [d EXCEPT !.box = p]
    BY <2>2 DEF handleDropdownChange, getValue
  <2>4. t \in Dyns /\ t.box = p /\ t.list = d.list
    BY <1>1, <1>2, <2>3 DEF Dyns
  <2>5. p.items[k].made = "choice" /\ ~p.items[k].un
    BY <1>2, <1>3, <1>4 DEF Marks
  <2>6. Settled(p)
    BY <2>5 DEF Settled
  <2>7. Refused(p, d.list)
    BY <2>5 DEF Refused
  <2>8. QED
    BY <1>1, <2>1, <2>4, <2>6, <2>7 DEF ListInv, ListBox
<1>5. CASE v # NoValue
  <2>1. p.hidden # <<>> /\ Head(p.hidden) = v
    BY <1>3, <1>5, HeadRead
  <2>2. PICK e : e = setValues(p, <<>>)
    OBVIOUS
  <2>3. BoxInv(e) /\ SameItems(p, e) /\ Unpicked(e)
    BY <2>2, SetNone
  <2>4. e \in Boxes /\ e.items \in Seq(Items) /\ Marks(e)
    BY <2>3, BoxIs DEF BoxInv, Loose
  <2>5. PICK m : m = MarkItems(e.items, v)
    OBVIOUS
  <2>6. /\ m \in Seq(Items) /\ DOMAIN m = DOMAIN e.items
        /\ \A i \in DOMAIN e.items : /\ m[i].v = e.items[i].v /\ m[i].sel = e.items[i].sel
                                     /\ e.items[i].v # v => m[i] = e.items[i]
                                     /\ e.items[i].v = v => m[i].made = IF e.items[i].made = "created" THEN "custom"
                                                                        ELSE e.items[i].made
    BY <2>4, <2>5, MarkItemsAre
  <2>7. PICK u : u = [e EXCEPT !.items = m]
    OBVIOUS
  <2>8. u \in Boxes /\ Kind(e, u) /\ u.items = m /\ u.hidden = e.hidden
    BY <2>4, <2>6, <2>7, BoxWith
  <2>9. BoxInv(u) /\ Unpicked(u)
    <3>1. /\ DOMAIN u.items = DOMAIN e.items
          /\ \A i \in DOMAIN e.items : u.items[i].v = e.items[i].v /\ (u.items[i].sel <=> e.items[i].sel)
      BY <2>6, <2>8
    <3>2. \A i \in DOMAIN e.items : /\ e.items[i].v \in Marked => u.items[i].made = e.items[i].made
                                    /\ e.items[i].v = NoValue => ~u.items[i].un
      BY <1>5, <2>4, <2>6, <2>8 DEF Marks, Marked
    <3>3. QED
      BY <2>3, <2>8, <3>1, <3>2, RelabelKeeps
  <2>10. PICK w : w = [d EXCEPT !.box = u]
    OBVIOUS
  <2>11. w \in Dyns /\ w.box = u /\ w.list = d.list
    BY <1>1, <2>8, <2>10 DEF Dyns
  <2>12. t = addItem(w, v)
    <3>1. handleDropdownChange(d, p) =
            IF getValue(p) = <<>> THEN [d EXCEPT !.box = p]
            ELSE addItem([d EXCEPT !.box = [setValues(p, <<>>) EXCEPT !.items =
                                              MarkItems(setValues(p, <<>>).items, Head(getValue(p)))]],
                         Head(getValue(p)))
      BY Zenon DEF handleDropdownChange, MarkItems
    <3>2. getValue(p) # <<>> /\ Head(getValue(p)) = v
      BY <2>1 DEF getValue
    <3>3. QED
      BY <2>2, <2>5, <2>7, <2>10, <3>1, <3>2, Zenon
  <2>13. v \in Text
    <3>1. PICK it \in Items : it = p.items[k]
      BY <1>2
    <3>2. QED
      BY <1>3, <3>1 DEF Items
  <2>14. t \in Dyns /\ t.box = u /\ IsInjective(t.list) /\ Range(t.list) = Range(d.list) \cup {v}
    <3>1. w \in Dyns /\ IsInjective(w.list) /\ v \in Text /\ t = addItem(w, v)
      BY <1>1, <2>11, <2>12, <2>13
    <3>2. t \in Dyns /\ t.box = w.box /\ IsInjective(t.list) /\ Range(t.list) = Range(w.list) \cup {v}
      BY <3>1, AddItemIs
    <3>3. QED
      BY <2>11, <3>2
  <2>15. /\ DOMAIN u.items = DOMAIN p.items
         /\ \A i \in DOMAIN p.items : /\ e.items[i].v = p.items[i].v /\ e.items[i].un = p.items[i].un
                                      /\ e.items[i].made = p.items[i].made
    BY <2>3, <2>6, <2>8 DEF SameItems
  <2>16. \A i \in DOMAIN p.items : i # k => u.items[i] = e.items[i]
    <3>1. \A i \in DOMAIN p.items : i # k => p.items[i].v # v
      BY <1>2, <1>3 DEF Distinct
    <3>2. QED
      BY <2>6, <2>8, <2>15, <3>1
  <2>17. u.items[k].v = v /\ u.items[k].made # "created"
    BY <1>3, <2>6, <2>8, <2>15
  <2>18. Settled(u)
    BY <2>15, <2>16, <2>17 DEF Settled
  <2>19. Refused(u, t.list)
    BY <2>14, <2>15, <2>16, <2>17 DEF Refused
  <2>20. OneOptional(u)
    BY <2>3, <2>8 DEF OneOptional, SameItems, Kind
  <2>21. QED
    BY <2>9, <2>14, <2>18, <2>19, <2>20 DEF ListInv, ListBox
<1>6. QED
  BY <1>4, <1>5
LEMMA ListPlace ==
  ASSUME NEW b, ListBox(b)
  PROVE  HasItem(b, NoValue)
  BY DEF ListBox, BoxInv, OneOptional, Unpicked, Chosen, HasItem

LEMMA ToggleChange ==
  ASSUME NEW d, ListInv(d), NEW k \in DOMAIN d.box.items, ~d.box.items[k].un, NEW force,
         NEW p, p = toggleItem(d.box, k, force)
  PROVE  ListInv(handleDropdownChange(d, p))
<1>1. PICK b : b = d.box
  OBVIOUS
<1>2. BoxInv(b) /\ Loose(b) /\ OneOptional(b) /\ Settled(b) /\ Refused(b, d.list) /\ HasItem(b, NoValue)
  BY <1>1, ListPlace DEF ListInv, ListBox, BoxInv
<1>3. k \in DOMAIN b.items /\ ~b.items[k].un /\ p = toggleItem(b, k, force)
  BY <1>1
<1>4. b \in Boxes /\ ~b.multiple /\ AtMostOne(b.items)
  BY <1>2 DEF Loose, OneOptional
<1>5. SameItems(b, p) /\ \A i \in DOMAIN b.items : p.items[i].sel <=> i = k
  BY <1>3, <1>4, ToggleOne
<1>6. BoxInv(p)
  BY <1>2, <1>3, ToggleKeeps
<1>7. /\ DOMAIN p.items = DOMAIN b.items
      /\ \A i \in DOMAIN b.items : /\ p.items[i].v = b.items[i].v /\ p.items[i].un = b.items[i].un
                                   /\ p.items[i].made = b.items[i].made
  BY <1>5 DEF SameItems
<1>8. OneOptional(p)
  BY <1>2, <1>5 DEF OneOptional, SameItems
<1>9. \A i \in DOMAIN p.items : i # k =>
        /\ p.items[i].made # "created"
        /\ p.items[i].v # CreateValue /\ (p.items[i].un \/ p.items[i].made # "choice") => p.items[i].v \in Range(d.list)
  BY <1>2, <1>7 DEF Settled, Refused
<1>10. k \in DOMAIN p.items /\ \A i \in DOMAIN p.items : p.items[i].sel <=> i = k
  BY <1>3, <1>5, <1>7
<1>12. HasItem(p, NoValue)
  BY <1>2, <1>7 DEF HasItem
<1>11. QED
  BY <1>12, <1>6, <1>8, <1>9, <1>10, ChangeKeeps

LEMMA CreateChange ==
  ASSUME NEW d, ListInv(d), NEW v \in Text, v # NoValue, NEW p, p = createItem(d.box, v), p # d.box
  PROVE  ListInv(handleDropdownChange(d, p))
<1>1. PICK b : b = d.box
  OBVIOUS
<1>6. v # Blank
  BY DEF Blank, createItem
<1>2. BoxInv(b) /\ Loose(b) /\ OneOptional(b) /\ Settled(b) /\ Refused(b, d.list) /\ HasItem(b, NoValue)
  BY <1>1, ListPlace DEF ListInv, ListBox, BoxInv
<1>3. CASE Positions(b, v) # {}
  <2>1. PICK k \in DOMAIN b.items : b.items[k].v = v /\ createItem(b, v) = toggleItem(b, k, "on")
    BY <1>3, <1>6, CreateKnown
  <2>2. p = toggleItem(b, k, "on") /\ p # b
    BY <1>1, <2>1
  <2>3. ~b.items[k].un
    BY <2>2, ToggleUn
  <2>4. k \in DOMAIN d.box.items /\ ~d.box.items[k].un /\ p = toggleItem(d.box, k, "on")
    BY <1>1, <2>2, <2>3
  <2>5. QED
    BY <2>4, ToggleChange
<1>4. CASE Positions(b, v) = {}
  <2>1. PICK m, k : m = Middle(b, v) /\ k = Len(MoreItems(b, v)) - 1
    OBVIOUS
  <2>2. b.create
    BY <1>2 DEF OneOptional
  <2>3. /\ Loose(m) /\ Grown(b, m, v) /\ k \in DOMAIN m.items
        /\ m.items[k].v = v /\ ~m.items[k].un
        /\ \A j \in DOMAIN m.items : j # k => \E i \in DOMAIN b.items : m.items[j] = b.items[i]
    BY <1>2, <1>4, <1>6, <2>1, <2>2, MiddleIs
  <2>4. p = toggleItem(m, k, "on")
    BY <1>1, <1>4, <1>6, <2>1, CreateNew
  <2>5. m \in Boxes /\ OneOptional(m) /\ AtMostOne(m.items)
    BY <1>2, <2>3 DEF Loose, Grown, Kind, OneOptional
  <2>6. ~m.multiple
    BY <2>5 DEF OneOptional
  <2>7. SameItems(m, p) /\ \A i \in DOMAIN m.items : p.items[i].sel <=> i = k
    BY <2>3, <2>4, <2>5, <2>6, ToggleOne
  <2>8. BoxInv(p)
    BY <2>3, <2>4, ToggleKeeps
  <2>9. OneOptional(p)
    BY <2>5, <2>7 DEF OneOptional, SameItems
  <2>10. /\ DOMAIN p.items = DOMAIN m.items
         /\ \A i \in DOMAIN m.items : /\ p.items[i].v = m.items[i].v /\ p.items[i].un = m.items[i].un
                                      /\ p.items[i].made = m.items[i].made
    BY <2>7 DEF SameItems
  <2>11. ASSUME NEW i \in DOMAIN p.items, i # k
         PROVE  /\ p.items[i].made # "created"
                /\ p.items[i].v # CreateValue /\ (p.items[i].un \/ p.items[i].made # "choice") =>
                     p.items[i].v \in Range(d.list)
    <3>1. PICK j \in DOMAIN b.items : m.items[i] = b.items[j]
      BY <2>3, <2>10, <2>11
    <3>2. p.items[i].v = b.items[j].v /\ p.items[i].un = b.items[j].un /\ p.items[i].made = b.items[j].made
      BY <2>10, <3>1
    <3>3. QED
      BY <1>2, <3>2 DEF Settled, Refused
  <2>12. k \in DOMAIN p.items /\ \A i \in DOMAIN p.items : p.items[i].sel <=> i = k
    BY <2>3, <2>7, <2>10
  <2>14. HasItem(p, NoValue)
    BY <1>2, <2>3, <2>10 DEF Grown, HasItem
  <2>13. QED
    BY <2>14, <2>8, <2>9, <2>11, <2>12, ChangeKeeps
<1>5. QED
  BY <1>3, <1>4

LEMMA AddItemKeeps ==
  ASSUME NEW d, ListInv(d), NEW v \in Text
  PROVE  ListInv(addItem(d, v))
<1>1. d \in Dyns /\ IsInjective(d.list) /\ ListBox(d.box) /\ Refused(d.box, d.list)
  BY DEF ListInv
<1>2. PICK t : t = addItem(d, v)
  OBVIOUS
<1>3. t \in Dyns /\ t.box = d.box /\ IsInjective(t.list) /\ Range(t.list) = Range(d.list) \cup {v}
  BY <1>1, <1>2, AddItemIs
<1>4. Refused(t.box, t.list)
  BY <1>1, <1>3 DEF Refused
<1>5. QED
  BY <1>1, <1>2, <1>3, <1>4 DEF ListInv

(* Many entries at once *)
ListKept(c, i, x) == ListInv(x)
AllAddTakes(c, d, v) == addItem(d, v)
AllAddFold == INSTANCE FoldInduction WITH Op <- AllAddTakes, Good <- ListKept
AllGoTakes(c, d, v) == removeItem(d, v)
AllGoFold == INSTANCE FoldInduction WITH Op <- AllGoTakes, Good <- ListKept

LEMMA AllAddFoldIs == \A d, values, c : AllAddFold!Fold(c, d, values) = FoldLeft(addItem, d, values)
  BY DEF AllAddFold!Fold, AllAddFold!Latest, FoldLeft, MapThenFoldSet, Max, AllAddTakes

LEMMA AllGoFoldIs == \A d, values, c : AllGoFold!Fold(c, d, values) = FoldLeft(removeItem, d, values)
  BY DEF AllGoFold!Fold, AllGoFold!Latest, FoldLeft, MapThenFoldSet, Max, AllGoTakes

LEMMA AllAddKeeps ==
  ASSUME NEW d, ListInv(d), NEW values \in Seq(Text)
  PROVE  ListInv(FoldLeft(addItem, d, values))
<1>1. PICK n \in Nat : n = Len(values) /\ DOMAIN values = 1 .. n /\ \A i \in 1 .. n : values[i] \in Text
  BY SeqIs
<1>2. ListKept(d, 0, d)
  BY DEF ListKept
<1>3. ASSUME NEW i \in 1 .. n, NEW x, ListKept(d, i - 1, x)
      PROVE  ListKept(d, i, AllAddTakes(d, x, values[i]))
  <2>1. PICK v \in Text : v = values[i]
    BY <1>1
  <2>2. ListInv(addItem(x, v))
    BY <1>3, AddItemKeeps DEF ListKept
  <2>3. QED
    BY <2>1, <2>2 DEF ListKept, AllAddTakes
<1>4. ListKept(d, n, AllAddFold!Fold(d, d, values))
  BY <1>1, <1>2, <1>3, AllAddFold!FoldKeeps
<1>5. QED
  BY <1>4, AllAddFoldIs DEF ListKept

LEMMA AllGoKeeps ==
  ASSUME NEW d, ListInv(d), NEW values \in Seq(Text)
  PROVE  ListInv(FoldLeft(removeItem, d, values))
<1>1. PICK n \in Nat : n = Len(values) /\ DOMAIN values = 1 .. n /\ \A i \in 1 .. n : values[i] \in Text
  BY SeqIs
<1>2. ListKept(d, 0, d)
  BY DEF ListKept
<1>3. ASSUME NEW i \in 1 .. n, NEW x, ListKept(d, i - 1, x)
      PROVE  ListKept(d, i, AllGoTakes(d, x, values[i]))
  <2>1. ListInv(removeItem(x, values[i]))
    BY <1>3, EntryGoneKeeps DEF ListKept
  <2>2. QED
    BY <2>1 DEF ListKept, AllGoTakes
<1>4. ListKept(d, n, AllGoFold!Fold(d, d, values))
  BY <1>1, <1>2, <1>3, AllGoFold!FoldKeeps
<1>5. QED
  BY <1>4, AllGoFoldIs DEF ListKept
LEMMA ListStart ==
  ASSUME DynInit
  PROVE  ListInv(dyn)
<1>1. PICK plain \in BOOLEAN, values \in Targets \cup {<<"a", "a">>}, menu \in Menus :
          "" \notin Range(menu) /\ dyn = DynRender(plain, values, menu)
  BY DEF DynInit
<1>2. values \in Seq(Text)
  <2>1. CASE values \in Targets
    BY <2>1, ChoiceAssumption, TextSeq
  <2>2. CASE values = <<"a", "a">>
    <3>1. "a" \in Text
      BY DEF Text
    <3>2. QED
      BY <2>2, <3>1
  <2>3. QED
    BY <2>1, <2>2
<1>3. PICK choices : choices = menu
  OBVIOUS
<1>4. /\ choices \in Seq(Text) /\ IsInjective(choices) /\ choices # <<>> /\ Range(choices) \cap Marked = {}
      /\ Blank \notin Range(choices)
  BY <1>1, <1>3, MenusAre DEF Blank
<1>5. PICK none : none = <<>>
  OBVIOUS
<1>6. none \in Seq(Text) /\ IsInjective(none) /\ Range(none) = {}
  <2>1. none \in Seq(Text) /\ DOMAIN none = {}
    BY <1>5
  <2>2. QED
    BY <2>1 DEF IsInjective, Range
<1>7. Combobox \in Kinds /\ ~Combobox.multiple /\ Combobox.optional /\ Combobox.create
  BY DEF Combobox, Kinds
<1>8. PICK b : b = render(Combobox, none, choices)
  OBVIOUS
<1>9. Range(none) \cap Marked = {}
  BY <1>6
<1>10. /\ BoxInv(b) /\ Plain(b) /\ Kind(Combobox, b) /\ \A i \in DOMAIN b.items : b.items[i].made = "choice"
       /\ ~Combobox.multiple /\ Combobox.optional /\ Range(none) = {} /\ Blank \notin Range(choices) =>
            \A i \in DOMAIN b.items : b.items[i].sel => b.items[i].v = NoValue
  BY <1>4, <1>6, <1>7, <1>8, <1>9, RenderKeeps
<1>11. BoxInv(b) /\ Plain(b) /\ b \in Boxes
  BY <1>10 DEF BoxInv, Loose
<1>12. ListBox(b)
  BY <1>4, <1>6, <1>7, <1>10, <1>11 DEF ListBox, Unpicked, Settled, OneOptional, Kind
<1>13. Refused(b, none)
  BY <1>10, <1>11 DEF Refused, Plain
<1>14. PICK d : d = [plain |-> plain, text |-> "", list |-> none, box |-> b]
  OBVIOUS
<1>15. "" \in Text
  BY DEF Text
<1>16. d \in Dyns /\ d.list = none /\ d.box = b
  BY <1>6, <1>11, <1>14, <1>15 DEF Dyns
<1>17. ListInv(d)
  BY <1>6, <1>12, <1>13, <1>16 DEF ListInv
<1>18. dyn = FoldLeft(addItem, d, values)
  BY <1>1, <1>3, <1>5, <1>8, <1>14 DEF DynRender
<1>19. QED
  BY <1>2, <1>17, <1>18, AllAddKeeps

LEMMA ListWithBox ==
  ASSUME NEW d, ListInv(d), NEW b, ListBox(b), Refused(b, d.list), NEW t, t = [d EXCEPT !.box = b]
  PROVE  ListInv(t)
<1>1. d \in Dyns /\ b \in Boxes /\ IsInjective(d.list)
  BY DEF ListInv, ListBox, BoxInv, Loose
<1>2. t \in Dyns /\ t.box = b /\ t.list = d.list
  BY <1>1 DEF Dyns
<1>3. QED
  BY <1>1, <1>2 DEF ListInv

LEMMA ListWithText ==
  ASSUME NEW d, ListInv(d), NEW v \in Text, NEW t, t = [d EXCEPT !.text = v]
  PROVE  ListInv(t)
<1>1. d \in Dyns
  BY DEF ListInv
<1>2. t \in Dyns /\ t.box = d.box /\ t.list = d.list
  BY <1>1 DEF Dyns
<1>3. QED
  BY <1>2 DEF ListInv

LEMMA ListStep ==
  ASSUME ListInv(dyn), DynNext
  PROVE  ListInv(dyn')
<1>1. dyn \in Dyns /\ ListBox(dyn.box) /\ IsInjective(dyn.list) /\ Refused(dyn.box, dyn.list)
  BY DEF ListInv
<1>2. dyn.list \in Seq(Text) /\ dyn.text \in Text
  BY <1>1 DEF Dyns
<1>3. BoxInv(dyn.box) /\ OneOptional(dyn.box) /\ Unpicked(dyn.box) /\ Settled(dyn.box)
  BY <1>1 DEF ListBox
<1>4. ASSUME NEW text \in OwnTexts, Len(text) = 1
      PROVE  text[1] \in Text /\ text[1] # NoValue
  <2>1. text \in Seq(Text) /\ NoValue \notin Range(text)
    BY ChoiceAssumption, TextSeq
  <2>2. 1 \in DOMAIN text /\ text[1] \in Text
    BY <1>4, <2>1
  <2>3. QED
    BY <2>1, <2>2 DEF Range
<1>5. "" \in Text
  BY DEF Text
<1>6. ASSUME NEW k \in DOMAIN dyn.box.items, Pick(k) PROVE ListInv(dyn')
  <2>1. PICK p : p = toggleItem(dyn.box, k, "flip")
    OBVIOUS
  <2>2. ~dyn.box.items[k].un /\ dyn' = handleDropdownChange(dyn, p)
    BY <1>6, <2>1 DEF Pick
  <2>3. QED
    BY <2>1, <2>2, ToggleChange
<1>7. ASSUME NEW text \in OwnTexts, Len(text) = 1, TypeOwn(text[1]) PROVE ListInv(dyn')
  <2>1. PICK v \in Text : v = text[1] /\ v # NoValue
    BY <1>4, <1>7
  <2>2. PICK p : p = createItem(dyn.box, v)
    OBVIOUS
  <2>3. dyn' = IF p = dyn.box THEN dyn ELSE handleDropdownChange(dyn, p)
    BY <1>7, <2>1, <2>2 DEF TypeOwn
  <2>4. CASE p = dyn.box
    BY <2>3, <2>4
  <2>5. CASE p # dyn.box
    BY <2>1, <2>2, <2>3, <2>5, CreateChange
  <2>6. QED
    BY <2>4, <2>5
<1>8. ASSUME NEW v \in Range(dyn.list), RemoveEntry(v) PROVE ListInv(dyn')
  BY <1>8, EntryGoneKeeps DEF RemoveEntry
<1>9. ASSUME NEW text \in OwnTexts \cup {<<"">>}, Len(text) = 1, TypeText(text[1]) PROVE ListInv(dyn')
  <2>1. PICK v : v = text[1]
    OBVIOUS
  <2>2. v \in Text
    <3>1. CASE text \in OwnTexts
      BY <1>4, <1>9, <2>1, <3>1
    <3>2. CASE text = <<"">>
      BY <1>5, <2>1, <3>2
    <3>3. QED
      BY <3>1, <3>2
  <2>3. dyn' = [dyn EXCEPT !.text = v]
    BY <1>9, <2>1 DEF TypeText
  <2>4. QED
    BY <2>2, <2>3, ListWithText
<1>10. CASE AddText
  <2>1. PICK d : d = addItem(dyn, dyn.text)
    OBVIOUS
  <2>2. ListInv(d)
    BY <1>2, <2>1, AddItemKeeps
  <2>3. dyn' = [d EXCEPT !.text = ""]
    BY <1>10, <2>1 DEF AddText
  <2>4. QED
    BY <1>5, <2>2, <2>3, ListWithText
<1>11. ASSUME NEW values \in Targets, SetList(values) PROVE ListInv(dyn')
  <2>1. values \in Seq(Text)
    BY ChoiceAssumption, TextSeq
  <2>2. PICK d : d = FoldLeft(removeItem, dyn, dyn.list)
    OBVIOUS
  <2>3. ListInv(d)
    BY <1>2, <2>2, AllGoKeeps
  <2>4. dyn' = FoldLeft(addItem, d, values)
    BY <1>11, <2>2 DEF SetList, setList
  <2>5. QED
    BY <2>1, <2>3, <2>4, AllAddKeeps
<1>12. CASE ClearSuggestions
  <2>1. PICK b : b = dyn.box
    OBVIOUS
  <2>7. PICK c : c = clearChoices(b, FALSE)
    OBVIOUS
  <2>2. BoxInv(c) /\ Kind(b, c) /\ FromBox(b, c)
    <3>1. Held(FALSE, b) /\ FALSE \in BOOLEAN
      BY <1>3, <2>1, HeldIs
    <3>2. Held(FALSE, c) /\ Kind(b, c) /\ FromBox(b, c)
      BY <2>7, <3>1, ClearKeeps
    <3>3. QED
      BY <3>2, HeldIs
  <2>3. ListBox(c)
    BY <1>3, <2>1, <2>2 DEF ListBox, OneOptional, Unpicked, Settled, Kind, FromBox
  <2>4. Refused(c, dyn.list)
    BY <1>1, <2>1, <2>2 DEF Refused, FromBox
  <2>5. dyn' = [dyn EXCEPT !.box = c]
    BY <1>12, <2>1, <2>7 DEF ClearSuggestions
  <2>6. QED
    BY <2>3, <2>4, <2>5, ListWithBox
<1>13. CASE AddSuggestions
  <2>1. PICK b, c : b = dyn.box /\ c = addChoices(b, Offered)
    OBVIOUS
  <2>2. Offered \in Seq(Text) /\ NoValue \notin Range(Offered)
    BY MenusAre DEF Marked
  <2>3. /\ BoxInv(c) /\ Kind(b, c)
        /\ \A j \in DOMAIN c.items : (\E k \in DOMAIN b.items : c.items[j] = b.items[k]) \/ NewChoice(c.items[j], Offered)
    <3>1. Held(FALSE, b) /\ FALSE \in BOOLEAN
      BY <1>3, <2>1, HeldIs
    <3>2. /\ Held(FALSE, c) /\ Kind(b, c)
          /\ \A j \in DOMAIN c.items : (\E k \in DOMAIN b.items : c.items[j] = b.items[k]) \/ NewChoice(c.items[j], Offered)
      BY <2>1, <2>2, <3>1, ChoicesAddKeeps
    <3>3. QED
      BY <3>2, HeldIs
  <2>4. ListBox(c)
    BY <1>3, <2>1, <2>3 DEF ListBox, OneOptional, Unpicked, Settled, Kind, NewChoice
  <2>5. Refused(c, dyn.list)
    BY <1>1, <2>1, <2>3 DEF Refused, NewChoice
  <2>6. dyn' = [dyn EXCEPT !.box = c]
    BY <1>13, <2>1 DEF AddSuggestions
  <2>7. QED
    BY <2>4, <2>5, <2>6, ListWithBox
<1>14. QED
  BY <1>6, <1>7, <1>8, <1>9, <1>10, <1>11, <1>12, <1>13 DEF DynNext

LEMMA ListHolds ==
  ASSUME NEW d, ListInv(d)
  PROVE  ListConsistent(d)
<1>1. d \in Dyns /\ ListBox(d.box) /\ IsInjective(d.list) /\ Refused(d.box, d.list)
  BY DEF ListInv
<1>2. d.list \in Seq(Text) /\ d.text \in Text /\ BoxInv(d.box) /\ Unpicked(d.box)
  BY <1>1 DEF Dyns, ListBox
<1>3. IsInjective(getList(d))
  <2>1. CASE d.plain /\ d.text # "" /\ ~Contains(d.list, d.text)
    <3>1. PICK s, e, l : s = d.list /\ e = d.text /\ l = Append(s, e)
      OBVIOUS
    <3>2. getList(d) = l
      BY <2>1, <3>1 DEF getList
    <3>3. s \in Seq(Text) /\ IsInjective(s) /\ e \in Text /\ e \notin Range(s) /\ Longer(l, s, e)
      BY <1>1, <1>2, <2>1, <3>1, ContainsRange DEF Longer
    <3>4. QED
      BY <3>2, <3>3, AddTextInjective
  <2>2. CASE ~(d.plain /\ d.text # "" /\ ~Contains(d.list, d.text))
    <3>1. getList(d) = d.list
      BY <2>2 DEF getList
    <3>2. QED
      BY <1>1, <3>1
  <2>3. QED
    BY <2>1, <2>2
<1>4. ASSUME NEW i \in DOMAIN d.box.items, d.box.items[i].v # CreateValue,
             d.box.items[i].un \/ d.box.items[i].made # "choice"
      PROVE  Contains(d.list, d.box.items[i].v)
  <2>1. d.box.items[i].v \in Range(d.list)
    BY <1>1, <1>4 DEF Refused
  <2>2. QED
    BY <1>2, <2>1, ContainsRange
<1>5. BoxConsistent(d.box)
  BY <1>2, InvConsistent
<1>6. getValue(d.box) = <<>>
  BY <1>2, IdleReads DEF getValue
<1>7. QED
  BY <1>3, <1>4, <1>5, <1>6 DEF ListConsistent

(* Whatever is picked, typed, set or removed in a dynamic list: no value is  *)
(* in it twice, and its box refuses only what is in the list, although the   *)
(* handler of the list runs in the middle of the box's own selection.        *)
THEOREM ListAlwaysMatchesBox == ElementsSpec => []ListMatchesBox
<1> DEFINE Inv == open = "list" => ListInv(dyn)
<1>1. ElementsInit => Inv
  BY ListStart DEF ElementsInit
<1>2. Inv /\ [ElementsNext]_elementVars => Inv'
  <2>1. ASSUME Inv, ElementsNext PROVE Inv'
    <3>1. CASE open = "list"
      BY <2>1, <3>1, ListStep DEF ElementsNext
    <3>2. CASE open # "list"
      BY <2>1, <3>2 DEF ElementsNext
    <3>3. QED
      BY <3>1, <3>2
  <2>2. ASSUME Inv, UNCHANGED elementVars PROVE Inv'
    BY <2>2 DEF elementVars
  <2>3. QED
    BY <2>1, <2>2
<1>3. Inv => ListMatchesBox
  BY ListHolds DEF ListMatchesBox
<1>4. QED
  BY <1>1, <1>2, <1>3, PTL DEF ElementsSpec
=============================================================================
