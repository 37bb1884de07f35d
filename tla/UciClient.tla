------------------------------ MODULE UciClient ------------------------------
(***************************************************************************)
(* The configuration cache of the web interface (luci-base uci.js): a copy *)
(* of one configuration as the server returned it, and on top of it the    *)
(* sections created, the options changed, the sections and options deleted *)
(* and a mark that the order changed.  save() sends the difference as one  *)
(* batch of calls, then the new order, and loads the configuration again.  *)
(*                                                                         *)
(* Sections are anonymous and of one type, as those of a form section.  An *)
(* option without a value has the value NoVal, which is what uci.js makes  *)
(* of null and of the empty string.                                        *)
(***************************************************************************)
EXTENDS Integers, Sequences, FiniteSets, SequencesExt

CONSTANTS
    Temps,      \* ids createSID generates ("newXXXXXX")
    Cfgs,       \* ids the server generates ("cfgXXXXXX")
    Opts,       \* options of a section
    Vals,       \* values of an option
    NewBase,    \* first index of a created section (1000 in the code)
    MaxFail     \* bound on failing requests

NoVal == ""
NoName == "0"

ASSUME UciAssumption ==
    /\ NoVal \notin Vals
    /\ Temps \cap Cfgs = {} /\ NoName \notin Temps \cup Cfgs
    /\ IsFiniteSet(Temps) /\ IsFiniteSet(Cfgs)     \* six hex digits
    /\ NewBase \in Nat /\ MaxFail \in Nat

Sids == Temps \cup Cfgs
OptVals == [Opts -> Vals \cup {NoVal}]
Unset == [o \in Opts |-> NoVal]

VARIABLES
    uci,    \* the cache, a record of the fields below
    srv,    \* the configuration as the server has it staged: sections in order
    op,     \* the save under way
    fails   \* failed requests so far

uciVars == <<uci, srv, op, fails>>

Section == [sid : Sids, opt : OptVals]
Create == [sid : Sids, name : Sids \cup {NoName}, idx : Nat, opt : OptVals]

UciState ==
    [loaded : {"no", "yes", "failed"},
     secs : SUBSET Sids, val : [Sids -> OptVals], idx : [Sids -> Nat],
     creates : Seq(Create), chg : [Sids -> OptVals],
     delAll : SUBSET Sids, delOpt : [Sids -> SUBSET Opts],
     reorder : BOOLEAN, newidx : Nat,
     touched : BOOLEAN]   \* creates[conf], changes[conf] or deletes[conf] exists

Call == [do : {"delete"}, sid : Sids, opts : SUBSET Opts, all : BOOLEAN]
        \cup [do : {"add"}, sid : Sids, opt : OptVals]
        \cup [do : {"set"}, sid : Sids, opt : OptVals]

(* Type invariant of the cache, the server and the save under way. *)
UciTypeOK ==
    /\ uci \in UciState
    /\ srv \in Seq(Section)
    /\ op.phase \in {"idle", "batch", "order", "load"}
    /\ op.calls \in Seq(Call)
    /\ op.order \in Seq(Sids \cup {NoName})
    /\ fails \in 0..MaxFail

NoOp == [phase |-> "idle", calls |-> <<>>, order |-> <<>>]

-----------------------------------------------------------------------------
(* Reading the cache *)

Created(u) == {u.creates[i].sid : i \in DOMAIN u.creates}
CreatePos(u, s) == CHOOSE i \in DOMAIN u.creates : u.creates[i].sid = s

(* get(conf, sid, opt) *)
Get(u, s, o) ==
    IF s \in Created(u) THEN u.creates[CreatePos(u, s)].opt[o]
    ELSE IF s \in u.delAll \/ o \in u.delOpt[s] THEN NoVal
    ELSE IF u.chg[s][o] # NoVal THEN u.chg[s][o]
    ELSE IF s \in u.secs THEN u.val[s][o] ELSE NoVal

(* sections(conf), as the section ids in the order of their index *)
Sections(u) ==
    IF u.loaded # "yes" THEN <<>>
    ELSE LET all == {<<s, u.idx[s]>> : s \in u.secs \ u.delAll}
                    \cup {<<u.creates[i].sid, u.creates[i].idx>> : i \in DOMAIN u.creates}
             Rank(e) == Cardinality({d \in all : d[2] < e[2]})
         IN  [i \in 1..Cardinality(all) |-> (CHOOSE e \in all : Rank(e) = i - 1)[1]]

View(u) == [i \in DOMAIN Sections(u) |->
              [sid |-> Sections(u)[i],
               opt |-> [o \in Opts |-> Get(u, Sections(u)[i], o)]]]

-----------------------------------------------------------------------------
(* Editing the cache *)

(* createSID(conf) tries random ids until one is free *)
FreshTemps(u) == Temps \ (Created(u) \cup u.secs)

(* add(conf, type): the new section has a temporary id *)
Add(u, s) ==
    [u EXCEPT !.creates = Append(@, [sid |-> s, name |-> s, opt |-> Unset,
                                     idx |-> NewBase + u.newidx]),
              !.newidx = @ + 1, !.touched = TRUE]

(* remove(conf, sid) *)
RemoveSection(u, s) ==
    IF s \in Created(u) THEN [u EXCEPT !.creates = RemoveAt(@, CreatePos(u, s))]
    ELSE IF s \in u.secs
    THEN [u EXCEPT !.chg[s] = Unset, !.delOpt[s] = {}, !.delAll = @ \cup {s},
                   !.touched = TRUE]
    ELSE u

(* set(conf, sid, opt, val), and unset for val = NoVal.  A change that is   *)
(* taken back leaves an empty object for the configuration behind.         *)
Set(u, s, o, v) ==
    IF s \in Created(u) THEN [u EXCEPT !.creates[CreatePos(u, s)].opt[o] = v]
    ELSE IF v # NoVal
    THEN IF s \in u.delAll \/ s \notin u.secs THEN u
         ELSE [u EXCEPT !.delOpt[s] = @ \ {o}, !.chg[s][o] = v, !.touched = TRUE]
    ELSE LET has == s \in u.secs /\ u.val[s][o] # NoVal
         IN  [u EXCEPT !.chg[s][o] = NoVal,
                       !.delOpt[s] = IF has /\ s \notin u.delAll THEN @ \cup {o} ELSE @,
                       !.touched = @ \/ has]

(* get(conf, sid) of a whole section writes its changes into the copy *)
Merge(u, sids) ==
    [u EXCEPT !.val = [s \in Sids |->
        IF s \in sids \cap (u.secs \ u.delAll)
        THEN [o \in Opts |-> IF o \in u.delOpt[s] THEN NoVal
                             ELSE IF u.chg[s][o] # NoVal THEN u.chg[s][o]
                             ELSE u.val[s][o]]
        ELSE u.val[s]]]

(* move(conf, sid1, sid2, after): every section gets its place as index *)
Move(u, s1, s2, after) ==
    LET rest == SelectSeq(Sections(u), LAMBDA s : s # s1)
        at == (CHOOSE i \in DOMAIN rest : rest[i] = s2) + (IF after THEN 1 ELSE 0)
        seq == InsertAt(rest, at, s1)
        Place(s) == (CHOOSE i \in DOMAIN seq : seq[i] = s) - 1
        m == Merge(u, ToSet(seq))
    IN  [m EXCEPT !.idx = [s \in Sids |-> IF s \in ToSet(seq) \ Created(u)
                                          THEN Place(s) ELSE @[s]],
                  !.creates = [i \in DOMAIN u.creates |->
                                 [u.creates[i] EXCEPT !.idx = Place(u.creates[i].sid)]],
                  !.reorder = TRUE]

-----------------------------------------------------------------------------
(* Loading *)

(* A configuration as uci get returns it becomes the copy.                 *)
Fill(u, conf) ==
    LET has == {s \in Sids : \E i \in DOMAIN conf : conf[i].sid = s}
        pos(s) == CHOOSE i \in DOMAIN conf : conf[i].sid = s
    IN  [u EXCEPT !.loaded = "yes", !.secs = has,
                  !.val = [s \in Sids |-> IF s \in has THEN conf[pos(s)].opt ELSE Unset],
                  !.idx = [s \in Sids |-> IF s \in has THEN pos(s) - 1 ELSE 0]]

(* unload(packages) keeps newidx and the mark of a changed order *)
Unload(u) ==
    [u EXCEPT !.loaded = "no", !.secs = {}, !.creates = <<>>, !.delAll = {},
              !.touched = FALSE,
              !.val = [s \in Sids |-> Unset], !.idx = [s \in Sids |-> 0],
              !.chg = [s \in Sids |-> Unset], !.delOpt = [s \in Sids |-> {}]]

NoUci == [loaded |-> "no", secs |-> {}, val |-> [s \in Sids |-> Unset],
          idx |-> [s \in Sids |-> 0], creates |-> <<>>,
          chg |-> [s \in Sids |-> Unset], delAll |-> {},
          delOpt |-> [s \in Sids |-> {}], reorder |-> FALSE, newidx |-> 0,
          touched |-> FALSE]

-----------------------------------------------------------------------------
(* The server (rpcd), as far as the calls of uci.js use it: each call of a *)
(* batch is carried out whatever became of the others.                     *)

Has(conf, s) == \E i \in DOMAIN conf : conf[i].sid = s
Where(conf, s) == CHOOSE i \in DOMAIN conf : conf[i].sid = s
Assign(old, new) == [o \in Opts |-> IF new[o] # NoVal THEN new[o] ELSE old[o]]

(* One call on r = [conf, resp, ok]; only add answers with a name. *)
Serve(r, c) ==
    LET at == Where(r.conf, c.sid)
        Reply(conf, name) == [conf |-> conf, resp |-> Append(r.resp, name), ok |-> r.ok]
        new == CHOOSE s \in Cfgs : ~Has(r.conf, s)
    IN  CASE c.do = "add" -> Reply(Append(r.conf, [sid |-> new, opt |-> c.opt]), new)
          [] c.do # "add" /\ ~Has(r.conf, c.sid) ->
               [r EXCEPT !.resp = Append(@, NoName), !.ok = FALSE]
          [] c.do = "set" /\ Has(r.conf, c.sid) ->
               Reply([r.conf EXCEPT ![at].opt = Assign(@, c.opt)], NoName)
          [] c.do = "delete" /\ Has(r.conf, c.sid) ->
               Reply(IF c.all THEN RemoveAt(r.conf, at)
                     ELSE [r.conf EXCEPT ![at].opt =
                             [o \in Opts |-> IF o \in c.opts THEN NoVal ELSE @[o]]],
                     NoName)

(* order(config, sections): the sections named come first, unknown names   *)
(* are skipped                                                             *)
ServeOrder(conf, sids) ==
    LET known == SelectSeq(sids, LAMBDA s : Has(conf, s))
    IN  [i \in DOMAIN known |-> conf[Where(conf, known[i])]]
        \o SelectSeq(conf, LAMBDA e : e.sid \notin ToSet(known))

-----------------------------------------------------------------------------
(* Saving *)

(* The tasks of save(): deletions, then additions, then changes *)
Deletions(u) ==
    LET D(s) == [do |-> "delete", sid |-> s, opts |-> u.delOpt[s], all |-> s \in u.delAll]
    IN  SetToSeq({D(s) : s \in {t \in Sids : t \in u.delAll \/ u.delOpt[t] # {}}})
Additions(u) ==
    [i \in DOMAIN u.creates |->
        [do |-> "add", sid |-> u.creates[i].sid, opt |-> u.creates[i].opt]]
Changes(u) ==
    LET C(s) == [do |-> "set", sid |-> s, opt |-> u.chg[s]]
    IN  SetToSeq({C(s) : s \in {t \in Sids : u.chg[t] # Unset}})

Tasks(u) == Deletions(u) \o Additions(u) \o Changes(u)

(* The names of the sections a batch creates: snew[i] gets responses[i].   *)
(* A section that has been removed since the batch was sent is not in the  *)
(* cache any more.                                                         *)
Snew(calls) == SelectSeq(calls, LAMBDA c : c.do = "add")

AssignNames(u, calls, resp) ==
    LET snew == Snew(calls)
        Named(c) == {i \in DOMAIN snew \cap DOMAIN resp : snew[i].sid = c.sid}
    IN  [u EXCEPT !.creates = [i \in DOMAIN u.creates |->
            LET c == u.creates[i]
            IN  IF Named(c) = {} THEN c
                ELSE [c EXCEPT !.name = resp[CHOOSE k \in Named(c) : TRUE]]]]

(* reorderSections(): names of all sections, deleted ones included, by     *)
(* index                                                                   *)
NewOrder(u) ==
    LET all == {<<s, u.idx[s]>> : s \in u.secs}
               \cup {<<u.creates[i].name, u.creates[i].idx>> : i \in DOMAIN u.creates}
        sorted == SetToSortSeq(all, LAMBDA a, b : a[2] < b[2])
    IN  [i \in DOMAIN sorted |-> sorted[i][1]]

MutOrderOnlyAlone(u, calls, resp) ==
    [uci |-> Unload(AssignNames(u, calls, resp)), op |-> [NoOp EXCEPT !.phase = "load"]]

(* What follows once all tasks have been answered *)
AfterTasks(u, calls, resp) ==
    LET n == AssignNames(u, calls, resp)
    IN  IF u.reorder
        THEN [uci |-> [n EXCEPT !.reorder = FALSE],
              op |-> [phase |-> "order", calls |-> <<>>, order |-> NewOrder(n)]]
        ELSE [uci |-> Unload(n), op |-> [NoOp EXCEPT !.phase = "load"]]

(* save() up to its first answer.  Without any task the configuration is   *)
(* loaded again if its order changed or a layer exists for it, be it empty.*)
Save(u) ==
    IF Tasks(u) # <<>>
    THEN [uci |-> u, op |-> [phase |-> "batch", calls |-> Tasks(u), order |-> <<>>]]
    ELSE IF u.reorder \/ u.touched THEN AfterTasks(u, <<>>, <<>>)
    ELSE [uci |-> u, op |-> NoOp]

(* The batch reaches the server, which carries out its first k calls; the  *)
(* answer arrives unless the connection fails.                             *)
BatchDone(k) ==
    LET r == FoldLeft(Serve, [conf |-> srv, resp |-> <<>>, ok |-> TRUE],
                      SubSeq(op.calls, 1, k))
    IN  /\ op.phase = "batch"
        /\ srv' = r.conf
        /\ IF r.ok /\ k = Len(op.calls)
           THEN LET n == AfterTasks(uci, op.calls, r.resp)
                IN  uci' = n.uci /\ op' = n.op /\ UNCHANGED fails
           ELSE op' = NoOp /\ fails' = fails + 1 /\ UNCHANGED uci

(* The same without an answer to the client *)
BatchLost(k) ==
    /\ op.phase = "batch"
    /\ srv' = FoldLeft(Serve, [conf |-> srv, resp |-> <<>>, ok |-> TRUE],
                       SubSeq(op.calls, 1, k)).conf
    /\ op' = NoOp /\ fails' = fails + 1
    /\ UNCHANGED uci

OrderDone ==
    /\ op.phase = "order"
    /\ srv' = ServeOrder(srv, op.order)
    /\ uci' = Unload(uci)
    /\ op' = [NoOp EXCEPT !.phase = "load"]
    /\ UNCHANGED fails

(* The call does not reach the server, or its answer is lost *)
OrderLost ==
    /\ op.phase = "order"
    /\ srv' \in {srv, ServeOrder(srv, op.order)}
    /\ op' = NoOp /\ fails' = fails + 1
    /\ UNCHANGED uci

(* load(packages): values are the answer; a failed request stays cached in *)
(* loaded[] and every later load fails with it.                            *)
LoadDone ==
    /\ op.phase = "load"
    /\ uci' = Fill(uci, srv)
    /\ op' = NoOp
    /\ UNCHANGED <<srv, fails>>

LoadLost ==
    /\ op.phase = "load"
    /\ uci' = [uci EXCEPT !.loaded = "failed"]
    /\ op' = NoOp /\ fails' = fails + 1
    /\ UNCHANGED srv
=============================================================================
