----------------------------- MODULE LuciApply -----------------------------
(***************************************************************************)
(* Application of staged changes with confirmation: the page (ui.changes   *)
(* in ui.js), the controller of the web server (controller/admin/uci.uc,   *)
(* rollback_pending of dispatcher.uc) and the uci object of rpcd, which    *)
(* restores the old configuration unless it is confirmed in time.          *)
(*                                                                         *)
(* Every timer counts the seconds that are left.  The page has at most one *)
(* request outstanding: it may be lost, its answer may be lost or late,    *)
(* and the new configuration may make the device unreachable.              *)
(***************************************************************************)
EXTENDS Integers

CONSTANTS
    Rollback,     \* option luci.apply.rollback
    MinRollback,  \* 90 in header.ut and uci.uc
    Holdoff,      \* option luci.apply.holdoff
    MaxApply,     \* bound on configurations ever applied
    MaxLost       \* bound on requests or answers lost while the device is reachable

ASSUME ApplyAssumption ==
    /\ Rollback \in Nat \ {0} /\ MinRollback \in Nat \ {0}
    /\ Holdoff \in Nat \ {0} /\ MaxApply \in Nat /\ MaxLost \in Nat

VARIABLES
    dev,     \* the device
    page,    \* ui.changes of the page
    req,     \* the request of the page
    lost     \* requests and answers lost

vars == <<dev, page, req, lost>>

Off == -1                                       \* a timer that does not run
NoConfig == -1
Longer(a, b) == IF a > b THEN a ELSE b
ClientRollback == Longer(Rollback, MinRollback) \* L.env.apply_rollback
Waiting == {"confirming", "rollback"}
Final == {"applied", "rolledback", "unreachable", "nochange", "failed", "reverted"}
Kinds == {"apply_rollback", "apply_unchecked", "confirm", "await", "revert"}

Ids == {NoConfig} \cup 0..MaxApply              \* applied configurations, and tokens for them

Device ==
    [run : 0..MaxApply, saved : 0..MaxApply, used : 0..MaxApply,
     staged : BOOLEAN, net : BOOLEAN, shaky : BOOLEAN, timer : Off..ClientRollback,
     token : [id : Ids, left : Off..Rollback]]

Changes ==
    [st : {"idle", "checking", "asking", "starting", "reverting"} \cup Waiting \cup Final,
     checked : BOOLEAN, deadline : 0..ClientRollback, timer : Off..Longer(Holdoff, 1),
     first : BOOLEAN, auth : Ids, target : Ids,
     poll : BOOLEAN, was_polling : BOOLEAN, paused : BOOLEAN, late : BOOLEAN, unheard : BOOLEAN]

Requests ==
    [kind : {"none"} \cup Kinds, st : {"none", "sent", "served"},
     status : {0, 200, 204, 403}, id : Ids]

(* Type invariant. *)
TypeOK == dev \in Device /\ page \in Changes /\ req \in Requests /\ lost \in 0..MaxLost

-----------------------------------------------------------------------------
(* The page *)

(* displayStatus(type, ...): polling stops, and it is remembered that it ran *)
Show(p) == IF p.was_polling THEN p
           ELSE [p EXCEPT !.was_polling = p.poll, !.poll = FALSE]

(* displayStatus(false) *)
Hide(p) == [p EXCEPT !.st = "idle", !.poll = p.poll \/ p.was_polling]

To(p, st) == [Show(p) EXCEPT !.st = st]

(* confirm(checked, deadline, override_token): the first call after the    *)
(* rest of the holdoff time *)
StartConfirm(p, checked, deadline, auth) ==
    [To(p, "confirming") EXCEPT !.checked = checked, !.deadline = deadline, !.auth = auth,
                                !.first = TRUE,
                                !.timer = Longer(Holdoff - (ClientRollback - deadline), 0)]

(* rollback(checked): ask until the device says that nothing is pending *)
StartRollback(p) ==
    IF p.checked THEN [To(p, "rollback") EXCEPT !.timer = 0, !.first = FALSE]
    ELSE [To(p, "unreachable") EXCEPT !.timer = Off]

MutLooksOnlyForAnswer(p, status, delay) ==
    IF status \in {200, 204} THEN [To(p, "applied") EXCEPT !.timer = Off]
    ELSE [p EXCEPT !.first = FALSE, !.timer = delay]

(* call of confirm: the deadline, then the answer, then another request *)
ConfirmCall(p, status, delay) ==
    IF p.deadline = 0 THEN StartRollback(p)
    ELSE IF status \in {200, 204} THEN [To(p, "applied") EXCEPT !.timer = Off]
    ELSE [p EXCEPT !.first = FALSE, !.timer = delay]

MutAsksOnce(p, status, delay) ==
    IF status = 204 THEN [To(p, "rolledback") EXCEPT !.timer = Off]
    ELSE [p EXCEPT !.timer = IF status = 0 THEN Off ELSE delay]

(* call of rollback *)
RollbackCall(p, status, delay) ==
    IF status = 204 THEN [To(p, "rolledback") EXCEPT !.timer = Off]
    ELSE [p EXCEPT !.timer = delay]

(* What the page does with the answer to its apply request *)
ApplyAnswered(p, checked, status, id) ==
    IF status = (IF checked THEN 200 ELSE 204)
    THEN StartConfirm([p EXCEPT !.target = id], checked, ClientRollback,
                      IF checked THEN id ELSE p.auth)
    ELSE IF checked /\ status = 204 THEN To(p, "nochange")
    ELSE To(p, "failed")

Request(kind, st) == [kind |-> kind, st |-> st, status |-> 0, id |-> NoConfig]
NoRequest == Request("none", "none")
Send(kind) == req' = Request(kind, "sent")

(* apply(checked), by the buttons of the page and of its dialogs *)
apply(checked) ==
    /\ page.st \in {"idle"} \cup IF checked THEN {} ELSE {"rolledback"}
    /\ req.st = "none"
    /\ page' = To([page EXCEPT !.late = FALSE, !.unheard = FALSE],
                  IF checked THEN "checking" ELSE "starting")
    /\ IF checked THEN UNCHANGED req ELSE Send("apply_unchecked")
    /\ UNCHANGED <<dev, lost>>

(* checkConnectivityAffected: the script on the device may say that the    *)
(* page's own interface is concerned; a failure counts as "not affected" *)
ConnectivityChecked(affected) ==
    /\ page.st = "checking"
    /\ page' = To(page, IF affected THEN "asking" ELSE "starting")
    /\ IF affected THEN UNCHANGED req ELSE Send("apply_rollback")
    /\ UNCHANGED <<dev, lost>>

(* The dialog "Connectivity change" *)
Choose(kind) ==
    /\ page.st = "asking"
    /\ IF kind = "cancel" THEN page' = Hide(page) /\ UNCHANGED req
       ELSE page' = [page EXCEPT !.st = "starting"] /\ Send(kind)
    /\ UNCHANGED <<dev, lost>>

revert ==
    /\ page.st \in {"idle", "rolledback"} /\ req.st = "none"
    /\ page' = To(page, "reverting") /\ Send("revert")
    /\ UNCHANGED <<dev, lost>>

(* A message about a request that changed nothing disappears after a while; *)
(* "Dismiss" under the message of a rollback *)
Dismiss ==
    /\ page.st \in {"nochange", "failed", "rolledback"}
    /\ page' = Hide(page)
    /\ UNCHANGED <<dev, req, lost>>

(* A timer of confirm or rollback is over *)
PageTimer ==
    /\ page.st \in Waiting /\ page.timer = 0 /\ req.st = "none"
    /\ IF page.first
       THEN page' = ConfirmCall(page, 0, 0) /\ UNCHANGED req
       ELSE /\ page' = [page EXCEPT !.timer = Off]
            /\ Send(IF page.st = "confirming" THEN "confirm" ELSE "await")
    /\ UNCHANGED <<dev, lost>>

-----------------------------------------------------------------------------
(* The device *)

(* The rollback data of the session are missing or out of date *)
NothingPending(d) == d.token.left = Off

(* uci_apply of uci.uc, after rpcd accepted it.  rpcd keeps a copy of the  *)
(* old configuration and of the changes and starts its timer *)
Install(d, rollback) ==
    [d EXCEPT !.saved = d.run, !.run = d.used + 1, !.used = @ + 1,
              !.staged = FALSE, !.shaky = TRUE,
              !.timer = IF rollback THEN ClientRollback ELSE Off,
              !.token = IF rollback THEN [id |-> d.used + 1, left |-> Rollback] ELSE @]

(* The answer to a request and the state of the device after it.  rpcd     *)
(* refuses to apply, commit or revert while a rollback is pending *)
Denied(d, kind) == kind # "confirm" /\ d.timer # Off

Serve ==
    /\ req.st = "sent" /\ dev.net
    /\ LET reply(status, id, d) ==
               /\ req' = [req EXCEPT !.st = "served", !.status = status, !.id = id]
               /\ dev' = d
           auth == IF req.kind = "confirm" THEN page.auth ELSE NoConfig
       IN CASE req.kind = "apply_rollback" ->
                 IF Denied(dev, req.kind) THEN reply(403, NoConfig, dev)
                 ELSE IF ~dev.staged THEN reply(204, NoConfig, dev)
                 ELSE dev.used < MaxApply /\ reply(200, dev.used + 1, Install(dev, TRUE))
            [] req.kind = "apply_unchecked" ->
                 IF Denied(dev, req.kind) THEN reply(403, NoConfig, dev)
                 ELSE IF ~dev.staged THEN reply(204, dev.run, dev)
                 ELSE dev.used < MaxApply /\ reply(204, dev.used + 1, Install(dev, FALSE))
            [] req.kind = "revert" ->
                 IF dev.staged /\ Denied(dev, req.kind) THEN reply(403, NoConfig, dev)
                 ELSE reply(200, NoConfig, [dev EXCEPT !.staged = FALSE])
            [] OTHER ->                         \* action_confirm
                 IF NothingPending(dev) THEN reply(204, NoConfig, dev)
                 ELSE IF auth # dev.token.id THEN reply(403, NoConfig, dev)
                 ELSE IF dev.timer = Off THEN reply(204, NoConfig, dev)
                 ELSE reply(200, NoConfig, [dev EXCEPT !.timer = Off,
                                                       !.token = [id |-> NoConfig, left |-> Off]])
    /\ UNCHANGED <<page, lost>>

(* The timer of rpcd is over: the old configuration and the changes are    *)
(* back, and the device is reachable as it was *)
RpcdRollback ==
    /\ dev.timer = 0
    /\ dev' = [dev EXCEPT !.run = dev.saved, !.staged = TRUE, !.timer = Off,
                          !.net = TRUE, !.shaky = FALSE]
    /\ UNCHANGED <<page, req, lost>>

(* While the services reload, and for as long as the new configuration is  *)
(* wrong, the device cannot be reached *)
NetDown == /\ dev.shaky /\ dev.net
           /\ dev' = [dev EXCEPT !.net = FALSE, !.shaky = FALSE]
           /\ UNCHANGED <<page, req, lost>>

NetUp == /\ ~dev.net /\ dev' = [dev EXCEPT !.net = TRUE] /\ UNCHANGED <<page, req, lost>>

-----------------------------------------------------------------------------
(* Answers, losses and time *)

Status(status, delay, id) ==
    CASE req.kind \in {"apply_rollback", "apply_unchecked"} ->
           ApplyAnswered(page, req.kind = "apply_rollback", status, id)
      [] req.kind = "confirm" -> ConfirmCall(page, status, delay)
      [] req.kind = "await" -> RollbackCall(page, status, delay)
      [] OTHER -> To(page, IF status = 200 THEN "reverted" ELSE "failed")

(* The device took the confirmation.  page.unheard records that the page   *)
(* did not learn of it before its deadline, page.late that the answer to   *)
(* apply_rollback took longer than its second: the properties need both *)
Confirmed == req.kind = "confirm" /\ req.st = "served" /\ req.status = 200

(* The promise of a request hands on the response alone, without the       *)
(* duration that call asks for: the next request follows at once *)
Answer ==
    /\ req.st = "served" /\ dev.net
    /\ page' = [Status(req.status, 0, req.id)
                   EXCEPT !.unheard = @ \/ (Confirmed /\ page.deadline = 0)]
    /\ req' = NoRequest /\ UNCHANGED <<dev, lost>>

(* The request fails: no connection, or no answer within apply_timeout.    *)
(* Only the requests of confirm and rollback handle that: rollback waits a *)
(* second, confirm tries at once *)
Fail ==
    /\ req.st # "none"
    /\ IF dev.net THEN lost < MaxLost /\ lost' = lost + 1 ELSE lost' = lost
    /\ LET p == [page EXCEPT !.unheard = @ \/ Confirmed]
       IN page' = CASE req.kind = "confirm" -> ConfirmCall(p, 0, 0)
                    [] req.kind = "await" -> RollbackCall(p, 0, 1)
                    [] OTHER -> p
    /\ req' = NoRequest /\ UNCHANGED dev

(* A second passes.  rpcd is punctual, the timers of a page may be late *)
Tick ==
    LET down(t) == IF t = Off THEN Off ELSE t - 1
        stop(t) == IF t > 0 THEN t - 1 ELSE t
    IN /\ dev.timer # 0
       /\ dev' = [dev EXCEPT !.timer = down(@), !.token.left = down(@)]
       /\ page' = [page EXCEPT !.deadline = stop(@), !.timer = stop(@),
                               !.late = @ \/ (req.kind = "apply_rollback" /\ req.st = "served")]
       /\ UNCHANGED <<req, lost>>

-----------------------------------------------------------------------------
(* The rest of the page's life *)

Fresh(auth, target) ==
    [st |-> "idle", checked |-> FALSE, deadline |-> 0, timer |-> Off, first |-> FALSE,
     auth |-> auth, target |-> target, poll |-> TRUE, was_polling |-> FALSE, paused |-> FALSE,
     late |-> FALSE, unheard |-> FALSE]

(* The page is loaded: after an apply, or by the user at any time.  The    *)
(* template footer.ut makes it confirm an apply that is still pending *)
Load ==
    /\ dev.net
    /\ page' = IF dev.token.left > 0
               THEN StartConfirm(Fresh(NoConfig, dev.token.id), TRUE, dev.token.left, dev.token.id)
               ELSE Fresh(NoConfig, NoConfig)
    /\ req' = NoRequest /\ UNCHANGED <<dev, lost>>

(* A form is saved *)
Stage ==
    /\ page.st = "idle" /\ ~dev.staged /\ dev.net
    /\ dev' = [dev EXCEPT !.staged = TRUE]
    /\ UNCHANGED <<page, req, lost>>

(* The indicator "Refreshing" *)
ToggleRefresh ==
    /\ page.st = "idle"
    /\ page' = [page EXCEPT !.poll = ~@, !.paused = page.poll]
    /\ UNCHANGED <<dev, req, lost>>

Init ==
    /\ dev = [run |-> 0, saved |-> 0, used |-> 0, staged |-> FALSE, net |-> TRUE,
              shaky |-> FALSE, timer |-> Off, token |-> [id |-> NoConfig, left |-> Off]]
    /\ page = Fresh(NoConfig, NoConfig)
    /\ req = NoRequest /\ lost = 0

Next ==
    \/ \E checked \in BOOLEAN : apply(checked)
    \/ \E affected \in BOOLEAN : ConnectivityChecked(affected)
    \/ \E kind \in {"cancel", "apply_rollback", "apply_unchecked"} : Choose(kind)
    \/ revert \/ Dismiss \/ PageTimer
    \/ Serve \/ RpcdRollback \/ NetDown \/ NetUp
    \/ Answer \/ Fail \/ Tick
    \/ Load \/ Stage \/ ToggleRefresh

(* Time passes, the timers of the browser and of rpcd fire, and a request  *)
(* to a reachable device is served and answered.  A device that lost its   *)
(* network to a wrong configuration comes back only by RpcdRollback *)
Fairness ==
    /\ WF_vars(Tick) /\ WF_vars(RpcdRollback) /\ WF_vars(PageTimer)
    /\ WF_vars(Serve) /\ WF_vars(Answer) /\ WF_vars(Fail /\ ~dev.net)

Spec == Init /\ [][Next]_vars /\ Fairness

-----------------------------------------------------------------------------
(* Properties *)

(* What the page says about a checked apply is so (ui.js, 4553-4571 and    *)
(* 4607-4626, with uci_confirm of uci.uc): after "Configuration changes    *)
(* applied." the new configuration runs and nothing will take it back, and *)
(* after "Configuration changes have been rolled back!" the old one runs   *)
(* and the changes are staged again.  The exceptions are the two races the *)
(* page cannot see: a late answer to the apply request, which moves its    *)
(* deadline behind that of rpcd, and a confirmation that took effect but   *)
(* was not heard of in time. *)
VerdictIsTrue ==
    /\ page.st = "applied" /\ page.checked /\ ~page.late
          => dev.run = page.target /\ dev.timer = Off
    /\ page.st = "rolledback" /\ ~page.unheard
          => dev.run # page.target /\ dev.staged

(* The loops of confirm and rollback (ui.js, 4552-4586 and 4606-4655) end  *)
(* with a verdict, whatever happens to the network: an unconfirmed         *)
(* configuration that cuts the device off is taken back.  Only a           *)
(* configuration that was confirmed, without the page hearing of it, and   *)
(* then cuts the device off for good leaves the page waiting. *)
ApplyEnds ==
    page.st \in Waiting ~> (page.st \notin Waiting \/ [](page.unheard /\ ~dev.net))
=============================================================================
