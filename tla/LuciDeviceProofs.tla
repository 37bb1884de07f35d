--------------------------- MODULE LuciDeviceProofs ---------------------------
(***************************************************************************)
(* Proofs about LuciDevice, for every value of its constants: what the     *)
(* page says after an apply and after an upgrade is so.                    *)
(***************************************************************************)
EXTENDS LuciDevice, Sequences, TLAPS

-----------------------------------------------------------------------------
(* The apply *)

(* What rpcd and the session keep of an apply.  While the timer of rpcd    *)
(* runs, the token is the one of the configuration that runs and expires   *)
(* with it; a token that has expired after its rollback is of another      *)
(* configuration than the one that runs.                                   *)
DeviceInv ==
    /\ dev.run <= dev.used /\ dev.token.id <= dev.used
    /\ dev.timer # Off => /\ dev.run = dev.used /\ dev.saved < dev.used
                          /\ dev.token = [id |-> dev.run, left |-> dev.timer]
    /\ dev.timer = Off /\ dev.token.left # Off =>
          dev.token.left = 0 /\ dev.token.id # dev.run
    /\ dev.token.left # Off => dev.token.id # NoConfig

(* Which request the page may have under way. *)
RequestInv ==
    /\ req.kind = "none" <=> req.st = "none"
    /\ page.st \notin Waiting \cup {"starting", "reverting"} => req.st = "none"
    /\ page.st = "starting" => req.kind \in {"none", "apply_rollback", "apply_unchecked"}
    /\ page.st = "reverting" => req.kind \in {"none", "revert"}
    /\ page.st = "confirming" => req.kind \in {"none", "confirm"}
    /\ page.st = "rollback" => req.kind \in {"none", "await"} /\ ~page.first

(* The three things that can have become of the configuration t. *)
Pending(t)    == dev.timer # Off /\ dev.token.id = t
RolledBack(t) == dev.timer = Off /\ dev.run # t /\ dev.staged
Kept(t)       == dev.timer = Off /\ dev.run = t /\ dev.token.left = Off

(* The device has answered apply_rollback and the page does not know yet. *)
StartingInv ==
    req.kind = "apply_rollback" /\ req.st = "served" /\ req.status = 200 =>
        /\ Pending(req.id) \/ (RolledBack(req.id) /\ page.late)
        /\ ~page.late => dev.timer = ClientRollback

(* The page asks for confirmation.  As long as no answer was late its      *)
(* deadline is not behind that of rpcd, and only a confirmation that it    *)
(* hears of, or missed, ends the timer of rpcd before that.                *)
Confirming ==
    /\ page.auth = page.target
    /\ \/ Pending(page.target) /\ (~page.late => page.deadline <= dev.timer)
       \/ RolledBack(page.target) /\ (page.late \/ page.deadline = 0)
       \/ Kept(page.target) /\ (page.unheard \/ Confirmed)
    /\ req.st = "served" /\ req.status \in {200, 204} => dev.timer = Off

ConfirmInv == page.st = "confirming" /\ page.checked => Confirming

(* The page waits for the rollback, or has seen it. *)
RollbackInv ==
    /\ page.st = "rollback" /\ ~page.unheard => Pending(page.target) \/ RolledBack(page.target)
    /\ page.st = "rollback" /\ req.st = "served" /\ req.status = 204 => dev.timer = Off
    /\ page.st = "rolledback" /\ ~page.unheard => RolledBack(page.target)

AppliedInv ==
    page.st = "applied" /\ page.checked /\ ~page.late =>
        dev.timer = Off /\ dev.run = page.target

ApplyInv ==
    /\ TypeOK /\ DeviceInv /\ RequestInv
    /\ StartingInv /\ ConfirmInv /\ RollbackInv /\ AppliedInv

(* The client's waiting time is a positive number, and rpcd's. *)
LEMMA RollbackTime ==
    /\ ClientRollback \in Nat \ {0} /\ Rollback <= ClientRollback
    /\ MinRollback <= Rollback => ClientRollback = Rollback
BY ApplyAssumption DEF ClientRollback, Longer

(* displayStatus touches only the status and the polling. *)
LEMMA ToEffect ==
    ASSUME NEW p \in Changes,
           NEW st \in {"idle", "checking", "asking", "starting", "reverting"} \cup Waiting \cup Final
    PROVE  /\ To(p, st) \in Changes /\ To(p, st).st = st
           /\ To(p, st).checked = p.checked /\ To(p, st).deadline = p.deadline
           /\ To(p, st).auth = p.auth /\ To(p, st).target = p.target
           /\ To(p, st).late = p.late /\ To(p, st).unheard = p.unheard
BY DEF To, Show, Changes

(* confirm starts the loop of confirmation for a deadline and a token. *)
LEMMA StartConfirmEffect ==
    ASSUME NEW p \in Changes, NEW checked \in BOOLEAN, NEW deadline \in 0..ClientRollback,
           NEW auth \in Ids
    PROVE  LET q == StartConfirm(p, checked, deadline, auth) IN
           /\ q \in Changes /\ q.st = "confirming" /\ q.checked = checked
           /\ q.deadline = deadline /\ q.auth = auth /\ q.target = p.target
           /\ q.late = p.late /\ q.unheard = p.unheard
<1> DEFINE t == To(p, "confirming")
           wait == Longer(Holdoff - (ClientRollback - deadline), 0)
           r(q, w) == [q EXCEPT !.checked = checked, !.deadline = deadline, !.auth = auth,
                                !.first = TRUE, !.timer = w]
<1>1. /\ t \in Changes /\ t.st = "confirming" /\ t.target = p.target
      /\ t.late = p.late /\ t.unheard = p.unheard
  BY ToEffect DEF Waiting
<1>2. wait \in Off..Longer(Holdoff, 1)
  BY RollbackTime, ApplyAssumption DEF Longer, Off
<1>3. StartConfirm(p, checked, deadline, auth) = r(t, wait)
  BY DEF StartConfirm
<1>4. ASSUME NEW q \in Changes, NEW w \in Off..Longer(Holdoff, 1)
      PROVE  /\ r(q, w) \in Changes /\ r(q, w).st = q.st /\ r(q, w).checked = checked
             /\ r(q, w).deadline = deadline /\ r(q, w).auth = auth
             /\ r(q, w).target = q.target
             /\ r(q, w).late = q.late /\ r(q, w).unheard = q.unheard
  BY DEF Changes
<1> HIDE DEF t, wait, r
<1>5. QED
  BY <1>1, <1>2, <1>3, <1>4

(* A call of confirm past the deadline goes over to waiting for the        *)
(* rollback; before it, it takes 200 and 204 for success.                  *)
LEMMA ConfirmCallEffect ==
    ASSUME NEW p \in Changes, p.st = "confirming", NEW status, NEW delay \in {0, 1}
    PROVE  LET q == ConfirmCall(p, status, delay) IN
           /\ q \in Changes /\ q.checked = p.checked /\ q.deadline = p.deadline
           /\ q.auth = p.auth /\ q.target = p.target
           /\ q.late = p.late /\ q.unheard = p.unheard
           /\ \/ q.st = "confirming" /\ p.deadline # 0 /\ status \notin {200, 204}
              \/ q.st = "applied" /\ p.deadline # 0 /\ status \in {200, 204}
              \/ q.st = "rollback" /\ p.deadline = 0 /\ p.checked /\ ~q.first
              \/ q.st = "unreachable" /\ p.deadline = 0 /\ ~p.checked
<1> DEFINE Same(q) == /\ q \in Changes /\ q.checked = p.checked /\ q.deadline = p.deadline
                      /\ q.auth = p.auth /\ q.target = p.target
                      /\ q.late = p.late /\ q.unheard = p.unheard
           stopped(q) == [q EXCEPT !.timer = Off]
           waiting(q) == [q EXCEPT !.timer = 0, !.first = FALSE]
           again(q)   == [q EXCEPT !.first = FALSE, !.timer = delay]
<1>1. 0 \in Off..Longer(Holdoff, 1) /\ 1 \in Off..Longer(Holdoff, 1) /\ Off \in Off..Longer(Holdoff, 1)
  BY ApplyAssumption DEF Longer, Off
<1>2. /\ Same(To(p, "applied")) /\ To(p, "applied").st = "applied"
      /\ Same(To(p, "rollback")) /\ To(p, "rollback").st = "rollback"
      /\ Same(To(p, "unreachable")) /\ To(p, "unreachable").st = "unreachable"
  BY ToEffect DEF Waiting, Final
<1>3. ASSUME NEW q, Same(q)
      PROVE  /\ Same(stopped(q)) /\ stopped(q).st = q.st
             /\ Same(waiting(q)) /\ waiting(q).st = q.st /\ ~waiting(q).first
             /\ Same(again(q)) /\ again(q).st = q.st
  <2>1. q \in Changes /\ delay \in Off..Longer(Holdoff, 1)
    BY <1>1, <1>3
  <2>2. stopped(q) \in Changes /\ waiting(q) \in Changes /\ again(q) \in Changes
    BY <1>1, <2>1 DEF Changes
  <2>3. QED
    BY <1>3, <2>1, <2>2 DEF Changes
<1>4. Same(p)
  OBVIOUS
<1> HIDE DEF Same, stopped, waiting, again
<1>5. CASE p.deadline = 0 /\ p.checked
  <2>1. ConfirmCall(p, status, delay) = waiting(To(p, "rollback"))
    BY <1>5 DEF ConfirmCall, StartRollback, waiting
  <2>2. Same(waiting(To(p, "rollback"))) /\ waiting(To(p, "rollback")).st = "rollback" /\ ~waiting(To(p, "rollback")).first
    BY <1>2, <1>3, <1>4
  <2>3. QED
    BY <1>5, <2>1, <2>2 DEF Same
<1>6. CASE p.deadline = 0 /\ ~p.checked
  <2>1. ConfirmCall(p, status, delay) = stopped(To(p, "unreachable"))
    BY <1>6 DEF ConfirmCall, StartRollback, stopped
  <2>2. Same(stopped(To(p, "unreachable"))) /\ stopped(To(p, "unreachable")).st = "unreachable"
    BY <1>2, <1>3, <1>4
  <2>3. QED
    BY <1>6, <2>1, <2>2 DEF Same
<1>7. CASE p.deadline # 0 /\ status \in {200, 204}
  <2>1. ConfirmCall(p, status, delay) = stopped(To(p, "applied"))
    BY <1>7 DEF ConfirmCall, StartRollback, stopped
  <2>2. Same(stopped(To(p, "applied"))) /\ stopped(To(p, "applied")).st = "applied"
    BY <1>2, <1>3, <1>4
  <2>3. QED
    BY <1>7, <2>1, <2>2 DEF Same
<1>8. CASE p.deadline # 0 /\ status \notin {200, 204}
  <2>1. ConfirmCall(p, status, delay) = again(p)
    BY <1>8 DEF ConfirmCall, StartRollback, again
  <2>2. Same(again(p)) /\ again(p).st = "confirming"
    BY <1>2, <1>3, <1>4
  <2>3. QED
    BY <1>8, <2>1, <2>2 DEF Same
<1>9. p.checked \in BOOLEAN
  BY DEF Changes
<1>10. QED
  BY <1>5, <1>6, <1>7, <1>8, <1>9

(* A call of rollback ends with 204 only. *)
LEMMA RollbackCallEffect ==
    ASSUME NEW p \in Changes, p.st = "rollback", NEW status, NEW delay \in {0, 1}
    PROVE  LET q == RollbackCall(p, status, delay) IN
           /\ q \in Changes /\ q.checked = p.checked /\ q.deadline = p.deadline
           /\ q.auth = p.auth /\ q.target = p.target
           /\ q.late = p.late /\ q.unheard = p.unheard
           /\ q.st = IF status = 204 THEN "rolledback" ELSE "rollback"
           /\ q.st = "rollback" => q.first = p.first
<1>1. delay \in Off..Longer(Holdoff, 1) /\ Off \in Off..Longer(Holdoff, 1)
  BY ApplyAssumption DEF Longer, Off
<1>2. CASE status = 204
  <2> DEFINE t == To(p, "rolledback")
  <2>1. /\ t \in Changes /\ t.st = "rolledback" /\ t.checked = p.checked
        /\ t.deadline = p.deadline /\ t.auth = p.auth /\ t.target = p.target
        /\ t.late = p.late /\ t.unheard = p.unheard
    BY ToEffect DEF Final
  <2> HIDE DEF t
  <2>2. RollbackCall(p, status, delay) = [t EXCEPT !.timer = Off]
    BY <1>2 DEF RollbackCall, t
  <2>3. QED
    BY <1>1, <1>2, <2>1, <2>2 DEF Changes
<1>3. CASE status # 204
  BY <1>1, <1>3 DEF RollbackCall, Changes
<1>4. QED
  BY <1>2, <1>3

-----------------------------------------------------------------------------
(* The requests the page makes are well-formed. *)
LEMMA RequestType ==
    /\ \A kind \in Kinds : /\ Request(kind, "sent") \in Requests
                            /\ Request(kind, "sent").kind = kind
                            /\ Request(kind, "sent").st = "sent"
    /\ NoRequest \in Requests /\ NoRequest.kind = "none" /\ NoRequest.st = "none"
BY DEF Request, NoRequest, Requests, Ids

(* Steps by which the user starts something keep the invariant: the page   *)
(* leaves the states of which the invariant says most.                     *)
LEMMA UserSteps ==
    ASSUME ApplyInv, UNCHANGED <<dev, lost>>, page' \in Changes, req' \in Requests,
           page'.st \in {"idle", "checking", "asking", "starting", "reverting", "nochange",
                         "failed", "reverted"},
           req'.st # "served", req'.kind = "none" <=> req'.st = "none",
           page'.st \notin {"starting", "reverting"} => req'.st = "none",
           page'.st = "starting" => req'.kind \in {"none", "apply_rollback", "apply_unchecked"},
           page'.st = "reverting" => req'.kind \in {"none", "revert"}
    PROVE  ApplyInv'
<1>1. TypeOK'
  BY DEF ApplyInv, TypeOK
<1>2. DeviceInv'
  BY DEF ApplyInv, DeviceInv
<1>3. RequestInv'
  BY DEF RequestInv, Waiting
<1>4. StartingInv' /\ ConfirmInv' /\ RollbackInv' /\ AppliedInv'
  BY DEF StartingInv, ConfirmInv, RollbackInv, AppliedInv
<1>5. QED
  BY <1>1, <1>2, <1>3, <1>4 DEF ApplyInv

(* The buttons of the page and of its dialogs (apply, revert, Dismiss). *)
LEMMA ButtonSteps ==
    ASSUME ApplyInv,
           \/ \E checked \in BOOLEAN : apply(checked)
           \/ \E affected \in BOOLEAN : ConnectivityChecked(affected)
           \/ \E kind \in {"cancel", "apply_rollback", "apply_unchecked"} : Choose(kind)
           \/ revert \/ Dismiss
    PROVE  ApplyInv'
<1> USE RequestType
<1>1. page \in Changes /\ req \in Requests /\ RequestInv
  BY DEF ApplyInv, TypeOK
<1>2. Hide(page) \in Changes /\ Hide(page).st = "idle"
  BY <1>1 DEF Hide, Changes
<1>3. CASE \E checked \in BOOLEAN : apply(checked)
  <2> PICK checked \in BOOLEAN : apply(checked)
    BY <1>3
  <2> DEFINE p == [page EXCEPT !.late = FALSE, !.unheard = FALSE]
             st == IF checked THEN "checking" ELSE "starting"
  <2>1. p \in Changes
    BY <1>1 DEF Changes
  <2> HIDE DEF p
  <2>2. page' = To(p, st) /\ UNCHANGED <<dev, lost>> /\ req.st = "none"
    BY DEF apply, p
  <2>3. page' \in Changes /\ page'.st = st
    BY <2>1, <2>2, ToEffect
  <2>4. IF checked THEN req' = req ELSE req' = Request("apply_unchecked", "sent")
    BY DEF apply, Send
  <2>5. req' \in Requests /\ req'.st # "served" /\ (req'.kind = "none" <=> req'.st = "none")
    BY <1>1, <2>2, <2>4 DEF RequestInv, Kinds
  <2>6. QED
    BY <1>1, <2>2, <2>3, <2>4, <2>5, UserSteps DEF RequestInv, Kinds
<1>4. CASE \E affected \in BOOLEAN : ConnectivityChecked(affected)
  <2> PICK affected \in BOOLEAN : ConnectivityChecked(affected)
    BY <1>4
  <2> DEFINE st == IF affected THEN "asking" ELSE "starting"
  <2>1. page' = To(page, st) /\ UNCHANGED <<dev, lost>> /\ page.st = "checking"
    BY DEF ConnectivityChecked
  <2>2. page' \in Changes /\ page'.st = st
    BY <1>1, <2>1, ToEffect
  <2>3. IF affected THEN req' = req ELSE req' = Request("apply_rollback", "sent")
    BY DEF ConnectivityChecked, Send
  <2>4. req.st = "none"
    BY <1>1, <2>1 DEF RequestInv, Waiting
  <2>5. req' \in Requests /\ req'.st # "served" /\ (req'.kind = "none" <=> req'.st = "none")
    BY <1>1, <2>3, <2>4 DEF RequestInv, Kinds
  <2>6. QED
    BY <1>1, <2>1, <2>2, <2>3, <2>4, <2>5, UserSteps DEF RequestInv, Kinds
<1>5. CASE \E kind \in {"cancel", "apply_rollback", "apply_unchecked"} : Choose(kind)
  <2> PICK kind \in {"cancel", "apply_rollback", "apply_unchecked"} : Choose(kind)
    BY <1>5
  <2>1. req.st = "none" /\ UNCHANGED <<dev, lost>>
    BY <1>1 DEF Choose, RequestInv, Waiting
  <2>2. CASE kind = "cancel"
    BY <1>1, <1>2, <2>1, <2>2, UserSteps DEF Choose, RequestInv
  <2>3. CASE kind # "cancel"
    <3>1. page' \in Changes /\ page'.st = "starting"
      BY <1>1, <2>3 DEF Choose, Changes
    <3>2. req' = Request(kind, "sent")
      BY <2>3 DEF Choose, Send
    <3>3. QED
      BY <2>1, <2>3, <3>1, <3>2, UserSteps DEF Kinds
  <2>4. QED
    BY <2>2, <2>3
<1>6. CASE revert
  <2>1. page' \in Changes /\ page'.st = "reverting" /\ UNCHANGED <<dev, lost>>
    BY <1>1, <1>6, ToEffect DEF revert
  <2>2. req' = Request("revert", "sent")
    BY <1>6 DEF revert, Send
  <2>3. QED
    BY <2>1, <2>2, UserSteps DEF Kinds
<1>7. CASE Dismiss
  BY <1>1, <1>2, <1>7, UserSteps DEF Dismiss, RequestInv, Waiting
<1>8. QED
  BY <1>3, <1>4, <1>5, <1>6, <1>7

(* The page's own timers (confirm and rollback): the deadline has passed,  *)
(* or another request goes out.                                            *)
LEMMA TimerStep ==
    ASSUME ApplyInv, PageTimer
    PROVE  ApplyInv'
<1>1. /\ page \in Changes /\ dev \in Device /\ req \in Requests
      /\ page.st \in Waiting /\ req.st = "none" /\ req.kind = "none"
      /\ UNCHANGED <<dev, lost>>
  BY DEF ApplyInv, TypeOK, PageTimer, RequestInv
<1>2. DeviceInv' /\ DeviceInv
  BY <1>1 DEF ApplyInv, DeviceInv
<1>3. CASE page.first
  <2>1. page.st = "confirming"
    BY <1>1, <1>3 DEF ApplyInv, RequestInv, Waiting
  <2> DEFINE q == ConfirmCall(page, 0, 0)
  <2>2. page' = q /\ req' = req
    BY <1>3 DEF PageTimer
  <2>3. /\ q \in Changes /\ q.checked = page.checked /\ q.deadline = page.deadline
        /\ q.auth = page.auth /\ q.target = page.target
        /\ q.late = page.late /\ q.unheard = page.unheard
        /\ \/ q.st = "confirming"
           \/ q.st = "rollback" /\ page.deadline = 0 /\ page.checked /\ ~q.first
           \/ q.st = "unreachable"
    BY <1>1, <2>1, ConfirmCallEffect
  <2> HIDE DEF q
  <2>4. TypeOK' /\ RequestInv'
    BY <1>1, <2>2, <2>3 DEF ApplyInv, TypeOK, RequestInv, Waiting
  <2>5. StartingInv' /\ AppliedInv'
    BY <1>1, <2>2, <2>3 DEF StartingInv, AppliedInv
  <2>6. ConfirmInv' /\ RollbackInv'
    BY <1>1, <2>1, <2>2, <2>3
       DEF ApplyInv, ConfirmInv, Confirming, RollbackInv, Pending, RolledBack, Kept, Confirmed
  <2>7. QED
    BY <1>2, <2>4, <2>5, <2>6 DEF ApplyInv
<1>4. CASE ~page.first
  <2> DEFINE kind == IF page.st = "confirming" THEN "confirm" ELSE "await"
  <2>1. page' = [page EXCEPT !.timer = Off] /\ req' = Request(kind, "sent")
    BY <1>4 DEF PageTimer, Send
  <2>2. req' \in Requests /\ req'.kind = kind /\ req'.st = "sent"
    BY <2>1, RequestType DEF Kinds
  <2>3. /\ page' \in Changes /\ page'.st = page.st /\ page'.checked = page.checked
        /\ page'.deadline = page.deadline
        /\ page'.auth = page.auth /\ page'.target = page.target
        /\ page'.late = page.late /\ page'.unheard = page.unheard /\ page'.first = page.first
    <3>1. Off \in Off..Longer(Holdoff, 1)
      BY ApplyAssumption DEF Longer, Off
    <3>2. QED
      BY <1>1, <2>1, <3>1 DEF Changes
  <2>4. TypeOK' /\ RequestInv'
    BY <1>1, <1>4, <2>2, <2>3 DEF ApplyInv, TypeOK, RequestInv, Waiting
  <2>5. StartingInv' /\ AppliedInv'
    BY <1>1, <2>2, <2>3 DEF StartingInv, AppliedInv, Waiting
  <2>6. ConfirmInv' /\ RollbackInv'
    BY <1>1, <2>2, <2>3
       DEF ApplyInv, ConfirmInv, Confirming, RollbackInv, Pending, RolledBack, Kept, Confirmed, Waiting
  <2>7. QED
    BY <1>2, <2>4, <2>5, <2>6 DEF ApplyInv
<1>5. QED
  BY <1>1, <1>3, <1>4 DEF Changes

(* Steps of the surroundings that touch none of what the invariant speaks  *)
(* of: the network, a form that is saved, the indicator of polling.        *)
LEMMA OtherSteps ==
    ASSUME ApplyInv, NetDown \/ NetUp \/ Stage \/ ToggleRefresh
    PROVE  ApplyInv'
<1>1. page \in Changes /\ dev \in Device /\ req \in Requests
  BY DEF ApplyInv, TypeOK
<1>2. /\ dev' \in Device /\ page' \in Changes /\ UNCHANGED <<req, lost>>
      /\ dev'.run = dev.run /\ dev'.saved = dev.saved /\ dev'.used = dev.used
      /\ dev'.timer = dev.timer /\ dev'.token = dev.token
      /\ dev.staged => dev'.staged
      /\ page'.st = page.st /\ page'.checked = page.checked
      /\ page'.deadline = page.deadline
      /\ page'.auth = page.auth /\ page'.target = page.target
      /\ page'.late = page.late /\ page'.unheard = page.unheard /\ page'.first = page.first
  <2>1. CASE NetDown
    BY <1>1, <2>1 DEF NetDown, Device
  <2>2. CASE NetUp
    BY <1>1, <2>2 DEF NetUp, Device
  <2>3. CASE Stage
    BY <1>1, <2>3 DEF Stage, Device
  <2>4. CASE ToggleRefresh
    BY <1>1, <2>4 DEF ToggleRefresh, Changes
  <2>5. QED
    BY <2>1, <2>2, <2>3, <2>4
<1>3. TypeOK' /\ DeviceInv' /\ RequestInv'
  BY <1>1, <1>2 DEF ApplyInv, TypeOK, DeviceInv, RequestInv
<1>4. StartingInv' /\ ConfirmInv' /\ RollbackInv' /\ AppliedInv'
  BY <1>1, <1>2 DEF ApplyInv, StartingInv, ConfirmInv, Confirming, RollbackInv, AppliedInv,
                    Pending, RolledBack, Kept, Confirmed
<1>5. QED
  BY <1>3, <1>4 DEF ApplyInv

(* The timer of rpcd runs off (RpcdRollback): by then the deadline of the  *)
(* page has passed too, unless an answer was late.                         *)
LEMMA RollbackStep ==
    ASSUME ApplyInv, RpcdRollback
    PROVE  ApplyInv'
<1>1. page \in Changes /\ dev \in Device /\ req \in Requests /\ DeviceInv
  BY DEF ApplyInv, TypeOK
<1>2. /\ dev.timer = 0 /\ UNCHANGED <<page, req, lost>>
      /\ dev' \in Device /\ dev'.run = dev.saved /\ dev'.staged = TRUE /\ dev'.timer = Off
      /\ dev'.saved = dev.saved /\ dev'.used = dev.used /\ dev'.token = dev.token
  <2>1. Off \in Off..ClientRollback
    BY RollbackTime DEF Off
  <2>2. QED
    BY <1>1, <2>1 DEF RpcdRollback, Device
<1>3. /\ dev.run = dev.used /\ dev.saved < dev.used /\ dev.token.id = dev.run
      /\ dev.token.left = 0
  BY <1>1, <1>2 DEF DeviceInv, Off
<1>4. dev.run \in Int /\ dev.saved \in Int /\ dev.used \in Int /\ page.deadline \in Nat
  BY <1>1, RollbackTime DEF Device, Changes
<1>5. TypeOK' /\ DeviceInv' /\ RequestInv'
  BY <1>1, <1>2, <1>3, <1>4 DEF ApplyInv, TypeOK, DeviceInv, RequestInv
<1>6. StartingInv'
  BY <1>2, <1>3, <1>4, RollbackTime DEF ApplyInv, StartingInv, Pending, RolledBack, Off
<1>7. ConfirmInv' /\ RollbackInv' /\ AppliedInv'
  BY <1>2, <1>3, <1>4
     DEF ApplyInv, ConfirmInv, Confirming, RollbackInv, AppliedInv, Pending, RolledBack, Kept, Confirmed, Off
<1>8. QED
  BY <1>5, <1>6, <1>7 DEF ApplyInv

(* A second passes (Tick): the timers of rpcd and of the page go down      *)
(* together.                                                               *)
LEMMA TickStep ==
    ASSUME MinRollback <= Rollback, ApplyInv, Tick
    PROVE  ApplyInv'
<1>1. page \in Changes /\ dev \in Device /\ req \in Requests /\ DeviceInv
  BY DEF ApplyInv, TypeOK
<1> DEFINE down(t) == IF t = Off THEN Off ELSE t - 1
           stop(t) == IF t > 0 THEN t - 1 ELSE t
<1>2. /\ dev.timer # 0
      /\ dev' = [dev EXCEPT !.timer = down(@), !.token.left = down(@)]
      /\ page' = [page EXCEPT !.deadline = stop(@), !.timer = stop(@),
                   !.late = @ \/ (req.kind = "apply_rollback" /\ req.st = "served")]
      /\ UNCHANGED <<req, lost>>
  BY DEF Tick
<1>3. /\ dev.timer \in Off..ClientRollback /\ dev.token.left \in Off..Rollback
      /\ page.deadline \in 0..ClientRollback /\ page.timer \in Off..Longer(Holdoff, 1)
      /\ dev.token \in [id : Ids, left : Off..Rollback]
      /\ dev.run \in Int /\ dev.saved \in Int /\ dev.used \in Int
  BY <1>1 DEF Device, Changes
<1>4. /\ dev'.run = dev.run /\ dev'.saved = dev.saved /\ dev'.used = dev.used
      /\ dev'.staged = dev.staged /\ dev'.timer = down(dev.timer)
      /\ dev'.token = [dev.token EXCEPT !.left = down(@)]
      /\ down(dev.timer) \in Off..ClientRollback /\ down(dev.token.left) \in Off..Rollback
  BY <1>1, <1>2, <1>3, RollbackTime, ApplyAssumption DEF Device, Off
<1>5. dev' \in Device
  BY <1>1, <1>2, <1>4 DEF Device
<1>6. /\ page' \in Changes /\ page'.st = page.st /\ page'.checked = page.checked
      /\ page'.deadline = stop(page.deadline) /\ page'.first = page.first
      /\ page'.auth = page.auth /\ page'.target = page.target /\ page'.unheard = page.unheard
      /\ page'.late = (page.late \/ (req.kind = "apply_rollback" /\ req.st = "served"))
  <2>1. stop(page.deadline) \in 0..ClientRollback /\ stop(page.timer) \in Off..Longer(Holdoff, 1)
    BY <1>3, RollbackTime, ApplyAssumption DEF Off, Longer
  <2>2. QED
    BY <1>1, <1>2, <2>1 DEF Changes
<1>7. /\ req' \in Requests /\ req'.kind = req.kind /\ req'.st = req.st
      /\ req'.status = req.status /\ req'.id = req.id
  BY <1>1, <1>2
<1>8. /\ dev'.token.id = dev.token.id /\ dev'.token.left = down(dev.token.left)
  BY <1>3, <1>4
<1>9. TypeOK'
  BY <1>2, <1>5, <1>6, <1>7 DEF ApplyInv, TypeOK
<1>10. RequestInv'
  BY <1>6, <1>7 DEF ApplyInv, RequestInv
<1>11. DeviceInv'
  BY <1>1, <1>2, <1>3, <1>4, <1>8 DEF DeviceInv, Off
<1>12. dev.timer = Off <=> dev'.timer = Off
  BY <1>2, <1>3, <1>4 DEF Off
<1>13. StartingInv'
  BY <1>4, <1>6, <1>7, <1>8, <1>12 DEF ApplyInv, StartingInv, Pending, RolledBack
<1>14. ConfirmInv'
  <2> SUFFICES ASSUME page'.st = "confirming", page'.checked
               PROVE  Confirming'
    BY DEF ConfirmInv
  <2>1. page.st = "confirming" /\ page.checked /\ req.kind \in {"none", "confirm"}
    BY <1>6 DEF ApplyInv, RequestInv
  <2>2. page'.late = page.late
    BY <1>1, <1>6, <2>1 DEF Changes
  <2>3. Confirmed' <=> Confirmed
    BY <1>7 DEF Confirmed
  <2>4. dev.timer # Off /\ page.deadline <= dev.timer => page'.deadline <= dev'.timer
    BY <1>2, <1>3, <1>4, <1>6 DEF Off
  <2>5. page.deadline = 0 => page'.deadline = 0
    BY <1>6
  <2>6. dev.token.left = Off => dev'.token.left = Off
    BY <1>8
  <2>7. QED
    BY <1>4, <1>6, <1>7, <1>8, <1>12, <2>1, <2>2, <2>3, <2>4, <2>5, <2>6
       DEF ApplyInv, ConfirmInv, Confirming, Pending, RolledBack, Kept
<1>15. RollbackInv' /\ AppliedInv'
  BY <1>4, <1>6, <1>7, <1>8, <1>12 DEF ApplyInv, RollbackInv, AppliedInv, Pending, RolledBack
<1>16. QED
  BY <1>9, <1>10, <1>11, <1>13, <1>14, <1>15 DEF ApplyInv

(* The page is loaded (footer.ut): it confirms what is pending, with the   *)
(* time rpcd has left, or starts afresh.                                   *)
LEMMA LoadStep ==
    ASSUME MinRollback <= Rollback, ApplyInv, Load
    PROVE  ApplyInv'
<1>1. page \in Changes /\ dev \in Device /\ req \in Requests /\ DeviceInv
  BY DEF ApplyInv, TypeOK
<1>2. /\ dev.token.id \in Ids /\ dev.token.left \in Off..Rollback
      /\ dev.timer \in Off..ClientRollback
  BY <1>1 DEF Device
<1>3. UNCHANGED <<dev, lost>> /\ req' = NoRequest
  BY DEF Load
<1>4. req' \in Requests /\ req'.st = "none" /\ req'.kind = "none"
  BY <1>3, RequestType
<1>5. \A id \in Ids : /\ Fresh(NoConfig, id) \in Changes /\ Fresh(NoConfig, id).st = "idle"
                      /\ Fresh(NoConfig, id).target = id /\ ~Fresh(NoConfig, id).late
                      /\ ~Fresh(NoConfig, id).unheard
  <2>1. Off \in Off..Longer(Holdoff, 1) /\ 0 \in 0..ClientRollback /\ NoConfig \in Ids
    BY ApplyAssumption, RollbackTime DEF Longer, Off, Ids
  <2> TAKE id \in Ids
  <2> DEFINE f == Fresh(NoConfig, id)
  <2>2. f.st = "idle" /\ f.target = id /\ ~f.late /\ ~f.unheard
    BY DEF Fresh
  <2>3. f \in Changes
    BY <2>1 DEF Fresh, Changes
  <2>4. QED
    BY <2>2, <2>3
<1>6. CASE dev.token.left > 0
  <2> DEFINE f == Fresh(NoConfig, dev.token.id)
             q == StartConfirm(f, TRUE, dev.token.left, dev.token.id)
  <2>1. page' = q
    BY <1>6 DEF Load
  <2>2. dev.token.left \in 0..ClientRollback
    BY <1>2, <1>6, RollbackTime, ApplyAssumption
  <2>3. f \in Changes /\ f.target = dev.token.id /\ ~f.late /\ ~f.unheard
    BY <1>2, <1>5
  <2> HIDE DEF f
  <2>4. /\ q \in Changes /\ q.st = "confirming" /\ q.checked = TRUE
        /\ q.deadline = dev.token.left /\ q.auth = dev.token.id /\ q.target = dev.token.id
        /\ ~q.late /\ ~q.unheard
    <3>1. /\ q \in Changes /\ q.st = "confirming" /\ q.checked = TRUE
          /\ q.deadline = dev.token.left /\ q.auth = dev.token.id /\ q.target = f.target
          /\ q.late = f.late /\ q.unheard = f.unheard
      <4>1. \A c \in BOOLEAN, d \in 0..ClientRollback, a \in Ids :
              LET r == StartConfirm(f, c, d, a) IN
              /\ r \in Changes /\ r.st = "confirming" /\ r.checked = c
              /\ r.deadline = d /\ r.auth = a /\ r.target = f.target
              /\ r.late = f.late /\ r.unheard = f.unheard
        BY <2>3, StartConfirmEffect
      <4>2. TRUE \in BOOLEAN /\ dev.token.left \in 0..ClientRollback /\ dev.token.id \in Ids
        BY <1>2, <2>2
      <4>3. QED
        BY <4>1, <4>2, ZenonT(40)
    <3>2. QED
      BY <2>3, <3>1
  <2> HIDE DEF q
  <2>5. dev.timer # Off /\ dev.token.left = dev.timer
    BY <1>1, <1>2, <1>6 DEF DeviceInv, Off
  <2>6. TypeOK' /\ DeviceInv' /\ RequestInv'
    BY <1>1, <1>3, <1>4, <2>1, <2>4 DEF ApplyInv, TypeOK, DeviceInv, RequestInv, Waiting
  <2>7. StartingInv' /\ RollbackInv' /\ AppliedInv'
    BY <1>4, <2>1, <2>4 DEF StartingInv, RollbackInv, AppliedInv
  <2>8. ConfirmInv'
    BY <1>2, <1>3, <1>4, <2>1, <2>4, <2>5 DEF ConfirmInv, Confirming, Pending, Off
  <2>9. QED
    BY <2>6, <2>7, <2>8 DEF ApplyInv
<1>7. CASE ~(dev.token.left > 0)
  <2>1. page' = Fresh(NoConfig, NoConfig)
    BY <1>7 DEF Load
  <2>2. page' \in Changes /\ page'.st = "idle"
    BY <1>5, <2>1 DEF Ids
  <2>3. QED
    BY <1>3, <1>4, <2>2, UserSteps
<1>8. QED
  BY <1>6, <1>7

(* The page and its request after an answer to confirm or await, or after  *)
(* its loss: missed says that a confirmation took effect unheard.          *)
LEMMA VerdictSteps ==
    ASSUME ApplyInv, UNCHANGED dev, lost' \in 0..MaxLost, req' = NoRequest,
           page.st \in Waiting,
           NEW status \in {0, 200, 204, 403}, NEW q,
           \/ page.st = "confirming" /\ \E p \in Changes, delay \in {0, 1} :
                 /\ p.st = "confirming" /\ q = ConfirmCall(p, status, delay)
                 /\ p.checked = page.checked /\ p.deadline = page.deadline
                 /\ p.auth = page.auth /\ p.target = page.target
                 /\ p.late = page.late
           \/ page.st = "rollback" /\ \E p \in Changes, delay \in {0, 1} :
                 /\ p.st = "rollback" /\ q = RollbackCall(p, status, delay)
                 /\ p.checked = page.checked /\ p.deadline = page.deadline
                 /\ p.auth = page.auth /\ p.target = page.target
                 /\ p.late = page.late /\ ~p.first,
           page' \in Changes, page'.st = q.st, page'.checked = q.checked,
           page'.deadline = q.deadline, page'.first = q.first,
           page'.auth = q.auth, page'.target = q.target, page'.late = q.late,
           page.unheard => page'.unheard,
           Confirmed /\ q.st # "applied" => page'.unheard,
           status # 0 => req.st = "served" /\ req.status = status
    PROVE  ApplyInv'
<1>1. page \in Changes /\ dev \in Device /\ req \in Requests /\ DeviceInv
  BY DEF ApplyInv, TypeOK
<1>2. req' \in Requests /\ req'.st = "none" /\ req'.kind = "none"
  BY RequestType
<1>3. TypeOK' /\ DeviceInv' /\ StartingInv'
  BY <1>1, <1>2 DEF TypeOK, DeviceInv, StartingInv
<1>4. CASE page.st = "confirming"
  <2>1. /\ q.checked = page.checked /\ q.deadline = page.deadline
        /\ q.auth = page.auth /\ q.target = page.target /\ q.late = page.late
        /\ \/ q.st = "confirming" /\ page.deadline # 0 /\ status \notin {200, 204}
           \/ q.st = "applied" /\ page.deadline # 0 /\ status \in {200, 204}
           \/ q.st = "rollback" /\ page.deadline = 0 /\ page.checked /\ ~q.first
           \/ q.st = "unreachable" /\ page.deadline = 0 /\ ~page.checked
    <3> PICK p \in Changes, delay \in {0, 1} :
                 /\ p.st = "confirming" /\ q = ConfirmCall(p, status, delay)
                 /\ p.checked = page.checked /\ p.deadline = page.deadline
                 /\ p.auth = page.auth /\ p.target = page.target
                 /\ p.late = page.late
      BY <1>4
    <3> QED
      BY ConfirmCallEffect
  <2>2. RequestInv'
    BY <1>2, <2>1 DEF RequestInv, Waiting
  <2>3. page.checked => Confirming
    BY <1>4 DEF ApplyInv, ConfirmInv
  <2>4. ConfirmInv' /\ RollbackInv'
    BY <1>2, <2>1, <2>3
       DEF ConfirmInv, Confirming, RollbackInv, Pending, RolledBack, Kept
  <2>5. AppliedInv'
    BY <1>1, <2>1, <2>3 DEF AppliedInv, Confirming, Pending, RolledBack, Kept
  <2>6. QED
    BY <1>3, <2>2, <2>4, <2>5 DEF ApplyInv
<1>5. CASE page.st = "rollback"
  <2>1. /\ q.target = page.target /\ q.st = IF status = 204 THEN "rolledback" ELSE "rollback"
        /\ q.st = "rollback" => ~q.first
    <3> PICK p \in Changes, delay \in {0, 1} :
                 /\ p.st = "rollback" /\ q = RollbackCall(p, status, delay)
                 /\ p.checked = page.checked /\ p.deadline = page.deadline
                 /\ p.auth = page.auth /\ p.target = page.target
                 /\ p.late = page.late /\ ~p.first
      BY <1>5
    <3> QED
      BY RollbackCallEffect
  <2>2. RequestInv' /\ ConfirmInv' /\ AppliedInv'
    BY <1>2, <2>1 DEF RequestInv, ConfirmInv, AppliedInv, Waiting
  <2>3. RollbackInv'
    BY <1>2, <1>5, <2>1 DEF ApplyInv, RollbackInv, Pending, RolledBack
  <2>4. QED
    BY <1>3, <2>2, <2>3 DEF ApplyInv
<1>6. QED
  BY <1>4, <1>5 DEF Waiting

(* Which state of the page a request under way belongs to. *)
LEMMA RequestState ==
    ASSUME ApplyInv, req.st # "none"
    PROVE  /\ req.kind \in Kinds
           /\ req.kind = "confirm" => page.st = "confirming"
           /\ req.kind = "await" => page.st = "rollback" /\ ~page.first
           /\ req.kind \in {"apply_rollback", "apply_unchecked"} => page.st = "starting"
           /\ req.kind = "revert" => page.st = "reverting"
<1>1. page \in Changes /\ req \in Requests /\ RequestInv
  BY DEF ApplyInv, TypeOK
<1>2. req.kind \in Kinds
  BY <1>1 DEF Requests, RequestInv
<1>3. page.st \in Waiting \cup {"starting", "reverting"}
  BY <1>1 DEF RequestInv
<1>4. QED
  BY <1>1, <1>2, <1>3 DEF RequestInv, Waiting, Kinds

(* A request fails or its answer is lost (Fail). *)
LEMMA FailStep ==
    ASSUME ApplyInv, Fail
    PROVE  ApplyInv'
<1>1. page \in Changes /\ dev \in Device /\ req \in Requests /\ RequestInv /\ lost \in 0..MaxLost
  BY DEF ApplyInv, TypeOK
<1> DEFINE p == [page EXCEPT !.unheard = @ \/ Confirmed]
<1>2. /\ req.st # "none" /\ UNCHANGED dev /\ req' = NoRequest
      /\ req.kind = "confirm" => page' = ConfirmCall(p, 0, 0)
      /\ req.kind = "await" => page' = RollbackCall(p, 0, 1)
      /\ req.kind \notin {"confirm", "await"} => page' = p
  BY DEF Fail
<1>3. lost' \in 0..MaxLost
  BY <1>1, ApplyAssumption DEF Fail
<1>4. /\ p \in Changes /\ p.st = page.st /\ p.checked = page.checked
      /\ p.deadline = page.deadline /\ p.auth = page.auth /\ p.target = page.target
      /\ p.late = page.late /\ p.first = page.first
      /\ p.unheard = (page.unheard \/ Confirmed)
  BY <1>1 DEF Changes, Confirmed
<1> HIDE DEF p
<1>5. CASE req.kind = "confirm"
  <2>1. page.st = "confirming" /\ page' = ConfirmCall(p, 0, 0)
    BY <1>2, <1>5, RequestState
  <2>2. page' \in Changes /\ page'.unheard = p.unheard
    BY <1>4, <2>1, ConfirmCallEffect
  <2>3. page.st \in Waiting
    BY <2>1 DEF Waiting
  <2>4. \E r \in Changes, delay \in {0, 1} :
           /\ r.st = "confirming" /\ page' = ConfirmCall(r, 0, delay)
           /\ r.checked = page.checked /\ r.deadline = page.deadline
           /\ r.auth = page.auth /\ r.target = page.target /\ r.late = page.late
    BY <1>4, <2>1
  <2>5. (page.unheard => page'.unheard) /\ (Confirmed => page'.unheard)
    BY <1>4, <2>2
  <2>6. QED
    BY <1>2, <1>3, <2>1, <2>2, <2>3, <2>4, <2>5, VerdictSteps
<1>6. CASE req.kind = "await"
  <2>1. page.st = "rollback" /\ ~page.first /\ page' = RollbackCall(p, 0, 1)
    BY <1>2, <1>6, RequestState
  <2>2. page' \in Changes /\ page'.unheard = p.unheard
    BY <1>4, <2>1, RollbackCallEffect
  <2>3. page.st \in Waiting
    BY <2>1 DEF Waiting
  <2>4. QED
    BY <1>2, <1>3, <1>4, <2>1, <2>2, <2>3, VerdictSteps
<1>7. CASE req.kind \notin {"confirm", "await"}
  <2>1. page' = p /\ page.st \in {"starting", "reverting"}
    BY <1>2, <1>7, RequestState DEF Kinds
  <2>2. req' \in Requests /\ req'.st = "none" /\ req'.kind = "none"
    BY <1>2, RequestType
  <2>3. TypeOK'
    BY <1>1, <1>2, <1>3, <1>4, <2>1, <2>2 DEF TypeOK
  <2>4. DeviceInv' /\ RequestInv'
    BY <1>1, <1>2, <1>4, <2>1, <2>2 DEF ApplyInv, DeviceInv, RequestInv, Waiting
  <2>5. StartingInv' /\ ConfirmInv' /\ RollbackInv' /\ AppliedInv'
    BY <1>4, <2>1, <2>2 DEF StartingInv, ConfirmInv, RollbackInv, AppliedInv
  <2>6. QED
    BY <2>3, <2>4, <2>5 DEF ApplyInv
<1>8. QED
  BY <1>5, <1>6, <1>7

(* The page gets the answer to its request (Answer). *)
LEMMA AnswerStep ==
    ASSUME ApplyInv, Answer
    PROVE  ApplyInv'
<1>1. page \in Changes /\ dev \in Device /\ req \in Requests /\ RequestInv /\ lost \in 0..MaxLost
  BY DEF ApplyInv, TypeOK
<1> DEFINE delay == 0
           s == Status(req.status, delay, req.id)
           missed(q) == [q EXCEPT !.unheard = @ \/ (Confirmed /\ page.deadline = 0)]
<1>2. /\ req.st = "served" /\ UNCHANGED <<dev, lost>> /\ req' = NoRequest /\ page' = missed(s)
  BY DEF Answer
<1>3. delay \in {0, 1} /\ req.status \in {0, 200, 204, 403} /\ req.id \in Ids
  BY <1>1 DEF Requests
<1>4. ASSUME NEW q \in Changes
      PROVE  /\ missed(q) \in Changes /\ missed(q).st = q.st /\ missed(q).checked = q.checked
             /\ missed(q).deadline = q.deadline /\ missed(q).auth = q.auth
             /\ missed(q).target = q.target /\ missed(q).late = q.late
             /\ missed(q).first = q.first
             /\ missed(q).unheard = (q.unheard \/ (Confirmed /\ page.deadline = 0))
  BY DEF Changes, Confirmed
<1>5. req' \in Requests /\ req'.st = "none" /\ req'.kind = "none"
  BY <1>2, RequestType
<1>6. req.kind = "confirm" => s = ConfirmCall(page, req.status, delay)
  BY DEF Status
<1>7. req.kind = "await" => s = RollbackCall(page, req.status, delay)
  BY DEF Status
<1>8. req.kind \in {"apply_rollback", "apply_unchecked"} =>
         s = ApplyAnswered(page, req.kind = "apply_rollback", req.status, req.id)
  BY DEF Status
<1>9. req.kind = "revert" => s = To(page, IF req.status = 200 THEN "reverted" ELSE "failed")
  BY DEF Status
<1> HIDE DEF delay, s, missed
<1>10. CASE req.kind = "confirm"
  <2>1. page.st = "confirming" /\ s = ConfirmCall(page, req.status, delay)
    BY <1>2, <1>6, <1>10, RequestState
  <2>2. /\ s \in Changes /\ s.unheard = page.unheard
        /\ s.st # "applied" /\ Confirmed => page.deadline = 0
    BY <1>1, <1>3, <2>1, ConfirmCallEffect DEF Confirmed
  <2>3. page.st \in Waiting
    BY <2>1 DEF Waiting
  <2>4. \E r \in Changes, d \in {0, 1} :
           /\ r.st = "confirming" /\ s = ConfirmCall(r, req.status, d)
           /\ r.checked = page.checked /\ r.deadline = page.deadline
           /\ r.auth = page.auth /\ r.target = page.target /\ r.late = page.late
    BY <1>1, <1>3, <2>1
  <2>5. /\ page' \in Changes /\ page'.st = s.st /\ page'.checked = s.checked
        /\ page'.deadline = s.deadline /\ page'.first = s.first
        /\ page'.auth = s.auth /\ page'.target = s.target /\ page'.late = s.late
        /\ page'.unheard = (s.unheard \/ (Confirmed /\ page.deadline = 0))
    BY <1>2, <1>4, <2>2
  <2>6. (page.unheard => page'.unheard) /\ (Confirmed /\ s.st # "applied" => page'.unheard)
    BY <2>2, <2>5
  <2>7. QED
    BY <1>1, <1>2, <1>3, <2>1, <2>3, <2>4, <2>5, <2>6, VerdictSteps
<1>11. CASE req.kind = "await"
  <2>1. page.st = "rollback" /\ ~page.first /\ s = RollbackCall(page, req.status, delay)
    BY <1>2, <1>7, <1>11, RequestState
  <2>2. s \in Changes /\ s.unheard = page.unheard
    BY <1>1, <1>3, <2>1, RollbackCallEffect
  <2>3. page.st \in Waiting /\ ~Confirmed
    BY <1>11, <2>1 DEF Waiting, Confirmed
  <2>4. \E r \in Changes, d \in {0, 1} :
           /\ r.st = "rollback" /\ s = RollbackCall(r, req.status, d)
           /\ r.checked = page.checked /\ r.deadline = page.deadline
           /\ r.auth = page.auth /\ r.target = page.target /\ r.late = page.late /\ ~r.first
    BY <1>1, <1>3, <2>1
  <2>5. /\ page' \in Changes /\ page'.st = s.st /\ page'.checked = s.checked
        /\ page'.deadline = s.deadline /\ page'.first = s.first
        /\ page'.auth = s.auth /\ page'.target = s.target /\ page'.late = s.late
        /\ page'.unheard = (s.unheard \/ (Confirmed /\ page.deadline = 0))
    BY <1>2, <1>4, <2>2
  <2>6. page.unheard => page'.unheard
    BY <2>2, <2>5
  <2>7. QED
    BY <1>1, <1>2, <1>3, <2>1, <2>3, <2>4, <2>5, <2>6, VerdictSteps
<1>12. CASE req.kind = "revert"
  <2>1. s \in Changes /\ s.st \in {"reverted", "failed"}
    BY <1>1, <1>9, <1>12, ToEffect DEF Final
  <2>2. QED
    BY <1>2, <1>4, <1>5, <2>1, UserSteps
<1>13. CASE req.kind \in {"apply_rollback", "apply_unchecked"}
  <2> DEFINE checked == req.kind = "apply_rollback"
             t == [page EXCEPT !.target = req.id]
             auth == IF checked THEN req.id ELSE page.auth
  <2>1. s = ApplyAnswered(page, checked, req.status, req.id) /\ page.st = "starting"
    BY <1>2, <1>8, <1>13, RequestState
  <2>2. checked \in BOOLEAN /\ auth \in Ids
    BY <1>1, <1>3 DEF Changes
  <2>3. t \in Changes /\ t.target = req.id /\ t.late = page.late /\ t.unheard = page.unheard
    BY <1>1, <1>3 DEF Changes
  <2>4. ~Confirmed
    BY <1>13 DEF Confirmed
  <2> HIDE DEF t, auth
  <2>5. CASE req.status = (IF checked THEN 200 ELSE 204)
    <3> HIDE DEF checked
    <3>1. s = StartConfirm(t, checked, ClientRollback, auth)
      BY <2>1, <2>5 DEF ApplyAnswered, t, auth
    <3>2. ClientRollback \in 0..ClientRollback
      BY RollbackTime
    <3>3. /\ s \in Changes /\ s.st = "confirming" /\ s.checked = checked
          /\ s.deadline = ClientRollback /\ s.auth = auth /\ s.target = req.id
          /\ s.late = page.late /\ s.unheard = page.unheard
      <4>1. \A c \in BOOLEAN, d \in 0..ClientRollback, a \in Ids :
              LET r == StartConfirm(t, c, d, a) IN
              /\ r \in Changes /\ r.st = "confirming" /\ r.checked = c
              /\ r.deadline = d /\ r.auth = a /\ r.target = t.target
              /\ r.late = t.late /\ r.unheard = t.unheard
        BY <2>3, StartConfirmEffect
      <4>2. TRUE \in BOOLEAN /\ FALSE \in BOOLEAN
        OBVIOUS
      <4>3. ASSUME NEW c \in BOOLEAN, s = StartConfirm(t, c, ClientRollback, auth)
            PROVE  /\ s \in Changes /\ s.st = "confirming" /\ s.checked = c
                   /\ s.deadline = ClientRollback /\ s.auth = auth /\ s.target = t.target
                   /\ s.late = t.late /\ s.unheard = t.unheard
        BY <2>2, <3>2, <4>1, <4>3
      <4>4. CASE checked = TRUE
        BY <2>3, <3>1, <4>2, <4>3, <4>4
      <4>5. CASE checked = FALSE
        BY <2>3, <3>1, <4>2, <4>3, <4>5
      <4>6. QED
        BY <2>2, <4>4, <4>5
    <3>4. /\ page' \in Changes /\ page'.st = "confirming" /\ page'.checked = checked
          /\ page'.deadline = ClientRollback /\ page'.auth = auth /\ page'.target = req.id
          /\ page'.late = page.late
      BY <1>2, <1>4, <3>3
    <3>5. TypeOK' /\ DeviceInv' /\ RequestInv'
      BY <1>1, <1>2, <1>5, <3>4 DEF ApplyInv, TypeOK, DeviceInv, RequestInv, Waiting
    <3>6. StartingInv' /\ RollbackInv' /\ AppliedInv'
      BY <1>5, <3>4 DEF StartingInv, RollbackInv, AppliedInv
    <3>7. ConfirmInv'
      <4> SUFFICES ASSUME page'.checked
                   PROVE  Confirming'
        BY DEF ConfirmInv
      <4>1. req.kind = "apply_rollback" /\ req.status = 200 /\ auth = req.id
        BY <2>5, <3>4 DEF checked, auth
      <4>2. /\ Pending(req.id) \/ (RolledBack(req.id) /\ page.late)
            /\ ~page.late => dev.timer = ClientRollback
        BY <1>2, <4>1 DEF ApplyInv, StartingInv
      <4>3. QED
        BY <1>2, <1>5, <3>4, <4>1, <4>2, RollbackTime DEF Confirming, Pending, RolledBack
    <3>8. QED
      BY <3>5, <3>6, <3>7 DEF ApplyInv
  <2>6. CASE req.status # (IF checked THEN 200 ELSE 204)
    <3>1. s = To(page, "nochange") \/ s = To(page, "failed")
      BY <2>1, <2>6 DEF ApplyAnswered
    <3>2. s \in Changes /\ s.st \in {"nochange", "failed"}
      BY <1>1, <3>1, ToEffect DEF Final
    <3>3. QED
      BY <1>2, <1>4, <1>5, <3>2, UserSteps
  <2>7. QED
    BY <2>5, <2>6
<1>14. QED
  BY <1>2, <1>10, <1>11, <1>12, <1>13, RequestState DEF Kinds

(* What rpcd does with an apply it accepts. *)
LEMMA InstallEffect ==
    ASSUME dev \in Device, dev.used < MaxApply, NEW rollback \in BOOLEAN
    PROVE  LET d == Install(dev, rollback) IN
           /\ d \in Device /\ d.run = dev.used + 1 /\ d.used = dev.used + 1 /\ d.saved = dev.run
           /\ d.timer = IF rollback THEN ClientRollback ELSE Off
           /\ d.token = IF rollback THEN [id |-> dev.used + 1, left |-> Rollback] ELSE dev.token
<1> DEFINE t == IF rollback THEN ClientRollback ELSE Off
           k == IF rollback THEN [id |-> dev.used + 1, left |-> Rollback] ELSE dev.token
<1>1. /\ t \in Off..ClientRollback /\ dev.used + 1 \in 0..MaxApply /\ dev.run \in 0..MaxApply
  BY ApplyAssumption, RollbackTime DEF Device, Off
<1>2. k \in [id : Ids, left : Off..Rollback]
  <2>1. dev.used + 1 \in Ids /\ Rollback \in Off..Rollback
    BY <1>1, ApplyAssumption DEF Ids, Off
  <2>2. dev.token \in [id : Ids, left : Off..Rollback]
    BY DEF Device
  <2>3. CASE rollback
    BY <2>1, <2>3
  <2>4. CASE ~rollback
    BY <2>2, <2>4
  <2>5. QED
    BY <2>3, <2>4
<1> HIDE DEF t, k
<1>3. Install(dev, rollback) =
        [dev EXCEPT !.saved = dev.run, !.run = dev.used + 1, !.used = @ + 1,
                    !.staged = FALSE, !.shaky = TRUE, !.timer = t, !.token = k]
  BY DEF Install, t, k, Device
<1>4. /\ Install(dev, rollback) \in Device
      /\ Install(dev, rollback).run = dev.used + 1 /\ Install(dev, rollback).used = dev.used + 1
      /\ Install(dev, rollback).saved = dev.run
      /\ Install(dev, rollback).timer = t /\ Install(dev, rollback).token = k
  BY <1>1, <1>2, <1>3 DEF Device
<1>5. QED
  BY <1>4 DEF t, k

(* What an answer makes of a request. *)
Answered(r, q, status, id) ==
    q = [kind |-> r.kind, st |-> "served", status |-> status, id |-> id]

(* An answered request is a request of the same kind. *)
LEMMA AnsweredIs ==
    ASSUME NEW r \in Requests, NEW status \in {0, 200, 204, 403}, NEW id \in Ids,
           NEW q, Answered(r, q, status, id)
    PROVE  /\ q \in Requests /\ q.st = "served" /\ q.kind = r.kind
           /\ q.status = status /\ q.id = id
<1>1. PICK kinds : kinds = {"none"} \cup Kinds
  OBVIOUS
<1>2. Requests = [kind : kinds, st : {"none", "sent", "served"},
                  status : {0, 200, 204, 403}, id : Ids]
  BY <1>1 DEF Requests
<1>3. r.kind \in kinds
  BY <1>2
<1>4. q \in Requests
  BY <1>2, <1>3 DEF Answered
<1>5. QED
  BY <1>4 DEF Answered

(* The device serves the request of the page (Serve). *)
LEMMA ServeStep ==
    ASSUME MinRollback <= Rollback, ApplyInv, Serve
    PROVE  ApplyInv'
<1>1. /\ page \in Changes /\ dev \in Device /\ req \in Requests
      /\ DeviceInv /\ RequestInv /\ lost \in 0..MaxLost
  BY DEF ApplyInv, TypeOK
<1> DEFINE answered(status, id) == req' = [req EXCEPT !.st = "served", !.status = status, !.id = id]
<1>2. req.st = "sent" /\ UNCHANGED <<page, lost>>
  BY DEF Serve
<1>3. ASSUME NEW status \in {0, 200, 204, 403}, NEW id \in Ids, answered(status, id)
      PROVE  /\ req' \in Requests /\ req'.st = "served" /\ req'.kind = req.kind
             /\ req'.status = status /\ req'.id = id
  <2>1. Answered(req, req', status, id)
    <3>1. req = [kind |-> req.kind, st |-> req.st, status |-> req.status, id |-> req.id]
      BY <1>1 DEF Requests
    <3>2. req' = [req EXCEPT !.st = "served", !.status = status, !.id = id]
      BY <1>3
    <3>3. QED
      BY <3>1, <3>2 DEF Answered
  <2>2. QED
    BY <1>1, <2>1, AnsweredIs
<1> HIDE DEF answered
<1>4. ASSUME req' \in Requests, req'.st = "served", req'.kind = req.kind
      PROVE  RequestInv'
  BY <1>1, <1>2, <1>4 DEF RequestInv
<1>5. /\ dev.run \in 0..MaxApply /\ dev.saved \in 0..MaxApply /\ dev.used \in 0..MaxApply
      /\ dev.timer \in Off..ClientRollback /\ dev.token \in [id : Ids, left : Off..Rollback]
  BY <1>1 DEF Device
<1>6. CASE req.kind \in {"apply_rollback", "apply_unchecked", "revert"}
  <2>1. page.st \in {"starting", "reverting"} /\ page'.st = page.st
    BY <1>2, <1>6, RequestState
  <2>2. ConfirmInv' /\ RollbackInv' /\ AppliedInv'
    BY <2>1 DEF ConfirmInv, RollbackInv, AppliedInv
  <2>3. ASSUME NEW status \in {204, 403}, NEW id \in Ids, answered(status, id), dev' = dev
        PROVE  ApplyInv'
    <3>1. /\ req' \in Requests /\ req'.st = "served" /\ req'.kind = req.kind /\ req'.status = status
      BY <1>3, <2>3
    <3>2. TypeOK' /\ DeviceInv' /\ StartingInv'
      BY <1>1, <1>2, <2>3, <3>1 DEF TypeOK, DeviceInv, StartingInv
    <3>3. QED
      BY <1>4, <2>2, <3>1, <3>2 DEF ApplyInv
  <2>4. NoConfig \in Ids /\ dev.run \in Ids
    BY <1>5 DEF Ids
  <2>5. CASE req.kind = "apply_rollback"
    <3>1. CASE Denied(dev, req.kind)
      <4>1. answered(403, NoConfig) /\ dev' = dev
        BY <2>5, <3>1 DEF Serve, answered
      <4>2. QED
        BY <2>3, <2>4, <4>1
    <3>2. CASE ~Denied(dev, req.kind) /\ ~dev.staged
      <4>1. answered(204, NoConfig) /\ dev' = dev
        BY <2>5, <3>2 DEF Serve, answered
      <4>2. QED
        BY <2>3, <2>4, <4>1
    <3>3. CASE ~Denied(dev, req.kind) /\ dev.staged
      <4>1. answered(200, dev.used + 1) /\ dev.used < MaxApply /\ dev' = Install(dev, TRUE)
        BY <2>5, <3>3 DEF Serve, answered
      <4>2. /\ dev' \in Device /\ dev'.run = dev.used + 1 /\ dev'.used = dev.used + 1
            /\ dev'.saved = dev.run /\ dev'.timer = ClientRollback
            /\ dev'.token = [id |-> dev.used + 1, left |-> Rollback]
        BY <1>1, <4>1, InstallEffect
      <4>3. dev.used + 1 \in Ids
        BY <1>5, <4>1, ApplyAssumption DEF Ids
      <4>4. /\ req' \in Requests /\ req'.st = "served" /\ req'.kind = req.kind
            /\ req'.id = dev.used + 1
        BY <1>3, <4>1, <4>3
      <4>5. TypeOK'
        BY <1>1, <1>2, <4>2, <4>4 DEF TypeOK
      <4>6. DeviceInv'
        BY <1>1, <1>5, <4>2, RollbackTime, ApplyAssumption DEF DeviceInv, NoConfig, Off
      <4>7. StartingInv'
        BY <4>2, <4>4, RollbackTime DEF StartingInv, Pending, Off
      <4>8. QED
        BY <1>4, <2>2, <4>4, <4>5, <4>6, <4>7 DEF ApplyInv
    <3>4. QED
      BY <3>1, <3>2, <3>3
  <2>6. CASE req.kind = "apply_unchecked"
    <3>1. CASE Denied(dev, req.kind)
      <4>1. answered(403, NoConfig) /\ dev' = dev
        BY <2>6, <3>1 DEF Serve, answered
      <4>2. QED
        BY <2>3, <2>4, <4>1
    <3>2. CASE ~Denied(dev, req.kind) /\ ~dev.staged
      <4>1. answered(204, dev.run) /\ dev' = dev
        BY <2>6, <3>2 DEF Serve, answered
      <4>2. QED
        BY <2>3, <2>4, <4>1
    <3>3. CASE ~Denied(dev, req.kind) /\ dev.staged
      <4>1. answered(204, dev.used + 1) /\ dev.used < MaxApply /\ dev' = Install(dev, FALSE)
        BY <2>6, <3>3 DEF Serve, answered
      <4>2. /\ dev' \in Device /\ dev'.run = dev.used + 1 /\ dev'.used = dev.used + 1
            /\ dev'.timer = Off /\ dev'.token = dev.token
        BY <1>1, <4>1, InstallEffect
      <4>3. dev.used + 1 \in Ids
        BY <1>5, <4>1, ApplyAssumption DEF Ids
      <4>4. /\ req' \in Requests /\ req'.st = "served" /\ req'.kind = req.kind
        BY <1>3, <4>1, <4>3
      <4>5. TypeOK' /\ StartingInv'
        BY <1>1, <1>2, <2>6, <4>2, <4>4 DEF TypeOK, StartingInv
      <4>6. dev.timer = Off
        BY <2>6, <3>3 DEF Denied
      <4>7. dev.token.id \in Int
        BY <1>5 DEF Ids, NoConfig
      <4>8. DeviceInv'
        BY <1>1, <1>5, <4>2, <4>6, <4>7 DEF DeviceInv
      <4>9. QED
        BY <1>4, <2>2, <4>4, <4>5, <4>8 DEF ApplyInv
    <3>4. QED
      BY <3>1, <3>2, <3>3
  <2>7. CASE req.kind = "revert"
    <3>1. CASE dev.staged /\ Denied(dev, req.kind)
      <4>1. answered(403, NoConfig) /\ dev' = dev
        BY <2>7, <3>1 DEF Serve, answered
      <4>2. QED
        BY <2>3, <2>4, <4>1
    <3>2. CASE ~(dev.staged /\ Denied(dev, req.kind))
      <4>1. answered(200, NoConfig) /\ dev' = [dev EXCEPT !.staged = FALSE]
        BY <2>7, <3>2 DEF Serve, answered
      <4>2. /\ dev' \in Device /\ dev'.run = dev.run /\ dev'.used = dev.used
            /\ dev'.saved = dev.saved /\ dev'.timer = dev.timer /\ dev'.token = dev.token
        BY <1>1, <4>1 DEF Device
      <4>3. req' \in Requests /\ req'.st = "served" /\ req'.kind = req.kind
        BY <1>3, <2>4, <4>1
      <4>4. TypeOK' /\ StartingInv'
        BY <1>1, <1>2, <2>7, <4>2, <4>3 DEF TypeOK, StartingInv
      <4>5. DeviceInv'
        BY <1>1, <4>2 DEF DeviceInv
      <4>6. QED
        BY <1>4, <2>2, <4>3, <4>4, <4>5 DEF ApplyInv
    <3>3. QED
      BY <3>1, <3>2
  <2>8. QED
    BY <1>6, <2>5, <2>6, <2>7
<1>7. CASE req.kind \in {"confirm", "await"}
  <2> DEFINE auth == IF req.kind = "confirm" THEN page.auth ELSE NoConfig
             confirmed == [dev EXCEPT !.timer = Off, !.token = [id |-> NoConfig, left |-> Off]]
  <2>1. /\ page.st = IF req.kind = "confirm" THEN "confirming" ELSE "rollback"
        /\ page' = page
    BY <1>2, <1>7, RequestState
  <2>2. \/ NothingPending(dev) /\ answered(204, NoConfig) /\ dev' = dev
        \/ ~NothingPending(dev) /\ auth # dev.token.id /\ answered(403, NoConfig) /\ dev' = dev
        \/ ~NothingPending(dev) /\ dev.timer = Off /\ answered(204, NoConfig) /\ dev' = dev
        \/ /\ ~NothingPending(dev) /\ auth = dev.token.id /\ dev.timer # Off
           /\ answered(200, NoConfig) /\ dev' = confirmed
    BY <1>7 DEF Serve, answered
  <2>3. NoConfig \in Ids
    BY DEF Ids
  <2>4. req' \in Requests /\ req'.st = "served" /\ req'.kind = req.kind
    BY <1>3, <2>2, <2>3
  <2>5. StartingInv' /\ AppliedInv'
    BY <1>7, <2>1, <2>4 DEF StartingInv, AppliedInv
  <2>6. CASE dev' = dev /\ (req'.status = 403 \/ (req'.status = 204 /\ dev.timer = Off))
    <3>1. TypeOK' /\ DeviceInv'
      BY <1>1, <1>2, <2>4, <2>6 DEF TypeOK, DeviceInv
    <3>2. ConfirmInv'
      BY <1>2, <2>1, <2>4, <2>6 DEF ApplyInv, ConfirmInv, Confirming, Pending, RolledBack, Kept, Confirmed
    <3>3. RollbackInv'
      BY <2>1, <2>4, <2>6 DEF ApplyInv, RollbackInv, Pending, RolledBack
    <3>4. QED
      BY <1>4, <2>4, <2>5, <3>1, <3>2, <3>3 DEF ApplyInv
  <2>7. CASE /\ ~NothingPending(dev) /\ auth = dev.token.id /\ dev.timer # Off
             /\ answered(200, NoConfig) /\ dev' = confirmed
    <3>1. req.kind = "confirm" /\ page.auth = dev.token.id /\ page.st = "confirming"
      BY <1>1, <1>7, <2>1, <2>7 DEF DeviceInv, NothingPending
    <3>2. /\ dev' \in Device /\ dev'.run = dev.run /\ dev'.used = dev.used /\ dev'.saved = dev.saved
          /\ dev'.timer = Off /\ dev'.token = [id |-> NoConfig, left |-> Off]
      <4>1. Off \in Off..ClientRollback /\ Off \in Off..Rollback
        BY RollbackTime, ApplyAssumption DEF Off
      <4>2. QED
        BY <1>1, <2>3, <2>7, <4>1 DEF Device
    <3>3. req'.status = 200
      BY <1>3, <2>3, <2>7
    <3>4. TypeOK' /\ DeviceInv'
      BY <1>1, <1>2, <1>5, <2>4, <3>2 DEF TypeOK, DeviceInv, NoConfig
    <3>5. ConfirmInv' /\ RollbackInv'
      BY <1>1, <2>1, <2>4, <2>7, <3>1, <3>2, <3>3
         DEF ApplyInv, DeviceInv, ConfirmInv, Confirming, RollbackInv, Pending, RolledBack, Kept, Confirmed
    <3>6. QED
      BY <1>4, <2>4, <2>5, <3>4, <3>5 DEF ApplyInv
  <2>8. QED
    <3>1. NothingPending(dev) => dev.timer = Off
      BY <1>1 DEF DeviceInv, NothingPending
    <3>2. /\ answered(204, NoConfig) => req'.status = 204
          /\ answered(403, NoConfig) => req'.status = 403
      BY <1>3, <2>3
    <3>3. QED
      BY <2>2, <2>6, <2>7, <3>1, <3>2
<1>8. QED
  BY <1>2, <1>6, <1>7, RequestState DEF Kinds

(* A page that has just been loaded, on a device that has applied nothing. *)
LEMMA ApplyInit ==
    Init => ApplyInv
<1> SUFFICES ASSUME Init
             PROVE  ApplyInv
  OBVIOUS
<1>1. /\ dev.run = 0 /\ dev.used = 0 /\ dev.timer = Off
      /\ dev.token = [id |-> NoConfig, left |-> Off] /\ req = NoRequest /\ lost = 0
      /\ page.st = "idle"
  BY DEF Init, Fresh
<1>2. /\ 0 \in 0..MaxApply /\ Off \in Off..ClientRollback /\ Off \in Off..Rollback
      /\ 0 \in 0..ClientRollback /\ Off \in Off..Longer(Holdoff, 1) /\ 0 \in 0..MaxLost
      /\ NoConfig \in Ids
  BY ApplyAssumption, RollbackTime DEF Off, Longer, Ids
<1>3. dev \in Device
  BY <1>2 DEF Init, Device
<1>4. page \in Changes
  BY <1>2 DEF Init, Fresh, Changes
<1>5. req \in Requests /\ req.st = "none" /\ req.kind = "none"
  BY <1>1, RequestType
<1>6. TypeOK
  BY <1>1, <1>2, <1>3, <1>4, <1>5 DEF TypeOK
<1>7. DeviceInv
  BY <1>1 DEF DeviceInv, NoConfig
<1>8. RequestInv /\ StartingInv /\ ConfirmInv /\ RollbackInv /\ AppliedInv
  BY <1>1, <1>5 DEF RequestInv, StartingInv, ConfirmInv, RollbackInv, AppliedInv
<1>9. QED
  BY <1>6, <1>7, <1>8 DEF ApplyInv

(* Every step of the page and of the device keeps the invariant. *)
LEMMA ApplyNext ==
    ASSUME MinRollback <= Rollback, ApplyInv, [Next]_vars
    PROVE  ApplyInv'
<1>1. CASE UNCHANGED vars
  BY <1>1 DEF vars, ApplyInv, TypeOK, DeviceInv, RequestInv, StartingInv, ConfirmInv, Confirming,
              RollbackInv, AppliedInv, Pending, RolledBack, Kept, Confirmed
<1>2. CASE Next
  BY <1>2, ButtonSteps, TimerStep, ServeStep, RollbackStep, OtherSteps, AnswerStep, FailStep,
     TickStep, LoadStep DEF Next
<1>3. QED
  BY <1>1, <1>2

(* The page, the session and rpcd agree about an apply at every moment     *)
(* (ui.js, uci.uc): the timers stay in their ranges and run together, and  *)
(* a request under way belongs to the state the page is in.                *)
THEOREM ApplyInvariant ==
    ASSUME MinRollback <= Rollback
    PROVE  DeviceSpec => []ApplyInv
<1>1. DeviceInit => ApplyInv
  BY ApplyInit DEF DeviceInit
<1>2. ASSUME ApplyInv, [DeviceNext]_deviceVars
      PROVE  ApplyInv'
  BY <1>2, ApplyNext DEF DeviceNext, deviceVars, vars
<1>3. QED
  BY <1>1, <1>2, PTL DEF DeviceSpec

(* What the page says about a checked apply is so (uci_confirm of uci.uc,  *)
(* confirm and rollback of ui.js), if the option rollback is not below the *)
(* 90 s that rpcd is given at least.  Below it the session forgets the     *)
(* apply before rpcd does, and the page is told that all is well.          *)
THEOREM VerdictHolds ==
    ASSUME MinRollback <= Rollback
    PROVE  DeviceSpec => []VerdictIsTrue
<1>1. ApplyInv => VerdictIsTrue
  BY DEF ApplyInv, RollbackInv, AppliedInv, RolledBack, VerdictIsTrue
<1>2. QED
  BY <1>1, ApplyInvariant, PTL

-----------------------------------------------------------------------------
(* The upgrade *)

Outcomes == {"none", "success", "failure"}
Events == [job : Nat, kind : {"items", "progress", "success", "failure"}, n : {0, 1}]
Flags == [beat : BOOLEAN, success : BOOLEAN, failure : BOOLEAN, items : {0, 1}, received : BOOLEAN]
Phases == {"idle", "ready", "acl", "upload", "flash", "installed", "error", "success", "rebooting"}

UpgradePage ==
    [phase : Phases, file : BOOLEAN, stream : 0..2, flags : Flags, job : Nat, foreign : BOOLEAN]

(* Type invariant of the upgrade. *)
UpgradeTypeOK ==
    /\ swu \in UpgradePage
    /\ installer \in [outcome : Seq(Outcomes), busy : BOOLEAN, told : BOOLEAN]
    /\ wire \in Seq(Events)

(* Only the last job can be under way, and it has no outcome then. *)
InstallerInv ==
    installer.busy => Len(installer.outcome) > 0
                      /\ installer.outcome[Len(installer.outcome)] = "none"

(* An event in flight is of a job that was started; a success is reported  *)
(* of a job that has succeeded; a job announces its items once.            *)
WireInv ==
    /\ \A i \in 1..Len(wire) :
          /\ wire[i].job \in 1..Len(installer.outcome)
          /\ wire[i].kind = "success" => installer.outcome[wire[i].job] = "success"
          /\ wire[i].kind = "items" /\ wire[i].job = Len(installer.outcome) => installer.told
    /\ \A i, j \in 1..Len(wire) :
          wire[i].kind = "items" /\ wire[j].kind = "items" /\ wire[i].job = wire[j].job => i = j

ItemsInFlight(job) == \E i \in 1..Len(wire) : wire[i].kind = "items" /\ wire[i].job = job

(* As long as the page got no event of another job, its flags are about    *)
(* the job of its own upload, whose items cannot change any more once they *)
(* are known.                                                              *)
FlagsInv ==
    /\ swu.job \in 0..Len(installer.outcome)
    /\ ~swu.foreign =>
          /\ swu.flags.success => swu.job # 0 /\ installer.outcome[swu.job] = "success"
          /\ swu.flags.received =>
                /\ swu.job # 0 /\ ~ItemsInFlight(swu.job)
                /\ swu.job = Len(installer.outcome) => installer.told

PhaseInv ==
    swu.phase \in {"installed", "success", "rebooting"} /\ ~swu.foreign =>
        /\ swu.job # 0 /\ swu.flags.received
        /\ swu.flags.items > 0 => installer.outcome[swu.job] = "success"

UpgradeInv == UpgradeTypeOK /\ InstallerInv /\ WireInv /\ FlagsInv /\ PhaseInv

UpgradeInvariant == swu # NotOpen => UpgradeInv

LEMMA NothingInFlight == <<>> \in Seq(Events)
OBVIOUS

(* Steps of the page that neither start a run nor take an event: the file, *)
(* the dialog, the answers of the session and of the upload, the timers.   *)
LEMMA PageSteps ==
    ASSUME UpgradeInv, UNCHANGED installer, wire' = wire \/ wire' = <<>>,
           swu' \in UpgradePage, swu'.job = swu.job, swu'.foreign = swu.foreign,
           swu'.flags.success = swu.flags.success, swu'.flags.items = swu.flags.items,
           swu'.flags.received = swu.flags.received, PhaseInv'
    PROVE  UpgradeInv'
<1>1. UpgradeTypeOK'
  <2>1. wire' \in Seq(Events)
    BY NothingInFlight DEF UpgradeInv, UpgradeTypeOK
  <2>2. QED
    BY <2>1 DEF UpgradeInv, UpgradeTypeOK
<1>2. InstallerInv' /\ WireInv'
  BY DEF UpgradeInv, InstallerInv, WireInv
<1>3. FlagsInv'
  BY DEF UpgradeInv, FlagsInv, ItemsInFlight
<1>4. QED
  BY <1>1, <1>2, <1>3 DEF UpgradeInv

LEMMA DialogSteps ==
    ASSUME UpgradeInv,
           \/ Upgrade!StreamOpens \/ Upgrade!StreamBreaks
           \/ \E ok \in BOOLEAN : Upgrade!onFileSelected(ok)
           \/ Upgrade!onUpgrade \/ Upgrade!closeDialog \/ Upgrade!checkSessionACL
           \/ Upgrade!onUpgradeUpload \/ Upgrade!upgradeCheck \/ Upgrade!upgradeTimeout
           \/ Upgrade!onUpgradeReboot
    PROVE  UpgradeInv'
<1>1. swu \in UpgradePage /\ PhaseInv /\ FlagsInv
  BY DEF UpgradeInv, UpgradeTypeOK
<1>2. swu.flags \in Flags
  BY <1>1 DEF UpgradePage
<1>3. /\ UNCHANGED installer /\ (wire' = wire \/ wire' = <<>>)
      /\ swu' \in UpgradePage /\ swu'.job = swu.job /\ swu'.foreign = swu.foreign
      /\ swu'.flags.success = swu.flags.success /\ swu'.flags.items = swu.flags.items
      /\ swu'.flags.received = swu.flags.received
      /\ \/ swu'.phase = swu.phase \/ swu'.phase \in {"idle", "ready", "acl", "upload", "error"}
         \/ swu'.phase = "flash"
         \/ /\ swu.phase = "flash" /\ swu'.phase = "installed" /\ swu.flags.received
            /\ swu.flags.items = 0 \/ swu.flags.success
         \/ swu.phase = "installed" /\ swu'.phase \in {"success", "rebooting"}
  <2>1. CASE Upgrade!StreamOpens \/ Upgrade!StreamBreaks
    BY <1>1, <2>1 DEF Upgrade!StreamOpens, Upgrade!StreamBreaks, UpgradePage
  <2>2. CASE \E ok \in BOOLEAN : Upgrade!onFileSelected(ok)
    BY <1>1, <2>2 DEF Upgrade!onFileSelected, UpgradePage
  <2>3. CASE Upgrade!onUpgrade \/ Upgrade!closeDialog
    BY <1>1, <2>3 DEF Upgrade!onUpgrade, Upgrade!closeDialog, UpgradePage, Phases
  <2>4. CASE Upgrade!checkSessionACL
    BY <1>1, <2>4 DEF Upgrade!checkSessionACL, UpgradePage, Phases
  <2> DEFINE quiet == [swu.flags EXCEPT !.beat = FALSE]
  <2>a. /\ quiet \in Flags /\ quiet.success = swu.flags.success
        /\ quiet.items = swu.flags.items /\ quiet.received = swu.flags.received
    BY <1>2 DEF Flags
  <2> HIDE DEF quiet
  <2>5. CASE Upgrade!onUpgradeUpload
    <3>1. CASE swu' = [swu EXCEPT !.phase = "flash", !.flags.beat = FALSE]
      <4>1. swu' = [swu EXCEPT !.phase = "flash", !.flags = quiet]
        BY <1>1, <3>1 DEF UpgradePage, quiet
      <4>2. QED
        BY <1>1, <2>a, <2>5, <3>1, <4>1 DEF Upgrade!onUpgradeUpload, UpgradePage, Phases
    <3>2. CASE swu' = [swu EXCEPT !.phase = "error"]
      BY <1>1, <2>5, <3>2 DEF Upgrade!onUpgradeUpload, UpgradePage, Phases
    <3>3. QED
      BY <2>5, <3>1, <3>2 DEF Upgrade!onUpgradeUpload
  <2>6. CASE Upgrade!upgradeCheck
    BY <1>1, <2>6 DEF Upgrade!upgradeCheck, UpgradePage, Phases
  <2>7. CASE Upgrade!upgradeTimeout
    <3>1. CASE swu' = [swu EXCEPT !.flags.beat = FALSE]
      <4>1. swu' = [swu EXCEPT !.flags = quiet]
        BY <1>1, <3>1 DEF UpgradePage, quiet
      <4>2. QED
        BY <1>1, <2>a, <2>7, <4>1 DEF Upgrade!upgradeTimeout, UpgradePage
    <3>2. CASE swu' = [swu EXCEPT !.phase = "error"]
      BY <1>1, <2>7, <3>2 DEF Upgrade!upgradeTimeout, UpgradePage, Phases
    <3>3. QED
      BY <2>7, <3>1, <3>2 DEF Upgrade!upgradeTimeout
  <2>8. CASE Upgrade!onUpgradeReboot
    <3>1. CASE swu' = [swu EXCEPT !.phase = "rebooting", !.stream = 2] /\ wire' = <<>>
      <4>1. 2 \in 0..2
        OBVIOUS
      <4>2. QED
        BY <1>1, <2>8, <3>1, <4>1 DEF Upgrade!onUpgradeReboot, UpgradePage, Phases
    <3>2. CASE swu' = [swu EXCEPT !.phase = "success"] /\ UNCHANGED wire
      BY <1>1, <2>8, <3>2 DEF Upgrade!onUpgradeReboot, UpgradePage, Phases
    <3>3. QED
      BY <2>8, <3>1, <3>2 DEF Upgrade!onUpgradeReboot
  <2>9. QED
    BY <2>1, <2>2, <2>3, <2>4, <2>5, <2>6, <2>7, <2>8
<1>4. PhaseInv'
  BY <1>1, <1>2, <1>3 DEF PhaseInv, FlagsInv, Flags
<1>5. QED
  BY <1>3, <1>4, PageSteps

(* A run starts, or the page comes back after the reboot: nothing is left  *)
(* of the flags.                                                           *)
LEMMA FreshSteps ==
    ASSUME UpgradeInv, Upgrade!onUpgradeProcess \/ Upgrade!Reconnected
    PROVE  UpgradeInv'
<1>1. swu \in UpgradePage /\ wire \in Seq(Events)
      /\ installer \in [outcome : Seq(Outcomes), busy : BOOLEAN, told : BOOLEAN]
  BY DEF UpgradeInv, UpgradeTypeOK
<1>2. Upgrade!NoFlags \in Flags /\ ~Upgrade!NoFlags.success /\ ~Upgrade!NoFlags.received
  BY DEF Upgrade!NoFlags, Flags
<1>3. /\ swu' \in UpgradePage /\ swu'.phase \in {"acl", "idle"} /\ swu'.job = 0
      /\ ~swu'.flags.success /\ ~swu'.flags.received
  <2>1. CASE Upgrade!onUpgradeProcess
    <3>1. swu' = [swu EXCEPT !.phase = "acl", !.flags = Upgrade!NoFlags, !.job = 0, !.foreign = FALSE]
      BY <2>1 DEF Upgrade!onUpgradeProcess, Upgrade!onPreUpgrade
    <3>2. QED
      BY <1>1, <1>2, <3>1 DEF UpgradePage, Phases
  <2>2. CASE Upgrade!Reconnected
    <3>1. swu' = [phase |-> "idle", file |-> FALSE, stream |-> 0, flags |-> Upgrade!NoFlags,
                  job |-> 0, foreign |-> FALSE]
      BY <2>2 DEF Upgrade!Reconnected, Upgrade!Page
    <3>2. 0 \in 0..2 /\ 0 \in Nat
      OBVIOUS
    <3>3. QED
      BY <1>2, <3>1, <3>2 DEF UpgradePage, Phases
  <2>3. QED
    BY <2>1, <2>2
<1>4. /\ installer' \in [outcome : Seq(Outcomes), busy : BOOLEAN, told : BOOLEAN]
      /\ installer'.outcome = installer.outcome /\ installer'.told = installer.told
      /\ installer'.busy => installer.busy
      /\ wire' = wire \/ wire' = <<>>
  BY <1>1 DEF Upgrade!onUpgradeProcess, Upgrade!Reconnected
<1>5. UpgradeTypeOK' /\ InstallerInv' /\ WireInv'
  <2>1. wire' \in Seq(Events)
    BY <1>1, <1>4, NothingInFlight
  <2>2. UpgradeTypeOK'
    BY <1>3, <1>4, <2>1 DEF UpgradeTypeOK
  <2>3. InstallerInv'
    BY <1>4 DEF UpgradeInv, InstallerInv
  <2>4. WireInv'
    BY <1>4 DEF UpgradeInv, WireInv
  <2>5. QED
    BY <2>2, <2>3, <2>4
<1>6. FlagsInv' /\ PhaseInv'
  BY <1>1, <1>3, <1>4 DEF FlagsInv, PhaseInv
<1>7. QED
  BY <1>5, <1>6 DEF UpgradeInv

(* The installer takes an upload, of the page or of another one. *)
LEMMA StartedSteps ==
    ASSUME UpgradeInv, Upgrade!Accept \/ Upgrade!OtherUpload
    PROVE  UpgradeInv'
<1>1. swu \in UpgradePage /\ wire \in Seq(Events)
      /\ installer \in [outcome : Seq(Outcomes), busy : BOOLEAN, told : BOOLEAN]
      /\ WireInv /\ FlagsInv /\ PhaseInv
  BY DEF UpgradeInv, UpgradeTypeOK
<1> DEFINE out == installer.outcome
<1>2. /\ installer' = [outcome |-> Append(out, "none"), busy |-> TRUE, told |-> FALSE]
      /\ wire' = wire
  BY DEF Upgrade!Accept, Upgrade!OtherUpload, Upgrade!Started
<1>3. /\ installer'.outcome \in Seq(Outcomes) /\ Len(installer'.outcome) = Len(out) + 1
      /\ Len(out) \in Nat /\ installer'.outcome[Len(out) + 1] = "none"
      /\ \A j \in 1..Len(out) : installer'.outcome[j] = out[j]
      /\ installer' \in [outcome : Seq(Outcomes), busy : BOOLEAN, told : BOOLEAN]
  BY <1>1, <1>2 DEF Outcomes
<1>4. InstallerInv'
  BY <1>3 DEF InstallerInv
<1>5. WireInv'
  BY <1>1, <1>2, <1>3 DEF WireInv
<1>6. CASE Upgrade!Accept
  <2>1. /\ swu' = [swu EXCEPT !.job = Len(out) + 1] /\ swu.phase = "upload" /\ swu.job = 0
    BY <1>6 DEF Upgrade!Accept, Upgrade!Job
  <2>2. /\ swu' \in UpgradePage /\ swu'.job = Len(out) + 1 /\ swu'.flags = swu.flags
        /\ swu'.foreign = swu.foreign /\ swu'.phase = "upload"
    <3>1. Len(out) + 1 \in Nat
      BY <1>3
    <3> HIDE DEF out
    <3>2. QED
      BY <1>1, <2>1, <3>1 DEF UpgradePage
  <2>3. UpgradeTypeOK'
    BY <1>1, <1>2, <1>3, <2>2 DEF UpgradeTypeOK
  <2>4. FlagsInv' /\ PhaseInv'
    BY <1>1, <1>3, <2>1, <2>2 DEF FlagsInv, PhaseInv
  <2>5. QED
    BY <1>4, <1>5, <2>3, <2>4 DEF UpgradeInv
<1>7. CASE Upgrade!OtherUpload
  <2>1. swu' = swu
    BY <1>7 DEF Upgrade!OtherUpload
  <2>2. UpgradeTypeOK'
    BY <1>1, <1>2, <1>3, <2>1 DEF UpgradeTypeOK
  <2>3. FlagsInv'
    BY <1>1, <1>2, <1>3, <2>1 DEF FlagsInv, ItemsInFlight, UpgradePage
  <2>4. PhaseInv'
    BY <1>1, <1>3, <2>1 DEF FlagsInv, PhaseInv, UpgradePage
  <2>5. QED
    BY <1>4, <1>5, <2>2, <2>3, <2>4 DEF UpgradeInv
<1>8. QED
  BY <1>6, <1>7

(* The installer's events go into the wire, if the page is listening. *)
LEMMA EventSteps ==
    ASSUME UpgradeInv, Upgrade!Announce \/ Upgrade!Progress \/ Upgrade!Finish
    PROVE  UpgradeInv'
<1>1. swu \in UpgradePage /\ wire \in Seq(Events)
      /\ installer \in [outcome : Seq(Outcomes), busy : BOOLEAN, told : BOOLEAN]
      /\ InstallerInv /\ WireInv /\ FlagsInv /\ PhaseInv
  BY DEF UpgradeInv, UpgradeTypeOK
<1> DEFINE out == installer.outcome
<1>2. installer.busy /\ out \in Seq(Outcomes) /\ Len(out) \in Nat \ {0} /\ out[Len(out)] = "none"
  <2>1. installer.busy /\ out \in Seq(Outcomes)
    BY <1>1 DEF Upgrade!Announce, Upgrade!Progress, Upgrade!Finish
  <2>2. QED
    BY <1>1, <2>1 DEF InstallerInv
<1>3. UNCHANGED swu
  BY DEF Upgrade!Announce, Upgrade!Progress, Upgrade!Finish
<1>4. PICK ev \in Events :
        /\ wire' = wire \/ wire' = Append(wire, ev)
        /\ ev.job = Len(out)
        /\ \/ /\ ev.kind = "items" /\ ~installer.told
              /\ installer' = [installer EXCEPT !.told = TRUE]
           \/ ev.kind = "progress" /\ installer' = installer
           \/ /\ ev.kind \in {"success", "failure"}
              /\ installer' = [installer EXCEPT !.outcome = [out EXCEPT ![Len(out)] = ev.kind], !.busy = FALSE]
  <2>1. CASE Upgrade!Announce
    <3> PICK n \in {0, 1} : Upgrade!Send([job |-> Upgrade!Job, kind |-> "items", n |-> n])
      BY <2>1 DEF Upgrade!Announce
    <3> DEFINE e == [job |-> Len(out), kind |-> "items", n |-> n]
    <3>1. e \in Events /\ e.kind = "items" /\ e.job = Len(out)
      BY <1>2 DEF Events
    <3>2. wire' = wire \/ wire' = Append(wire, e)
      BY DEF Upgrade!Send, Upgrade!Job
    <3>3. ~installer.told /\ installer' = [installer EXCEPT !.told = TRUE]
      BY <2>1 DEF Upgrade!Announce
    <3> HIDE DEF e
    <3>4. QED
      BY <3>1, <3>2, <3>3
  <2>2. CASE Upgrade!Progress
    <3> DEFINE e == [job |-> Len(out), kind |-> "progress", n |-> 0]
    <3>1. e \in Events /\ e.kind = "progress" /\ e.job = Len(out)
      BY <1>2 DEF Events
    <3>2. (wire' = wire \/ wire' = Append(wire, e)) /\ installer' = installer
      BY <2>2 DEF Upgrade!Progress, Upgrade!Send, Upgrade!Job
    <3> HIDE DEF e
    <3>3. QED
      BY <3>1, <3>2
  <2>3. CASE Upgrade!Finish
    <3> PICK end \in {"success", "failure"} :
          /\ Upgrade!Send([job |-> Upgrade!Job, kind |-> end, n |-> 0])
          /\ installer' = [installer EXCEPT !.outcome[Upgrade!Job] = end, !.busy = FALSE]
      BY <2>3 DEF Upgrade!Finish
    <3> DEFINE e == [job |-> Len(out), kind |-> end, n |-> 0]
    <3>1. e \in Events /\ e.kind = end /\ e.job = Len(out)
      BY <1>2 DEF Events
    <3>2. wire' = wire \/ wire' = Append(wire, e)
      BY DEF Upgrade!Send, Upgrade!Job
    <3>3. installer' = [installer EXCEPT !.outcome = [out EXCEPT ![Len(out)] = end], !.busy = FALSE]
      BY <1>1 DEF Upgrade!Job
    <3> HIDE DEF e
    <3>4. QED
      BY <3>1, <3>2, <3>3
  <2>4. QED
    BY <2>1, <2>2, <2>3
<1>5. /\ installer' \in [outcome : Seq(Outcomes), busy : BOOLEAN, told : BOOLEAN]
      /\ Len(installer'.outcome) = Len(out)
      /\ \A j \in 1..Len(out) : out[j] = "success" => installer'.outcome[j] = "success"
      /\ installer'.busy => installer'.outcome = out
      /\ installer.told => installer'.told
      /\ ev.kind = "success" => installer'.outcome[Len(out)] = "success"
      /\ ev.kind = "items" => ~installer.told /\ installer'.told
  <2>1. CASE ev.kind = "items"
    BY <1>1, <1>2, <1>4, <2>1
  <2>2. CASE ev.kind = "progress"
    BY <1>1, <1>2, <1>4, <2>2
  <2>3. CASE ev.kind \in {"success", "failure"}
    <3> DEFINE new == [out EXCEPT ![Len(out)] = ev.kind]
    <3>1. /\ new \in Seq(Outcomes) /\ Len(new) = Len(out) /\ new[Len(out)] = ev.kind
          /\ \A j \in 1..Len(out) : j # Len(out) => new[j] = out[j]
      BY <1>2, <2>3 DEF Outcomes
    <3>2. installer' = [installer EXCEPT !.outcome = new, !.busy = FALSE]
      BY <1>4, <2>3
    <3> HIDE DEF new
    <3>3. /\ installer' \in [outcome : Seq(Outcomes), busy : BOOLEAN, told : BOOLEAN]
          /\ installer'.outcome = new /\ ~installer'.busy /\ installer'.told = installer.told
      BY <1>1, <3>1, <3>2
    <3>4. QED
      BY <1>2, <2>3, <3>1, <3>3
  <2>4. QED
    BY <1>4, <2>1, <2>2, <2>3
<1>6. wire' \in Seq(Events)
  BY <1>1, <1>4
<1>7. UpgradeTypeOK' /\ InstallerInv'
  BY <1>1, <1>2, <1>3, <1>5, <1>6 DEF UpgradeTypeOK, InstallerInv
<1>8. CASE wire' = wire
  <2>1. WireInv'
    BY <1>1, <1>2, <1>5, <1>8 DEF WireInv
  <2>2. FlagsInv'
    BY <1>1, <1>2, <1>3, <1>5, <1>8 DEF FlagsInv, ItemsInFlight, UpgradePage
  <2>3. PhaseInv'
    BY <1>1, <1>2, <1>3, <1>5 DEF FlagsInv, PhaseInv, UpgradePage
  <2>4. QED
    BY <1>7, <2>1, <2>2, <2>3 DEF UpgradeInv
<1>9. CASE wire' = Append(wire, ev)
  <2>1. /\ Len(wire') = Len(wire) + 1 /\ Len(wire) \in Nat /\ wire'[Len(wire) + 1] = ev
        /\ \A i \in 1..Len(wire) : wire'[i] = wire[i]
    BY <1>1, <1>9
  <2>2. \A i \in 1..Len(wire') : i \in 1..Len(wire) \/ i = Len(wire) + 1
    BY <2>1
  <2>3. ev.kind = "items" => ~ItemsInFlight(Len(out))
    BY <1>1, <1>5 DEF WireInv, ItemsInFlight
  <2>4. WireInv'
    <3>1. ASSUME NEW i \in 1..Len(wire')
          PROVE  /\ wire'[i].job \in 1..Len(installer'.outcome)
                 /\ wire'[i].kind = "success" => installer'.outcome[wire'[i].job] = "success"
                 /\ wire'[i].kind = "items" /\ wire'[i].job = Len(installer'.outcome) => installer'.told
      <4>1. CASE i \in 1..Len(wire)
        BY <1>1, <1>2, <1>5, <2>1, <4>1 DEF WireInv
      <4>2. CASE i = Len(wire) + 1
        BY <1>2, <1>4, <1>5, <2>1, <4>2
      <4>3. QED
        BY <2>2, <4>1, <4>2
    <3>2. ASSUME NEW i \in 1..Len(wire'), NEW j \in 1..Len(wire'),
                 wire'[i].kind = "items", wire'[j].kind = "items", wire'[i].job = wire'[j].job
          PROVE  i = j
      <4>1. CASE i \in 1..Len(wire) /\ j \in 1..Len(wire)
        BY <1>1, <2>1, <3>2, <4>1 DEF WireInv
      <4>2. CASE i = Len(wire) + 1 /\ j = Len(wire) + 1
        BY <4>2
      <4>3. CASE i = Len(wire) + 1 /\ j \in 1..Len(wire)
        BY <1>4, <2>1, <2>3, <3>2, <4>3 DEF ItemsInFlight
      <4>4. CASE j = Len(wire) + 1 /\ i \in 1..Len(wire)
        BY <1>4, <2>1, <2>3, <3>2, <4>4 DEF ItemsInFlight
      <4>5. QED
        BY <2>2, <4>1, <4>2, <4>3, <4>4
    <3>3. QED
      BY <3>1, <3>2 DEF WireInv
  <2>5. FlagsInv'
    <3>1. swu.job \in 0..Len(out)
      BY <1>1 DEF FlagsInv
    <3>2. ASSUME ~swu.foreign, swu.flags.received
          PROVE  ~ItemsInFlight(swu.job)'
      <4>1. /\ ~ItemsInFlight(swu.job) /\ swu.job # 0
            /\ swu.job = Len(out) => installer.told
        BY <1>1, <3>2 DEF FlagsInv
      <4>2. ~(ev.kind = "items" /\ ev.job = swu.job)
        BY <1>4, <1>5, <4>1
      <4>3. QED
        BY <1>3, <2>1, <2>2, <4>1, <4>2 DEF ItemsInFlight
    <3>3. QED
      BY <1>1, <1>2, <1>3, <1>5, <3>1, <3>2 DEF FlagsInv
  <2>6. PhaseInv'
    BY <1>1, <1>2, <1>3, <1>5 DEF FlagsInv, PhaseInv, UpgradePage
  <2>7. QED
    BY <1>7, <2>4, <2>5, <2>6 DEF UpgradeInv
<1>10. QED
  BY <1>4, <1>8, <1>9

(* The page takes an event (handleProgressEvent): of its own job, or it is *)
(* marked as having heard of another one.                                  *)
LEMMA DeliverStep ==
    ASSUME UpgradeInv, Upgrade!Deliver
    PROVE  UpgradeInv'
<1>1. swu \in UpgradePage /\ wire \in Seq(Events)
      /\ installer \in [outcome : Seq(Outcomes), busy : BOOLEAN, told : BOOLEAN]
      /\ WireInv /\ FlagsInv /\ PhaseInv
  BY DEF UpgradeInv, UpgradeTypeOK
<1> DEFINE ev == Head(wire)
           f == Upgrade!handleProgressEvent(swu.flags, ev)
           other == swu.foreign \/ ev.job # swu.job
<1>2. /\ wire # <<>> /\ wire' = Tail(wire) /\ installer' = installer
      /\ swu' = [swu EXCEPT !.flags = f, !.foreign = other]
  BY DEF Upgrade!Deliver
<1>3. /\ ev \in Events /\ ev = wire[1] /\ Len(wire) \in Nat \ {0}
      /\ wire' \in Seq(Events) /\ Len(wire') = Len(wire) - 1
      /\ \A i \in 1..Len(wire') : i + 1 \in 1..Len(wire) /\ wire'[i] = wire[i + 1]
  BY <1>1, <1>2
<1>4. swu.flags \in Flags
  BY <1>1 DEF UpgradePage
<1> HIDE DEF ev
<1>5. /\ f \in Flags
      /\ f.success => swu.flags.success \/ ev.kind = "success"
      /\ f.received => swu.flags.received \/ ev.kind = "items"
      /\ swu.flags.received => f.received
      /\ ev.kind # "items" => f.items = swu.flags.items
  <2> DEFINE g == [swu.flags EXCEPT !.beat = TRUE]
  <2>1. /\ g \in Flags /\ g.success = swu.flags.success /\ g.received = swu.flags.received
        /\ g.items = swu.flags.items
    BY <1>4 DEF Flags
  <2> HIDE DEF g
  <2>2. ev.kind \in {"items", "progress", "success", "failure"} /\ ev.n \in {0, 1}
    BY <1>3 DEF Events
  <2>3. CASE ev.kind = "failure"
    <3>1. f = [g EXCEPT !.failure = TRUE]
      BY <2>3 DEF Upgrade!handleProgressEvent, g
    <3>2. QED
      BY <2>1, <2>3, <3>1 DEF Flags
  <2>4. CASE ev.kind = "success"
    <3>1. f = [g EXCEPT !.success = TRUE]
      BY <2>4 DEF Upgrade!handleProgressEvent, g
    <3>2. QED
      BY <2>1, <2>4, <3>1 DEF Flags
  <2>5. CASE ev.kind = "items"
    <3>1. f = [g EXCEPT !.items = ev.n, !.received = TRUE]
      BY <2>5 DEF Upgrade!handleProgressEvent, g
    <3>2. QED
      BY <2>1, <2>2, <2>5, <3>1 DEF Flags
  <2>6. CASE ev.kind = "progress"
    <3>1. f = g
      BY <2>6 DEF Upgrade!handleProgressEvent, g
    <3>2. QED
      BY <2>1, <2>6, <3>1
  <2>7. QED
    BY <2>2, <2>3, <2>4, <2>5, <2>6
<1> HIDE DEF f
<1>6. /\ swu' \in UpgradePage /\ swu'.flags = f /\ swu'.foreign = other
      /\ swu'.job = swu.job /\ swu'.phase = swu.phase
  <2>1. other \in BOOLEAN
    BY <1>1 DEF UpgradePage
  <2> HIDE DEF other
  <2>2. QED
    BY <1>1, <1>2, <1>5, <2>1 DEF UpgradePage
<1>7. UpgradeTypeOK' /\ InstallerInv'
  BY <1>1, <1>2, <1>3, <1>6 DEF UpgradeInv, UpgradeTypeOK, InstallerInv
<1>8. WireInv'
  <2>1. ASSUME NEW i \in 1..Len(wire')
        PROVE  /\ wire'[i].job \in 1..Len(installer'.outcome)
               /\ wire'[i].kind = "success" => installer'.outcome[wire'[i].job] = "success"
               /\ wire'[i].kind = "items" /\ wire'[i].job = Len(installer'.outcome) => installer'.told
    BY <1>1, <1>2, <1>3 DEF WireInv
  <2>2. ASSUME NEW i \in 1..Len(wire'), NEW j \in 1..Len(wire'),
               wire'[i].kind = "items", wire'[j].kind = "items", wire'[i].job = wire'[j].job
        PROVE  i = j
    <3>1. i + 1 = j + 1
      BY <1>1, <1>3, <2>2 DEF WireInv
    <3>2. QED
      BY <3>1
  <2>3. QED
    BY <2>1, <2>2 DEF WireInv
<1>9. FlagsInv' /\ PhaseInv'
  <2>1. /\ ev.job \in 1..Len(installer.outcome)
        /\ ev.kind = "success" => installer.outcome[ev.job] = "success"
        /\ ev.kind = "items" /\ ev.job = Len(installer.outcome) => installer.told
    BY <1>1, <1>3 DEF WireInv
  <2>2. swu.job \in 0..Len(installer.outcome)
    BY <1>1 DEF FlagsInv
  <2>3. ASSUME ~other
        PROVE  ev.job = swu.job /\ ~swu.foreign /\ swu.job # 0
    BY <2>1, <2>3
  <2>4. ASSUME ~other, f.success
        PROVE  installer.outcome[swu.job] = "success"
    BY <1>1, <1>5, <2>1, <2>3, <2>4 DEF FlagsInv
  <2>5. ASSUME ~other, f.received
        PROVE  /\ ~ItemsInFlight(swu.job)'
               /\ swu.job = Len(installer.outcome) => installer.told
    <3>1. CASE swu.flags.received
      <4>1. ~ItemsInFlight(swu.job) /\ (swu.job = Len(installer.outcome) => installer.told)
        BY <1>1, <2>3, <2>5, <3>1 DEF FlagsInv
      <4>2. QED
        BY <1>3, <1>6, <4>1 DEF ItemsInFlight
    <3>2. CASE ev.kind = "items"
      <4>1. \A i \in 1..Len(wire) : wire[i].kind = "items" /\ wire[i].job = ev.job => i = 1
        BY <1>1, <1>3, <3>2 DEF WireInv
      <4>2. \A i \in 1..Len(wire') : ~(wire'[i].kind = "items" /\ wire'[i].job = ev.job)
        BY <1>3, <4>1
      <4>3. QED
        BY <1>6, <2>1, <2>3, <2>5, <3>2, <4>2 DEF ItemsInFlight
    <3>3. QED
      BY <1>5, <2>5, <3>1, <3>2
  <2>6. FlagsInv'
    BY <1>2, <1>6, <2>2, <2>3, <2>4, <2>5 DEF FlagsInv
  <2>7. PhaseInv'
    <3>1. ASSUME swu.phase \in {"installed", "success", "rebooting"}, ~other
          PROVE  f.received /\ f.items = swu.flags.items
      <4>1. swu.flags.received /\ ~swu.foreign
        BY <1>1, <2>3, <3>1 DEF PhaseInv
      <4>2. ~ItemsInFlight(swu.job)
        BY <1>1, <4>1 DEF FlagsInv
      <4>3. ev.kind # "items"
        BY <1>3, <2>3, <3>1, <4>2 DEF ItemsInFlight
      <4>4. QED
        BY <1>5, <4>1, <4>3
    <3>2. QED
      BY <1>1, <1>2, <1>6, <2>3, <3>1 DEF PhaseInv
  <2>8. QED
    BY <2>6, <2>7
<1>10. QED
  BY <1>7, <1>8, <1>9 DEF UpgradeInv

(* The upgrade's invariant holds in every state of LuciDevice. *)
THEOREM UpgradeInvariantHolds ==
    DeviceSpec => []UpgradeInvariant
<1>1. DeviceInit => UpgradeInvariant
  <2> SUFFICES ASSUME Upgrade!SwuInit
               PROVE  UpgradeInv
    BY DEF DeviceInit, UpgradeInvariant
  <2>1. /\ swu = [phase |-> "idle", file |-> FALSE, stream |-> 0, flags |-> Upgrade!NoFlags,
                  job |-> 0, foreign |-> FALSE]
        /\ installer = [outcome |-> <<>>, busy |-> FALSE, told |-> FALSE] /\ wire = <<>>
    BY DEF Upgrade!SwuInit, Upgrade!Page
  <2>2. Upgrade!NoFlags \in Flags /\ ~Upgrade!NoFlags.success /\ ~Upgrade!NoFlags.received
    BY DEF Upgrade!NoFlags, Flags
  <2>3. <<>> \in Seq(Outcomes) /\ 0 \in 0..2 /\ 0 \in Nat
    OBVIOUS
  <2>4. swu \in UpgradePage
    BY <2>1, <2>2, <2>3 DEF UpgradePage, Phases
  <2>5. installer \in [outcome : Seq(Outcomes), busy : BOOLEAN, told : BOOLEAN]
    BY <2>1, <2>3
  <2>6. UpgradeTypeOK
    BY <2>1, <2>4, <2>5, NothingInFlight DEF UpgradeTypeOK
  <2>7. InstallerInv /\ WireInv
    BY <2>1 DEF InstallerInv, WireInv
  <2>8. FlagsInv /\ PhaseInv
    BY <2>1, <2>2 DEF FlagsInv, PhaseInv
  <2>9. QED
    BY <2>6, <2>7, <2>8 DEF UpgradeInv
<1>2. ASSUME UpgradeInvariant, [DeviceNext]_deviceVars
      PROVE  UpgradeInvariant'
  <2>1. CASE UNCHANGED <<swu, installer, wire>>
    BY <1>2, <2>1 DEF UpgradeInvariant, UpgradeInv, UpgradeTypeOK, InstallerInv, WireInv, FlagsInv,
                      PhaseInv, ItemsInFlight, NotOpen
  <2>2. CASE swu # NotOpen /\ Upgrade!SwuNext
    <3>1. UpgradeInv
      BY <1>2, <2>2 DEF UpgradeInvariant
    <3>2. UpgradeInv'
      BY <2>2, <3>1, DialogSteps, FreshSteps, StartedSteps, EventSteps, DeliverStep
         DEF Upgrade!SwuNext
    <3>3. QED
      BY <3>2 DEF UpgradeInvariant
  <2>3. QED
    BY <1>2, <2>1, <2>2 DEF DeviceNext, deviceVars
<1>3. QED
  BY <1>1, <1>2, PTL DEF DeviceSpec

(* The upgrade page says "success", or reboots the device, only when the   *)
(* upload it made was installed or there was nothing to install, as long   *)
(* as it heard of no other installation (onUpgradeFlash, onUpgradeReboot   *)
(* of swupdate.js).                                                        *)
THEOREM UpgradeVerdictHolds ==
    DeviceSpec => []UpgradeVerdict
<1>1. UpgradeInvariant => UpgradeVerdict
  BY DEF UpgradeInvariant, UpgradeInv, PhaseInv, UpgradeVerdict, Upgrade!VerdictConsistent
<1>2. QED
  BY <1>1, UpgradeInvariantHolds, PTL
=============================================================================
