------------------------------ MODULE SwUpdate ------------------------------
(* The firmware upgrade page (luci-app-tn-swupdate): an upload, then a wait  *)
(* for the installer's events, which come over an event stream that may      *)
(* break, and of which the page cannot tell whose installation they are      *)
(* about. The verdict comes from two timers: one looks at the flags the      *)
(* events set, the other gives up when no event came for its whole period.   *)
(*                                                                           *)
(* The installer is external: jobs, numbered, each with an outcome. Its      *)
(* events are in flight in `wire`.                                           *)
EXTENDS Integers, Sequences, FiniteSets

CONSTANTS MaxJobs,    \* bound on the installations of one behaviour
          MaxWire     \* bound on the events in flight
VARIABLES swu,        \* the page
          installer,  \* [outcome : a sequence, one per job, busy, told: items announced]
          wire        \* events on their way to the page

swuVars == <<swu, installer, wire>>

NoFlags == [beat |-> FALSE, success |-> FALSE, failure |-> FALSE, items |-> 0, received |-> FALSE]

(* readyState 0, 1, 2 of the event stream.                                   *)
Page(file) ==
  [phase |-> "idle", file |-> file, stream |-> 0, flags |-> NoFlags,
   job |-> 0, foreign |-> FALSE]

SwuInit ==
  /\ swu = Page(FALSE)
  /\ installer = [outcome |-> <<>>, busy |-> FALSE, told |-> FALSE]
  /\ wire = <<>>

-----------------------------------------------------------------------------
(* The event stream: what is sent while it is down is lost.                  *)
StreamOpens ==
  /\ swu.stream = 0 /\ swu' = [swu EXCEPT !.stream = 1]
  /\ UNCHANGED <<installer, wire>>
StreamBreaks ==
  /\ swu.stream = 1
  /\ swu' = [swu EXCEPT !.stream = 0] /\ wire' = <<>>
  /\ UNCHANGED installer

(* What an event does to the flags; any event is a sign of life.             *)
handleProgressEvent(flags, ev) ==
  LET f == [flags EXCEPT !.beat = TRUE]
  IN  CASE ev.kind = "failure" -> [f EXCEPT !.failure = TRUE]
        [] ev.kind = "success" -> [f EXCEPT !.success = TRUE]
        [] ev.kind = "items" -> [f EXCEPT !.items = ev.n, !.received = TRUE]
        [] ev.kind = "progress" -> f

Deliver ==
  /\ wire # <<>>
  /\ swu' = [swu EXCEPT !.flags = handleProgressEvent(@, Head(wire)),
                        !.foreign = @ \/ Head(wire).job # swu.job]
  /\ wire' = Tail(wire)
  /\ UNCHANGED installer

-----------------------------------------------------------------------------
Job == Len(installer.outcome)
Send(ev) == wire' = IF swu.stream = 1 /\ swu.phase # "rebooting" THEN Append(wire, ev) ELSE wire
Started == installer' = [outcome |-> Append(installer.outcome, "none"),
                         busy |-> TRUE, told |-> FALSE]

(* The installer takes an upload while it is still coming in. Another        *)
(* administrator's upload is one the page knows nothing of.                  *)
Accept ==
  /\ swu.phase = "upload" /\ swu.job = 0 /\ ~installer.busy /\ Job < MaxJobs
  /\ Started
  /\ swu' = [swu EXCEPT !.job = Job + 1]
  /\ UNCHANGED wire
OtherUpload ==
  /\ ~installer.busy /\ Job < MaxJobs
  /\ Started
  /\ UNCHANGED <<swu, wire>>
Announce ==
  /\ installer.busy /\ Len(wire) < MaxWire /\ ~installer.told
  /\ \E n \in {0, 1} : Send([job |-> Job, kind |-> "items", n |-> n])
  /\ installer' = [installer EXCEPT !.told = TRUE]
  /\ UNCHANGED swu
Progress ==
  /\ installer.busy /\ Len(wire) < MaxWire
  /\ Send([job |-> Job, kind |-> "progress", n |-> 0])
  /\ UNCHANGED <<swu, installer>>
Finish ==
  /\ installer.busy /\ Len(wire) <= MaxWire
  /\ \E end \in {"success", "failure"} :
       /\ Send([job |-> Job, kind |-> end, n |-> 0])
       /\ installer' = [installer EXCEPT !.outcome[Job] = end, !.busy = FALSE]
  /\ UNCHANGED swu

-----------------------------------------------------------------------------
onFileSelected(ok) ==
  /\ swu.phase = "idle"
  /\ swu' = [swu EXCEPT !.file = ok]
  /\ UNCHANGED <<installer, wire>>

onUpgrade ==
  /\ swu.phase = "idle" /\ swu.file /\ swu.stream = 1
  /\ swu' = [swu EXCEPT !.phase = "ready"]
  /\ UNCHANGED <<installer, wire>>

closeDialog ==
  /\ swu.phase \in {"ready", "error", "success"}
  /\ swu' = [swu EXCEPT !.phase = "idle"]
  /\ UNCHANGED <<installer, wire>>

MutKeepsSuccess(flags) == [NoFlags EXCEPT !.success = flags.success]

onPreUpgrade(flags) == NoFlags

(* The button of the dialog works again after a run has ended.               *)
onUpgradeProcess ==
  /\ swu.phase \in {"ready", "error", "success"} /\ swu.stream = 1
  /\ swu' = [swu EXCEPT !.phase = "acl", !.flags = onPreUpgrade(@), !.job = 0, !.foreign = FALSE]
  /\ UNCHANGED <<installer, wire>>

checkSessionACL ==
  /\ swu.phase = "acl"
  /\ \E access \in BOOLEAN : swu' = [swu EXCEPT !.phase = IF access THEN "upload" ELSE "error"]
  /\ UNCHANGED <<installer, wire>>

(* The upload has no time limit of its own. Any answer lets the page go on,  *)
(* one that refuses the file too: the HTTP status is not looked at. Only an  *)
(* upload without an answer ends here. The wait starts with the beat the     *)
(* timer will compare against.                                               *)
onUpgradeUpload ==
  /\ swu.phase = "upload"
  /\ \/ swu' = [swu EXCEPT !.phase = "flash", !.flags.beat = FALSE]
     \/ swu' = [swu EXCEPT !.phase = "error"]
  /\ UNCHANGED <<installer, wire>>

(* Every second: nothing to install wins over a failure, a failure over a    *)
(* success, and nothing counts before the number of items is known.          *)
upgradeCheck ==
  /\ swu.phase = "flash" /\ swu.flags.received
  /\ \/ swu.flags.items = 0 /\ swu' = [swu EXCEPT !.phase = "installed"]
     \/ swu.flags.items > 0 /\ swu.flags.failure /\ swu' = [swu EXCEPT !.phase = "error"]
     \/ /\ swu.flags.items > 0 /\ ~swu.flags.failure /\ swu.flags.success
        /\ swu' = [swu EXCEPT !.phase = "installed"]
  /\ UNCHANGED <<installer, wire>>

MutTimeoutNeedsItems ==
  /\ swu.phase = "flash" /\ swu.flags.received
  /\ swu' = IF swu.flags.beat THEN [swu EXCEPT !.flags.beat = FALSE] ELSE [swu EXCEPT !.phase = "error"]
  /\ UNCHANGED <<installer, wire>>

(* Every fifteen seconds. The check above keeps running after it, but the    *)
(* promise it would settle is settled.                                       *)
upgradeTimeout ==
  /\ swu.phase = "flash"
  /\ swu' = IF swu.flags.beat THEN [swu EXCEPT !.flags.beat = FALSE] ELSE [swu EXCEPT !.phase = "error"]
  /\ UNCHANGED <<installer, wire>>

(* The state file asks for a reboot or not; a read that fails says no.       *)
onUpgradeReboot ==
  /\ swu.phase = "installed"
  /\ \E doReboot \in BOOLEAN :
       IF doReboot /\ swu.flags.items > 0
       THEN swu' = [swu EXCEPT !.phase = "rebooting", !.stream = 2] /\ wire' = <<>>
       ELSE swu' = [swu EXCEPT !.phase = "success"] /\ UNCHANGED wire
  /\ UNCHANGED installer

(* awaitReconnect: the device is asked until it answers, then the page is    *)
(* loaded anew. What the device was installing before the reboot is over.    *)
Reconnected ==
  /\ swu.phase = "rebooting"
  /\ swu' = Page(FALSE) /\ wire' = <<>>
  /\ installer' = [installer EXCEPT !.busy = FALSE]

SwuNext ==
  \/ StreamOpens
  \/ StreamBreaks
  \/ Deliver
  \/ Accept
  \/ OtherUpload
  \/ Announce
  \/ Progress
  \/ Finish
  \/ \E ok \in BOOLEAN : onFileSelected(ok)
  \/ onUpgrade
  \/ closeDialog
  \/ onUpgradeProcess
  \/ checkSessionACL
  \/ onUpgradeUpload
  \/ upgradeCheck
  \/ upgradeTimeout
  \/ onUpgradeReboot
  \/ Reconnected

InProgress == swu.phase \in {"acl", "upload", "flash", "installed"}
Settle == checkSessionACL \/ onUpgradeUpload \/ upgradeCheck \/ onUpgradeReboot

(* The page reports success, or reboots the device, only when the upload it  *)
(* made was installed or there was nothing to install, provided every event  *)
(* it got since it started was about that upload.                            *)
VerdictConsistent ==
  swu.phase \in {"installed", "success", "rebooting"} /\ ~swu.foreign =>
    /\ swu.job # 0
    /\ swu.flags.items > 0 => installer.outcome[swu.job] = "success"
=============================================================================
