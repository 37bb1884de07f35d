----------------------------- MODULE LuciDevice -----------------------------
(* The two things a page asks of a device that can end with the device out  *)
(* of reach: applying a configuration (LuciApply) and upgrading the firmware *)
(* (SwUpdate). A page does one of them.                                      *)
EXTENDS LuciApply

CONSTANTS MaxJobs, MaxWire
VARIABLES swu, installer, wire

Upgrade == INSTANCE SwUpdate

NotOpen == [phase |-> "closed"]
deviceVars == <<dev, page, req, lost, swu, installer, wire>>

DeviceInit ==
    \/ Init /\ swu = NotOpen /\ installer = NotOpen /\ wire = <<>>
    \/ Init /\ Upgrade!SwuInit

DeviceNext ==
    \/ swu = NotOpen /\ Next /\ UNCHANGED <<swu, installer, wire>>
    \/ swu # NotOpen /\ Upgrade!SwuNext /\ UNCHANGED vars

(* The fairness of LuciApply for the one page.  For the other, the promises *)
(* of the upgrade settle, its timers fire, an upload ends (the browser has  *)
(* no limit for it, TCP has), and an installation ends. *)
Applying(A) == swu = NotOpen /\ A /\ UNCHANGED <<swu, installer, wire>>
Upgrading(A) == swu # NotOpen /\ A /\ UNCHANGED vars

DeviceFairness ==
    /\ WF_deviceVars(Applying(Tick)) /\ WF_deviceVars(Applying(RpcdRollback))
    /\ WF_deviceVars(Applying(PageTimer)) /\ WF_deviceVars(Applying(Serve))
    /\ WF_deviceVars(Applying(Answer)) /\ WF_deviceVars(Applying(Fail /\ ~dev.net))
    /\ WF_deviceVars(Upgrading(Upgrade!Settle))
    /\ WF_deviceVars(Upgrading(Upgrade!upgradeTimeout))
    /\ WF_deviceVars(Upgrading(Upgrade!Finish))

DeviceSpec == DeviceInit /\ [][DeviceNext]_deviceVars /\ DeviceFairness

(* The upgrade page (swupdate.js, onUpgradeFlash and onUpgradeReboot)        *)
(* reports success or reboots only when the upload it made was installed, or *)
(* there was nothing to install, unless events of another installation came  *)
(* in between: flags left over from an earlier run, lost events and a broken *)
(* stream never make a success. *)
UpgradeVerdict == swu # NotOpen => Upgrade!VerdictConsistent

(* An upgrade that was started ends (onUpgradeProcess): with a verdict, or   *)
(* with the reboot, even when every event of the installer is lost. *)
UpgradeEnds ==
    swu # NotOpen /\ Upgrade!InProgress ~> ~Upgrade!InProgress
=============================================================================
