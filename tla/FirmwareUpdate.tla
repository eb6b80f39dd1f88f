--------------------------- MODULE FirmwareUpdate ---------------------------
(***************************************************************************)
(* The firmware updater of the daemon (HA1Control_FWUpdate.cc): for every  *)
(* radio device it queues chains of commands, asks the firmware version,   *)
(* brings the device into its boot loader, transfers the image page by     *)
(* page, reboots it and asks again.                                        *)
(*                                                                         *)
(* One step of a chain is one transaction of CommandQueue: the device      *)
(* answers it, or reports errors until Retry gives up, or stays silent     *)
(* until Retry gives up.  A chain keeps its SequenceID and so its device   *)
(* from its first step to its last, and the next chain for the device      *)
(* waits (ServedInOrder and Transactions of CommandQueue): a queue of      *)
(* chains per device.                                                      *)
(***************************************************************************)
EXTENDS Integers, Sequences

CONSTANTS
  Devices,       \* the devices of DeviceTable, with firmware that can be updated
  NoDevice,      \* FWUpdateDevice = 0
  Pages,         \* FWSeqNum, the pages of the image
  FlowCtrl,      \* XBeeDeviceFlowCtrl: updates may overlap
  ErrorReplies,  \* devices may answer with an error status again and again
  MaxChains,     \* bound on the chains waiting for a device
  MaxUpdates,    \* bound on the update commands of users
  MaxRestarts    \* bound on the restarts of the daemon

ASSUME UpdateAssumption ==
  /\ NoDevice \notin Devices
  /\ Pages \in Nat \ {0}
  /\ FlowCtrl \in BOOLEAN /\ ErrorReplies \in BOOLEAN
  /\ {MaxChains, MaxUpdates, MaxRestarts} \subseteq Nat

VARIABLES
  flag,            \* FWUpdateFlag: 0 check, 1 force, 2 updating, 3 done
  FWVer,           \* the firmware version the daemon knows
  FWUpdateDevice,  \* the device being updated
  chains,          \* the chains queued for each device; the first one runs
  mode,            \* whether the device runs its firmware or its boot loader
  image,           \* what the program memory of the device holds
  updates,         \* how many update commands there were
  restarts         \* how often the daemon started anew

vars == <<flag, FWVer, FWUpdateDevice, chains, mode, image, updates, restarts>>

(* "boot" is any version with bit 0x8000, "none" is 0, "new" the version   *)
(* of the firmware file and "old" any version before it.                   *)
Versions == {"none", "old", "new", "boot"}
Stages == {"NodeId", "GetVer1", "Boot", "GetVer2", "Page", "LastPage", "Reboot", "GetVer3",
           "Reboot4", "GetVer4"}
Chain  == [stage: Stages, page: Nat]
(* From the moment FWUpdateDevice is claimed to the moment it is given up. *)
Updating == {"Boot", "GetVer2", "Page", "LastPage", "Reboot", "GetVer3"}

At(d, stages) == chains[d] # << >> /\ Head(chains[d]).stage \in stages
InUpdate(d)   == At(d, Updating)

(***************************************************************************)
(* Helpers                                                                 *)
(***************************************************************************)
Version(d) == IF mode[d] = "boot" THEN "boot" ELSE image[d]
Step(stage, page) == [stage |-> stage, page |-> page]

(* The chain of d goes on with another step.                               *)
GoOn(d, stage, page) == [chains EXCEPT ![d] = <<Step(stage, page)>> \o Tail(@)]
(* The chain of d is over.                                                 *)
Over(d) == [chains EXCEPT ![d] = Tail(@)]

(* FWUpdateCheck: a forced update of a device nobody heard of is taken     *)
(* back; then a version check is queued for devices that are forced, and   *)
(* for those not up to date unless they were checked lately ("recent").    *)
(* f and v are the flags and versions at that moment, c the chains.        *)
Demoted(f, v) == [d \in Devices |-> IF f[d] = 1 /\ v[d] = "none" THEN 0 ELSE f[d]]
Wants(f, v, recent, d) == \/ f[d] = 1
                          \/ f[d] = 0 /\ v[d] # "new" /\ d \notin recent
FWUpdateCheck(f, v, c, recent) ==
  /\ flag' = Demoted(f, v)
  /\ chains' = [d \in Devices |->
       IF Wants(Demoted(f, v), v, recent, d) /\ Len(c[d]) < MaxChains
       THEN Append(c[d], Step("NodeId", 0)) ELSE c[d]]

(***************************************************************************)
(* Triggers                                                                *)
(***************************************************************************)

(* IntervalCheck, every AliveInterval.                                     *)
Interval(recent) ==
  /\ FWUpdateCheck(flag, FWVer, chains, recent)
  /\ UNCHANGED <<FWVer, FWUpdateDevice, mode, image, updates, restarts>>

(* The update command: one device, or all of them, forced or only checked. *)
(* It forgets when the devices were checked.                               *)
Update(S, f, recent) ==
  /\ updates < MaxUpdates /\ updates' = updates + 1
  /\ S = Devices \/ (f = 1 /\ \E d \in Devices : S = {d})
  /\ recent \cap S = {}
  /\ FWUpdateCheck([d \in Devices |-> IF d \in S THEN f ELSE flag[d]], FWVer, chains, recent)
  /\ UNCHANGED <<FWVer, FWUpdateDevice, mode, image, restarts>>

(* A device restarts and reports its firmware (AnalyzeAVRMessage).         *)
RebootNotification(d) ==
  /\ image[d] # "partial"
  /\ mode' = [mode EXCEPT ![d] = "firmware"]
  /\ FWVer' = [FWVer EXCEPT ![d] = image[d]]
  /\ UNCHANGED <<flag, FWUpdateDevice, chains, image, updates, restarts>>

(* A device reports that it is in its boot loader: FWReboot starts the     *)
(* firmware unless an update is due or in progress.                        *)
BootModeNotification(d) ==
  /\ mode[d] = "boot"
  /\ FWVer' = [FWVer EXCEPT ![d] = "boot"]
  /\ chains' = IF flag[d] = 3 /\ Len(chains[d]) < MaxChains
               THEN [chains EXCEPT ![d] = Append(@, Step("Reboot4", 0))] ELSE chains
  /\ UNCHANGED <<flag, FWUpdateDevice, mode, image, updates, restarts>>

(***************************************************************************)
(* Answers: the device did what it was told, and the handler goes on.      *)
(***************************************************************************)

(* FWUpdateNodeIdRes: only devices with firmware of ours are asked on.     *)
NodeIdRes(d, ours) ==
  /\ At(d, {"NodeId"})
  /\ chains' = IF ours THEN GoOn(d, "GetVer1", 0) ELSE Over(d)
  /\ UNCHANGED <<flag, FWVer, FWUpdateDevice, mode, image, updates, restarts>>

(* GetVerRes                                                               *)
LearnVersion(d) == FWVer' = [FWVer EXCEPT ![d] = Version(d)]

Claim(d) == FWUpdateDevice' = d
ReleaseForgotten == UNCHANGED FWUpdateDevice   \* mutant: a failed update keeps the line
Release == FWUpdateDevice' = NoDevice
OccupiedNever == FALSE   \* mutant: a running update does not stop another one
Occupied == ~FlowCtrl /\ FWUpdateDevice # NoDevice
Outdated(d) == flag[d] = 1 \/ (flag[d] = 0 /\ Version(d) # "new")

FWUpdateGetVer1Res(d) ==
  /\ At(d, {"GetVer1"}) /\ LearnVersion(d)
  /\ \/ /\ Occupied
        /\ chains' = Over(d)
        /\ UNCHANGED <<flag, FWUpdateDevice>>
     \/ /\ ~Occupied /\ Version(d) = "boot"
        /\ Claim(d)
        /\ flag' = [flag EXCEPT ![d] = 2]
        /\ chains' = GoOn(d, "Page", 0)
     \/ /\ ~Occupied /\ Version(d) # "boot" /\ Outdated(d)
        /\ Claim(d)
        /\ chains' = GoOn(d, "Boot", 0)
        /\ UNCHANGED flag
     \/ /\ ~Occupied /\ Version(d) # "boot" /\ ~Outdated(d)
        /\ flag' = [flag EXCEPT ![d] = 3]
        /\ chains' = Over(d)
        /\ UNCHANGED FWUpdateDevice
  /\ UNCHANGED <<mode, image, updates, restarts>>

(* FWUpdateGetVer2: the device was told to enter its boot loader.          *)
FWUpdateGetVer2(d, enters) ==
  /\ At(d, {"Boot"})
  /\ mode' = IF enters THEN [mode EXCEPT ![d] = "boot"] ELSE mode
  /\ chains' = GoOn(d, "GetVer2", 0)
  /\ UNCHANGED <<flag, FWVer, FWUpdateDevice, image, updates, restarts>>

FWUpdateGetVer2Res(d) ==
  /\ At(d, {"GetVer2"}) /\ LearnVersion(d)
  /\ IF Version(d) = "boot"
     THEN /\ flag' = [flag EXCEPT ![d] = 2]
          /\ chains' = GoOn(d, "Page", 0)
          /\ UNCHANGED FWUpdateDevice
     ELSE /\ Release
          /\ chains' = Over(d)
          /\ UNCHANGED flag
  /\ UNCHANGED <<mode, image, updates, restarts>>

AfterPageShort(d, page) ==   \* mutant: the page that makes the image valid is left out
  IF page + 1 < Pages THEN GoOn(d, "Page", page + 1) ELSE GoOn(d, "Reboot", 0)
AfterPage(d, page) ==
  IF page + 1 < Pages THEN GoOn(d, "Page", page + 1) ELSE GoOn(d, "LastPage", page + 1)

(* FWUpdateTransferRes: page after page, then the page that makes the      *)
(* image valid.  Only the boot loader of a device writes its memory.       *)
FWUpdateTransferRes(d) ==
  /\ At(d, {"Page"}) /\ mode[d] = "boot"
  /\ image' = [image EXCEPT ![d] = "partial"]
  /\ chains' = AfterPage(d, Head(chains[d]).page)
  /\ UNCHANGED <<flag, FWVer, FWUpdateDevice, mode, updates, restarts>>

(* FWUpdateRebootFW: the last page was written.                            *)
FWUpdateRebootFW(d) ==
  /\ At(d, {"LastPage"}) /\ (mode[d] = "boot" \/ image[d] = "new")
  /\ image' = [image EXCEPT ![d] = "new"]
  /\ chains' = GoOn(d, "Reboot", 0)
  /\ UNCHANGED <<flag, FWVer, FWUpdateDevice, mode, updates, restarts>>

(* FWUpdateGetVer3 and FWUpdateGetVer4: the device was told to reboot into *)
(* its firmware.  It may stay in its boot loader.                          *)
AskVersion(d, stage, next, starts) ==
  /\ At(d, {stage})
  /\ starts => image[d] # "partial"
  /\ mode' = IF starts THEN [mode EXCEPT ![d] = "firmware"] ELSE mode
  /\ chains' = GoOn(d, next, 0)
  /\ UNCHANGED <<flag, FWVer, FWUpdateDevice, image, updates, restarts>>
FWUpdateGetVer3(d, starts) == AskVersion(d, "Reboot", "GetVer3", starts)
FWUpdateGetVer4(d, starts) == AskVersion(d, "Reboot4", "GetVer4", starts)

(* FWUpdateGetVer3Res: done, whatever the version.                         *)
FWUpdateGetVer3Res(d, recent) ==
  /\ At(d, {"GetVer3"}) /\ LearnVersion(d)
  /\ Release
  /\ FWUpdateCheck([flag EXCEPT ![d] = 3], FWVer', Over(d), recent)
  /\ UNCHANGED <<mode, image, updates, restarts>>

(* FWUpdateGetVer4Res: a device that does not leave its boot loader is     *)
(* updated.                                                                *)
FWUpdateGetVer4Res(d, recent) ==
  /\ At(d, {"GetVer4"}) /\ LearnVersion(d)
  /\ IF Version(d) = "boot"
     THEN FWUpdateCheck(IF flag[d] = 3 THEN [flag EXCEPT ![d] = 1] ELSE flag,
                        FWVer', Over(d), recent)
     ELSE chains' = Over(d) /\ UNCHANGED flag
  /\ UNCHANGED <<FWUpdateDevice, mode, image, updates, restarts>>

(***************************************************************************)
(* No answer                                                               *)
(***************************************************************************)

(* The device does what it was told, and its answer is lost or late.      *)
Acts(d) ==
  /\ \/ At(d, {"Boot"}) /\ mode' = [mode EXCEPT ![d] = "boot"] /\ UNCHANGED image
     \/ /\ At(d, {"Page", "LastPage"}) /\ mode[d] = "boot"
        /\ image' = [image EXCEPT ![d] = IF At(d, {"Page"}) THEN "partial" ELSE "new"]
        /\ UNCHANGED mode
     \/ /\ At(d, {"Reboot", "Reboot4"}) /\ image[d] # "partial"
        /\ mode' = [mode EXCEPT ![d] = "firmware"] /\ UNCHANGED image
  /\ UNCHANGED <<flag, FWVer, FWUpdateDevice, chains, updates, restarts>>

AbandonDone(d) ==   \* mutant: a device given up counts as done
  /\ flag' = [flag EXCEPT ![d] = 3]
  /\ FWUpdateDevice' = IF FWUpdateDevice = d THEN NoDevice ELSE FWUpdateDevice
AbandonQuiet(d) ==  \* mutant: the flag of a device given up is left alone
  /\ UNCHANGED flag
  /\ FWUpdateDevice' = IF FWUpdateDevice = d THEN NoDevice ELSE FWUpdateDevice
Abandon(d) ==
  /\ flag' = [flag EXCEPT ![d] = 1]
  /\ FWUpdateDevice' = IF FWUpdateDevice = d THEN NoDevice ELSE FWUpdateDevice

(* WriteQueueTimeoutCheck and QueuePairAVRCommandDelivery: Retry gives up; *)
(* the update is abandoned and will be forced again.                       *)
GiveUp(d) ==
  /\ chains[d] # << >>
  /\ chains' = Over(d)
  /\ Abandon(d)
  /\ UNCHANGED <<FWVer, mode, image, updates, restarts>>

(* QueuePairATCommandProcess and QueuePairAVRCommandProcess: the device    *)
(* reports an error until Retry gives up, or at once if its flag is 3: the *)
(* entry is deleted, and that is all.                                      *)
ErrorGiveUp(d) ==
  /\ ErrorReplies /\ chains[d] # << >>
  /\ chains' = Over(d)
  /\ UNCHANGED <<flag, FWVer, FWUpdateDevice, mode, image, updates, restarts>>

(* The daemon starts anew: what it knew of devices and what it was doing   *)
(* is forgotten.                                                           *)
Restart ==
  /\ restarts < MaxRestarts /\ restarts' = restarts + 1
  /\ flag' = [d \in Devices |-> 0] /\ FWVer' = [d \in Devices |-> "none"]
  /\ FWUpdateDevice' = NoDevice /\ chains' = [d \in Devices |-> << >>]
  /\ UNCHANGED <<mode, image, updates>>

(***************************************************************************)
(* The specification                                                       *)
(***************************************************************************)
Init ==
  /\ flag = [d \in Devices |-> 0] /\ FWVer = [d \in Devices |-> "none"]
  /\ FWUpdateDevice = NoDevice
  /\ chains = [d \in Devices |-> << >>]
  /\ mode \in [Devices -> {"firmware", "boot"}]
  /\ image \in [Devices -> {"old", "new", "partial"}]
  /\ \A d \in Devices : image[d] = "partial" => mode[d] = "boot"
  /\ updates = 0 /\ restarts = 0

Triggers ==
  \/ \E recent \in SUBSET Devices :
       \/ Interval(recent)
       \/ \E S \in SUBSET Devices, f \in {0, 1} : Update(S, f, recent)
  \/ \E d \in Devices : RebootNotification(d) \/ BootModeNotification(d)
  \/ Restart

Answer(d) ==
  \/ \E ours \in BOOLEAN : NodeIdRes(d, ours)
  \/ FWUpdateGetVer1Res(d)
  \/ \E enters \in BOOLEAN : FWUpdateGetVer2(d, enters)
  \/ FWUpdateGetVer2Res(d) \/ FWUpdateTransferRes(d) \/ FWUpdateRebootFW(d)
  \/ \E starts \in BOOLEAN : FWUpdateGetVer3(d, starts) \/ FWUpdateGetVer4(d, starts)
  \/ \E recent \in SUBSET Devices : FWUpdateGetVer3Res(d, recent) \/ FWUpdateGetVer4Res(d, recent)

Advance(d) == Answer(d) \/ GiveUp(d) \/ ErrorGiveUp(d)

Next == Triggers \/ \E d \in Devices : Acts(d) \/ Advance(d)
Spec == Init /\ [][Next]_vars

(* The queue answers, retries or gives up every step of a chain            *)
(* (EveryCommandEnds of CommandQueue).                                     *)
FairSpec == Spec /\ \A d \in Devices : WF_vars(Advance(d))

(***************************************************************************)
(* Properties                                                              *)
(***************************************************************************)

(* Flags and versions are those of DeviceList.h.                           *)
TypeOK ==
  /\ flag \in [Devices -> 0 .. 3] /\ FWVer \in [Devices -> Versions]
  /\ FWUpdateDevice \in Devices \cup {NoDevice}
  /\ chains \in [Devices -> Seq(Chain)]
  /\ mode \in [Devices -> {"firmware", "boot"}]
  /\ image \in [Devices -> {"old", "new", "partial"}]
  /\ updates \in 0 .. MaxUpdates /\ restarts \in 0 .. MaxRestarts

(* Without flow control of the serial line no two devices are updated at   *)
(* the same time, whatever chains are queued, abandoned or started anew.   *)
OneUpdateAtATime ==
  ~FlowCtrl => \A d, e \in Devices : InUpdate(d) /\ InUpdate(e) => d = e

(* An update in progress owns FWUpdateDevice: nothing gives it away early. *)
UpdateOwnsTheLine == ~FlowCtrl => \A d \in Devices : InUpdate(d) => FWUpdateDevice = d

(* A device with half an image is never taken for done: only then does a   *)
(* boot-mode notification make the daemon start the firmware.              *)
PartialIsNotDone == \A d \in Devices : image[d] = "partial" => flag[d] # 3

(* An update tells a device to reboot only when it has the whole image.    *)
RebootsWholeImage == \A d \in Devices : At(d, {"Reboot", "GetVer3"}) => image[d] = "new"

(* While a device is half written somebody is at work on it or will be.    *)
PartialIsAttended == \A d \in Devices :
  image[d] = "partial" => At(d, {"Page", "LastPage"}) \/ flag[d] \in {0, 1}

(* "2:Updateing" (DeviceList.h): the device is being updated.              *)
UpdatingMeansInProgress == \A d \in Devices : flag[d] = 2 => InUpdate(d)

(* The line does not stay with one device for ever.                        *)
LineIsFreed == \A d \in Devices : FWUpdateDevice = d ~> FWUpdateDevice # d
=============================================================================
