-------------------------- MODULE MCFirmwareUpdate --------------------------
(* Instances of FirmwareUpdate for TLC.                                    *)
EXTENDS FirmwareUpdate, TLC

CONSTANTS d1, d2
DeviceSymmetry == Permutations(Devices)
=============================================================================
