------------------------------ MODULE UsbClient ------------------------------
(* A program that uses the exported pspUsbDevice functions itself               *)
(* (systemctrl/exports.exp) the way sceUsbStartPatched does: it initialises the *)
(* component, sets a device, gives it back with pspUsbDeviceFinishDevice        *)
(* whenever pspUsbDeviceSetDevice reports an error, and serves it to the host   *)
(* in between.  Unlike the XMB it also takes the file systems of the flashes    *)
(* away from the firmware while the host has them (unassign_mask).              *)
EXTENDS UsbDevice

CONSTANT AssignMayFail   \* TRUE: sceIoAssign may fail

ASSUME AssignConstant == AssignMayFail \in BOOLEAN

VARIABLES
  client,   \* where the program's thread is
  inited,   \* a pspUsbDeviceInit has succeeded
  asked     \* the arguments of the last pspUsbDeviceSetDevice

clientVars == <<client, inited, asked>>
allClientVars == <<devVars, clientVars>>

Requests == [device : Devices, ronly : BOOLEAN, mask : SUBSET Flashes]
ClientStates == {"idle", "setting", "ready", "running", "giveback"}

ClientTypeOK ==
  /\ DevTypeOK
  /\ client \in ClientStates
  /\ inited \in BOOLEAN
  /\ asked \in Requests

ClientInit ==
  /\ DevInit
  /\ client = "idle"
  /\ inited = FALSE
  /\ asked = [device |-> 0, ronly |-> TRUE, mask |-> {}]

Initialise ==
  /\ client = "idle"
  /\ DeviceInit
  /\ inited' = (inited \/ res' = "ok")
  /\ UNCHANGED <<client, asked>>

AskFor(request) ==
  /\ client = "idle"
  /\ inited
  /\ CallSetDevice(request.device, request.ronly, request.mask)
  /\ client' = "setting"
  /\ asked' = request
  /\ UNCHANGED inited

SettingStep ==
  /\ client = "setting"
  /\ SetDeviceStep
  /\ UNCHANGED clientVars

SetReturns ==
  /\ client = "setting"
  /\ SetDeviceReturns
  /\ client' = IF res = "ok" THEN "ready" ELSE "giveback"
  /\ UNCHANGED <<inited, asked>>

\* sceUsbStart and sceUsbStop, which the program calls without the XMB's patches.
ServeHost ==
  /\ client = "ready"
  /\ client' = "running"
  /\ UNCHANGED <<devVars, inited, asked>>

StopServing ==
  /\ client = "running"
  /\ client' = "giveback"
  /\ UNCHANGED <<devVars, inited, asked>>

\* pspUsbDeviceFinishDevice, again as long as it reports an error.
GiveBack ==
  /\ client = "giveback"
  /\ FinishDevice(AssignMayFail)
  /\ client' = IF res' = "ok" THEN "idle" ELSE "giveback"
  /\ UNCHANGED <<inited, asked>>

ClientDiscMoves == MoveDisc /\ UNCHANGED clientVars

ClientNext ==
  \/ Initialise
  \/ \E request \in Requests : AskFor(request)
  \/ SettingStep \/ SetReturns
  \/ ServeHost \/ StopServing \/ GiveBack
  \/ ClientDiscMoves

ClientSpec == ClientInit /\ [][ClientNext]_allClientVars
-------------------------------------------------------------------------------
(* Properties *)

\* A program that is done with USB leaves the system as it found it: the firmware's
\* function table, no pool, and every flash that was assigned assigned again,
\* through every early return of SetDevice and FinishDevice.
SystemRestored ==
  client = "idle" => /\ funcs = FirmwareTable
                     /\ pools = {}
                     /\ assigned = InitialAssigned

\* At every moment the component remembers each flash it has taken away: the
\* record is what a later pspUsbDeviceFinishDevice goes by.
NoFlashForgotten == /\ assigned \subseteq InitialAssigned
                    /\ InitialAssigned \ assigned \subseteq flash_unassigned

\* While the host is served a flash, the firmware's file systems of the mask are
\* unassigned, so no partition is written by the host and the firmware at once
\* (the mask of a request for the UMD is not looked at).
NoDoubleUse == client = "running" /\ asked.device \in Flashes
                 => asked.mask \cap assigned = {}

\* The host reaches the device that was asked for, and can write to it only if it
\* is a flash asked for writable.
ServedAsAsked ==
  client = "running" =>
    /\ OpenedDrive = IF asked.device = Umd THEN "umd" ELSE "flash"
    /\ OpenedDrive = "flash" => cur_device = asked.device
    /\ WritePasses => asked.device \in Flashes /\ ~asked.ronly
===============================================================================
