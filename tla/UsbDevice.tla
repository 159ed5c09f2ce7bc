------------------------------- MODULE UsbDevice -------------------------------
(* The USB device component of systemctrl (systemctrl/usbdevice.c): it lets    *)
(* the USB mass storage driver serve a flash partition or the UMD drive to the  *)
(* host instead of the memory stick, by rewriting the function table of the     *)
(* "msstor" block driver.  This module holds the component's state and its      *)
(* three exported operations; UsbVsh and UsbClient compose it with its callers. *)
(*                                                                              *)
(* One thread calls the operations.  The function table is rewritten with       *)
(* interrupts suspended, so a rewrite is one step; sceUmdWaitDriveStat blocks,  *)
(* so pspUsbDeviceSetDevice of the UMD is a sequence of steps driven by "op".   *)
EXTENDS Integers, FiniteSets

CONSTANTS
  PoolIds,      \* ids the kernel can give to the "UmdSector" pool
  NoPool,       \* UmdSectorPoolAddr == NULL
  InitialAssigned, \* the flashes whose file system is assigned at the start
  FplMayFail    \* TRUE: the temporary pool of pspUsbDeviceInit may not be created

ASSUME UsbConstants == /\ NoPool \notin PoolIds
                       /\ InitialAssigned \subseteq 0..3
                       /\ FplMayFail \in BOOLEAN

Flashes == 0..3                   \* PSP_USBDEVICE_FLASH0 .. FLASH3
Umd == 4                          \* PSP_USBDEVICE_UMD9660
Devices == Flashes \cup {Umd}
NoFlash == 4                      \* "no flash" in the choice of a failing call

\* The seven entries of PspIoDrvFuncs the component saves and rewrites.
Slots == {"IoOpen", "IoClose", "IoRead", "IoLseek", "IoWrite", "IoDevctl", "IoIoctl"}
\* Whose code an entry points to: the firmware's memory stick driver, the flash
\* driver (lflashIoOpen counts as its IoOpen), the UMD image, the three
\* msstorIo...Patch functions, or nothing.
Impls == {"msstor", "lflash", "umd", "patch", "null"}
Patched == {"IoWrite", "IoDevctl", "IoIoctl"}

FirmwareTable == [s \in Slots |-> "msstor"]
NullTable     == [s \in Slots |-> "null"]
FlashTable    == [s \in Slots |-> IF s \in Patched THEN "patch" ELSE "lflash"]
UmdTable      == [s \in Slots |-> IF s \in Patched THEN "patch" ELSE "umd"]

VARIABLES
  funcs,              \* msstor->funcs
  saved,              \* the originals msstorIoOpen .. msstorIoIoctl
  cur_device,
  is_readonly,
  flash_unassigned,   \* the flashes whose flag is set
  UmdSectorPoolAddr,  \* the pool the component holds, or NoPool
  pools,              \* the UmdSector pools that exist in the kernel
  assigned,           \* the flashes whose file system is assigned (flashN:)
  medium,             \* a disc is in the UMD drive
  op,                 \* where the calling thread is inside pspUsbDeviceSetDevice
  res                 \* the sign of the last result: "ok" or "error"

Ops == {"idle", "medium", "ready", "probe", "done"}

devVars == <<funcs, saved, cur_device, is_readonly, flash_unassigned,
             UmdSectorPoolAddr, pools, assigned, medium, op, res>>

DevTypeOK ==
  /\ funcs \in [Slots -> Impls]
  /\ saved \in [Slots -> Impls]
  /\ cur_device \in Devices
  /\ is_readonly \in BOOLEAN
  /\ flash_unassigned \subseteq Flashes
  /\ UmdSectorPoolAddr \in PoolIds \cup {NoPool}
  /\ pools \subseteq PoolIds
  /\ assigned \subseteq Flashes
  /\ medium \in BOOLEAN
  /\ op \in Ops
  /\ res \in {"ok", "error"}

DevInit ==
  /\ funcs = FirmwareTable
  /\ saved = NullTable
  /\ cur_device = 0
  /\ is_readonly = FALSE
  /\ flash_unassigned = {}
  /\ UmdSectorPoolAddr = NoPool
  /\ pools = {}
  /\ assigned = InitialAssigned
  /\ medium \in BOOLEAN
  /\ op = "idle"
  /\ res = "ok"

-------------------------------------------------------------------------------
(* pspUsbDeviceInit *)

\* The whole of it succeeds: the current table becomes "the originals".
InitSaves ==
  /\ saved' = funcs
  /\ res' = "ok"
  /\ UNCHANGED <<funcs, cur_device, is_readonly, flash_unassigned,
                 UmdSectorPoolAddr, pools, assigned, medium, op>>

\* The early return on sceKernelCreateFpl: nothing is saved.
InitFails ==
  /\ FplMayFail
  /\ res' = "error"
  /\ UNCHANGED <<funcs, saved, cur_device, is_readonly, flash_unassigned,
                 UmdSectorPoolAddr, pools, assigned, medium, op>>

DeviceInit == op = "idle" /\ (InitSaves \/ InitFails)

-------------------------------------------------------------------------------
(* pspUsbDeviceSetDevice *)

\* device >= 5 as an unsigned number: nothing is touched.
SetInvalid(device) ==
  /\ device \notin Devices
  /\ op' = "done"
  /\ res' = "error"
  /\ UNCHANGED <<funcs, saved, cur_device, is_readonly, flash_unassigned,
                 UmdSectorPoolAddr, pools, assigned, medium>>

\* Mutant: the flags are set only when every sceIoUnassign succeeded.
SetFlashForgetsOnError(device, ronly, mask) ==
  /\ device \in Flashes
  /\ cur_device' = device
  /\ UmdSectorPoolAddr' = NoPool
  /\ is_readonly' = ronly
  /\ \E failing \in (mask \cap assigned) \cup {NoFlash} :
       LET done == {n \in mask \cap assigned : n < failing} IN
       /\ flash_unassigned' = IF failing = NoFlash THEN done ELSE {}
       /\ assigned' = assigned \ done
       /\ funcs' = IF failing = NoFlash THEN FlashTable ELSE funcs
       /\ res' = IF failing = NoFlash THEN "ok" ELSE "error"
  /\ op' = "done"
  /\ UNCHANGED <<saved, pools, medium>>

\* Mutant: a failing sceIoUnassign is passed over.
SetFlashIgnoresErrors(device, ronly, mask) ==
  /\ device \in Flashes
  /\ cur_device' = device
  /\ UmdSectorPoolAddr' = NoPool
  /\ is_readonly' = ronly
  /\ \E done \in SUBSET (mask \cap assigned) :
       /\ flash_unassigned' = done
       /\ assigned' = assigned \ done
  /\ funcs' = FlashTable
  /\ res' = "ok"
  /\ op' = "done"
  /\ UNCHANGED <<saved, pools, medium>>

\* The flashes of the mask are unassigned in ascending order up to the first one,
\* "failing", whose sceIoUnassign fails with another error than "not assigned".
\* Past the loop the table is rewritten; the result is that of the last
\* sceIoUnassign, so a last flash that was not assigned makes it negative.
SetFlash(device, ronly, mask) ==
  /\ device \in Flashes
  /\ cur_device' = device
  /\ UmdSectorPoolAddr' = NoPool
  /\ is_readonly' = ronly
  /\ \E failing \in (mask \cap assigned) \cup {NoFlash} :
       LET done == {n \in mask \cap assigned : n < failing} IN
       /\ flash_unassigned' = done
       /\ assigned' = assigned \ done
       /\ funcs' = IF failing = NoFlash THEN FlashTable ELSE funcs
       /\ res' = IF /\ failing = NoFlash
                    /\ \A n \in mask : (\A m \in mask : m <= n) => n \in assigned
                 THEN "ok" ELSE "error"
  /\ op' = "done"
  /\ UNCHANGED <<saved, pools, medium>>

\* The UMD branch up to sceUmdCheckMedium.
SetUmd(device) ==
  /\ device = Umd
  /\ cur_device' = device
  /\ flash_unassigned' = {}
  /\ UmdSectorPoolAddr' = NoPool
  /\ op' = "medium"
  /\ UNCHANGED <<funcs, saved, is_readonly, pools, assigned, medium, res>>

CallSetDevice(device, ronly, mask) ==
  /\ op = "idle"
  /\ \/ SetInvalid(device)
     \/ SetFlash(device, ronly, mask)
     \/ SetUmd(device)

\* A disc is present, or two seconds pass without one.
UmdMedium ==
  /\ op = "medium"
  /\ op' = IF medium THEN "ready" ELSE "done"
  /\ res' = IF medium THEN res ELSE "error"
  /\ UNCHANGED <<funcs, saved, cur_device, is_readonly, flash_unassigned,
                 UmdSectorPoolAddr, pools, assigned, medium>>

\* sceUmdActivate and the wait for PSP_UMD_READY, which has no timeout.
UmdReady ==
  /\ op = "ready"
  /\ medium
  /\ op' = "probe"
  /\ UNCHANGED <<funcs, saved, cur_device, is_readonly, flash_unassigned,
                 UmdSectorPoolAddr, pools, assigned, medium, res>>

\* Mutant: an error starts the detection over.
UmdProbeRetries ==
  /\ op = "probe"
  /\ op' = "medium"
  /\ UNCHANGED <<funcs, saved, cur_device, is_readonly, flash_unassigned,
                 UmdSectorPoolAddr, pools, assigned, medium, res>>

\* The size devctl fails, or no pool can be created.
UmdProbeFails ==
  /\ op = "probe"
  /\ op' = "done"
  /\ res' = "error"
  /\ UNCHANGED <<funcs, saved, cur_device, is_readonly, flash_unassigned,
                 UmdSectorPoolAddr, pools, assigned, medium>>

\* Mutant: is_readonly is left as the last session had it.
UmdInstallWritable ==
  /\ op = "probe"
  /\ \E p \in PoolIds \ pools :
       /\ pools' = pools \cup {p}
       /\ UmdSectorPoolAddr' = p
  /\ funcs' = UmdTable
  /\ op' = "done"
  /\ res' = "ok"
  /\ UNCHANGED <<saved, cur_device, is_readonly, flash_unassigned, assigned, medium>>

\* The pool for one sector is made, and the image's functions are installed.
UmdInstall ==
  /\ op = "probe"
  /\ \E p \in PoolIds \ pools :
       /\ pools' = pools \cup {p}
       /\ UmdSectorPoolAddr' = p
  /\ is_readonly' = TRUE
  /\ funcs' = UmdTable
  /\ op' = "done"
  /\ res' = "ok"
  /\ UNCHANGED <<saved, cur_device, flash_unassigned, assigned, medium>>

SetDeviceStep == UmdMedium \/ UmdReady \/ UmdProbeFails \/ UmdInstall

\* The caller takes the result.
SetDeviceReturns ==
  /\ op = "done"
  /\ op' = "idle"
  /\ UNCHANGED <<funcs, saved, cur_device, is_readonly, flash_unassigned,
                 UmdSectorPoolAddr, pools, assigned, medium, res>>

-------------------------------------------------------------------------------
(* pspUsbDeviceFinishDevice *)

\* Mutant: the pool's block is freed, the pool itself is not.
FinishLeaksPool(assignMayFail) ==
  /\ op = "idle"
  /\ funcs' = saved
  /\ UmdSectorPoolAddr' = NoPool
  /\ \E failing \in (IF assignMayFail THEN flash_unassigned ELSE {}) \cup {NoFlash} :
       /\ assigned' = assigned \cup {n \in flash_unassigned : n < failing}
       /\ res' = IF failing = NoFlash THEN "ok" ELSE "error"
  /\ UNCHANGED <<saved, cur_device, is_readonly, flash_unassigned, pools, medium, op>>

\* The originals come back, the pool goes, and the flagged flashes are assigned
\* again in ascending order up to the first one whose sceIoAssign fails.  The
\* flags stay.
FinishDevice(assignMayFail) ==
  /\ op = "idle"
  /\ funcs' = saved
  /\ pools' = pools \ {UmdSectorPoolAddr}
  /\ UmdSectorPoolAddr' = NoPool
  /\ \E failing \in (IF assignMayFail THEN flash_unassigned ELSE {}) \cup {NoFlash} :
       /\ assigned' = assigned \cup {n \in flash_unassigned : n < failing}
       /\ res' = IF failing = NoFlash THEN "ok" ELSE "error"
  /\ UNCHANGED <<saved, cur_device, is_readonly, flash_unassigned, medium, op>>

-------------------------------------------------------------------------------
(* What the USB storage driver reaches through the table *)

\* msstor's IoOpen: the memory stick, the flash partition of cur_device (none for
\* another device), the UMD, or a jump to address zero.
OpenedDrive ==
  CASE funcs["IoOpen"] = "msstor" -> "ms"
    [] funcs["IoOpen"] = "lflash" -> IF cur_device \in Flashes THEN "flash" ELSE "error"
    [] funcs["IoOpen"] = "umd"    -> "umd"
    [] OTHER                      -> "crash"

\* Whether msstor's IoWrite lets data through: the memory stick driver does,
\* msstorIoWritePatch hands it to the flash driver unless is_readonly.
WritePasses == \/ funcs["IoWrite"] = "msstor"
               \/ funcs["IoWrite"] = "patch" /\ ~is_readonly

\* The user puts a disc in or takes it out.
MoveDisc ==
  /\ medium' = ~medium
  /\ UNCHANGED <<funcs, saved, cur_device, is_readonly, flash_unassigned,
                 UmdSectorPoolAddr, pools, assigned, op, res>>
===============================================================================
